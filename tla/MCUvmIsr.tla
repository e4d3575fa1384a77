------------------------------ MODULE MCUvmIsr ------------------------------
\* Interrupt service of a small GPU.
EXTENDS UvmIsr, TLC
=============================================================================

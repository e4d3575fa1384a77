--------------------------- MODULE MCUvmFaultBatch ---------------------------
EXTENDS UvmFaultBatch, TLC

CONSTANT MaxUtlb

UtlbIds == 0 .. MaxUtlb

\* Three accesses of any type to a page: two of one uTLB and one of another, or
\* two of different uTLBs and one of another instance.
MCWorkloads ==
    {w \in [Accesses -> Access] :
        /\ w[1].utlb = 0 /\ w[1].inst = 0
        /\ w[2].inst = 0
        /\ w[3].utlb = 1
        /\ w[3].inst = w[2].utlb
        /\ w[2].utlb = 0 => w[1].type <= w[2].type}
==============================================================================

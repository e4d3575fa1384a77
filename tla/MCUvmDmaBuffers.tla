-------------------------- MODULE MCUvmDmaBuffers --------------------------
(* Instances of UvmDmaBuffers for TLC. *)
EXTENDS UvmDmaBuffers

\* To a GPU, to the CPU from both GPUs, and from one GPU to the other
MCPlans == {<<<<1, "c2g">>>>, <<<<1, "g2c">>, <<2, "g2c">>>>, <<<<1, "g2c">>, <<2, "c2g">>>>}

\* Room for a copy that overtakes an earlier one on GPU 1, and a pool that has
\* to grow for every copy on GPU 2
MCInitialBuffers == <<3, 1>>
=============================================================================

--------------------------- MODULE MCFramePipeline ---------------------------
EXTENDS FramePipeline, TLC

Symmetry == Permutations(Buffers)
=============================================================================

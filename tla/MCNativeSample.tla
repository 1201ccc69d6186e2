--------------------------- MODULE MCNativeSample ---------------------------
(* An instance of NativeSample for TLC: two chunks of two small reads.     *)
EXTENDS NativeSample

HalvesOfChunk == {2, 4}
NoneOrSome == {0, 3}
AroundBounds == {0, 1, 2, 3, 4, 7, 8, 9, 15, 16, 17}
=============================================================================

--------------------------- MODULE MCFileRotator ---------------------------
(* Instances of FileRotator for TLC.                                         *)
EXTENDS FileRotator, SequencesExt

\* InOrder is the concatenation of the files, the highest number first.
ASSUME InOrderAssumption ==
    \A f \in [0 .. 2 -> BoundedSeq({1, 2}, 2)] : InOrder(f) = FlattenSeq(<<f[2], f[1], f[0]>>)
=============================================================================

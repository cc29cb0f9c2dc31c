---------------------------- MODULE MCSambaPipes ----------------------------
(* Instances of SambaPipes for TLC.  The safety runs treat the tables as     *)
(* interchangeable, which they are: no definition names one.                 *)
EXTENDS SambaPipes, TLC

Symmetry == Permutations(RequestTypes)
=============================================================================

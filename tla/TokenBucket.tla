---------------------------- MODULE TokenBucket ----------------------------
(***************************************************************************)
(* What a rate limiter promises: a request is let through only against a   *)
(* credit, credits come from the clock one at a time, and no more than     *)
(* Capacity of them are ever saved up.                                     *)
(***************************************************************************)
EXTENDS Integers

CONSTANT Capacity

VARIABLES credit,   \* credits saved up
          through   \* requests let through so far

Init == credit \in 0 .. Capacity /\ through = 0

Earn   == credit < Capacity /\ credit' = credit + 1 /\ UNCHANGED through
Spend  == credit > 0 /\ credit' = credit - 1 /\ through' = through + 1
Forfeit == credit' \in 0 .. credit /\ UNCHANGED through

Next == Earn \/ Spend \/ Forfeit

Spec == Init /\ [][Next]_<<credit, through>>
=============================================================================

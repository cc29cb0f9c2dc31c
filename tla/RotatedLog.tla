----------------------------- MODULE RotatedLog -----------------------------
(***************************************************************************)
(* What a rotated log promises: messages are kept in the order in which    *)
(* they were written, a message may fail to get in, and only the oldest    *)
(* messages are ever thrown away.                                          *)
(***************************************************************************)
EXTENDS Integers, Sequences

CONSTANT Messages   \* numbered in the order of their writes

VARIABLE log        \* the messages that can still be read, oldest first

Init == log = << >>

\* The first conjuncts follow from the second; they spare TLC a search.
Write  == /\ Len(log') > Len(log)
          /\ \E m \in Messages : /\ \A p \in DOMAIN log : log[p] < m
                                 /\ log' = Append(log, m)
Forget == /\ Len(log') < Len(log)
          /\ \E k \in 1 .. Len(log) : log' = SubSeq(log, k + 1, Len(log))

Next == Write \/ Forget

Spec == Init /\ [][Next]_log
=============================================================================

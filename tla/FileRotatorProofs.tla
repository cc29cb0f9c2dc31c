------------------------- MODULE FileRotatorProofs -------------------------
(***************************************************************************)
(* Theorems about FileRotator: types, the layout of the files in and after *)
(* a rotation, the order of the messages in them, and what can be lost.    *)
(***************************************************************************)
EXTENDS FileRotator, SequenceTheorems, FunctionTheorems, FiniteSetTheorems, TLAPS

TypeInv == /\ TypeOK
           /\ pc # "idle" => sent > 0
           /\ pc = "shift" => slot < Keep
           /\ torn <= faults

LEMMA Bounds == /\ Keep \in Nat /\ Keep > 1 /\ MaxSize \in Nat
                /\ MaxMessages \in Nat /\ MaxFaults \in Nat /\ MaxRestarts \in Nat
  BY KeepAssumption, SizesAssumption, BoundsAssumption

LEMMA EmptySeqTyped == << >> \in Seq(1 .. MaxMessages) /\ Len(<< >>) = 0 /\ DOMAIN << >> = {}
  OBVIOUS

LEMMA TypeInit == Init => TypeInv
  <1> SUFFICES ASSUME Init PROVE TypeInv
    OBVIOUS
  <1>1. file \in [Slots -> Seq(1 .. MaxMessages)]
    BY EmptySeqTyped DEF Init
  <1>2. slot \in Slots
    BY Bounds DEF Init, Slots
  <1> QED
    BY <1>1, <1>2, Bounds DEF Init, TypeInv, TypeOK

LEMMA TypeStep == TypeInv /\ [Next]_vars => TypeInv'
  <1> SUFFICES ASSUME TypeInv, [Next]_vars PROVE TypeInv'
    OBVIOUS
  <1> USE Bounds DEF TypeInv, TypeOK, Fail, disk, ghosts
  <1>1. CASE Write
    BY <1>1 DEF Write
  <1>2. CASE SetupCurrent
    <2>1. 0 \in Slots /\ Len(file[0]) \in Nat
      BY LenProperties DEF Slots
    <2> QED
      BY <1>2, <2>1, EmptySeqTyped DEF SetupCurrent, Create
  <1>3. CASE CheckRotation
    BY <1>3 DEF CheckRotation
  <1>4. CASE CloseCurrent
    BY <1>4 DEF CloseCurrent, Slots
  <1>5. CASE Shift
    <2>1. slot - 1 \in Slots /\ slot \in Slots
      BY <1>5 DEF Shift, Slots
    <2>2. slot # Keep - 1 => slot + 1 \in Slots
      BY <1>5 DEF Shift, Slots
    <2>3. file' \in [Slots -> Seq(1 .. MaxMessages)] /\ exists' \subseteq Slots
      <3>1. CASE slot \notin exists
        BY <1>5, <3>1 DEF Shift
      <3>2. CASE slot \in exists /\ slot = Keep - 1
        BY <1>5, <3>2, EmptySeqTyped DEF Shift, Unlink
      <3>3. CASE slot \in exists /\ slot # Keep - 1
        BY <1>5, <3>3, <2>1, <2>2, EmptySeqTyped DEF Shift, Rename
      <3> QED
        BY <3>1, <3>2, <3>3
    <2>4. /\ slot' \in Slots /\ slot' < Keep
          /\ UNCHANGED <<current, size, pc, ghosts>> /\ pc = "shift"
      BY <1>5, <2>1 DEF Shift, Slots
    <2> QED
      BY <2>3, <2>4
  <1>6. CASE RenameBase
    <2>1. 0 \in Slots /\ 1 \in Slots
      BY DEF Slots
    <2>2. file' \in [Slots -> Seq(1 .. MaxMessages)] /\ exists' \subseteq Slots
      BY <1>6, <2>1, EmptySeqTyped DEF RenameBase, Rename
    <2> QED
      BY <1>6, <2>2 DEF RenameBase
  <1>7. CASE CreateBase
    BY <1>7, EmptySeqTyped DEF CreateBase, Create, Slots
  <1>8. ASSUME sent > 0 PROVE [file EXCEPT ![0] = Append(@, sent)] \in [Slots -> Seq(1 .. MaxMessages)]
    <2>1. 0 \in Slots /\ sent \in 1 .. MaxMessages
      BY <1>8 DEF Slots
    <2>2. Append(file[0], sent) \in Seq(1 .. MaxMessages)
      BY <2>1, AppendProperties
    <2> QED
      BY <2>1, <2>2
  <1>9. CASE WriteMessage
    BY <1>8, <1>9 DEF WriteMessage
  <1>10. CASE WriteToClosed
    BY <1>10 DEF WriteToClosed
  <1>11. CASE Faults
    <2>1. ASSUME Fail, UNCHANGED disk, size' = size, current' \in {current, "closed", "nil"}
          PROVE  TypeInv'
      BY <2>1
    <2>2. CASE SetupFails \/ ShiftFails \/ RenameBaseFails
      BY <2>1, <2>2 DEF SetupFails, ShiftFails, RenameBaseFails
    <2>3. CASE CloseFails \/ CreateFails
      BY <2>1, <2>3 DEF CloseFails, CreateFails
    <2>4. CASE WriteFails
      <3>1. file' \in [Slots -> Seq(1 .. MaxMessages)]
        BY <1>8, <2>4 DEF WriteFails
      <3>2. faults' \in 0 .. MaxFaults /\ torn' \in 0 .. MaxFaults /\ torn' <= faults'
        BY <2>4 DEF WriteFails
      <3>3. UNCHANGED <<exists, current, size, slot, sent, acked, expired, restarts>> /\ pc' = "idle"
        BY <2>4 DEF WriteFails
      <3> QED
        BY <3>1, <3>2, <3>3
    <2> QED
      BY <1>11, <2>2, <2>3, <2>4 DEF Faults
  <1>12. CASE Close
    BY <1>12 DEF Close
  <1>13. CASE Restart
    BY <1>13 DEF Restart
  <1>14. CASE UNCHANGED vars
    BY <1>14 DEF vars
  <1> QED
    BY <1>1, <1>2, <1>3, <1>4, <1>5, <1>6, <1>7, <1>9, <1>10, <1>11, <1>12, <1>13, <1>14
       DEF Next, Rotate

\* Every variable stays in the set it is meant to range over.
THEOREM TypeCorrect == Spec => []TypeOK
  <1>1. TypeInv => TypeOK
    BY DEF TypeInv
  <1> QED
    BY <1>1, TypeInit, TypeStep, PTL DEF Spec

-----------------------------------------------------------------------------
(* The files on the disk: the one above the slot of the loop is free, so   *)
(* that a rename never meets a file.                                       *)

Layout ==
    /\ FewFiles
    /\ \A i \in Slots : i \notin exists => file[i] = << >>
    /\ pc = "shift" => slot + 1 \notin exists
    /\ pc = "create" => 0 \notin exists
    /\ pc \in {"shift", "create"} => current = "closed"
    /\ current = "open" => 0 \in exists

\* What a step can do to the files.
RemoveOldest == file' = [file EXCEPT ![Keep - 1] = << >>]
MoveUp(i)    == /\ file[i + 1] = << >>
                /\ file' = [file EXCEPT ![i + 1] = file[i], ![i] = << >>]
AddMessage   == pc = "write" /\ pc' = "idle" /\ file' = [file EXCEPT ![0] = Append(@, sent)]

LEMMA LayoutInit == Init => Layout
  BY Bounds DEF Init, Layout, FewFiles, Slots

LEMMA LayoutStep == TypeInv /\ Layout /\ [Next]_vars => Layout'
  <1> SUFFICES ASSUME TypeInv, Layout, [Next]_vars PROVE Layout'
    OBVIOUS
  <1> USE Bounds DEF Layout, FewFiles, TypeInv, TypeOK, disk, ghosts
  <1>1. CASE Write
    BY <1>1 DEF Write
  <1>2. CASE SetupCurrent
    <2>1. pc' = "check"
      BY <1>2 DEF SetupCurrent
    <2>2. CASE current # "nil" \/ 0 \in exists
      BY <1>2, <2>1, <2>2 DEF SetupCurrent
    <2>3. CASE current = "nil" /\ 0 \notin exists
      <3>1. exists' = exists \cup {0} /\ file' = [file EXCEPT ![0] = << >>]
        BY <1>2, <2>3 DEF SetupCurrent, Create
      <3> QED
        BY <2>1, <3>1 DEF Slots
    <2> QED
      BY <2>2, <2>3
  <1>3. CASE CheckRotation
    BY <1>3 DEF CheckRotation
  <1>4. CASE CloseCurrent
    BY <1>4 DEF CloseCurrent, Slots
  <1>5. CASE Shift
    <2>1. pc = "shift" /\ slot' = slot - 1 /\ slot > 0 /\ slot < Keep /\ slot \in Int
          /\ UNCHANGED <<current, pc>> /\ slot + 1 \notin exists
      BY <1>5 DEF Shift, Slots
    <2>2. CASE slot \notin exists
      BY <1>5, <2>1, <2>2 DEF Shift
    <2>3. CASE slot \in exists /\ slot = Keep - 1
      BY <1>5, <2>1, <2>3 DEF Shift, Unlink
    <2>4. CASE slot \in exists /\ slot # Keep - 1
      <3>1. exists' = (exists \ {slot}) \cup {slot + 1}
            /\ file' = [file EXCEPT ![slot + 1] = file[slot], ![slot] = << >>]
        BY <1>5, <2>4 DEF Shift, Rename
      <3>2. Keep \notin exists' /\ slot \notin exists' /\ slot' + 1 \notin exists'
        BY <2>1, <2>4, <3>1
      <3>3. ASSUME NEW i \in Slots, i \notin exists' PROVE file'[i] = << >>
        BY <2>1, <3>1, <3>3 DEF Slots
      <3> QED
        BY <2>1, <3>2, <3>3
    <2> QED
      BY <2>2, <2>3, <2>4
  <1>6. CASE RenameBase
    BY <1>6 DEF RenameBase, Rename, Slots
  <1>7. CASE CreateBase
    BY <1>7 DEF CreateBase, Create, Slots
  <1>8. CASE WriteMessage
    BY <1>8 DEF WriteMessage, Slots
  <1>9. CASE WriteToClosed
    BY <1>9 DEF WriteToClosed
  <1>10. CASE Faults
    <2>1. ASSUME Fail, UNCHANGED disk, current' \in {current, "closed", "nil"} PROVE Layout'
      BY <2>1 DEF Fail
    <2>2. CASE SetupFails \/ ShiftFails \/ RenameBaseFails
      BY <2>1, <2>2 DEF SetupFails, ShiftFails, RenameBaseFails
    <2>3. CASE CloseFails \/ CreateFails
      BY <2>1, <2>3 DEF CloseFails, CreateFails
    <2>4. CASE WriteFails
      BY <2>4 DEF WriteFails, Slots
    <2> QED
      BY <1>10, <2>2, <2>3, <2>4 DEF Faults
  <1>11. CASE Close
    BY <1>11 DEF Close
  <1>12. CASE Restart
    BY <1>12 DEF Restart
  <1>13. CASE UNCHANGED vars
    BY <1>13 DEF vars
  <1> QED
    BY <1>1, <1>2, <1>3, <1>4, <1>5, <1>6, <1>7, <1>8, <1>9, <1>10, <1>11, <1>12, <1>13
       DEF Next, Rotate

\* A rotation never makes more files than keepFiles.
THEOREM AtMostKeepFiles == Spec => []FewFiles
  <1>1. Layout => FewFiles
    BY DEF Layout
  <1> QED
    BY <1>1, TypeInit, TypeStep, LayoutInit, LayoutStep, PTL DEF Spec

LEMMA FileStep ==
  ASSUME TypeInv, Layout, [Next]_vars
  PROVE  \/ UNCHANGED <<file, acked>>
         \/ RemoveOldest /\ UNCHANGED <<acked, sent>>
         \/ (\E i \in 0 .. Keep - 2 : MoveUp(i)) /\ UNCHANGED <<acked, sent>>
         \/ AddMessage /\ sent' = sent /\ (acked' = acked \/ acked' = acked \cup {sent})
  <1> DEFINE Goal == \/ UNCHANGED <<file, acked>>
                     \/ RemoveOldest /\ UNCHANGED <<acked, sent>>
                     \/ (\E i \in 0 .. Keep - 2 : MoveUp(i)) /\ UNCHANGED <<acked, sent>>
                     \/ AddMessage /\ sent' = sent /\ (acked' = acked \/ acked' = acked \cup {sent})
  <1> SUFFICES Goal
    OBVIOUS
  <1> USE Bounds DEF TypeInv, TypeOK, disk, ghosts
  <1>0. file[0] = << >> /\ 0 \in Slots => [file EXCEPT ![0] = << >>] = file
    OBVIOUS
  <1>1. CASE SetupCurrent
    <2>1. 0 \notin exists => file[0] = << >>
      BY DEF Layout, Slots
    <2> QED
      BY <1>0, <1>1, <2>1 DEF SetupCurrent, Create, Slots
  <1>2. CASE Shift
    <2>1. pc = "shift" /\ slot > 0 /\ slot < Keep /\ slot \in Int /\ slot + 1 \notin exists
      BY <1>2 DEF Shift, Layout, Slots
    <2>2. CASE slot \notin exists
      BY <1>2, <2>2 DEF Shift
    <2>3. CASE slot \in exists /\ slot = Keep - 1
      BY <1>2, <2>3 DEF Shift, Unlink, RemoveOldest
    <2>4. CASE slot \in exists /\ slot # Keep - 1
      <3>1. slot \in 0 .. Keep - 2 /\ file[slot + 1] = << >>
        BY <2>1, <2>4 DEF Layout, Slots
      <3>2. MoveUp(slot) /\ UNCHANGED <<acked, sent>>
        BY <1>2, <2>4, <3>1 DEF Shift, Rename, MoveUp
      <3> QED
        BY <3>1, <3>2
    <2> QED
      BY <2>2, <2>3, <2>4
  <1>3. CASE RenameBase
    <2>1. 0 \in 0 .. Keep - 2 /\ file[0 + 1] = << >>
      BY <1>3 DEF RenameBase, Layout, Slots
    <2>2. MoveUp(0) /\ UNCHANGED <<acked, sent>>
      BY <1>3, <2>1 DEF RenameBase, Rename, MoveUp
    <2> QED
      BY <2>1, <2>2
  <1>4. CASE CreateBase
    BY <1>0, <1>4 DEF CreateBase, Create, Layout, Slots
  <1>5. CASE WriteMessage
    BY <1>5 DEF WriteMessage, AddMessage
  <1>6. CASE WriteFails
    BY <1>6 DEF WriteFails, AddMessage
  <1>7. CASE Write \/ CheckRotation \/ CloseCurrent \/ WriteToClosed \/ Close \/ Restart
    BY <1>7 DEF Write, CheckRotation, CloseCurrent, WriteToClosed, Close, Restart
  <1>8. CASE SetupFails \/ CloseFails \/ ShiftFails \/ RenameBaseFails \/ CreateFails
    BY <1>8 DEF Fail, SetupFails, CloseFails, ShiftFails, RenameBaseFails, CreateFails
  <1>9. CASE UNCHANGED vars
    BY <1>9 DEF vars
  <1> HIDE DEF Goal
  <1> QED
    BY <1>1, <1>2, <1>3, <1>4, <1>5, <1>6, <1>7, <1>8, <1>9 DEF Next, Rotate, Faults

LEMMA MessageStep ==
  ASSUME TypeInv, [Next]_vars
  PROVE  \/ sent' = sent /\ (pc = "idle" => pc' = "idle")
         \/ sent' = sent + 1 /\ UNCHANGED <<file, acked>>
  <1> USE DEF disk, ghosts
  <1>1. CASE Write
    BY <1>1 DEF Write
  <1>2. CASE \/ SetupCurrent \/ CheckRotation \/ CloseCurrent \/ Shift \/ RenameBase
             \/ CreateBase \/ WriteMessage \/ WriteToClosed \/ Close \/ Restart
    BY <1>2 DEF SetupCurrent, CheckRotation, CloseCurrent, Shift, RenameBase, CreateBase,
       WriteMessage, WriteToClosed, Close, Restart
  <1>3. CASE Faults
    BY <1>3 DEF Faults, Fail, SetupFails, CloseFails, ShiftFails, RenameBaseFails,
       CreateFails, WriteFails
  <1>4. CASE UNCHANGED vars
    BY <1>4 DEF vars
  <1> QED
    BY <1>1, <1>2, <1>3, <1>4 DEF Next, Rotate

-----------------------------------------------------------------------------
(* The order of the messages.                                              *)

Fresh ==
    /\ \A i \in Slots : \A p \in DOMAIN file[i] :
          file[i][p] <= sent /\ (pc # "idle" => file[i][p] < sent)
    /\ \A m \in acked : m <= sent

LEMMA OrderInit == Init => Chronological /\ Fresh
  BY EmptySeqTyped DEF Init, Chronological, Fresh, Slots

\* What AddMessage does to basePath.
LEMMA AddedLast ==
  ASSUME TypeInv, AddMessage
  PROVE  /\ 0 \in Slots /\ sent \in Nat
         /\ \A i \in Slots : i # 0 => file'[i] = file[i]
         /\ DOMAIN file[0] = 1 .. Len(file[0]) /\ Len(file[0]) \in Nat
         /\ DOMAIN file'[0] = 1 .. Len(file[0]) + 1
         /\ Len(file'[0]) = Len(file[0]) + 1
         /\ \A p \in DOMAIN file[0] : file'[0][p] = file[0][p]
         /\ file'[0][Len(file[0]) + 1] = sent
  <1> USE Bounds DEF TypeInv, TypeOK
  <1>1. 0 \in Slots /\ sent > 0 /\ sent \in 1 .. MaxMessages /\ file[0] \in Seq(1 .. MaxMessages)
    BY DEF AddMessage, Slots
  <1>2. file'[0] = Append(file[0], sent) /\ \A i \in Slots : i # 0 => file'[i] = file[i]
    BY <1>1 DEF AddMessage
  <1> QED
    BY <1>1, <1>2, AppendProperties, LenProperties

LEMMA OrderStep ==
  TypeInv /\ Layout /\ Chronological /\ Fresh /\ [Next]_vars => (Chronological /\ Fresh)'
  <1> SUFFICES ASSUME TypeInv, Layout, Chronological, Fresh, [Next]_vars
               PROVE  Chronological' /\ Fresh'
    OBVIOUS
  <1>t. /\ file \in [Slots -> Seq(1 .. MaxMessages)] /\ sent \in Nat /\ Keep \in Nat /\ Keep > 1
        /\ acked \subseteq Nat
        /\ \A i \in Slots : \A p \in DOMAIN file[i] : file[i][p] \in Nat /\ p \in Nat
    BY Bounds, ElementOfSeq, LenProperties DEF TypeInv, TypeOK
  <1>m. sent' >= sent /\ (sent' = sent /\ pc = "idle" => pc' = "idle")
    BY <1>t, MessageStep
  <1>n. sent' # sent => sent' = sent + 1 /\ UNCHANGED <<file, acked>>
    BY MessageStep
  \* Files that are emptied or moved up keep the order.
  <1>1. ASSUME NEW from \in [Slots -> Slots],
               \A i, j \in Slots : i > j /\ file'[i] # << >> /\ file'[j] # << >>
                     => from[i] > from[j],
               \A i \in Slots : file'[i] = << >> \/ file'[i] = file[from[i]],
               UNCHANGED acked
        PROVE  Chronological' /\ Fresh'
    <2>1. ASSUME NEW i \in Slots, NEW p \in DOMAIN file'[i]
          PROVE  file'[i] # << >> /\ file'[i] = file[from[i]] /\ from[i] \in Slots
      BY <1>1, <2>1, EmptySeqTyped
    <2>2. Chronological'
      <3> SUFFICES ASSUME NEW i \in Slots, NEW j \in Slots,
                          NEW p \in DOMAIN file'[i], NEW q \in DOMAIN file'[j],
                          i > j \/ (i = j /\ p < q)
                   PROVE  file'[i][p] < file'[j][q]
        BY DEF Chronological, Slots
      <3>1. /\ file'[i] = file[from[i]] /\ from[i] \in Slots
            /\ file'[j] = file[from[j]] /\ from[j] \in Slots
            /\ from[i] > from[j] \/ (from[i] = from[j] /\ p < q)
        BY <1>1, <2>1
      <3> QED
        BY <3>1 DEF Chronological
    <2>3. ASSUME NEW i \in Slots, NEW p \in DOMAIN file'[i]
          PROVE  file'[i][p] <= sent' /\ (pc' # "idle" => file'[i][p] < sent')
      <3>1. file'[i] = file[from[i]] /\ from[i] \in Slots
        BY <2>1
      <3>2. /\ file[from[i]][p] \in Nat /\ file[from[i]][p] <= sent
            /\ (pc # "idle" => file[from[i]][p] < sent)
        BY <1>t, <3>1 DEF Fresh
      <3>3. sent' \in Nat
        BY <1>t, <1>n
      <3>4. CASE sent' = sent
        BY <1>t, <1>m, <3>1, <3>2, <3>4
      <3>5. CASE sent' # sent
        BY <1>t, <1>n, <3>1, <3>2, <3>5
      <3> QED
        BY <3>4, <3>5
    <2>4. \A m \in acked' : m <= sent'
      BY <1>1, <1>t, <1>n DEF Fresh
    <2> QED
      BY <2>2, <2>3, <2>4 DEF Fresh, Slots
  <1>i. ASSUME \A i \in Slots : file'[i] = << >> \/ file'[i] = file[i], UNCHANGED acked
        PROVE  Chronological' /\ Fresh'
    <2> DEFINE from == [i \in Slots |-> i]
    <2>1. from \in [Slots -> Slots] /\ \A i \in Slots : from[i] = i
      OBVIOUS
    <2> HIDE DEF from
    <2> QED
      BY <1>1, <1>i, <2>1
  <1>2. CASE UNCHANGED <<file, acked>>
    BY <1>i, <1>2
  <1>3. CASE RemoveOldest /\ UNCHANGED <<acked, sent>>
    BY <1>i, <1>3, <1>t DEF RemoveOldest
  <1>4. CASE (\E i \in 0 .. Keep - 2 : MoveUp(i)) /\ UNCHANGED <<acked, sent>>
    <2>1. PICK k \in 0 .. Keep - 2 : MoveUp(k)
      BY <1>4
    <2> DEFINE from == [i \in Slots |-> IF i = k + 1 THEN k ELSE i]
    <2>2. k \in Slots /\ k + 1 \in Slots /\ k \in Nat /\ Slots \subseteq Int
      BY <1>t DEF Slots
    <2>3. from \in [Slots -> Slots]
      BY <2>2
    <2>4. file'[k] = << >> /\ file'[k + 1] = file[k]
          /\ \A i \in Slots : i # k /\ i # k + 1 => file'[i] = file[i]
      BY <1>t, <2>1, <2>2 DEF MoveUp
    <2>5. \A i \in Slots : file'[i] = << >> \/ file'[i] = file[from[i]]
      BY <2>2, <2>4
    <2>6. \A i, j \in Slots : i > j /\ file'[i] # << >> /\ file'[j] # << >> => from[i] > from[j]
      BY <2>2, <2>4
    <2> HIDE DEF from
    <2> QED
      BY <1>1, <1>4, <2>3, <2>5, <2>6
  <1>5. CASE AddMessage /\ sent' = sent /\ (acked' = acked \/ acked' = acked \cup {sent})
    <2> DEFINE last == Len(file[0]) + 1
    <2>1. /\ 0 \in Slots /\ Slots \subseteq Nat /\ last \in Nat
          /\ \A i \in Slots : i # 0 => file'[i] = file[i]
          /\ DOMAIN file'[0] = 1 .. last /\ DOMAIN file[0] = 1 .. last - 1
          /\ \A p \in DOMAIN file[0] : file'[0][p] = file[0][p]
          /\ file'[0][last] = sent
      BY <1>5, AddedLast DEF Slots
    <2>2. \A i \in Slots : \A p \in DOMAIN file[i] : file[i][p] < sent
      BY <1>5 DEF AddMessage, Fresh
    <2>3. ASSUME NEW i \in Slots, NEW p \in DOMAIN file'[i]
          PROVE  \/ p \in DOMAIN file[i] /\ file'[i][p] = file[i][p]
                 \/ i = 0 /\ p = last /\ file'[i][p] = sent
      BY <2>1, <2>3
    <2> HIDE DEF last
    <2>4. Chronological'
      <3> SUFFICES ASSUME NEW i \in Slots, NEW j \in Slots,
                          NEW p \in DOMAIN file'[i], NEW q \in DOMAIN file'[j],
                          i > j \/ (i = j /\ p < q)
                   PROVE  file'[i][p] < file'[j][q]
        BY DEF Chronological, Slots
      <3>1. CASE p \in DOMAIN file[i] /\ file'[i][p] = file[i][p]
        <4>1. CASE q \in DOMAIN file[j] /\ file'[j][q] = file[j][q]
          BY <3>1, <4>1 DEF Chronological
        <4>2. CASE file'[j][q] = sent
          BY <2>2, <3>1, <4>2
        <4> QED
          BY <2>3, <4>1, <4>2
      <3>2. CASE i = 0 /\ p = last
        <4>1. i \in Nat /\ j \in Nat /\ last \in Nat
          BY <2>1
        <4>2. j = 0 /\ last < q
          BY <3>2, <4>1
        <4>3. q \in 1 .. last
          BY <2>1, <4>2
        <4> QED
          BY <4>1, <4>2, <4>3
      <3> QED
        BY <2>3, <3>1, <3>2
    <2>5. \A i \in Slots : \A p \in DOMAIN file'[i] : file'[i][p] <= sent' /\ pc' = "idle"
      BY <1>5, <1>t, <2>2, <2>3 DEF AddMessage
    <2>6. ASSUME NEW m \in acked' PROVE m <= sent'
      <3>1. m \in acked \/ m = sent
        BY <1>5
      <3>2. sent <= sent
        BY <1>t
      <3> QED
        BY <1>5, <3>1, <3>2 DEF Fresh
    <2> QED
      BY <2>4, <2>5, <2>6 DEF Fresh, Slots
  <1> QED
    BY <1>2, <1>3, <1>4, <1>5, FileStep

\* The messages stand in the order of their Writes, whatever rotation was cut
\* off or failed half way.
THEOREM AlwaysChronological == Spec => []Chronological
  BY TypeInit, TypeStep, LayoutInit, LayoutStep, OrderInit, OrderStep, PTL DEF Spec

-----------------------------------------------------------------------------
(* What is lost.                                                           *)

LEMMA KeptMember == \A m : m \in Kept <=> \E i \in Slots : \E p \in DOMAIN file[i] : file[i][p] = m
  BY DEF Kept

LEMMA KeptMemberNext ==
  \A m : m \in Kept' <=> \E i \in Slots : \E p \in DOMAIN file'[i] : file'[i][p] = m
  BY DEF Kept, Slots

\* A rename onto a free slot keeps every message, and so does an append.
LEMMA MoveUpKeeps ==
  ASSUME TypeInv, NEW f \in 0 .. Keep - 2, MoveUp(f), NEW x
  PROVE  x \in Kept <=> x \in Kept'
  <1>1. f \in Slots /\ f + 1 \in Slots /\ f # f + 1
    BY Bounds DEF Slots
  <1>2. /\ file[f + 1] = << >> /\ file'[f] = << >> /\ file'[f + 1] = file[f]
        /\ \A i \in Slots : i # f /\ i # f + 1 => file'[i] = file[i]
    BY <1>1 DEF MoveUp, TypeInv, TypeOK
  <1>3. ASSUME NEW i \in Slots, NEW p \in DOMAIN file[i], file[i][p] = x
        PROVE  \E j \in Slots : \E q \in DOMAIN file'[j] : file'[j][q] = x
    BY <1>1, <1>2, <1>3, EmptySeqTyped
  <1>4. ASSUME NEW i \in Slots, NEW p \in DOMAIN file'[i], file'[i][p] = x
        PROVE  \E j \in Slots : \E q \in DOMAIN file[j] : file[j][q] = x
    BY <1>1, <1>2, <1>4, EmptySeqTyped
  <1> QED
    BY <1>3, <1>4, KeptMember, KeptMemberNext

LEMMA AddMessageKeeps ==
  ASSUME TypeInv, AddMessage, NEW x
  PROVE  x \in Kept' <=> x \in Kept \/ x = sent
  <1>1. /\ 0 \in Slots /\ Len(file[0]) \in Nat
        /\ \A i \in Slots : i # 0 => file'[i] = file[i]
        /\ DOMAIN file[0] = 1 .. Len(file[0]) /\ DOMAIN file'[0] = 1 .. Len(file[0]) + 1
        /\ \A p \in DOMAIN file[0] : file'[0][p] = file[0][p]
        /\ file'[0][Len(file[0]) + 1] = sent
    BY AddedLast
  <1>2. ASSUME x \in Kept PROVE x \in Kept'
    <2>1. PICK i \in Slots : \E p \in DOMAIN file[i] : file[i][p] = x
      BY <1>2, KeptMember
    <2>2. \E p \in DOMAIN file'[i] : file'[i][p] = x
      BY <1>1, <2>1
    <2> QED
      BY <2>2, KeptMemberNext
  <1>3. sent \in Kept'
    <2>1. Len(file[0]) + 1 \in DOMAIN file'[0]
      BY <1>1
    <2> QED
      BY <1>1, <2>1, KeptMemberNext
  <1>4. ASSUME x \in Kept' PROVE x \in Kept \/ x = sent
    <2>1. PICK i \in Slots : \E p \in DOMAIN file'[i] : file'[i][p] = x
      BY <1>4, KeptMemberNext
    <2>2. x = sent \/ \E p \in DOMAIN file[i] : file[i][p] = x
      BY <1>1, <2>1
    <2> QED
      BY <2>2, KeptMember
  <1> QED
    BY <1>2, <1>3, <1>4

LEMMA LostInit == Init => OnlyOldestLost
  BY DEF Init, OnlyOldestLost

LEMMA LostStep ==
  TypeInv /\ Layout /\ Chronological /\ Fresh /\ OnlyOldestLost /\ [Next]_vars => OnlyOldestLost'
  <1> SUFFICES ASSUME TypeInv, Layout, Chronological, Fresh, OnlyOldestLost, [Next]_vars,
                      NEW m \in acked', NEW k \in Kept', k < m
               PROVE  m \in Kept'
    BY DEF OnlyOldestLost
  <1>t. /\ file \in [Slots -> Seq(1 .. MaxMessages)] /\ sent \in Nat /\ Keep \in Nat /\ Keep > 1
        /\ acked \subseteq Nat
        /\ \A i \in Slots : \A p \in DOMAIN file[i] : file[i][p] \in Nat /\ p \in Nat
    BY Bounds, ElementOfSeq, LenProperties DEF TypeInv, TypeOK
  <1>1. CASE UNCHANGED <<file, acked>>
    BY <1>1 DEF OnlyOldestLost, Kept, Slots
  <1>2. CASE RemoveOldest /\ UNCHANGED <<acked, sent>>
    <2>1. /\ Keep - 1 \in Slots /\ file'[Keep - 1] = << >>
          /\ \A i \in Slots : i # Keep - 1 => file'[i] = file[i]
      BY <1>2, <1>t DEF RemoveOldest, Slots
    <2>2. file[Keep] = << >>
      BY <1>t DEF Layout, FewFiles, Slots
    <2>3. PICK j \in Slots : \E q \in DOMAIN file'[j] : file'[j][q] = k
      BY KeptMemberNext
    <2>q. PICK q \in DOMAIN file'[j] : file'[j][q] = k
      BY <2>3
    <2>4. j # Keep - 1 /\ j # Keep /\ file'[j] = file[j] /\ q \in DOMAIN file[j]
          /\ file[j][q] = k
      BY <1>t, <2>1, <2>2, <2>q, EmptySeqTyped DEF Slots
    <2>5. k \in Kept
      BY <2>4, KeptMember
    <2>6. m \in Kept
      BY <1>2, <2>5 DEF OnlyOldestLost
    <2>7. PICK i \in Slots : \E p \in DOMAIN file[i] : file[i][p] = m
      BY <2>6, KeptMember
    <2>8. CASE i = Keep - 1
      <3>1. i > j
        BY <1>t, <2>4, <2>8 DEF Slots
      <3>2. PICK p \in DOMAIN file[i] : file[i][p] = m
        BY <2>7
      <3>3. file[i][p] < file[j][q]
        BY <2>4, <3>1, <3>2 DEF Chronological
      <3> QED
        BY <1>t, <2>4, <3>2, <3>3
    <2>9. CASE i # Keep - 1
      BY <2>1, <2>7, <2>9, KeptMemberNext
    <2> QED
      BY <2>8, <2>9
  <1>3. CASE (\E i \in 0 .. Keep - 2 : MoveUp(i)) /\ UNCHANGED <<acked, sent>>
    <2>1. PICK f \in 0 .. Keep - 2 : MoveUp(f)
      BY <1>3
    <2>2. \A x : x \in Kept <=> x \in Kept'
      BY <2>1, MoveUpKeeps
    <2> QED
      BY <1>3, <2>2 DEF OnlyOldestLost
  <1>4. CASE AddMessage /\ sent' = sent /\ (acked' = acked \/ acked' = acked \cup {sent})
    <2>2. ASSUME NEW x \in Kept PROVE x \in Kept'
      BY <1>4, AddMessageKeeps
    <2>3. sent \in Kept'
      BY <1>4, AddMessageKeeps
    <2>4. k \in Kept \/ k = sent
      BY <1>4, AddMessageKeeps
    <2>5. CASE m = sent
      BY <2>3, <2>5
    <2>6. CASE m \in acked /\ m # sent
      <3>1. m \in Nat /\ m <= sent
        BY <1>t, <2>6 DEF Fresh
      <3>2. k # sent
        BY <1>t, <3>1
      <3> QED
        BY <2>2, <2>4, <2>6, <3>2 DEF OnlyOldestLost
    <2> QED
      BY <1>4, <2>5, <2>6
  <1> QED
    BY <1>1, <1>2, <1>3, <1>4, FileStep

\* A message that was written is only lost with everything before it.
THEOREM OnlyOldestIsLost == Spec => []OnlyOldestLost
  BY TypeInit, TypeStep, LayoutInit, LayoutStep, OrderInit, OrderStep, LostInit, LostStep, PTL
     DEF Spec

-----------------------------------------------------------------------------
(* The size of a file, and a rotator that is stuck.                        *)

Measured ==
    /\ \A i \in Slots : Len(file[i]) <= MaxSize + 1 + torn
    /\ current = "open" => Len(file[0]) <= size + torn
    /\ pc = "write" => size <= MaxSize

LEMMA MeasuredInit == Init => Measured
  BY Bounds, EmptySeqTyped DEF Init, Measured, Slots

LEMMA MeasuredStep == TypeInv /\ Layout /\ Measured /\ [Next]_vars => Measured'
  <1> SUFFICES ASSUME TypeInv, Layout, Measured, [Next]_vars PROVE Measured'
    OBVIOUS
  <1>t. /\ 0 \in Slots /\ size \in Nat /\ torn \in Nat /\ MaxSize \in Nat /\ Keep \in Nat
        /\ Keep > 1 /\ Len(<< >>) = 0
        /\ \A i \in Slots : Len(file[i]) \in Nat
        /\ file \in [Slots -> Seq(1 .. MaxMessages)]
    BY Bounds, LenProperties, EmptySeqTyped DEF TypeInv, TypeOK, Slots
  <1> USE <1>t DEF Measured, disk, ghosts
  <1>1. CASE Write \/ CheckRotation \/ CloseCurrent \/ WriteToClosed \/ Close \/ Restart
    <2>1. UNCHANGED <<file, torn>> /\ (current' = "open" => current = "open" /\ size' = size)
          /\ (pc' = "write" => size' = size /\ size <= MaxSize)
      BY <1>1 DEF Write, CheckRotation, ShouldRotate, CloseCurrent, WriteToClosed, Close, Restart
    <2> QED
      BY <2>1 DEF Slots
  <1>2. CASE SetupCurrent
    <2>1. UNCHANGED torn /\ pc' = "check"
      BY <1>2 DEF SetupCurrent
    <2>2. 0 \notin exists => file[0] = << >>
      BY DEF Layout, Slots
    <2>3. file' = file
      BY <1>2, <2>2 DEF SetupCurrent, Create
    <2>4. current' = "open" => Len(file'[0]) <= size' + torn
      BY <1>2, <2>2, <2>3 DEF SetupCurrent, Create
    <2> QED
      BY <2>1, <2>3, <2>4 DEF Slots
  <1>3. CASE Shift \/ RenameBase
    <2>1. UNCHANGED <<torn, current, size>> /\ pc' # "write" /\ current # "open" /\ pc # "write"
      BY <1>3 DEF Shift, RenameBase, Layout
    <2>2. \/ file' = file \/ RemoveOldest \/ \E i \in 0 .. Keep - 2 : MoveUp(i)
      BY <2>1, FileStep DEF AddMessage
    <2>3. ASSUME NEW i \in Slots PROVE Len(file'[i]) <= MaxSize + 1 + torn
      <3>1. CASE file' = file
        BY <3>1
      <3>2. CASE RemoveOldest
        BY <3>2 DEF RemoveOldest
      <3>3. ASSUME NEW f \in 0 .. Keep - 2, MoveUp(f) PROVE Len(file'[i]) <= MaxSize + 1 + torn
        <4>1. f \in Slots /\ file'[i] \in {<< >>, file[f], file[i]}
          BY <3>3 DEF MoveUp, Slots
        <4> QED
          BY <4>1
      <3> QED
        BY <2>2, <3>1, <3>2, <3>3
    <2> QED
      BY <2>1, <2>3 DEF Slots
  <1>4. CASE CreateBase
    <2>1. file' = [file EXCEPT ![0] = << >>] /\ torn' = torn /\ size' = 0
      BY <1>4 DEF CreateBase, Create
    <2> QED
      BY <2>1 DEF Slots
  <1>5. CASE WriteMessage
    <2>1. AddMessage /\ current = "open" /\ size' = size + 1 /\ torn' = torn
      BY <1>5 DEF WriteMessage, AddMessage
    <2>2. Len(file'[0]) = Len(file[0]) + 1 /\ \A i \in Slots : i # 0 => file'[i] = file[i]
      BY <2>1, AddedLast
    <2> QED
      BY <2>1, <2>2 DEF AddMessage, Slots
  <1>6. CASE WriteFails
    <2>1. CASE UNCHANGED <<file, torn>>
      BY <1>6, <2>1 DEF WriteFails, Slots
    <2>2. CASE file' = [file EXCEPT ![0] = Append(@, sent)] /\ torn' = torn + 1
      <3>1. AddMessage /\ current = "open" /\ size' = size
        BY <1>6, <2>2 DEF WriteFails, AddMessage
      <3>2. Len(file'[0]) = Len(file[0]) + 1 /\ \A i \in Slots : i # 0 => file'[i] = file[i]
        BY <3>1, AddedLast
      <3> QED
        BY <2>2, <3>1, <3>2 DEF AddMessage, Slots
    <2> QED
      BY <1>6, <2>1, <2>2 DEF WriteFails
  <1>7. CASE SetupFails \/ CloseFails \/ ShiftFails \/ RenameBaseFails \/ CreateFails
    <2>1. UNCHANGED <<file, torn, size>> /\ (current' = "open" => current = "open")
          /\ pc' = "idle"
      BY <1>7 DEF Fail, SetupFails, CloseFails, ShiftFails, RenameBaseFails, CreateFails
    <2> QED
      BY <2>1 DEF Slots
  <1>8. CASE UNCHANGED vars
    BY <1>8 DEF vars, Slots
  <1> QED
    BY <1>1, <1>2, <1>3, <1>4, <1>5, <1>6, <1>7, <1>8 DEF Next, Rotate, Faults

\* No file outgrows the limit by more than a message and the fragments, even
\* when size is stale.
THEOREM FilesStayBounded == Spec => []FilesBounded
  <1>1. TypeInv /\ Layout /\ Measured => FilesBounded
    BY DEF TypeInv, TypeOK, Layout, Measured, FilesBounded
  <1> QED
    BY <1>1, TypeInit, TypeStep, LayoutInit, LayoutStep, MeasuredInit, MeasuredStep, PTL DEF Spec

\* Without a failing call size is the size of the file, and whoever decides to
\* rotate has found it to be one message over the limit.
FullInv ==
    ~expired /\ faults = 0 =>
        /\ \A i \in exists \ {0} : Len(file[i]) = MaxSize + 1
        /\ current = "open" => Len(file[0]) = size
        /\ current = "nil" => size = 0
        /\ pc = "close" => size > MaxSize
        /\ pc = "shift" /\ 0 \in exists => Len(file[0]) = MaxSize + 1

LEMMA FullInit == Init => FullInv
  BY DEF Init, FullInv

LEMMA CleanBefore ==
  ASSUME TypeInv, [Next]_vars, ~expired', faults' = 0
  PROVE  ~expired /\ faults = 0
  <1>t. faults \in Nat
    BY Bounds DEF TypeInv, TypeOK
  <1>1. CASE Faults
    BY <1>1, <1>t DEF Faults, Fail, SetupFails, CloseFails, ShiftFails, RenameBaseFails,
       CreateFails, WriteFails
  <1>2. CASE CheckRotation
    <2>1. PICK aged \in BOOLEAN : expired' = (expired \/ aged)
      BY <1>2 DEF CheckRotation
    <2>2. faults' = faults
      BY <1>2 DEF CheckRotation
    <2>3. ~expired
      BY <2>1, Zenon
    <2> QED
      BY <2>2, <2>3
  <1>3. CASE \/ Write \/ SetupCurrent \/ CloseCurrent \/ Shift \/ RenameBase \/ CreateBase
             \/ WriteMessage \/ WriteToClosed \/ Close \/ Restart
    BY <1>3 DEF Write, SetupCurrent, CloseCurrent, Shift, RenameBase, CreateBase,
       WriteMessage, WriteToClosed, Close, Restart, ghosts
  <1>4. CASE UNCHANGED vars
    BY <1>4 DEF vars, ghosts
  <1> QED
    BY <1>1, <1>2, <1>3, <1>4 DEF Next, Rotate

LEMMA FullStep == TypeInv /\ Layout /\ Measured /\ FullInv /\ [Next]_vars => FullInv'
  <1> SUFFICES ASSUME TypeInv, Layout, Measured, FullInv, [Next]_vars,
                      ~expired', faults' = 0
               PROVE  FullInv'
    BY DEF FullInv
  <1>t. /\ 0 \in Slots /\ size \in Nat /\ MaxSize \in Nat /\ Keep \in Nat /\ Keep > 1
        /\ Len(<< >>) = 0 /\ exists \subseteq Slots /\ faults \in Nat
        /\ \A i \in Slots : Len(file[i]) \in Nat
        /\ file \in [Slots -> Seq(1 .. MaxMessages)]
    BY Bounds, LenProperties, EmptySeqTyped DEF TypeInv, TypeOK, Slots
  <1>f. ~expired /\ faults = 0
    BY CleanBefore
  <1>i. /\ \A i \in exists \ {0} : Len(file[i]) = MaxSize + 1
        /\ current = "open" => Len(file[0]) = size
        /\ current = "nil" => size = 0
        /\ pc = "close" => size > MaxSize
        /\ pc = "shift" /\ 0 \in exists => Len(file[0]) = MaxSize + 1
    BY <1>f DEF FullInv
  <1>m. Len(file[0]) <= MaxSize + 1
    BY <1>t, <1>f DEF TypeInv, TypeOK, Measured
  <1> USE <1>t DEF disk, ghosts
  <1>1. CASE Write \/ Close \/ Restart \/ WriteToClosed
    BY <1>1, <1>i DEF Write, Close, Restart, WriteToClosed, FullInv
  <1>2. CASE SetupCurrent
    <2>1. 0 \notin exists => file[0] = << >>
      BY DEF Layout
    <2>2. file' = file
      BY <1>2, <2>1 DEF SetupCurrent, Create
    <2>3. \A i \in exists' \ {0} : i \in exists \ {0}
      BY <1>2 DEF SetupCurrent, Create
    <2>4. /\ pc' = "check"
          /\ \/ current' = "open" /\ Len(file[0]) = size'
             \/ UNCHANGED <<current, size>>
      BY <1>2, <1>i, <2>1 DEF SetupCurrent
    <2> QED
      BY <2>2, <2>3, <2>4, <1>i DEF FullInv
  <1>3. CASE CheckRotation
    <2>1. pc' = "close" => size > MaxSize
      BY <1>3 DEF CheckRotation, ShouldRotate
    <2> QED
      BY <1>3, <1>i, <2>1 DEF CheckRotation, FullInv
  <1>4. CASE CloseCurrent
    <2>1. pc' = "shift" => Len(file[0]) = MaxSize + 1
      BY <1>4, <1>i, <1>m DEF CloseCurrent
    <2> QED
      BY <1>4, <1>i, <2>1 DEF CloseCurrent, FullInv
  <1>5. CASE Shift
    <2>1. /\ slot > 0 /\ slot < Keep /\ slot \in Slots /\ pc = "shift"
          /\ UNCHANGED <<current, size, pc>>
      BY <1>5 DEF Shift, TypeInv, TypeOK
    <2>2. current = "closed"
      BY <2>1 DEF Layout
    <2>3. \A i \in exists' : (i # 0 => Len(file'[i]) = MaxSize + 1)
                             /\ (i = 0 => 0 \in exists /\ file'[0] = file[0])
      <3>1. CASE slot \notin exists
        BY <1>5, <3>1, <1>i DEF Shift
      <3>2. CASE slot \in exists /\ slot = Keep - 1
        BY <1>5, <3>2, <2>1, <1>i DEF Shift, Unlink
      <3>3. CASE slot \in exists /\ slot # Keep - 1
        <4>1. /\ exists' = (exists \ {slot}) \cup {slot + 1}
              /\ file' = [file EXCEPT ![slot + 1] = file[slot], ![slot] = << >>]
          BY <1>5, <3>3 DEF Shift, Rename
        <4>2. slot + 1 \in Slots /\ slot + 1 # slot /\ slot + 1 # 0 /\ slot # 0
          BY <2>1, <3>3 DEF Slots
        <4> QED
          BY <4>1, <4>2, <2>1, <3>3, <1>i
      <3> QED
        BY <3>1, <3>2, <3>3
    <2> QED
      BY <2>1, <2>2, <2>3, <1>i DEF FullInv
  <1>6. CASE RenameBase
    <2>1. /\ 0 \in exists /\ pc = "shift" /\ pc' = "create" /\ current = "closed"
          /\ exists' = (exists \ {0}) \cup {1} /\ UNCHANGED <<current, size>>
          /\ file' = [file EXCEPT ![1] = file[0], ![0] = << >>]
      BY <1>6 DEF RenameBase, Rename, Layout
    <2>2. 1 \in Slots
      BY DEF Slots
    <2>3. \A i \in exists' : Len(file'[i]) = MaxSize + 1
      BY <2>1, <2>2, <1>i
    <2> QED
      BY <2>1, <2>3 DEF FullInv
  <1>7. CASE CreateBase
    <2>1. /\ exists' = exists \cup {0} /\ file' = [file EXCEPT ![0] = << >>]
          /\ current' = "open" /\ size' = 0 /\ pc' = "write"
      BY <1>7 DEF CreateBase, Create
    <2> QED
      BY <2>1, <1>i DEF FullInv
  <1>8. CASE WriteMessage
    <2>1. AddMessage /\ current = "open" /\ UNCHANGED <<exists, current>> /\ size' = size + 1
          /\ pc' = "idle"
      BY <1>8 DEF WriteMessage, AddMessage
    <2>2. Len(file'[0]) = Len(file[0]) + 1 /\ \A i \in Slots : i # 0 => file'[i] = file[i]
      BY <2>1, AddedLast
    <2> QED
      BY <2>1, <2>2, <1>i DEF FullInv
  <1>9. CASE Faults
    BY <1>9, <1>f DEF Faults, Fail, SetupFails, CloseFails, ShiftFails, RenameBaseFails,
       CreateFails, WriteFails
  <1>10. CASE UNCHANGED vars
    BY <1>10, <1>i DEF vars, FullInv
  <1> QED
    BY <1>1, <1>2, <1>3, <1>4, <1>5, <1>6, <1>7, <1>8, <1>9, <1>10 DEF Next, Rotate

\* While no file was too old and no call failed, every backup is full, across
\* any number of deaths in the middle of a rotation.
THEOREM BackupsAreFull == Spec => []BackupsFull
  <1>1. FullInv => BackupsFull
    BY DEF FullInv, BackupsFull
  <1> QED
    BY <1>1, TypeInit, TypeStep, LayoutInit, LayoutStep, MeasuredInit, MeasuredStep, FullInit,
       FullStep, PTL DEF Spec

-----------------------------------------------------------------------------
(* Holes in the numbering: one for each death or failure in a rotation, and *)
(* while a rotation moves the backups up one more below those it has moved. *)

Holes(S, j) == (1 .. j - 1) \ S

HoleInv ==
    /\ pc = "shift" => 0 \in exists
    /\ \A j \in exists : Cardinality(Holes(exists, j)) <=
          restarts + faults + (IF pc = "shift" /\ j > slot THEN 1 ELSE 0)

LEMMA HolesFinite ==
  ASSUME NEW S, NEW j \in Nat
  PROVE  IsFiniteSet(Holes(S, j)) /\ Cardinality(Holes(S, j)) \in Nat
  <1>1. IsFiniteSet(1 .. j - 1) /\ Holes(S, j) \in SUBSET (1 .. j - 1)
    BY FS_Interval DEF Holes
  <1>2. IsFiniteSet(Holes(S, j))
    BY <1>1, FS_Subset
  <1> QED
    BY <1>2, FS_CardinalityType

LEMMA HoleInit == Init => HoleInv
  BY DEF Init, HoleInv

LEMMA HoleStep == TypeInv /\ Layout /\ HoleInv /\ [Next]_vars => HoleInv'
  <1> SUFFICES ASSUME TypeInv, Layout, HoleInv, [Next]_vars PROVE HoleInv'
    OBVIOUS
  <1> DEFINE R == restarts + faults
  <1>t. /\ exists \subseteq Nat /\ slot \in Nat /\ Keep \in Nat /\ Keep > 1
        /\ restarts \in Nat /\ faults \in Nat /\ Keep \notin exists /\ exists \subseteq 0 .. Keep
    BY Bounds DEF TypeInv, TypeOK, Slots, Layout, FewFiles
  <1>f. \A j \in exists : Cardinality(Holes(exists, j)) \in Nat
    BY <1>t, HolesFinite
  <1> USE DEF disk, ghosts
  <1>q. ASSUME exists' = exists, NEW r \in Nat, restarts' = r, NEW f \in Nat, faults' = f,
               r + f >= R, pc = "shift" /\ pc' # "shift" => r + f >= R + 1,
               pc' = "shift" => 0 \in exists /\ (pc = "shift" => slot' = slot)
        PROVE  HoleInv'
    <2> SUFFICES ASSUME NEW j \in exists
                 PROVE  Cardinality(Holes(exists, j)) <=
                          r + f + (IF pc' = "shift" /\ j > slot' THEN 1 ELSE 0)
      BY <1>q DEF HoleInv
    <2>1. Cardinality(Holes(exists, j)) <= R + (IF pc = "shift" /\ j > slot THEN 1 ELSE 0)
      BY DEF HoleInv
    <2>2. j \in Nat /\ Cardinality(Holes(exists, j)) \in Nat
      BY <1>t, <1>f
    <2>3. CASE pc = "shift" /\ pc' = "shift"
      <3>1. slot' = slot
        BY <1>q, <2>3
      <3> QED
        BY <1>t, <1>q, <2>1, <2>2, <2>3, <3>1
    <2>4. CASE ~(pc = "shift" /\ pc' = "shift")
      <3> DEFINE more == IF pc' = "shift" /\ j > slot' THEN 1 ELSE 0
      <3>1. more \in 0 .. 1
        OBVIOUS
      <3> HIDE DEF more
      <3>2. Cardinality(Holes(exists, j)) <= r + f
        BY <1>t, <1>q, <2>1, <2>2, <2>4
      <3>3. Cardinality(Holes(exists, j)) <= r + f + more
        BY <2>2, <3>1, <3>2
      <3> QED
        BY <3>3 DEF more
    <2> QED
      BY <2>3, <2>4
  <1>1. CASE Write \/ CheckRotation \/ WriteMessage \/ WriteToClosed \/ Close
    BY <1>1, <1>q, <1>t DEF Write, CheckRotation, WriteMessage, WriteToClosed, Close
  <1>2. CASE CloseCurrent
    BY <1>2, <1>q, <1>t DEF CloseCurrent, Layout
  <1>3. CASE Restart
    BY <1>3, <1>q, <1>t DEF Restart
  <1>4. CASE Faults
    <2>1. /\ exists' = exists /\ restarts' = restarts /\ faults' = faults + 1 /\ pc' = "idle"
      BY <1>4 DEF Faults, Fail, SetupFails, CloseFails, ShiftFails, RenameBaseFails,
         CreateFails, WriteFails
    <2> QED
      BY <2>1, <1>q, <1>t
  <1>5. CASE UNCHANGED vars
    <2>1. exists' = exists /\ restarts' = restarts /\ faults' = faults /\ pc' = pc /\ slot' = slot
      BY <1>5 DEF vars
    <2> QED
      BY <2>1, <1>q, <1>t DEF HoleInv
  <1>6. CASE SetupCurrent \/ CreateBase
    <2>1. /\ pc # "shift" /\ pc' # "shift" /\ UNCHANGED <<restarts, faults>>
          /\ exists' = exists \/ exists' = exists \cup {0}
      BY <1>6 DEF SetupCurrent, CreateBase, Create
    <2> SUFFICES ASSUME NEW j \in exists' PROVE Cardinality(Holes(exists', j)) <= R
      BY <2>1, <1>t DEF HoleInv
    <2>2. CASE j \in exists
      <3>1. Holes(exists', j) = Holes(exists, j)
        BY <2>1 DEF Holes
      <3>2. Cardinality(Holes(exists, j)) <= R + 0
        BY <2>1, <2>2 DEF HoleInv
      <3> QED
        BY <3>1, <3>2, <1>t
    <2>3. CASE j = 0
      <3>1. Holes(exists', j) = {}
        BY <2>3 DEF Holes
      <3> QED
        BY <3>1, <1>t, FS_EmptySet
    <2> QED
      BY <2>1, <2>2, <2>3
  <1>7. CASE Shift
    <2>1. /\ pc = "shift" /\ pc' = "shift" /\ slot > 0 /\ slot < Keep /\ slot' = slot - 1
          /\ UNCHANGED <<restarts, faults>> /\ slot + 1 \notin exists /\ 0 \in exists
      BY <1>7 DEF Shift, Layout, TypeInv, HoleInv
    <2> SUFFICES ASSUME NEW j \in exists'
                 PROVE  0 \in exists' /\
                        Cardinality(Holes(exists', j)) <= R + (IF j > slot - 1 THEN 1 ELSE 0)
      BY <1>7, <2>1 DEF HoleInv, Shift, Unlink, Rename
    <2>2. \A i \in exists : Cardinality(Holes(exists, i)) <= R + (IF i > slot THEN 1 ELSE 0)
      BY <2>1 DEF HoleInv
    <2>3. CASE slot \notin exists
      <3>1. exists' = exists /\ j # slot
        BY <1>7, <2>3 DEF Shift
      <3>2. j \in Nat /\ (j > slot - 1 <=> j > slot)
        BY <3>1, <1>t
      <3> QED
        BY <2>1, <2>2, <3>1, <3>2
    <2>4. CASE slot \in exists /\ slot = Keep - 1
      <3>1. exists' = exists \ {slot}
        BY <1>7, <2>4 DEF Shift, Unlink
      <3>2. j \in exists /\ j \in Nat /\ j < slot /\ 0 \in exists'
        BY <2>1, <2>4, <3>1, <1>t
      <3>3. Holes(exists', j) = Holes(exists, j)
        BY <3>1, <3>2, <1>t DEF Holes
      <3> QED
        BY <2>2, <3>2, <3>3, <1>t
    <2>5. CASE slot \in exists /\ slot # Keep - 1
      <3>1. exists' = (exists \ {slot}) \cup {slot + 1} /\ 0 \in exists'
        BY <1>7, <2>1, <2>5 DEF Shift, Rename
      <3>2. CASE j < slot
        <4>1. j \in exists /\ Holes(exists', j) = Holes(exists, j)
          BY <3>1, <3>2, <1>t DEF Holes
        <4>2. ~(j > slot) /\ ~(j > slot - 1)
          BY <3>2, <4>1, <1>t
        <4> QED
          BY <2>2, <3>1, <4>1, <4>2
      <3>3. CASE j = slot + 1
        <4>1. Holes(exists', j) = Holes(exists, slot) \cup {slot} /\ slot \notin Holes(exists, slot)
          BY <2>1, <3>1, <3>3, <1>t DEF Holes
        <4>2. Cardinality(Holes(exists', j)) = Cardinality(Holes(exists, slot)) + 1
          BY <4>1, <1>t, HolesFinite, FS_AddElement
        <4>3. Cardinality(Holes(exists, slot)) <= R + 0
          BY <2>2, <2>5, <1>t
        <4>4. Cardinality(Holes(exists, slot)) \in Nat
          BY <1>t, HolesFinite
        <4> QED
          BY <3>1, <3>3, <4>2, <4>3, <4>4, <1>t
      <3>4. CASE j > slot + 1
        <4> DEFINE H == Holes(exists, j)
        <4>1. j \in exists /\ j \in Nat /\ j > slot
          BY <3>1, <3>4, <1>t
        <4>2. /\ Holes(exists', j) = (H \ {slot + 1}) \cup {slot}
              /\ slot + 1 \in H /\ slot \notin H \ {slot + 1}
          BY <2>1, <2>5, <3>1, <3>4, <4>1, <1>t DEF Holes
        <4>3. IsFiniteSet(H) /\ Cardinality(H) \in Nat
          BY <4>1, HolesFinite
        <4> HIDE DEF H
        <4>4. IsFiniteSet(H \ {slot + 1}) /\ Cardinality(H \ {slot + 1}) = Cardinality(H) - 1
          BY <4>2, <4>3, FS_RemoveElement
        <4>5. Cardinality(Holes(exists', j)) = Cardinality(H) - 1 + 1
          BY <4>2, <4>4, FS_AddElement
        <4>6. Cardinality(H) <= R + 1
          BY <2>2, <4>1 DEF H
        <4> QED
          BY <3>1, <3>4, <4>1, <4>3, <4>5, <4>6, <1>t
      <3>5. j \in Nat /\ j # slot
        BY <3>1, <1>t
      <3> QED
        BY <3>2, <3>3, <3>4, <3>5, <1>t
    <2> QED
      BY <2>3, <2>4, <2>5
  <1>8. CASE RenameBase
    <2>1. /\ pc = "shift" /\ pc' = "create" /\ slot = 0 /\ 1 \notin exists
          /\ exists' = (exists \ {0}) \cup {1} /\ UNCHANGED <<restarts, faults>>
      BY <1>8 DEF RenameBase, Rename, Layout
    <2> SUFFICES ASSUME NEW j \in exists' PROVE Cardinality(Holes(exists', j)) <= R
      BY <2>1, <1>t DEF HoleInv
    <2>2. CASE j = 1
      <3>1. Holes(exists', j) = {}
        BY <2>2 DEF Holes
      <3> QED
        BY <3>1, <1>t, FS_EmptySet
    <2>3. CASE j # 1
      <3> DEFINE H == Holes(exists, j)
      <3>1. j \in exists /\ j \in Nat /\ j > 1
        BY <2>1, <2>3, <1>t
      <3>2. Holes(exists', j) = H \ {1} /\ 1 \in H
        BY <2>1, <3>1, <1>t DEF Holes
      <3>3. IsFiniteSet(H) /\ Cardinality(H) \in Nat
        BY <3>1, HolesFinite
      <3>4. Cardinality(H) <= R + 1
        BY <2>1, <3>1 DEF HoleInv
      <3> HIDE DEF H
      <3>5. Cardinality(H \ {1}) = Cardinality(H) - 1
        BY <3>2, <3>3, FS_RemoveElement
      <3> QED
        BY <3>2, <3>3, <3>4, <3>5, <1>t
    <2> QED
      BY <2>2, <2>3
  <1> QED
    BY <1>1, <1>2, <1>3, <1>4, <1>5, <1>6, <1>7, <1>8 DEF Next, Rotate

LEMMA FullFinite ==
  ASSUME TypeInv
  PROVE  Full \subseteq Slots /\ IsFiniteSet(Full) /\ Cardinality(Full) \in Nat
  <1>1. Full \subseteq Slots
    BY DEF TypeInv, TypeOK, Full
  <1>2. IsFiniteSet(Slots)
    BY Bounds, FS_Interval DEF Slots
  <1>3. IsFiniteSet(Full)
    BY <1>1, <1>2, FS_Subset
  <1> QED
    BY <1>1, <1>3, FS_CardinalityType

LEMMA FullFiniteNext ==
  ASSUME TypeInv'
  PROVE  IsFiniteSet(Full') /\ Cardinality(Full') \in Nat
  <1>1. Full' \subseteq Slots
    BY DEF TypeInv, TypeOK, Full, Slots
  <1>2. IsFiniteSet(Slots)
    BY Bounds, FS_Interval DEF Slots
  <1>3. IsFiniteSet(Full')
    BY <1>1, <1>2, FS_Subset
  <1> QED
    BY <1>3, FS_CardinalityType

\* What stays when the oldest backup goes: basePath, which is full, and the
\* backups below it, as many as there are not holes.
LEMMA RemovedWhenFull ==
  ASSUME TypeInv, TypeInv', Layout, FullInv, HoleInv, ~expired, faults = 0,
         pc = "shift", slot = Keep - 1, slot \in exists, Unlink(slot)
  PROVE  Cardinality(Full') + restarts >= Keep - 1
  <1> DEFINE A == 1 .. Keep - 2
             H == Holes(exists, Keep - 1)
             B == A \ H
             n == Cardinality(Full')
  <1>t. /\ Keep \in Nat /\ Keep > 1 /\ restarts \in Nat /\ exists \subseteq Slots /\ 0 \in Slots
        /\ file \in [Slots -> Seq(1 .. MaxMessages)]
        /\ exists' = exists \ {Keep - 1} /\ file' = [file EXCEPT ![Keep - 1] = << >>]
    BY Bounds DEF TypeInv, TypeOK, Slots, Unlink
  <1>1. B \cup {0} \subseteq Full'
    <2>1. /\ 0 \in exists /\ Len(file[0]) = MaxSize + 1
          /\ \A i \in exists \ {0} : Len(file[i]) = MaxSize + 1
      BY DEF HoleInv, FullInv
    <2>2. \A i \in B \cup {0} : i \in exists /\ i # Keep - 1
      BY <1>t, <2>1 DEF Holes
    <2> QED
      BY <1>t, <2>1, <2>2 DEF Full
  <1>2. Cardinality(H) <= restarts
    <2>1. Cardinality(H) <= restarts + faults + 0
      BY <1>t DEF HoleInv
    <2>2. Cardinality(H) \in Nat
      BY <1>t, HolesFinite
    <2> QED
      BY <1>t, <2>1, <2>2
  <1>3. IsFiniteSet(A) /\ Cardinality(A) = Keep - 2
    <2>1. Keep - 2 \in Int
      BY <1>t
    <2>2. IsFiniteSet(A) /\ Cardinality(A) = IF 1 > Keep - 2 THEN 0 ELSE Keep - 2 - 1 + 1
      BY <2>1, FS_Interval
    <2> QED
      BY <2>2, <1>t
  <1>4. A \cap H = H /\ 0 \notin B
    BY <1>t DEF Holes
  <1>5. IsFiniteSet(B) /\ Cardinality(B) = Keep - 2 - Cardinality(H)
    BY <1>3, <1>4, FS_Difference
  <1>6. IsFiniteSet(B \cup {0}) /\ Cardinality(B \cup {0}) = Cardinality(B) + 1
    BY <1>4, <1>5, FS_AddElement
  <1>7. Cardinality(B \cup {0}) <= n /\ n \in Nat
    <2>1. IsFiniteSet(Full') /\ n \in Nat
      BY FullFiniteNext
    <2> QED
      BY <1>1, <2>1, FS_Subset
  <1>8. Cardinality(H) \in Nat
    BY <1>t, HolesFinite
  <1> HIDE DEF H, B, A, n
  <1>9. n + restarts >= Keep - 1
    BY <1>t, <1>2, <1>5, <1>6, <1>7, <1>8
  <1> QED
    BY <1>9 DEF n

LEMMA RetentionStep ==
  TypeInv /\ TypeInv' /\ Layout /\ Measured /\ FullInv /\ HoleInv /\ EnoughLeft /\ [Next]_vars
    => EnoughLeft'
  <1> SUFFICES ASSUME TypeInv, TypeInv', Layout, Measured, FullInv, HoleInv, EnoughLeft,
                      [Next]_vars, ~expired', faults' = 0,
                      NEW m \in acked', m \notin Kept'
               PROVE  Cardinality(Full') + restarts' >= Keep - 1
    BY DEF EnoughLeft
  <1>c. ~expired /\ faults = 0
    BY CleanBefore
  <1>t. /\ 0 \in Slots /\ 1 \in Slots /\ Keep \in Nat /\ Keep > 1 /\ restarts \in Nat /\ MaxSize \in Nat
        /\ exists \subseteq Slots /\ file \in [Slots -> Seq(1 .. MaxMessages)] /\ size \in Nat
        /\ Len(<< >>) = 0
    BY Bounds, EmptySeqTyped DEF TypeInv, TypeOK, Slots
  <1>f. IsFiniteSet(Full) /\ Cardinality(Full) \in Nat /\ IsFiniteSet(Full') /\ Cardinality(Full') \in Nat
    BY FullFinite, FullFiniteNext
  \* Steps that lose nothing and leave as many full files.
  <1>g. ASSUME m \in acked, m \notin Kept, NEW r \in Nat, restarts' = r, r >= restarts,
               NEW n \in Nat, Cardinality(Full') = n, n >= Cardinality(Full)
        PROVE  Cardinality(Full') + restarts' >= Keep - 1
    <2>1. Cardinality(Full) + restarts >= Keep - 1
      BY <1>c, <1>g DEF EnoughLeft
    <2>2. n + r >= Keep - 1
      BY <1>t, <1>f, <1>g, <2>1
    <2> QED
      BY <1>g, <2>2
  <1>h. ASSUME Full \subseteq Full' PROVE Cardinality(Full') >= Cardinality(Full)
    BY <1>f, <1>h, FS_Subset
  <1> USE DEF disk, ghosts
  <1>1. CASE \/ Write \/ CheckRotation \/ CloseCurrent \/ WriteToClosed \/ Close \/ Restart
             \/ UNCHANGED vars
    <2>1. UNCHANGED <<exists, file, acked>> /\ (restarts' = restarts \/ restarts' = restarts + 1)
      BY <1>1 DEF Write, CheckRotation, CloseCurrent, WriteToClosed, Close, Restart, vars
    <2>2. Full' = Full /\ Kept' = Kept
      BY <2>1 DEF Full, Kept, Slots
    <2> QED
      BY <1>t, <1>f, <1>g, <2>1, <2>2
  <1>2. CASE SetupCurrent \/ CreateBase
    <2>1. 0 \notin exists => file[0] = << >>
      BY <1>t DEF Layout
    <2>2. UNCHANGED <<file, acked, restarts>> /\ (exists' = exists \/ exists' = exists \cup {0})
      BY <1>2, <1>t, <2>1 DEF SetupCurrent, CreateBase, Create, Layout
    <2>3. Full \subseteq Full' /\ Kept' = Kept
      BY <2>2 DEF Full, Kept, Slots
    <2> QED
      BY <1>t, <1>f, <1>g, <1>h, <2>2, <2>3
  \* A rename takes a full file to a free number.
  <1>m. ASSUME NEW i \in 0 .. Keep - 2, MoveUp(i), UNCHANGED <<acked, restarts>>, i \in Full,
               i + 1 \notin exists, exists' = (exists \ {i}) \cup {i + 1}
        PROVE  Cardinality(Full') + restarts' >= Keep - 1
    <2>1. i \in Slots /\ i + 1 \in Slots /\ i # i + 1
      BY <1>t DEF Slots
    <2>2. Full' = (Full \ {i}) \cup {i + 1} /\ i + 1 \notin Full
      BY <1>t, <1>m, <2>1 DEF Full, MoveUp
    <2>3. IsFiniteSet(Full \ {i}) /\ Cardinality(Full \ {i}) = Cardinality(Full) - 1
      BY <1>f, <1>m, FS_RemoveElement
    <2>4. Cardinality(Full') = Cardinality(Full) - 1 + 1
      BY <2>2, <2>3, FS_AddElement
    <2>5. Cardinality(Full') = Cardinality(Full)
      BY <2>4, <1>f
    <2>6. m \notin Kept
      BY <1>m, MoveUpKeeps
    <2> QED
      BY <1>t, <1>f, <1>g, <1>m, <2>5, <2>6
  <1>3. CASE Shift
    <2>1. /\ pc = "shift" /\ slot > 0 /\ slot < Keep /\ slot \in Nat /\ slot + 1 \notin exists
          /\ UNCHANGED <<acked, restarts>>
      BY <1>3 DEF Shift, Layout, TypeInv, TypeOK, Slots
    <2>2. CASE slot \notin exists
      <3>1. UNCHANGED <<exists, file>>
        BY <1>3, <2>2 DEF Shift
      <3>2. Full' = Full /\ Kept' = Kept
        BY <3>1 DEF Full, Kept, Slots
      <3> QED
        BY <1>t, <1>f, <1>g, <2>1, <3>2
    <2>3. CASE slot \in exists /\ slot = Keep - 1
      <3>1. Unlink(slot)
        BY <1>3, <2>3 DEF Shift
      <3> QED
        BY <1>c, <2>1, <2>3, <3>1, RemovedWhenFull
    <2>4. CASE slot \in exists /\ slot # Keep - 1
      <3>1. slot \in 0 .. Keep - 2 /\ slot \in Full
        <4>1. slot \in 0 .. Keep - 2
          BY <1>t, <2>1, <2>4
        <4>2. Len(file[slot]) = MaxSize + 1
          BY <1>c, <2>1, <2>4 DEF FullInv
        <4> QED
          BY <2>4, <4>1, <4>2 DEF Full
      <3>2. file[slot + 1] = << >>
        BY <2>1, <3>1, <1>t DEF Layout, Slots
      <3>3. MoveUp(slot) /\ exists' = (exists \ {slot}) \cup {slot + 1}
        BY <1>3, <2>4, <3>2 DEF Shift, Rename, MoveUp
      <3> QED
        BY <1>m, <2>1, <3>1, <3>3
    <2> QED
      BY <2>2, <2>3, <2>4
  <1>4. CASE RenameBase
    <2>1. /\ pc = "shift" /\ slot = 0 /\ 0 \in exists /\ 1 \notin exists
          /\ UNCHANGED <<acked, restarts>>
      BY <1>4 DEF RenameBase, Layout
    <2>2. 0 \in 0 .. Keep - 2 /\ 0 \in Full /\ 0 + 1 \notin exists /\ file[0 + 1] = << >>
      BY <1>c, <1>t, <2>1 DEF FullInv, Full, Layout
    <2>3. MoveUp(0) /\ exists' = (exists \ {0}) \cup {0 + 1}
      BY <1>4, <2>2 DEF RenameBase, Rename, MoveUp
    <2> QED
      BY <1>m, <2>1, <2>2, <2>3
  <1>5. CASE WriteMessage
    <2>1. /\ AddMessage /\ current = "open" /\ UNCHANGED <<exists, restarts>>
          /\ acked' = acked \cup {sent}
      BY <1>5 DEF WriteMessage, AddMessage
    <2>2. m \in acked /\ m \notin Kept
      BY <2>1, AddMessageKeeps
    <2>3. \A i \in Slots : i # 0 => file'[i] = file[i]
      BY <2>1, AddedLast
    <2>4. 0 \notin Full
      BY <1>c, <1>t, <2>1 DEF FullInv, Measured, AddMessage, Full
    <2>5. Full \subseteq Full'
      BY <1>t, <2>1, <2>3, <2>4 DEF Full
    <2> QED
      BY <1>t, <1>f, <1>g, <1>h, <2>1, <2>2, <2>5
  <1>6. CASE Faults
    BY <1>6, <1>c DEF Faults, Fail, SetupFails, CloseFails, ShiftFails, RenameBaseFails,
       CreateFails, WriteFails
  <1> QED
    BY <1>1, <1>2, <1>3, <1>4, <1>5, <1>6 DEF Next, Rotate

\* Whenever a message has been thrown away, keepFiles - 1 full files are there to
\* read, but for one for each death of the process, and every backup is full.
THEOREM RetentionHolds == Spec => []Retention
  <1>1. Init => EnoughLeft
    BY DEF Init, EnoughLeft
  <1>2. FullInv => BackupsFull
    BY DEF FullInv, BackupsFull
  <1>3. BackupsFull /\ EnoughLeft => Retention
    BY DEF Retention
  <1> QED
    BY <1>1, <1>2, <1>3, TypeInit, TypeStep, LayoutInit, LayoutStep, MeasuredInit, MeasuredStep,
       FullInit, FullStep, HoleInit, HoleStep, RetentionStep, PTL DEF Spec

\* A rotation that failed after its Close ends the logging of the process.
THEOREM WedgedIsForGood == Spec => WedgedForGood
  <1>1. TypeInv /\ [Next]_vars =>
          [Wedged => UNCHANGED <<disk, acked>> /\ (Wedged' \/ restarts' > restarts)]_vars
    <2> SUFFICES ASSUME TypeInv, Next, Wedged
                 PROVE  UNCHANGED <<disk, acked>> /\ (Wedged' \/ restarts' > restarts)
      OBVIOUS
    <2> USE DEF Wedged, disk, ghosts
    <2>1. CASE Write \/ SetupCurrent \/ CheckRotation \/ CloseCurrent \/ WriteToClosed
      BY <2>1 DEF Write, SetupCurrent, CheckRotation, CloseCurrent, WriteToClosed
    <2>2. CASE Restart
      BY <2>2, Bounds DEF Restart, TypeInv, TypeOK
    <2>3. CASE Shift \/ RenameBase \/ CreateBase \/ WriteMessage \/ Close
      BY <2>3 DEF Shift, RenameBase, CreateBase, WriteMessage, Close
    <2>4. CASE Faults
      BY <2>4 DEF Faults, SetupFails, CloseFails, ShiftFails, RenameBaseFails, CreateFails,
         WriteFails
    <2> QED
      BY <2>1, <2>2, <2>3, <2>4 DEF Next, Rotate
  <1> QED
    BY <1>1, TypeInit, TypeStep, PTL DEF Spec, WedgedForGood

-----------------------------------------------------------------------------
(* The refinement.  The places of the messages are counted in the order in *)
(* which they are read; the lemmas are about the ranks of any finite set   *)
(* of places.                                                              *)

LEMMA BeforeIsOrder ==
  ASSUME NEW x \in Int \X Int, NEW y \in Int \X Int, NEW z \in Int \X Int
  PROVE  /\ Before(x, x)
         /\ Before(x, y) \/ Before(y, x)
         /\ Before(x, y) /\ Before(y, x) => x = y
         /\ Before(x, y) /\ Before(y, z) => Before(x, z)
  BY DEF Before

\* The places read no later than x.
Upto(S, x) == {y \in S : Before(y, x)}

LEMMA RankType ==
  ASSUME NEW S \in SUBSET (Int \X Int), IsFiniteSet(S), NEW x \in S
  PROVE  /\ IsFiniteSet(Upto(S, x)) /\ Upto(S, x) \subseteq S /\ x \in Upto(S, x)
         /\ Rank(S, x) = Cardinality(Upto(S, x))
         /\ Rank(S, x) \in 1 .. Cardinality(S)
  <1>1. Upto(S, x) \in SUBSET S /\ x \in Upto(S, x)
    BY BeforeIsOrder DEF Upto
  <1>2. IsFiniteSet(Upto(S, x)) /\ Cardinality(Upto(S, x)) <= Cardinality(S)
    BY <1>1, FS_Subset
  <1>3. Cardinality(Upto(S, x)) \in Nat /\ Cardinality(S) \in Nat
    BY <1>2, FS_CardinalityType
  <1>4. Cardinality(Upto(S, x)) # 0
    BY <1>1, <1>2, FS_EmptySet
  <1>5. Rank(S, x) = Cardinality(Upto(S, x))
    BY DEF Rank, Upto
  <1> QED
    BY <1>1, <1>2, <1>3, <1>4, <1>5

\* Different places have different ranks.
LEMMA RankInjective ==
  ASSUME NEW S \in SUBSET (Int \X Int), IsFiniteSet(S), NEW x \in S, NEW y \in S,
         Rank(S, x) = Rank(S, y)
  PROVE  x = y
  <1>1. ASSUME NEW a \in S, NEW b \in S, Before(a, b), Rank(S, a) = Rank(S, b)
        PROVE  a = b
    <2>1. Upto(S, a) \subseteq Upto(S, b)
      BY <1>1, BeforeIsOrder DEF Upto
    <2>2. Cardinality(Upto(S, a)) = Cardinality(Upto(S, b)) /\ IsFiniteSet(Upto(S, b))
      BY <1>1, RankType
    <2>3. Upto(S, a) = Upto(S, b)
      BY <2>1, <2>2, FS_Subset
    <2>4. b \in Upto(S, a)
      BY <2>3, RankType
    <2>5. Before(b, a)
      BY <2>4 DEF Upto
    <2> QED
      BY <1>1, <2>5, BeforeIsOrder
  <1>2. Before(x, y) \/ Before(y, x)
    BY BeforeIsOrder
  <1> QED
    BY <1>1, <1>2

\* Every number up to the size of the set is a rank.
LEMMA RankSurjective ==
  ASSUME NEW S \in SUBSET (Int \X Int), IsFiniteSet(S), NEW n \in 1 .. Cardinality(S)
  PROVE  \E x \in S : Rank(S, x) = n
  <1> DEFINE N == 1 .. Cardinality(S)
             r == [x \in S |-> Rank(S, x)]
  <1>1. Cardinality(S) \in Nat
    BY FS_CardinalityType
  <1>2. r \in [S -> N]
    BY RankType
  <1>3. \A x, y \in S : r[x] = r[y] => x = y
    BY RankInjective
  <1>4. IsFiniteSet(N) /\ Cardinality(N) = Cardinality(S)
    <2>1. Cardinality(S) \in Int /\ (1 > Cardinality(S) => Cardinality(S) = 0)
      BY <1>1
    <2> QED
      BY <2>1, FS_Interval
  <1>5. \A x \in S : r[x] = Rank(S, x)
    OBVIOUS
  <1> HIDE DEF r, N
  <1>6. r \in Injection(S, N)
    BY <1>2, <1>3, Fun_IsInj
  <1>7. r \in Surjection(S, N)
    BY <1>4, <1>6, FS_Injection
  <1>8. \A m \in N : \E x \in S : r[x] = m
    BY <1>7, Fun_SurjectionProperties
  <1>9. n \in N
    BY DEF N
  <1> QED
    BY <1>5, <1>8, <1>9

\* A change of the places that keeps their order keeps their ranks.
LEMMA RankKept ==
  ASSUME NEW S \in SUBSET (Int \X Int), IsFiniteSet(S), NEW T \in SUBSET (Int \X Int),
         NEW g \in [S -> T], \A y \in T : \E x \in S : g[x] = y,
         \A x, y \in S : Before(x, y) <=> Before(g[x], g[y])
  PROVE  /\ IsFiniteSet(T) /\ Cardinality(T) = Cardinality(S)
         /\ \A x \in S : Rank(T, g[x]) = Rank(S, x)
  <1>1. \A x, y \in S : g[x] = g[y] => x = y
    BY BeforeIsOrder
  <1>2. ASSUME NEW A \in SUBSET S, NEW B \in SUBSET T,
               \A x \in S : x \in A <=> g[x] \in B
        PROVE  IsFiniteSet(B) /\ Cardinality(B) = Cardinality(A)
    <2> DEFINE h == [x \in A |-> g[x]]
    <2>1. h \in [A -> B] /\ \A x \in A : h[x] = g[x]
      BY <1>2
    <2> HIDE DEF h
    <2>2. \A y \in B : \E x \in A : h[x] = y
      BY <1>2, <2>1
    <2>3. \A x, y \in A : h[x] = h[y] => x = y
      BY <1>1, <2>1
    <2>4. h \in Bijection(A, B)
      BY <2>1, <2>2, <2>3, Fun_IsBij
    <2>5. ExistsBijection(A, B)
      BY <2>4, Fun_ExistsBij
    <2>6. IsFiniteSet(A)
      BY FS_Subset
    <2> QED
      BY <2>5, <2>6, FS_Bijection
  <1>3. IsFiniteSet(T) /\ Cardinality(T) = Cardinality(S)
    BY <1>2
  <1>4. ASSUME NEW x \in S PROVE Rank(T, g[x]) = Rank(S, x)
    <2>1. Upto(S, x) \in SUBSET S /\ Upto(T, g[x]) \in SUBSET T
      BY DEF Upto
    <2>2. \A y \in S : y \in Upto(S, x) <=> g[y] \in Upto(T, g[x])
      BY DEF Upto
    <2>3. Cardinality(Upto(T, g[x])) = Cardinality(Upto(S, x))
      BY <1>2, <2>1, <2>2
    <2> QED
      BY <2>3 DEF Rank, Upto
  <1> QED
    BY <1>3, <1>4

Files == [Slots -> Seq(1 .. MaxMessages)]

LEMMA PlacesOf ==
  ASSUME NEW f \in Files
  PROVE  /\ Places(f) \in SUBSET (Int \X Int)
         /\ IsFiniteSet(Places(f))
         /\ \A x : x \in Places(f) <=> x = <<x[1], x[2]>> /\ x[1] \in Slots /\ x[2] \in DOMAIN f[x[1]]
  <1>1. Slots \subseteq Int /\ Keep \in Int /\ IsFiniteSet(Slots)
    BY Bounds, FS_Interval DEF Slots
  <1>2. \A i \in Slots : /\ DOMAIN f[i] = 1 .. Len(f[i]) /\ Len(f[i]) \in Nat
                         /\ DOMAIN f[i] \subseteq Int /\ IsFiniteSet(DOMAIN f[i])
    <2> SUFFICES ASSUME NEW i \in Slots
                 PROVE  /\ DOMAIN f[i] = 1 .. Len(f[i]) /\ Len(f[i]) \in Nat
                        /\ DOMAIN f[i] \subseteq Int /\ IsFiniteSet(DOMAIN f[i])
      OBVIOUS
    <2>1. f[i] \in Seq(1 .. MaxMessages)
      BY DEF Files
    <2>2. DOMAIN f[i] = 1 .. Len(f[i]) /\ Len(f[i]) \in Nat
      BY <2>1, LenProperties
    <2>3. IsFiniteSet(1 .. Len(f[i]))
      BY <2>2, FS_Interval
    <2> QED
      BY <2>2, <2>3
  <1>3. \A x : x \in Places(f) <=> x = <<x[1], x[2]>> /\ x[1] \in Slots /\ x[2] \in DOMAIN f[x[1]]
    BY DEF Places, Files
  <1>4. Places(f) \in SUBSET (Int \X Int)
    BY <1>1, <1>2, <1>3
  <1>5. IsFiniteSet(Places(f))
    <2> DEFINE Parts == {{i} \X DOMAIN f[i] : i \in Slots}
               part  == [i \in Slots |-> {i} \X DOMAIN f[i]]
    <2>1. Places(f) = UNION Parts
      BY DEF Places, Files
    <2>2. \A T \in Parts : IsFiniteSet(T)
      <3> SUFFICES ASSUME NEW i \in Slots PROVE IsFiniteSet({i} \X DOMAIN f[i])
        OBVIOUS
      <3>1. IsFiniteSet({i}) /\ IsFiniteSet(DOMAIN f[i])
        BY <1>2, FS_Singleton
      <3> QED
        BY <3>1, FS_Product
    <2>3. part \in [Slots -> Parts] /\ \A T \in Parts : \E i \in Slots : part[i] = T
      OBVIOUS
    <2> HIDE DEF part, Parts
    <2>4. part \in Surjection(Slots, Parts)
      BY <2>3, Fun_IsSurj
    <2>5. IsFiniteSet(Parts)
      BY <1>1, <2>4, FS_Surjection
    <2> QED
      BY <2>1, <2>2, <2>5, FS_UNION
  <1> QED
    BY <1>3, <1>4, <1>5

\* The message at a place is read at the rank of the place, and nothing else is.
LEMMA ReadAtRank ==
  ASSUME NEW f \in Files
  PROVE  /\ InOrder(f) \in Seq(1 .. MaxMessages)
         /\ Len(InOrder(f)) = Cardinality(Places(f)) /\ Cardinality(Places(f)) \in Nat
         /\ \A x \in Places(f) : /\ Rank(Places(f), x) \in 1 .. Len(InOrder(f))
                                 /\ InOrder(f)[Rank(Places(f), x)] = f[x[1]][x[2]]
         /\ \A n \in 1 .. Len(InOrder(f)) : \E x \in Places(f) : Rank(Places(f), x) = n
  <1> DEFINE S == Places(f)
             N == Cardinality(S)
             at(n) == CHOOSE x \in S : Rank(S, x) = n
  <1>1. S \in SUBSET (Int \X Int) /\ IsFiniteSet(S)
    BY PlacesOf
  <1>2. N \in Nat
    BY <1>1, FS_CardinalityType
  <1>3. \A x \in S : f[x[1]][x[2]] \in 1 .. MaxMessages
    <2> SUFFICES ASSUME NEW x \in S PROVE f[x[1]][x[2]] \in 1 .. MaxMessages
      OBVIOUS
    <2>1. x[1] \in Slots /\ x[2] \in DOMAIN f[x[1]]
      BY PlacesOf
    <2>2. f[x[1]] \in Seq(1 .. MaxMessages)
      BY <2>1 DEF Files
    <2> QED
      BY <2>1, <2>2, LenProperties, ElementOfSeq
  <1>4. \A n \in 1 .. N : \E x \in S : Rank(S, x) = n
    BY <1>1, RankSurjective
  <1>5. InOrder(f) = [n \in 1 .. N |-> f[at(n)[1]][at(n)[2]]]
    BY DEF InOrder
  <1>6. \A x \in S : Rank(S, x) \in 1 .. N
    BY <1>1, RankType
  <1>7. \A n \in 1 .. N : at(n) \in S /\ Rank(S, at(n)) = n
    BY <1>4
  <1>8. \A x \in S : at(Rank(S, x)) = x
    BY <1>1, <1>6, <1>7, RankInjective
  <1> HIDE DEF S, N, at
  <1>9. InOrder(f) \in [1 .. N -> 1 .. MaxMessages]
    BY <1>3, <1>5, <1>7
  <1>10. InOrder(f) \in Seq(1 .. MaxMessages) /\ Len(InOrder(f)) = N
    <2>1. InOrder(f) \in Seq(1 .. MaxMessages) /\ DOMAIN InOrder(f) = 1 .. N
      BY <1>2, <1>9, SeqDef
    <2>2. 1 .. Len(InOrder(f)) = 1 .. N /\ Len(InOrder(f)) \in Nat
      BY <2>1, LenProperties
    <2> QED
      BY <1>2, <2>1, <2>2
  <1>11. \A x \in S : InOrder(f)[Rank(S, x)] = f[x[1]][x[2]]
    BY <1>5, <1>6, <1>8
  <1> QED
    BY <1>2, <1>4, <1>6, <1>10, <1>11 DEF S, N

\* A rename onto a free slot takes every place one slot up, in the same order.
LEMMA MoveUpReadsTheSame ==
  ASSUME TypeInv, NEW i \in 0 .. Keep - 2, MoveUp(i), file' \in Files
  PROVE  InOrder(file') = InOrder(file)
  <1> DEFINE S == Places(file)
             T == Places(file')
             up(x) == IF x[1] = i THEN <<i + 1, x[2]>> ELSE x
             g == [x \in S |-> up(x)]
  <1>t. /\ file \in Files /\ i \in Slots /\ i + 1 \in Slots /\ i \in Int
        /\ DOMAIN << >> = {} /\ file[i + 1] = << >> /\ file'[i] = << >> /\ file'[i + 1] = file[i]
        /\ \A j \in Slots : j # i /\ j # i + 1 => file'[j] = file[j]
    BY Bounds, EmptySeqTyped DEF TypeInv, TypeOK, Files, MoveUp, Slots
  <1>p. /\ S \in SUBSET (Int \X Int) /\ IsFiniteSet(S) /\ T \in SUBSET (Int \X Int)
        /\ \A x : x \in S <=> x = <<x[1], x[2]>> /\ x[1] \in Slots /\ x[2] \in DOMAIN file[x[1]]
        /\ \A x : x \in T <=> x = <<x[1], x[2]>> /\ x[1] \in Slots /\ x[2] \in DOMAIN file'[x[1]]
    BY <1>t, PlacesOf
  <1> HIDE DEF S, T
  <1>1. \A x \in S : x[1] # i + 1 /\ up(x) \in T
                     /\ file'[up(x)[1]][up(x)[2]] = file[x[1]][x[2]]
    <2> SUFFICES ASSUME NEW x \in S
                 PROVE  x[1] # i + 1 /\ up(x) \in T
                        /\ file'[up(x)[1]][up(x)[2]] = file[x[1]][x[2]]
      OBVIOUS
    <2>1. x = <<x[1], x[2]>> /\ x[1] \in Slots /\ x[2] \in DOMAIN file[x[1]] /\ x[1] # i + 1
      BY <1>t, <1>p
    <2> QED
      BY <1>t, <1>p, <2>1
  <1>2. \A y \in T : \E x \in S : up(x) = y
    <2> SUFFICES ASSUME NEW y \in T PROVE \E x \in S : up(x) = y
      OBVIOUS
    <2>1. y = <<y[1], y[2]>> /\ y[1] \in Slots /\ y[2] \in DOMAIN file'[y[1]] /\ y[1] # i
      BY <1>t, <1>p
    <2>2. CASE y[1] = i + 1
      <3>1. <<i, y[2]>> \in S
        BY <1>t, <1>p, <2>1, <2>2
      <3>2. up(<<i, y[2]>>) = y
        BY <2>1, <2>2
      <3> QED
        BY <3>1, <3>2
    <2>3. CASE y[1] # i + 1
      <3>1. y \in S
        BY <1>t, <1>p, <2>1, <2>3
      <3>2. up(y) = y
        BY <2>1
      <3> QED
        BY <3>1, <3>2
    <2> QED
      BY <2>2, <2>3
  <1>3. \A x, y \in S : Before(x, y) <=> Before(up(x), up(y))
    <2> SUFFICES ASSUME NEW x \in S, NEW y \in S PROVE Before(x, y) <=> Before(up(x), up(y))
      OBVIOUS
    <2>1. x[1] \in Int /\ x[2] \in Int /\ x[1] # i + 1 /\ y[1] \in Int /\ y[2] \in Int /\ y[1] # i + 1
      BY <1>p, <1>1
    <2> QED
      BY <1>t, <2>1 DEF Before
  <1>4. g \in [S -> T] /\ \A x \in S : g[x] = up(x)
    BY <1>1
  <1> HIDE DEF up, g
  <1>5. /\ Cardinality(T) = Cardinality(S)
        /\ \A x \in S : Rank(T, g[x]) = Rank(S, x)
    <2>1. \A y \in T : \E x \in S : g[x] = y
      BY <1>2, <1>4
    <2>2. \A x, y \in S : Before(x, y) <=> Before(g[x], g[y])
      BY <1>3, <1>4
    <2> QED
      BY <1>p, <1>4, <2>1, <2>2, RankKept
  <1>6. Len(InOrder(file')) = Len(InOrder(file))
    BY <1>t, <1>5, ReadAtRank DEF S, T
  <1>7. ASSUME NEW n \in 1 .. Len(InOrder(file)) PROVE InOrder(file')[n] = InOrder(file)[n]
    <2>1. PICK x \in S : Rank(S, x) = n
      BY <1>t, ReadAtRank DEF S
    <2>2. InOrder(file)[n] = file[x[1]][x[2]]
      BY <1>t, <2>1, ReadAtRank DEF S
    <2>3. Rank(T, up(x)) = n /\ up(x) \in T
      BY <1>1, <1>4, <1>5, <2>1
    <2>4. InOrder(file')[n] = file'[up(x)[1]][up(x)[2]]
      BY <2>3, ReadAtRank DEF T
    <2> QED
      BY <1>1, <2>2, <2>4
  <1>8. InOrder(file) \in Seq(1 .. MaxMessages) /\ InOrder(file') \in Seq(1 .. MaxMessages)
    BY <1>t, ReadAtRank
  <1> QED
    BY <1>6, <1>7, <1>8, SeqEqual

\* The oldest backup, when it is removed, is all at the front.
LEMMA RemoveOldestForgets ==
  ASSUME TypeInv, Layout, RemoveOldest, file' \in Files
  PROVE  InOrder(file') = InOrder(file) \/ Abstract!Forget
  <1> DEFINE S == Places(file)
             T == Places(file')
             R == S \ T
             k == Cardinality(R)
             old == InOrder(file)
             new == InOrder(file')
  <1>t. /\ file \in Files /\ Keep \in Slots /\ Keep - 1 \in Slots /\ Keep \in Nat
        /\ DOMAIN << >> = {} /\ file[Keep] = << >> /\ file'[Keep - 1] = << >>
        /\ \A j \in Slots : j # Keep - 1 => file'[j] = file[j]
    BY Bounds, EmptySeqTyped DEF TypeInv, TypeOK, Files, RemoveOldest, Slots, Layout, FewFiles
  <1>p. /\ S \in SUBSET (Int \X Int) /\ IsFiniteSet(S) /\ T \in SUBSET (Int \X Int) /\ IsFiniteSet(T)
        /\ \A x : x \in S <=> x = <<x[1], x[2]>> /\ x[1] \in Slots /\ x[2] \in DOMAIN file[x[1]]
        /\ \A x : x \in T <=> x = <<x[1], x[2]>> /\ x[1] \in Slots /\ x[2] \in DOMAIN file'[x[1]]
    BY <1>t, PlacesOf
  <1> HIDE DEF S, T
  <1>1. \A x \in T : x \in S /\ x[1] < Keep - 1 /\ file'[x[1]][x[2]] = file[x[1]][x[2]]
    <2> SUFFICES ASSUME NEW x \in T
                 PROVE  x \in S /\ x[1] < Keep - 1 /\ file'[x[1]][x[2]] = file[x[1]][x[2]]
      OBVIOUS
    <2>1. x = <<x[1], x[2]>> /\ x[1] \in Slots /\ x[2] \in DOMAIN file'[x[1]] /\ x[1] # Keep - 1
      BY <1>t, <1>p
    <2>2. x[1] # Keep /\ file'[x[1]] = file[x[1]]
      BY <1>t, <2>1
    <2> QED
      BY <1>t, <1>p, <2>1, <2>2 DEF Slots
  <1>2. \A x \in S : x \notin T => x[1] = Keep - 1
    BY <1>t, <1>p
  <1>3. \A x \in R, y \in T : Before(x, y) /\ ~Before(y, x)
    BY <1>t, <1>p, <1>1, <1>2 DEF Before
  <1>4. /\ IsFiniteSet(R) /\ k \in Nat /\ Cardinality(T) \in Nat
        /\ Cardinality(S) = k + Cardinality(T)
    <2>1. R \in SUBSET S /\ R \cap T = {} /\ S = R \cup T
      BY <1>1
    <2>2. IsFiniteSet(R)
      BY <1>p, <2>1, FS_Subset
    <2>3. Cardinality(S) = k + Cardinality(T) - Cardinality({})
      BY <1>p, <2>1, <2>2, FS_Union
    <2>4. k \in Nat /\ Cardinality(T) \in Nat /\ Cardinality({}) = 0
      BY <1>p, <2>2, FS_CardinalityType, FS_EmptySet
    <2> QED
      BY <2>2, <2>3, <2>4
  <1>5. \A x \in T : Rank(S, x) = k + Rank(T, x)
    <2> SUFFICES ASSUME NEW x \in T PROVE Rank(S, x) = k + Rank(T, x)
      OBVIOUS
    <2>1. Upto(S, x) = R \cup Upto(T, x) /\ R \cap Upto(T, x) = {}
      BY <1>1, <1>3 DEF Upto
    <2>2. IsFiniteSet(Upto(T, x)) /\ Rank(T, x) = Cardinality(Upto(T, x)) /\ Rank(T, x) \in Nat
      BY <1>p, RankType
    <2>3. Cardinality(Upto(S, x)) = k + Cardinality(Upto(T, x)) - Cardinality({})
      BY <1>4, <2>1, <2>2, FS_Union
    <2>4. Rank(S, x) = Cardinality(Upto(S, x))
      BY <1>1, <1>p, RankType
    <2> QED
      BY <1>4, <2>2, <2>3, <2>4, FS_EmptySet
  <1> HIDE DEF R, k
  <1>6. /\ old \in Seq(1 .. MaxMessages) /\ new \in Seq(1 .. MaxMessages)
        /\ Len(old) = Cardinality(S) /\ Len(new) = Cardinality(T)
        /\ \A x \in S : old[Rank(S, x)] = file[x[1]][x[2]]
        /\ \A x \in T : new[Rank(T, x)] = file'[x[1]][x[2]]
        /\ \A n \in 1 .. Len(new) : \E x \in T : Rank(T, x) = n
    BY <1>t, ReadAtRank DEF S, T
  <1> HIDE DEF old, new
  <1>7. \A n \in 1 .. Len(new) : new[n] = old[k + n]
    BY <1>1, <1>5, <1>6
  <1>8. CASE k = 0
    <2>1. Len(new) = Len(old) /\ \A n \in 1 .. Len(old) : new[n] = old[n]
      BY <1>4, <1>6, <1>7, <1>8
    <2>2. new = old
      BY <1>6, <2>1, SeqEqual
    <2> QED
      BY <2>2 DEF old, new
  <1>9. CASE k # 0
    <2> DEFINE rest == SubSeq(old, k + 1, Len(old))
    <2>1. k \in 1 .. Len(old) /\ Len(new) < Len(old) /\ Len(new) = Len(old) - k /\ Len(new) \in Nat
      BY <1>4, <1>6, <1>9
    <2>2. \A n \in k + 1 .. Len(old) : old[n] \in 1 .. MaxMessages
      <3> SUFFICES ASSUME NEW n \in k + 1 .. Len(old) PROVE old[n] \in 1 .. MaxMessages
        OBVIOUS
      <3>1. n \in 1 .. Len(old)
        BY <1>4, <1>6, <2>1
      <3> QED
        BY <1>6, <3>1, ElementOfSeq
    <2>3. k + 1 \in Int /\ Len(old) \in Int
      BY <1>4, <1>6
    <2>4. /\ rest \in Seq(1 .. MaxMessages)
          /\ Len(rest) = IF k + 1 <= Len(old) THEN Len(old) - (k + 1) + 1 ELSE 0
          /\ \A n \in 1 .. Len(old) - (k + 1) + 1 : rest[n] = old[(k + 1) + n - 1]
      BY <2>2, <2>3, SubSeqProperties
    <2> HIDE DEF rest
    <2>5. Len(rest) = Len(new) /\ \A n \in 1 .. Len(new) : rest[n] = new[n]
      BY <1>4, <1>7, <2>1, <2>4
    <2>6. new = rest
      BY <1>6, <2>4, <2>5, SeqEqual
    <2> QED
      BY <2>1, <2>6 DEF rest, old, new, Abstract!Forget
  <1> QED
    BY <1>8, <1>9

\* The end of basePath is the end of the log, and its message is the newest.
LEMMA AddMessageWrites ==
  ASSUME TypeInv, Fresh, AddMessage, file' \in Files
  PROVE  Abstract!Write
  <1> DEFINE S == Places(file)
             T == Places(file')
             z == <<0, Len(file[0]) + 1>>
             N == Cardinality(S)
             old == InOrder(file)
             new == InOrder(file')
  <1>t. /\ file \in Files /\ 0 \in Slots /\ Slots \subseteq Nat
        /\ sent \in 1 .. MaxMessages /\ Len(file[0]) \in Nat
        /\ DOMAIN file[0] = 1 .. Len(file[0])
        /\ \A i \in Slots : \A p \in DOMAIN file[i] : p \in Nat /\ file[i][p] < sent
    BY Bounds, LenProperties DEF TypeInv, TypeOK, Files, AddMessage, Fresh, Slots
  <1>a. /\ \A i \in Slots : i # 0 => file'[i] = file[i]
        /\ DOMAIN file'[0] = 1 .. Len(file[0]) + 1
        /\ \A p \in DOMAIN file[0] : file'[0][p] = file[0][p]
        /\ file'[0][Len(file[0]) + 1] = sent
    BY AddedLast
  <1>p. /\ S \in SUBSET (Int \X Int) /\ IsFiniteSet(S) /\ T \in SUBSET (Int \X Int) /\ IsFiniteSet(T)
        /\ \A x : x \in S <=> x = <<x[1], x[2]>> /\ x[1] \in Slots /\ x[2] \in DOMAIN file[x[1]]
        /\ \A x : x \in T <=> x = <<x[1], x[2]>> /\ x[1] \in Slots /\ x[2] \in DOMAIN file'[x[1]]
    BY <1>t, PlacesOf
  <1> HIDE DEF S, T
  <1>1. \A x \in S : x \in T /\ x # z /\ file'[x[1]][x[2]] = file[x[1]][x[2]]
                     /\ file[x[1]][x[2]] < sent
    <2> SUFFICES ASSUME NEW x \in S
                 PROVE  x \in T /\ x # z /\ file'[x[1]][x[2]] = file[x[1]][x[2]]
                        /\ file[x[1]][x[2]] < sent
      OBVIOUS
    <2>1. x = <<x[1], x[2]>> /\ x[1] \in Slots /\ x[2] \in DOMAIN file[x[1]]
      BY <1>p
    <2>2. x # z
      BY <1>t, <2>1
    <2>3. x[2] \in DOMAIN file'[x[1]] /\ file'[x[1]][x[2]] = file[x[1]][x[2]]
      BY <1>t, <1>a, <2>1
    <2> QED
      BY <1>t, <1>p, <2>1, <2>2, <2>3
  <1>2. z \in T /\ file'[z[1]][z[2]] = sent
    BY <1>t, <1>a, <1>p
  <1>3. \A x \in T : x \in S \/ x = z
    <2> SUFFICES ASSUME NEW x \in T PROVE x \in S \/ x = z
      OBVIOUS
    <2>1. x = <<x[1], x[2]>> /\ x[1] \in Slots /\ x[2] \in DOMAIN file'[x[1]]
      BY <1>p
    <2>2. CASE x[1] = 0
      BY <1>t, <1>a, <1>p, <2>1, <2>2
    <2>3. CASE x[1] # 0
      BY <1>a, <1>p, <2>1, <2>3
    <2> QED
      BY <2>2, <2>3
  <1>4. \A x \in S : Before(x, z) /\ ~Before(z, x)
    BY <1>t, <1>p DEF Before
  <1>5. Cardinality(T) = N + 1 /\ N \in Nat
    <2>1. T = S \cup {z} /\ z \notin S
      BY <1>1, <1>2, <1>3
    <2> QED
      BY <1>p, <2>1, FS_AddElement, FS_CardinalityType
  <1>6. \A x \in S : Rank(T, x) = Rank(S, x)
    <2> SUFFICES ASSUME NEW x \in S PROVE Rank(T, x) = Rank(S, x)
      OBVIOUS
    <2>1. Upto(T, x) = Upto(S, x)
      BY <1>1, <1>3, <1>4 DEF Upto
    <2> QED
      BY <1>1, <1>p, <2>1, RankType
  <1>7. Rank(T, z) = N + 1
    <2>1. Upto(T, z) = T
      BY <1>2, <1>3, <1>4, <1>p, BeforeIsOrder DEF Upto
    <2> QED
      BY <1>2, <1>5, <1>p, <2>1, RankType
  <1>8. /\ old \in Seq(1 .. MaxMessages) /\ new \in Seq(1 .. MaxMessages)
        /\ Len(old) = N /\ Len(new) = N + 1 /\ DOMAIN old = 1 .. N
        /\ \A x \in S : old[Rank(S, x)] = file[x[1]][x[2]]
        /\ \A x \in T : new[Rank(T, x)] = file'[x[1]][x[2]]
        /\ \A n \in 1 .. N : \E x \in S : Rank(S, x) = n
    <2>1. /\ old \in Seq(1 .. MaxMessages) /\ Len(old) = N
          /\ \A x \in S : old[Rank(S, x)] = file[x[1]][x[2]]
          /\ \A n \in 1 .. N : \E x \in S : Rank(S, x) = n
      BY <1>t, ReadAtRank DEF S
    <2>2. /\ new \in Seq(1 .. MaxMessages) /\ Len(new) = Cardinality(T)
          /\ \A x \in T : new[Rank(T, x)] = file'[x[1]][x[2]]
      BY ReadAtRank DEF T
    <2>3. DOMAIN old = 1 .. N
      BY <2>1, LenProperties
    <2> QED
      BY <1>5, <2>1, <2>2, <2>3
  <1> HIDE DEF N, old, new, z
  <1>9. \A n \in 1 .. N : new[n] = old[n] /\ old[n] < sent
    BY <1>1, <1>6, <1>8
  <1>10. new[N + 1] = sent
    BY <1>2, <1>7, <1>8
  <1>11. new = Append(old, sent)
    <2> DEFINE longer == Append(old, sent)
    <2>1. /\ longer \in Seq(1 .. MaxMessages) /\ Len(longer) = N + 1
          /\ \A n \in 1 .. N : longer[n] = old[n]
          /\ longer[N + 1] = sent
      BY <1>t, <1>8, AppendProperties
    <2> HIDE DEF longer
    <2>2. \A n \in 1 .. Len(new) : new[n] = longer[n]
      BY <1>5, <1>8, <1>9, <1>10, <2>1
    <2>3. new = longer
      BY <1>8, <2>1, <2>2, SeqEqual
    <2> QED
      BY <2>3 DEF longer
  <1>12. Len(new) > Len(old) /\ \A p \in DOMAIN old : old[p] < sent
    BY <1>5, <1>8, <1>9
  <1> QED
    BY <1>t, <1>11, <1>12 DEF old, new, Abstract!Write

LEMMA LogInit == Init => Abstract!Init
  <1> SUFFICES ASSUME Init PROVE InOrder(file) = << >>
    BY DEF Abstract!Init
  <1>1. file \in Files /\ \A i \in Slots : file[i] = << >>
    BY EmptySeqTyped DEF Init, Files
  <1>2. Places(file) = {}
    BY <1>1, PlacesOf, EmptySeqTyped
  <1>3. InOrder(file) \in Seq(1 .. MaxMessages) /\ Len(InOrder(file)) = 0
    BY <1>1, <1>2, ReadAtRank, FS_EmptySet
  <1> QED
    BY <1>3, EmptySeq

LEMMA LogStep ==
  TypeInv /\ TypeInv' /\ Layout /\ Fresh /\ [Next]_vars => [Abstract!Next]_(InOrder(file))
  <1> SUFFICES ASSUME TypeInv, TypeInv', Layout, Fresh, [Next]_vars
               PROVE  Abstract!Next \/ InOrder(file') = InOrder(file)
    OBVIOUS
  <1>1. file' \in Files
    BY DEF TypeInv, TypeOK, Files, Slots
  <1>2. CASE file' = file
    BY <1>2
  <1>3. CASE RemoveOldest
    BY <1>1, <1>3, RemoveOldestForgets DEF Abstract!Next
  <1>4. CASE \E i \in 0 .. Keep - 2 : MoveUp(i)
    BY <1>1, <1>4, MoveUpReadsTheSame
  <1>5. CASE AddMessage
    BY <1>1, <1>5, AddMessageWrites DEF Abstract!Next
  <1> QED
    BY <1>2, <1>3, <1>4, <1>5, FileStep

\* The files are one rotated log, whatever fails in a rotation and wherever a
\* crash cuts it off.
THEOREM ImplementsRotatedLog == Spec => IsRotatedLog
  <1>1. TypeInv /\ Layout /\ Chronological /\ Fresh /\ [Next]_vars => (Chronological /\ Fresh)'
    BY OrderStep
  <1> QED
    BY <1>1, TypeInit, TypeStep, LayoutInit, LayoutStep, OrderInit, LogInit, LogStep,
       PTL DEF Spec, IsRotatedLog, Abstract!Spec

=============================================================================

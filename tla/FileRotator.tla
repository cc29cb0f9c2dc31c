---------------------------- MODULE FileRotator ----------------------------
(***************************************************************************)
(* pkg/logger/filerotator.go, the output of logrus in the exporters: a log *)
(* file that is renamed to .1 when it is too large or too old, the older   *)
(* ones to .2 and so on, and the oldest of them removed.                   *)
(*                                                                         *)
(* logrus calls Write with its mutex held, so the calls come one by one;   *)
(* each call of the operating system is a step, can fail, and the process  *)
(* can die after it.  A message has size 1 and is its own number.          *)
(***************************************************************************)
EXTENDS Integers, Sequences, FiniteSets

CONSTANTS
    Keep,         \* keepFiles: the file and its backups
    MaxSize,      \* maxSize, in messages
    MaxMessages,  \* bound: calls of Write
    MaxFaults,    \* bound: calls of the operating system that fail
    MaxRestarts   \* bound: deaths of the process

ASSUME KeepAssumption == Keep \in Nat /\ Keep > 1
ASSUME SizesAssumption == MaxSize \in Nat
ASSUME BoundsAssumption == {MaxMessages, MaxFaults, MaxRestarts} \subseteq Nat

VARIABLES
    exists,    \* the files there are: 0 is basePath, i is getLogPath(i)
    file,      \* their contents, empty when there is none
    current,   \* "nil", "open", or "closed": closed and not nil
    size,      \* what the rotator believes the open file to hold
    pc,        \* how far a call of Write has come; "idle" between calls
    slot,      \* i of the loop in rotate
    sent,      \* calls of Write so far, the number of the message at hand
    acked,     \* messages whose Write returned no error
    expired,   \* a file was once rotated for its age
    faults,    \* system calls that failed so far
    torn,      \* ... of them, writes that left a fragment in the file
    restarts   \* deaths so far

disk   == <<exists, file>>
ghosts == <<sent, acked, expired, faults, torn, restarts>>
vars   == <<disk, current, size, pc, slot, ghosts>>

Slots == 0 .. Keep

Init ==
    /\ exists = {} /\ file = [i \in Slots |-> << >>]
    /\ current = "nil" /\ size = 0 /\ pc = "idle" /\ slot = 0
    /\ sent = 0 /\ acked = {} /\ expired = FALSE /\ faults = 0 /\ torn = 0 /\ restarts = 0

\* A system call fails, and Write returns the error.
Fail == /\ faults < MaxFaults
        /\ faults' = faults + 1 /\ pc' = "idle"
        /\ UNCHANGED <<slot, sent, acked, expired, torn, restarts>>

\* os.Rename, onto a file that may be there; os.Remove.
Rename(i, j) == /\ exists' = (exists \ {i}) \cup {j}
                /\ file' = [file EXCEPT ![j] = file[i], ![i] = << >>]
Unlink(i)    == /\ exists' = exists \ {i}
                /\ file' = [file EXCEPT ![i] = << >>]
Create       == /\ exists' = exists \cup {0}
                /\ file' = [file EXCEPT ![0] = << >>]

-----------------------------------------------------------------------------
Write == /\ pc = "idle" /\ sent < MaxMessages
         /\ sent' = sent + 1 /\ pc' = "setup"
         /\ UNCHANGED <<disk, current, size, slot, acked, expired, faults, torn, restarts>>

\* setupCurrent.  The size is taken from a file that is there; it stays what
\* it was when the file is created.
SetupCurrent ==
    /\ pc = "setup" /\ pc' = "check"
    /\ \/ current # "nil" /\ UNCHANGED <<disk, current, size>>
       \/ current = "nil" /\ 0 \in exists
              /\ current' = "open" /\ size' = Len(file[0]) /\ UNCHANGED disk
       \/ current = "nil" /\ 0 \notin exists
              /\ current' = "open" /\ Create /\ UNCHANGED size
    /\ UNCHANGED <<slot, ghosts>>

SetupFails == /\ pc = "setup" /\ current = "nil"
              /\ Fail /\ UNCHANGED <<disk, current, size>>

\* shouldRotate
ShouldRotate(aged) == size > MaxSize \/ aged

CheckRotation ==
    /\ pc = "check"
    /\ \E aged \in BOOLEAN :
          /\ pc' = IF ShouldRotate(aged) THEN "close" ELSE "write"
          /\ expired' = (expired \/ aged)
    /\ UNCHANGED <<disk, current, size, slot, sent, acked, faults, torn, restarts>>

CloseTwice ==
    /\ pc = "close"
    /\ current' = "closed" /\ pc' = "shift" /\ slot' = Keep - 1
    /\ UNCHANGED <<disk, size, ghosts>>
\* rotate: Close of a file that is closed already is an error.
CloseCurrent ==
    /\ pc = "close"
    /\ current' = "closed"
    /\ IF current = "open" THEN pc' = "shift" /\ slot' = Keep - 1
                           ELSE pc' = "idle" /\ UNCHANGED slot
    /\ UNCHANGED <<disk, size, ghosts>>

CloseFails == /\ pc = "close" /\ current = "open"
              /\ current' = "closed"
              /\ Fail /\ UNCHANGED <<disk, size>>

ShiftDropsTwo ==
    /\ pc = "shift" /\ slot > 0
    /\ \/ slot \notin exists /\ UNCHANGED disk
       \/ slot \in exists /\ slot >= Keep - 2 /\ Unlink(slot)
       \/ slot \in exists /\ slot < Keep - 2 /\ Rename(slot, slot + 1)
    /\ slot' = slot - 1
    /\ UNCHANGED <<current, size, pc, ghosts>>
\* The loop: the oldest backup is removed, the others move up by one.
Shift ==
    /\ pc = "shift" /\ slot > 0
    /\ \/ slot \notin exists /\ UNCHANGED disk
       \/ slot \in exists /\ slot = Keep - 1 /\ Unlink(slot)
       \/ slot \in exists /\ slot # Keep - 1 /\ Rename(slot, slot + 1)
    /\ slot' = slot - 1
    /\ UNCHANGED <<current, size, pc, ghosts>>

ShiftErrorIgnored ==
    /\ pc = "shift" /\ slot > 0 /\ slot \in exists /\ faults < MaxFaults
    /\ faults' = faults + 1 /\ slot' = slot - 1
    /\ UNCHANGED <<disk, current, size, pc, sent, acked, expired, torn, restarts>>
ShiftFails == /\ pc = "shift" /\ slot > 0 /\ slot \in exists
              /\ Fail /\ UNCHANGED <<disk, current, size>>

CopyBase ==
    /\ pc = "shift" /\ slot = 0 /\ 0 \in exists
    /\ exists' = exists \cup {1} /\ file' = [file EXCEPT ![1] = file[0]]
    /\ pc' = "create"
    /\ UNCHANGED <<current, size, slot, ghosts>>
RenameBase ==
    /\ pc = "shift" /\ slot = 0 /\ 0 \in exists
    /\ Rename(0, 1)
    /\ pc' = "create"
    /\ UNCHANGED <<current, size, slot, ghosts>>

RenameErrorIgnored ==
    /\ pc = "shift" /\ slot = 0 /\ faults < MaxFaults
    /\ faults' = faults + 1 /\ pc' = "create"
    /\ UNCHANGED <<disk, current, size, slot, sent, acked, expired, torn, restarts>>
RenameBaseFails == /\ pc = "shift" /\ slot = 0
                   /\ Fail /\ UNCHANGED <<disk, current, size>>

CreateBase ==
    /\ pc = "create"
    /\ Create
    /\ current' = "open" /\ size' = 0 /\ pc' = "write"
    /\ UNCHANGED <<slot, ghosts>>

\* fr.current becomes the nil of the failed os.Create.
CreateFails == /\ pc = "create"
               /\ current' = "nil"
               /\ Fail /\ UNCHANGED <<disk, size>>

WriteUncounted ==
    /\ pc = "write" /\ current = "open"
    /\ file' = [file EXCEPT ![0] = Append(@, sent)]
    /\ acked' = acked \cup {sent} /\ pc' = "idle"
    /\ UNCHANGED <<exists, current, size, slot, sent, expired, faults, torn, restarts>>
\* fr.current.Write(p)
WriteMessage ==
    /\ pc = "write" /\ current = "open"
    /\ file' = [file EXCEPT ![0] = Append(@, sent)]
    /\ size' = size + 1
    /\ acked' = acked \cup {sent} /\ pc' = "idle"
    /\ UNCHANGED <<exists, current, slot, sent, expired, faults, torn, restarts>>

WriteToClosed ==
    /\ pc = "write" /\ current = "closed"
    /\ pc' = "idle"
    /\ UNCHANGED <<disk, current, size, slot, ghosts>>

\* A failed write may leave a fragment behind, which is not added to size.
WriteFails ==
    /\ pc = "write" /\ current = "open" /\ faults < MaxFaults
    /\ \/ file' = [file EXCEPT ![0] = Append(@, sent)] /\ torn' = torn + 1
       \/ UNCHANGED <<file, torn>>
    /\ faults' = faults + 1 /\ pc' = "idle"
    /\ UNCHANGED <<exists, current, size, slot, sent, acked, expired, restarts>>

\* Close, between two calls of Write.
Close == /\ pc = "idle" /\ current = "open"
         /\ current' = "closed"
         /\ UNCHANGED <<disk, size, pc, slot, ghosts>>

\* The process dies anywhere and a new one starts with a NewFileRotator.
Restart ==
    /\ restarts < MaxRestarts
    /\ restarts' = restarts + 1
    /\ current' = "nil" /\ size' = 0 /\ pc' = "idle"
    /\ UNCHANGED <<disk, slot, sent, acked, expired, faults, torn>>

-----------------------------------------------------------------------------
Rotate == CloseCurrent \/ Shift \/ RenameBase \/ CreateBase
Faults == SetupFails \/ CloseFails \/ ShiftFails \/ RenameBaseFails \/ CreateFails \/ WriteFails

Next == \/ Write \/ SetupCurrent \/ CheckRotation \/ Rotate
        \/ WriteMessage \/ WriteToClosed
        \/ Faults \/ Close \/ Restart

Spec == Init /\ [][Next]_vars

-----------------------------------------------------------------------------
TypeOK ==
    /\ exists \subseteq Slots
    /\ file \in [Slots -> Seq(1 .. MaxMessages)]
    /\ current \in {"nil", "open", "closed"}
    /\ size \in Nat /\ slot \in Slots
    /\ pc \in {"idle", "setup", "check", "close", "shift", "create", "write"}
    /\ expired \in BOOLEAN /\ sent \in 0 .. MaxMessages /\ acked \subseteq 1 .. MaxMessages
    /\ faults \in 0 .. MaxFaults /\ torn \in 0 .. MaxFaults /\ restarts \in 0 .. MaxRestarts

Kept == UNION {{file[i][p] : p \in DOMAIN file[i]} : i \in Slots}

\* Read from the oldest backup to the file, the messages are in the order of
\* their Writes and none is there twice: in the middle of a rotation, after one
\* that failed half way, and after a crash in one.
Chronological ==
    \A i, j \in Slots : \A p \in DOMAIN file[i], q \in DOMAIN file[j] :
        i > j \/ (i = j /\ p < q) => file[i][p] < file[j][q]

\* A message whose Write succeeded is only lost when everything before it is:
\* no rotation, complete or not, overwrites a backup that is not the oldest.
OnlyOldestLost ==
    \A m \in acked : (\E k \in Kept : k < m) => m \in Kept

\* What the log takes of the disk: there are never more than keepFiles files,
\* and a file outgrows max_size by one message at most, and by the fragments.
FewFiles == Keep \notin exists
FilesBounded == FewFiles /\ \A i \in exists : Len(file[i]) <= MaxSize + 1 + torn

\* While no file was too old and no system call fails, every backup is full,
\* across any number of crashes: no rotation wastes one of the few files.
BackupsFull ==
    ~expired /\ faults = 0 =>
        \A i \in exists \ {0} : Len(file[i]) = MaxSize + 1

\* How much log there is to read: a message is only thrown away while keepFiles - 1
\* full files stay.  A death in a rotation leaves a number free, and the oldest
\* backup is removed all the same, so each death may cost one of them.
Full == {i \in exists : Len(file[i]) = MaxSize + 1}
EnoughLeft ==
    ~expired /\ faults = 0 /\ (\E m \in acked : m \notin Kept) =>
        Cardinality(Full) + restarts >= Keep - 1

\* What the limits promise the reader of the log while nothing fails: the files
\* are used to the full, and so many of them stay.
Retention == BackupsFull /\ EnoughLeft

\* A rotation that fails after it closed the file leaves it closed and not nil,
\* and every later rotation fails at its Close: this process never logs again.
Wedged == current = "closed" /\ pc \in {"idle", "setup", "check", "close", "write"}
WedgedForGood ==
    [][Wedged => /\ UNCHANGED <<disk, acked>>
                 /\ Wedged' \/ restarts' > restarts]_vars

\* A message that is read, from the oldest backup to the file, no later than
\* another one, by their places; and the sequence in which they are all read.
Places(f)    == UNION {{i} \X DOMAIN f[i] : i \in DOMAIN f}
Before(x, y) == x[1] > y[1] \/ (x[1] = y[1] /\ x[2] <= y[2])
Rank(S, x)   == Cardinality({y \in S : Before(y, x)})
InOrder(f)   ==
    [n \in 1 .. Cardinality(Places(f)) |->
        LET x == CHOOSE x \in Places(f) : Rank(Places(f), x) = n IN f[x[1]][x[2]]]

\* The files are one rotated log: messages enter at the end and leave at the
\* front, and a rotation, whole, failed or cut off by a crash, does not change
\* it but for the oldest backup.
Abstract == INSTANCE RotatedLog WITH Messages <- 1 .. MaxMessages, log <- InOrder(file)
IsRotatedLog == Abstract!Spec

=============================================================================

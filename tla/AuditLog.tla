------------------------------ MODULE AuditLog -------------------------------
(***************************************************************************)
(* The audit log, .harness/audit.log, and its rotation (lib/audit.py).     *)
(* audit_append opens the file by name, takes the flock of what it opened, *)
(* and looks at two things: the size of the open file and, through the     *)
(* name, the index of the last row.  If either is at its limit it shifts   *)
(* the rotated files, one rename after another, and opens audit.log anew.  *)
(* The flock belongs to the open file, the renames go by name.             *)
(*                                                                         *)
(* A file is its size in rows of the maximal length and the index of its   *)
(* last row.  The overflow archive of long rows is left out: nothing reads *)
(* it, and it is written just before its row.                              *)
(***************************************************************************)
EXTENDS Naturals, FiniteSets

CONSTANTS
  Proc,         \* processes that append
  File,         \* inode numbers; the lowest that nothing refers to is used next
  None,
  MaxEntries,   \* ROTATION_ENTRIES
  MaxSize,      \* ROTATION_BYTES, in rows of AUDIT_MAX_LINE_BYTES
  Keep          \* ROTATION_KEEP

\* 10 MiB hold more rows of 1024 bytes than the 10000 that close a file.
ASSUME LimitsAssumption ==
  /\ MaxEntries \in Nat \ {0} /\ MaxSize \in Nat /\ MaxEntries < MaxSize
  /\ Keep \in Nat \ {0}
ASSUME FileAssumption == File \subseteq Nat
ASSUME ProcAssumption == IsFiniteSet(Proc)
ASSUME NoneAssumption == None \notin File \cup Proc

VARIABLES
  name,     \* name[0] is the file called audit.log, name[n] is audit.log.n
  size,     \* how many rows a file has
  last,     \* the index of the last row of a file, 0 when it is empty
  flock,    \* the process that has the lock of a file
  pc,       \* where each process is in audit_append
  fd,       \* the file it has opened
  newFd,    \* the file it has opened after rotating
  idx,      \* the index it will give to its row
  slot,     \* the next file name it shifts
  alone     \* history: no other rotation has moved files since p's began

vars == <<name, size, last, flock, pc, fd, newFd, idx, slot, alone>>
fileVars == <<size, last>>

Waiting == {"lock", "relock"}
Labels == {"idle", "exists", "stat", "rotate", "reopen", "append"} \cup Waiting

\* Types.  No index is beyond ROTATION_ENTRIES.
TypeOK ==
  /\ name \in [0 .. Keep -> File \cup {None}]
  /\ size \in [File -> Nat]
  /\ last \in [File -> 0 .. MaxEntries]
  /\ flock \in [File -> Proc \cup {None}]
  /\ pc \in [Proc -> Labels]
  /\ fd \in [Proc -> File \cup {None}]
  /\ newFd \in [Proc -> File \cup {None}]
  /\ idx \in [Proc -> 0 .. MaxEntries]
  /\ slot \in [Proc -> 0 .. Keep]
  /\ alone \in [Proc -> BOOLEAN]

Init ==
  /\ name = [n \in 0 .. Keep |-> None]
  /\ size = [f \in File |-> 0]
  /\ last = [f \in File |-> 0]
  /\ flock = [f \in File |-> None]
  /\ pc = [p \in Proc |-> "idle"]
  /\ fd = [p \in Proc |-> None]
  /\ newFd = [p \in Proc |-> None]
  /\ idx = [p \in Proc |-> 0]
  /\ slot = [p \in Proc |-> 0]
  /\ alone = [p \in Proc |-> TRUE]

Named == {name[n] : n \in 0 .. Keep}
Unused == File \ (Named \cup {fd[p] : p \in Proc} \cup {newFd[p] : p \in Proc})

GoTo(p, there) == pc' = [pc EXCEPT ![p] = there]

\* The files have sz rows and ls as last index; a file that nothing refers to
\* any more is freed.
Contents(sz, ls) ==
  /\ size' = [f \in File |-> IF f \in Unused' THEN 0 ELSE sz[f]]
  /\ last' = [f \in File |-> IF f \in Unused' THEN 0 ELSE ls[f]]

-----------------------------------------------------------------------------
\* _open_append_fd: the file called audit.log, created when there is none.
OpenLog(f) ==
  IF name[0] # None
    THEN f = name[0] /\ UNCHANGED name
    ELSE /\ f \in Unused /\ \A g \in Unused : f <= g
         /\ name' = [name EXCEPT ![0] = f]

Open(p) ==
  /\ pc[p] = "idle"
  /\ \E f \in File : OpenLog(f) /\ fd' = [fd EXCEPT ![p] = f]
  /\ GoTo(p, "lock")
  /\ UNCHANGED <<fileVars, flock, newFd, idx, slot, alone>>

\* Mutant of Lock: no flock.
LockShared(p) ==
  /\ pc[p] = "lock"
  /\ flock' = [flock EXCEPT ![fd[p]] = p]
  /\ GoTo(p, "exists")
  /\ UNCHANGED <<name, fileVars, fd, newFd, idx, slot, alone>>

\* flock(LOCK_EX) on the file that was opened.
Lock(p) ==
  /\ pc[p] = "lock"
  /\ flock[fd[p]] = None
  /\ flock' = [flock EXCEPT ![fd[p]] = p]
  /\ GoTo(p, "exists")
  /\ UNCHANGED <<name, fileVars, fd, newFd, idx, slot, alone>>

\* Mutant of Decide: only the entries are counted.
DecideEntriesOnly(p, l) ==
  IF l >= MaxEntries
    THEN /\ GoTo(p, "rotate")
         /\ slot' = [slot EXCEPT ![p] = Keep]
         /\ alone' = [alone EXCEPT ![p] = TRUE]
         /\ UNCHANGED idx
    ELSE /\ GoTo(p, "append")
         /\ idx' = [idx EXCEPT ![p] = l + 1]
         /\ UNCHANGED <<slot, alone>>

\* The limits are tested against the size of the open file and the last index l.
Decide(p, l) ==
  IF size[fd[p]] >= MaxSize \/ l >= MaxEntries
    THEN /\ GoTo(p, "rotate")
         /\ slot' = [slot EXCEPT ![p] = Keep]
         /\ alone' = [alone EXCEPT ![p] = TRUE]
         /\ UNCHANGED idx
    ELSE /\ GoTo(p, "append")
         /\ idx' = [idx EXCEPT ![p] = l + 1]
         /\ UNCHANGED <<slot, alone>>

\* _read_last_index: a missing audit.log counts as empty.
LookUp(p) ==
  /\ pc[p] = "exists"
  /\ IF name[0] = None
       THEN Decide(p, 0)
       ELSE GoTo(p, "stat") /\ UNCHANGED <<idx, slot, alone>>
  /\ UNCHANGED <<name, fileVars, flock, fd, newFd>>

\* _read_last_index reads the last row of the file called audit.log.  (If it
\* has just been renamed, FileNotFoundError: see Stop.)
ReadLast(p) ==
  /\ pc[p] = "stat"
  /\ name[0] # None
  /\ Decide(p, last[name[0]])
  /\ UNCHANGED <<name, fileVars, flock, fd, newFd>>

\* The others who are rotating learn (in history) that p moved files.
Overtake(p) ==
  alone' = [q \in Proc |-> alone[q] /\ (q = p \/ pc[q] # "rotate")]

\* Mutant of Shift: the shift runs from the youngest file to the oldest.
ShiftUpwards(p) ==
  LET n == Keep - slot[p] IN
  /\ pc[p] = "rotate"
  /\ IF n = Keep THEN name' = [name EXCEPT ![Keep] = None]
     ELSE IF name[n] # None
       THEN name' = [name EXCEPT ![n + 1] = name[n], ![n] = None]
       ELSE n # 0 /\ UNCHANGED name
  /\ IF slot[p] = 0 THEN GoTo(p, "reopen") /\ UNCHANGED slot
     ELSE slot' = [slot EXCEPT ![p] = @ - 1] /\ UNCHANGED pc
  /\ Overtake(p)
  /\ UNCHANGED <<flock, fd, newFd, idx>>
  /\ Contents(size, last)

\* Mutant of Shift: audit.log itself stays where it is.
ShiftOthersOnly(p) ==
  LET n == slot[p] IN
  /\ pc[p] = "rotate"
  /\ IF n = Keep THEN name' = [name EXCEPT ![Keep] = None]
     ELSE IF name[n] # None /\ n # 0
       THEN name' = [name EXCEPT ![n + 1] = name[n], ![n] = None]
       ELSE UNCHANGED name
  /\ IF n = 0 THEN GoTo(p, "reopen") /\ UNCHANGED slot
     ELSE slot' = [slot EXCEPT ![p] = n - 1] /\ UNCHANGED pc
  /\ Overtake(p)
  /\ UNCHANGED <<flock, fd, newFd, idx>>
  /\ Contents(size, last)

\* _rotate, one system call at a time: unlink the oldest file, rename each
\* file to the next number, and at last audit.log to audit.log.1.  Only the
\* last one must exist, or FileNotFoundError.
Shift(p) ==
  LET n == slot[p] IN
  /\ pc[p] = "rotate"
  /\ IF n = Keep THEN name' = [name EXCEPT ![Keep] = None]
     ELSE IF name[n] # None
       THEN name' = [name EXCEPT ![n + 1] = name[n], ![n] = None]
       ELSE n # 0 /\ UNCHANGED name
  /\ IF n = 0 THEN GoTo(p, "reopen") /\ UNCHANGED slot
     ELSE slot' = [slot EXCEPT ![p] = n - 1] /\ UNCHANGED pc
  /\ Overtake(p)
  /\ UNCHANGED <<flock, fd, newFd, idx>>
  /\ Contents(size, last)

\* audit.log is opened again, with the old file still locked.
Reopen(p) ==
  /\ pc[p] = "reopen"
  /\ \E f \in File : OpenLog(f) /\ newFd' = [newFd EXCEPT ![p] = f]
  /\ GoTo(p, "relock")
  /\ UNCHANGED <<fileVars, flock, fd, idx, slot, alone>>

\* The new file is locked, then the old one is unlocked and closed; the row
\* gets index 1, whatever is in the file by now.
Relock(p) ==
  /\ pc[p] = "relock"
  /\ flock[newFd[p]] = None
  /\ flock' = [flock EXCEPT ![newFd[p]] = p, ![fd[p]] = None]
  /\ fd' = [fd EXCEPT ![p] = newFd[p]]
  /\ newFd' = [newFd EXCEPT ![p] = None]
  /\ idx' = [idx EXCEPT ![p] = 1]
  /\ GoTo(p, "append")
  /\ UNCHANGED <<name, slot, alone>>
  /\ Contents(size, last)

\* Unlock and close, by the finally block or by the kernel.
Close(p) ==
  /\ flock' = [f \in File |-> IF flock[f] = p THEN None ELSE flock[f]]
  /\ fd' = [fd EXCEPT ![p] = None]
  /\ newFd' = [newFd EXCEPT ![p] = None]
  /\ idx' = [idx EXCEPT ![p] = 0]
  /\ slot' = [slot EXCEPT ![p] = 0]
  /\ alone' = [alone EXCEPT ![p] = TRUE]
  /\ GoTo(p, "idle")

\* The row is written and synced, and the file is closed.
Append(p) ==
  /\ pc[p] = "append"
  /\ UNCHANGED name
  /\ Close(p)
  /\ Contents([size EXCEPT ![fd[p]] = @ + 1], [last EXCEPT ![fd[p]] = idx[p]])

\* A system call raises OSError (a file that has just been renamed among
\* them), or the process is killed.
Stop(p) ==
  /\ pc[p] # "idle"
  /\ UNCHANGED name
  /\ Close(p)
  /\ Contents(size, last)

Step(p) ==
  \/ Lock(p) \/ LookUp(p) \/ ReadLast(p) \/ Shift(p) \/ Reopen(p) \/ Relock(p)
  \/ Append(p)

Next == \E p \in Proc : Open(p) \/ Step(p) \/ Stop(p)

Spec == Init /\ [][Next]_vars

-----------------------------------------------------------------------------
(* Properties.                                                             *)

\* p waits for the lock that q has.
WaitsFor(p, q) ==
  \/ pc[p] = "lock" /\ flock[fd[p]] = q
  \/ pc[p] = "relock" /\ flock[newFd[p]] = q

\* A rotator holds the lock of one file while it waits for that of another:
\* there is never a set of processes each of which waits for one of the others
\* or for itself, whatever was renamed in between.
NoDeadlyEmbrace ==
  \A S \in (SUBSET Proc) \ {{}} : \E p \in S : \A q \in S : ~WaitsFor(p, q)

\* A file does not grow without limit, although a writer tests the size of the
\* file it opened and the index of another one, and a rotator tests nothing:
\* beyond the limit it gets at most one row from each other process.
LogBounded == \A f \in File : size[f] < MaxSize + Cardinality(Proc)

\* The flock makes counting atomic: in the file that is audit.log, the next row
\* has the next index, or is the first one of a rotator.
RowsCount ==
  [][\A p \in Proc : Append(p) /\ fd[p] = name[0] /\ idx[p] # 1
       => idx[p] = last[fd[p]] + 1]_vars

\* A file is deleted only as the oldest one, and is not overwritten by a rename,
\* except by a process that was overtaken by another rotation.
OnlyOldestDropped ==
  [][\A f \in Named \ {None} :
       f \notin {name'[n] : n \in 0 .. Keep} =>
         \/ f = name[Keep] /\ name'[Keep] = None
         \/ \E p \in Proc : Shift(p) /\ ~alone[p]]_vars
=============================================================================

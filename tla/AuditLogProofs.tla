--------------------------- MODULE AuditLogProofs ----------------------------
(***************************************************************************)
(* The audit log, for any number of processes, any limits and any number   *)
(* of rotated files.                                                       *)
(*                                                                         *)
(* The argument.  A file that has been renamed away from audit.log never   *)
(* becomes audit.log again while somebody has it open.  So whoever waits   *)
(* for the new audit.log with an old file locked waits for somebody who    *)
(* does not wait yet, and the waits never close a circle.  And a process   *)
(* that appends without a test opened the file while it was audit.log,     *)
(* with an older one locked: to append to it again it would have to rotate *)
(* it away first, so it does so once.                                      *)
(***************************************************************************)
EXTENDS AuditLog, FiniteSetTheorems, TLAPS

\* Who is past its lock, and who has rotated.
Holding == Labels \ {"idle", "lock"}
Rotated == {"reopen", "relock"}

\* Files are open, and locks held, at the labels the code says.
Handles ==
  \A p \in Proc :
    /\ fd[p] = None <=> pc[p] = "idle"
    /\ newFd[p] = None <=> pc[p] # "relock"
    /\ pc[p] \in Holding => flock[fd[p]] = p

\* The kernel's side of it: a lock belongs to a process that has the file open.
LockOwners ==
  \A f \in File : flock[f] # None => fd[flock[f]] = f /\ pc[flock[f]] \in Holding

\* What nothing refers to is empty.
UnusedEmpty == \A f \in Unused : size[f] = 0 /\ last[f] = 0

\* The old file of a process that has rotated is not audit.log again.
RotatedAway == \A p \in Proc : pc[p] \in Rotated => fd[p] # name[0]

\* Those who may append to f without testing its size.
Coming(f) == {p \in Proc : \/ pc[p] = "reopen" /\ name[0] = f
                           \/ pc[p] = "relock" /\ newFd[p] = f
                           \/ pc[p] = "append" /\ fd[p] = f}

\* A file beyond the limit has room for all who are coming.
RoomLeft ==
  \A f \in File : size[f] >= MaxSize =>
                    size[f] + Cardinality(Coming(f)) < MaxSize + Cardinality(Proc)

\* The index of a row was computed from the last row of audit.log, unless it is 1.
IndexFits ==
  \A p \in Proc : pc[p] = "append" /\ fd[p] = name[0] /\ idx[p] # 1
                    => idx[p] = last[fd[p]] + 1

\* A rotator nobody has overtaken renames into a free name.
NextIsFree ==
  \A p \in Proc : pc[p] = "rotate" /\ alone[p] /\ slot[p] < Keep => name[slot[p] + 1] = None

LogInv ==
  /\ TypeOK /\ Handles /\ LockOwners /\ UnusedEmpty /\ RotatedAway
  /\ RoomLeft /\ IndexFits /\ NextIsFree /\ NoDeadlyEmbrace

-----------------------------------------------------------------------------
\* Fewer processes are coming than there are processes, and not more than before.
LEMMA Fewer ==
  ASSUME NEW S, NEW T, S \subseteq T, T \subseteq Proc
  PROVE  /\ Cardinality(S) \in Nat /\ Cardinality(T) \in Nat
         /\ Cardinality(S) <= Cardinality(T)
<1>1. IsFiniteSet(T) /\ IsFiniteSet(S)
  BY ProcAssumption, FS_Subset
<1> QED
  BY <1>1, FS_Subset, FS_CardinalityType

\* One process less is a smaller number.
LEMMA OneFewer ==
  ASSUME NEW T, T \subseteq Proc, NEW p \in T
  PROVE  Cardinality(T \ {p}) = Cardinality(T) - 1
<1>1. IsFiniteSet(T)
  BY ProcAssumption, FS_Subset
<1> QED
  BY <1>1, FS_RemoveElement

\* Contents keeps what is open, and frees the rest.
LEMMA ContentsKept ==
  ASSUME NEW sz \in [File -> Nat], NEW ls \in [File -> 0 .. MaxEntries], Contents(sz, ls)
  PROVE  /\ size' \in [File -> Nat] /\ last' \in [File -> 0 .. MaxEntries]
         /\ UnusedEmpty'
         /\ \A f \in File : size'[f] = sz[f] \/ size'[f] = 0
         /\ \A f \in File : \A p \in Proc : fd'[p] = f => size'[f] = sz[f] /\ last'[f] = ls[f]
  BY LimitsAssumption DEF Contents, UnusedEmpty, Unused

\* Room is left when no file has grown and nobody new is coming to a full one.
LEMMA RoomStays ==
  ASSUME TypeOK, RoomLeft, size' \in [File -> Nat],
         \A f \in File : size'[f] >= MaxSize => size'[f] = size[f] /\ Coming(f)' \subseteq Coming(f)
  PROVE  RoomLeft'
<1> SUFFICES ASSUME NEW f \in File, size'[f] >= MaxSize
             PROVE  size'[f] + Cardinality(Coming(f)') < MaxSize + Cardinality(Proc)
  BY DEF RoomLeft
<1>1. size[f] + Cardinality(Coming(f)) < MaxSize + Cardinality(Proc)
  BY DEF RoomLeft
<1>2. Coming(f)' \subseteq Coming(f) /\ Coming(f) \subseteq Proc
  BY DEF Coming
<1>3. /\ Cardinality(Coming(f)') \in Nat /\ Cardinality(Coming(f)) \in Nat
      /\ Cardinality(Coming(f)') <= Cardinality(Coming(f))
  BY <1>2, Fewer
<1>4. Cardinality(Proc) \in Nat /\ MaxSize \in Nat /\ size[f] \in Nat
  BY Fewer, LimitsAssumption DEF TypeOK
<1> QED
  BY <1>1, <1>3, <1>4

\* Nobody begins to wait for somebody who waits: p does not wait after its step,
\* or waits for a file whose holder does not wait.
LEMMA NoNewEmbrace ==
  ASSUME TypeOK, NoDeadlyEmbrace, NEW p \in Proc,
         \A q \in Proc \ {p} : \A r \in Proc \ {p} : WaitsFor(q, r)' => WaitsFor(q, r),
         \A q \in Proc : WaitsFor(p, q)' => \A r \in Proc : ~WaitsFor(q, r)'
  PROVE  NoDeadlyEmbrace'
<1> SUFFICES ASSUME NEW S \in (SUBSET Proc) \ {{}}
             PROVE  \E q \in S : \A r \in S : ~WaitsFor(q, r)'
  BY DEF NoDeadlyEmbrace
<1>1. CASE p \notin S
  <2>1. PICK q \in S : \A r \in S : ~WaitsFor(q, r)
    BY DEF NoDeadlyEmbrace
  <2> QED
    BY <1>1, <2>1
<1>2. CASE p \in S
  BY <1>2
<1> QED
  BY <1>1, <1>2

-----------------------------------------------------------------------------
\* The file opened as audit.log: it was that already, or it is a new one.
LEMMA Opened ==
  ASSUME TypeOK, NEW f \in File, OpenLog(f)
  PROVE  /\ name' \in [0 .. Keep -> File \cup {None}]
         /\ name'[0] = f
         /\ \A n \in 1 .. Keep : name'[n] = name[n]
         /\ name[0] = f \/ (name[0] = None /\ f \in Unused)
  BY LimitsAssumption DEF OpenLog, TypeOK

\* Open.
LEMMA OpenStep ==
  ASSUME LogInv, NEW p \in Proc, Open(p)
  PROVE  LogInv'
<1> USE DEF LogInv
<1>1. PICK f \in File : OpenLog(f) /\ fd' = [fd EXCEPT ![p] = f]
  BY DEF Open
<1>2. /\ name' \in [0 .. Keep -> File \cup {None}] /\ name'[0] = f
      /\ \A n \in 1 .. Keep : name'[n] = name[n]
      /\ name[0] = f \/ (name[0] = None /\ f \in Unused)
  BY <1>1, Opened
<1>3. /\ pc[p] = "idle" /\ pc' = [pc EXCEPT ![p] = "lock"]
      /\ UNCHANGED <<size, last, flock, newFd, idx, slot, alone>>
  BY DEF Open, GoTo, fileVars
<1>4. Unused' \subseteq Unused
  <2> SUFFICES ASSUME NEW g \in File, g \notin Unused PROVE g \notin Unused'
    BY DEF Unused
  <2>1. CASE \E n \in 0 .. Keep : g = name[n]
    BY <2>1, <1>2, NoneAssumption DEF Unused, Named
  <2>2. CASE \E q \in Proc : g = fd[q] \/ g = newFd[q]
    BY <2>2, <1>1, <1>3, NoneAssumption DEF Unused, Handles, TypeOK
  <2> QED
    BY <2>1, <2>2 DEF Unused, Named
<1>5. \A q \in Proc : name[0] = None => fd[q] # f /\ newFd[q] # f
  BY <1>2, NoneAssumption DEF Unused
<1>6. TypeOK'
  BY <1>1, <1>2, <1>3 DEF TypeOK, Labels, Waiting
<1>7. Handles'
  BY <1>1, <1>3, NoneAssumption DEF Handles, TypeOK, Holding
<1>8. LockOwners'
  BY <1>1, <1>3 DEF LockOwners, TypeOK, Holding
<1>9. UnusedEmpty'
  BY <1>3, <1>4 DEF UnusedEmpty, Unused
<1>10. RotatedAway'
  BY <1>1, <1>2, <1>3, <1>5, NoneAssumption DEF RotatedAway, Rotated, Handles, TypeOK
<1>11. RoomLeft'
  <2>1. \A g \in File : size[g] >= MaxSize => Coming(g)' \subseteq Coming(g)
    <3> SUFFICES ASSUME NEW g \in File, size[g] >= MaxSize, NEW q \in Proc, q \in Coming(g)'
                 PROVE  q \in Coming(g)
      BY DEF Coming
    <3>1. g # f \/ name[0] = f
      BY <1>2, LimitsAssumption DEF UnusedEmpty
    <3> QED
      BY <3>1, <1>1, <1>2, <1>3 DEF Coming, TypeOK
  <2> QED
    BY <2>1, <1>3, RoomStays DEF TypeOK
<1>12. IndexFits'
  BY <1>1, <1>2, <1>3, <1>5 DEF IndexFits, TypeOK
<1>13. NextIsFree'
  <2> SUFFICES ASSUME NEW q \in Proc, pc'[q] = "rotate", alone'[q], slot'[q] < Keep
               PROVE  name'[slot'[q] + 1] = None
    BY DEF NextIsFree
  <2>1. pc[q] = "rotate" /\ alone[q] /\ slot[q] < Keep
    BY <1>3 DEF TypeOK
  <2>2. slot[q] + 1 \in 1 .. Keep
    BY <2>1, LimitsAssumption DEF TypeOK
  <2> QED
    BY <2>1, <2>2, <1>2, <1>3 DEF NextIsFree
<1>14. NoDeadlyEmbrace'
  <2>1. ASSUME NEW q \in Proc, WaitsFor(p, q)' PROVE \A r \in Proc : ~WaitsFor(q, r)'
    <3>1. flock[f] = q /\ f = name'[0]
      BY <2>1, <1>1, <1>2, <1>3 DEF WaitsFor, TypeOK
    <3>2. fd[q] = f /\ pc[q] \in Holding
      BY <3>1, NoneAssumption DEF LockOwners
    <3>3. q # p
      BY <3>2, <1>3 DEF Holding
    <3>4. pc[q] \notin Waiting
      BY <3>2, <1>2, <1>5 DEF RotatedAway, Rotated, Waiting, Holding
    <3> QED
      BY <3>3, <3>4, <1>3 DEF WaitsFor, Waiting, TypeOK
  <2>2. \A q \in Proc \ {p} : \A r \in Proc : WaitsFor(q, r)' => WaitsFor(q, r)
    BY <1>1, <1>3 DEF WaitsFor, TypeOK
  <2> QED
    BY <2>1, <2>2, NoNewEmbrace
<1> QED
  BY <1>6, <1>7, <1>8, <1>9, <1>10, <1>11, <1>12, <1>13, <1>14

\* Lock.
LEMMA LockStep ==
  ASSUME LogInv, NEW p \in Proc, Lock(p)
  PROVE  LogInv'
<1> USE DEF LogInv
<1>1. /\ pc[p] = "lock" /\ pc' = [pc EXCEPT ![p] = "exists"]
      /\ fd[p] \in File /\ flock[fd[p]] = None /\ flock' = [flock EXCEPT ![fd[p]] = p]
      /\ UNCHANGED <<name, size, last, fd, newFd, idx, slot, alone>>
  BY DEF Lock, GoTo, fileVars, Handles, TypeOK
<1>2. TypeOK'
  BY <1>1 DEF TypeOK, Labels
<1>3. Handles'
  BY <1>1, NoneAssumption DEF Handles, TypeOK, Holding, Labels, Waiting
<1>4. LockOwners'
  BY <1>1, NoneAssumption DEF LockOwners, TypeOK, Holding, Labels, Waiting
<1>5. UnusedEmpty'
  BY <1>1 DEF UnusedEmpty, Unused, Named
<1>8. RotatedAway' /\ IndexFits' /\ NextIsFree'
  <2>1. \A q \in Proc : pc'[q] # "exists" => pc'[q] = pc[q]
    BY <1>1 DEF TypeOK
  <2> QED
    BY <1>1, <2>1 DEF RotatedAway, Rotated, IndexFits, NextIsFree
<1>6. RoomLeft'
  <2>1. \A f \in File : Coming(f)' \subseteq Coming(f)
    BY <1>1 DEF Coming, TypeOK
  <2> QED
    BY <2>1, <1>1, RoomStays DEF TypeOK
<1>7. NoDeadlyEmbrace'
  <2>1. \A q \in Proc : ~WaitsFor(p, q)'
    BY <1>1 DEF WaitsFor, TypeOK
  <2>2. \A q, r \in Proc \ {p} : WaitsFor(q, r)' => WaitsFor(q, r)
    BY <1>1 DEF WaitsFor, TypeOK
  <2> QED
    BY <2>1, <2>2, NoNewEmbrace
<1> QED
  BY <1>2, <1>3, <1>4, <1>5, <1>6, <1>7, <1>8

\* The decision to rotate or to append, from the last index l of audit.log.
LEMMA DecideStep ==
  ASSUME LogInv, NEW p \in Proc, pc[p] \in {"exists", "stat"},
         NEW l \in 0 .. MaxEntries, Decide(p, l), l = 0 \/ (name[0] # None /\ l = last[name[0]]),
         UNCHANGED <<name, fileVars, flock, fd, newFd>>
  PROVE  LogInv'
<1> USE DEF LogInv
<1>1. UNCHANGED <<name, size, last, flock, fd, newFd>>
  BY DEF fileVars
<1>2. \/ /\ pc' = [pc EXCEPT ![p] = "rotate"]
         /\ slot' = [slot EXCEPT ![p] = Keep] /\ alone' = [alone EXCEPT ![p] = TRUE]
         /\ UNCHANGED idx
      \/ /\ size[fd[p]] < MaxSize /\ l < MaxEntries
         /\ pc' = [pc EXCEPT ![p] = "append"]
         /\ idx' = [idx EXCEPT ![p] = l + 1]
         /\ UNCHANGED <<slot, alone>>
  <2>1. fd[p] \in File
    BY DEF Handles, TypeOK
  <2> QED
    BY <2>1, LimitsAssumption DEF Decide, GoTo, TypeOK
<1>3. pc' = [pc EXCEPT ![p] = pc'[p]] /\ pc'[p] \in {"rotate", "append"}
  BY <1>2 DEF TypeOK
<1>4. TypeOK'
  <2>1. pc' \in [Proc -> Labels]
    BY <1>3 DEF TypeOK, Labels
  <2>2. idx' \in [Proc -> 0 .. MaxEntries]
    BY <1>2, LimitsAssumption DEF TypeOK
  <2>3. slot' \in [Proc -> 0 .. Keep]
    <3>1. Keep \in 0 .. Keep
      BY LimitsAssumption
    <3> QED
      BY <1>2, <3>1 DEF TypeOK
  <2>4. alone' \in [Proc -> BOOLEAN]
    BY <1>2 DEF TypeOK
  <2> QED
    BY <1>1, <2>1, <2>2, <2>3, <2>4 DEF TypeOK
<1>5. Handles' /\ LockOwners'
  <2>1. Handles'
    BY <1>1, <1>3 DEF Handles, TypeOK, Holding, Labels, Waiting
  <2>2. LockOwners'
    <3>1. \A q \in Proc : pc[q] \in Holding => pc'[q] \in Holding
      BY <1>3 DEF TypeOK, Holding, Labels, Waiting
    <3>2. \A f \in File : flock[f] # None => flock[f] \in Proc
      BY DEF TypeOK
    <3> QED
      BY <1>1, <3>1, <3>2 DEF LockOwners
  <2> QED
    BY <2>1, <2>2
<1>6. UnusedEmpty' /\ RotatedAway'
  <2>1. UnusedEmpty'
    BY <1>1 DEF UnusedEmpty, Unused, Named
  <2>2. RotatedAway'
    BY <1>1, <1>3 DEF RotatedAway, Rotated, TypeOK
  <2> QED
    BY <2>1, <2>2
<1>7. IndexFits'
  <2> SUFFICES ASSUME NEW q \in Proc, pc'[q] = "append", fd[q] = name[0], idx'[q] # 1
               PROVE  idx'[q] = last[fd[q]] + 1
    BY <1>1 DEF IndexFits
  <2>1. CASE q = p
    BY <2>1, <1>2 DEF TypeOK
  <2>2. CASE q # p
    <3>1. pc[q] = "append" /\ idx[q] = idx'[q]
      BY <2>2, <1>2 DEF TypeOK
    <3> QED
      BY <3>1 DEF IndexFits
  <2> QED
    BY <2>1, <2>2
<1>8. NextIsFree'
  BY <1>1, <1>2, LimitsAssumption DEF NextIsFree, TypeOK
<1>9. RoomLeft'
  <2>1. \A f \in File : size[f] >= MaxSize => Coming(f)' \subseteq Coming(f)
    BY <1>1, <1>2, LimitsAssumption DEF Coming, TypeOK
  <2> QED
    BY <2>1, <1>1, RoomStays DEF TypeOK
<1>10. NoDeadlyEmbrace'
  <2>1. \A q \in Proc : ~WaitsFor(p, q)'
    BY <1>3 DEF WaitsFor, TypeOK
  <2>2. \A q, r \in Proc \ {p} : WaitsFor(q, r)' => WaitsFor(q, r)
    BY <1>1, <1>3 DEF WaitsFor, TypeOK
  <2> QED
    BY <2>1, <2>2, NoNewEmbrace
<1> QED
  BY <1>4, <1>5, <1>6, <1>7, <1>8, <1>9, <1>10

\* LookUp and ReadLast.
LEMMA LookStep ==
  ASSUME LogInv, NEW p \in Proc, LookUp(p) \/ ReadLast(p)
  PROVE  LogInv'
<1>1. CASE LookUp(p) /\ name[0] = None
  BY <1>1, DecideStep, LimitsAssumption DEF LookUp
<1>2. CASE LookUp(p) /\ name[0] # None
  <2> USE <1>2 DEF LogInv
  <2>1. /\ pc[p] = "exists" /\ pc' = [pc EXCEPT ![p] = "stat"]
        /\ UNCHANGED <<name, size, last, flock, fd, newFd, idx, slot, alone>>
    BY DEF LookUp, GoTo, fileVars
  <2>2. TypeOK' /\ Handles' /\ LockOwners'
    <3>1. TypeOK'
      BY <2>1 DEF TypeOK, Labels
    <3>2. Handles'
      BY <2>1 DEF Handles, TypeOK, Holding, Labels, Waiting
    <3>3. LockOwners'
      BY <2>1, NoneAssumption DEF LockOwners, TypeOK, Holding, Labels, Waiting
    <3> QED
      BY <3>1, <3>2, <3>3
  <2>5. UnusedEmpty'
    BY <2>1 DEF UnusedEmpty, Unused, Named
  <2>6. RotatedAway' /\ IndexFits' /\ NextIsFree'
    <3>1. \A q \in Proc : pc'[q] # "stat" => pc'[q] = pc[q]
      BY <2>1 DEF TypeOK
    <3> QED
      BY <2>1, <3>1 DEF RotatedAway, Rotated, IndexFits, NextIsFree
  <2>3. RoomLeft'
    <3>1. \A f \in File : Coming(f)' \subseteq Coming(f)
      BY <2>1 DEF Coming, TypeOK
    <3> QED
      BY <3>1, <2>1, RoomStays DEF TypeOK
  <2>4. NoDeadlyEmbrace'
    <3>1. \A q \in Proc : ~WaitsFor(p, q)'
      BY <2>1 DEF WaitsFor, TypeOK
    <3>2. \A q, r \in Proc \ {p} : WaitsFor(q, r)' => WaitsFor(q, r)
      BY <2>1 DEF WaitsFor, TypeOK
    <3> QED
      BY <3>1, <3>2, NoNewEmbrace
  <2> QED
    BY <2>2, <2>3, <2>4, <2>5, <2>6
<1>3. CASE ReadLast(p)
  <2>1. last[name[0]] \in 0 .. MaxEntries
    BY <1>3, LimitsAssumption DEF ReadLast, LogInv, TypeOK
  <2> QED
    BY <1>3, <2>1, DecideStep DEF ReadLast
<1> QED
  BY <1>1, <1>2, <1>3

\* One step of the rotation.
LEMMA ShiftStep ==
  ASSUME LogInv, NEW p \in Proc, Shift(p)
  PROVE  LogInv'
<1> USE DEF LogInv
<1> DEFINE n == slot[p]
<1>1. /\ pc[p] = "rotate" /\ n \in 0 .. Keep /\ 0 \in 0 .. Keep /\ Keep # 0
      /\ fd[p] \in File /\ fd[p] # None
      /\ UNCHANGED <<flock, fd, newFd, idx>>
  BY LimitsAssumption DEF Shift, TypeOK, Handles
<1>2. /\ size' \in [File -> Nat] /\ last' \in [File -> 0 .. MaxEntries]
      /\ UnusedEmpty'
      /\ \A f \in File : size'[f] = size[f] \/ size'[f] = 0
      /\ \A f \in File : \A q \in Proc : fd'[q] = f => last'[f] = last[f]
  BY ContentsKept DEF Shift, TypeOK
<1>3. /\ name' \in [0 .. Keep -> File \cup {None}]
      /\ n = 0 => name'[0] = None
      /\ n # 0 => name'[0] = name[0]
      /\ name'[n] = None
      /\ n # Keep => \A m \in 0 .. Keep \ {n, n + 1} : name'[m] = name[m]
  <2>1. CASE n = Keep
    BY <2>1, <1>1 DEF Shift, TypeOK
  <2>2. CASE n # Keep
    <3>1. n + 1 \in 0 .. Keep /\ n + 1 # n /\ n + 1 # 0
      BY <2>2, <1>1, LimitsAssumption
    <3>2. \/ name[n] # None /\ name' = [name EXCEPT ![n + 1] = name[n], ![n] = None]
          \/ name[n] = None /\ n # 0 /\ name' = name
      BY <2>2, <3>1 DEF Shift
    <3>3. CASE name[n] # None /\ name' = [name EXCEPT ![n + 1] = name[n], ![n] = None]
      BY <3>1, <3>3, <1>1 DEF TypeOK
    <3>4. CASE name[n] = None /\ n # 0 /\ name' = name
      BY <3>1, <3>4, <1>1 DEF TypeOK
    <3> QED
      BY <3>2, <3>3, <3>4
  <2> QED
    BY <2>1, <2>2
<1>4. \/ n = 0 /\ pc' = [pc EXCEPT ![p] = "reopen"] /\ slot' = slot
      \/ n # 0 /\ slot' = [slot EXCEPT ![p] = n - 1] /\ pc' = pc
  BY DEF Shift, GoTo
<1>5. /\ alone' \in [Proc -> BOOLEAN]
      /\ \A q \in Proc : alone'[q] => alone[q] /\ (q = p \/ pc[q] # "rotate")
  BY DEF Shift, Overtake, TypeOK
<1>6. /\ pc'[p] \in {"rotate", "reopen"}
      /\ pc'[p] = "reopen" => name'[0] = None
      /\ \A q \in Proc \ {p} : pc'[q] = pc[q] /\ slot'[q] = slot[q]
      /\ pc' \in [Proc -> Labels]
  BY <1>1, <1>3, <1>4 DEF TypeOK, Labels
<1> HIDE DEF n
<1>7. TypeOK'
  <2>1. slot' \in [Proc -> 0 .. Keep]
    <3>1. n # 0 => n - 1 \in 0 .. Keep
      BY <1>1, LimitsAssumption
    <3> QED
      BY <1>4, <3>1 DEF TypeOK
  <2> QED
    BY <1>1, <1>2, <1>3, <1>5, <1>6, <2>1 DEF TypeOK
<1>8. Handles'
  BY <1>1, <1>6 DEF Handles, TypeOK, Holding, Labels, Waiting
<1>9. LockOwners'
  <2>1. \A q \in Proc : pc[q] \in Holding => pc'[q] \in Holding
    BY <1>6 DEF TypeOK, Holding, Labels, Waiting
  <2>2. \A f \in File : flock[f] # None => flock[f] \in Proc
    BY DEF TypeOK
  <2> QED
    BY <1>1, <2>1, <2>2 DEF LockOwners
<1>10. RotatedAway'
  <2>1. name'[0] \in {name[0], None} /\ \A q \in Proc : pc[q] \in Rotated => fd[q] # None
    BY <1>3, <1>1 DEF Handles, Rotated
  <2> QED
    BY <1>1, <1>6, <2>1 DEF RotatedAway, Rotated
<1>11. RoomLeft'
  <2>1. \A f \in File : Coming(f)' \subseteq Coming(f)
    BY <1>1, <1>3, <1>6, NoneAssumption DEF Coming
  <2> QED
    BY <2>1, <1>2, RoomStays, LimitsAssumption DEF TypeOK
<1>12. IndexFits'
  <2> SUFFICES ASSUME NEW q \in Proc, pc'[q] = "append", fd[q] = name'[0], idx[q] # 1
               PROVE  idx[q] = last'[fd[q]] + 1
    BY <1>1 DEF IndexFits
  <2>1. pc[q] = "append" /\ fd[q] \in File /\ fd[q] # None
    BY <1>6, NoneAssumption DEF Handles, TypeOK
  <2>2. fd[q] = name[0]
    BY <1>3, <2>1
  <2> QED
    BY <1>1, <1>2, <2>1, <2>2 DEF IndexFits
<1>13. NextIsFree'
  <2> SUFFICES ASSUME NEW q \in Proc, pc'[q] = "rotate", alone'[q], slot'[q] < Keep
               PROVE  name'[slot'[q] + 1] = None
    BY DEF NextIsFree
  <2>1. q = p
    BY <1>5, <1>6
  <2>2. slot'[q] = n - 1
    BY <2>1, <1>4, <1>6 DEF TypeOK
  <2> QED
    BY <2>2, <1>1, <1>3
<1>14. NoDeadlyEmbrace'
  <2>1. \A q \in Proc : ~WaitsFor(p, q)'
    BY <1>6 DEF WaitsFor
  <2>2. \A q, r \in Proc \ {p} : WaitsFor(q, r)' => WaitsFor(q, r)
    BY <1>1, <1>6 DEF WaitsFor
  <2> QED
    BY <2>1, <2>2, NoNewEmbrace
<1> QED
  BY <1>2, <1>7, <1>8, <1>9, <1>10, <1>11, <1>12, <1>13, <1>14

\* Reopen: the rotator begins to wait for the new audit.log.
LEMMA ReopenStep ==
  ASSUME LogInv, NEW p \in Proc, Reopen(p)
  PROVE  LogInv'
<1> USE DEF LogInv
<1>1. PICK f \in File : OpenLog(f) /\ newFd' = [newFd EXCEPT ![p] = f]
  BY DEF Reopen
<1>2. /\ name' \in [0 .. Keep -> File \cup {None}] /\ name'[0] = f
      /\ \A n \in 1 .. Keep : name'[n] = name[n]
      /\ name[0] = f \/ (name[0] = None /\ f \in Unused)
  BY <1>1, Opened
<1>3. /\ pc[p] = "reopen" /\ pc' = [pc EXCEPT ![p] = "relock"] /\ newFd[p] = None
      /\ UNCHANGED <<size, last, flock, fd, idx, slot, alone>>
  BY DEF Reopen, GoTo, fileVars, Handles
<1>4. Unused' \subseteq Unused
  <2> SUFFICES ASSUME NEW g \in File, g \notin Unused PROVE g \notin Unused'
    BY DEF Unused
  <2>1. CASE \E n \in 0 .. Keep : g = name[n]
    BY <2>1, <1>2, NoneAssumption DEF Unused, Named
  <2>2. CASE \E q \in Proc : g = fd[q] \/ g = newFd[q]
    BY <2>2, <1>1, <1>3, NoneAssumption DEF Unused, TypeOK
  <2> QED
    BY <2>1, <2>2 DEF Unused, Named
<1>5. \A q \in Proc : name[0] = None => fd[q] # f
  BY <1>2, NoneAssumption DEF Unused
<1>6. \A q \in Proc : pc[q] \in Rotated => fd[q] # f
  BY <1>2, <1>5 DEF RotatedAway
<1>7. TypeOK'
  BY <1>1, <1>2, <1>3 DEF TypeOK, Labels, Waiting
<1>8. Handles' /\ LockOwners'
  <2>1. Handles'
    BY <1>1, <1>3, NoneAssumption DEF Handles, TypeOK, Holding, Labels, Waiting
  <2>2. LockOwners'
    BY <1>3 DEF LockOwners, TypeOK, Holding, Labels, Waiting
  <2> QED
    BY <2>1, <2>2
<1>9. UnusedEmpty'
  BY <1>3, <1>4 DEF UnusedEmpty, Unused
<1>10. RotatedAway'
  BY <1>2, <1>3, <1>6 DEF RotatedAway, Rotated, TypeOK
<1>11. RoomLeft'
  <2>1. \A g \in File : size[g] >= MaxSize => Coming(g)' \subseteq Coming(g)
    <3> SUFFICES ASSUME NEW g \in File, size[g] >= MaxSize, NEW q \in Proc, q \in Coming(g)'
                 PROVE  q \in Coming(g)
      BY DEF Coming
    <3>1. g # f \/ name[0] = f
      BY <1>2, LimitsAssumption DEF UnusedEmpty
    <3> QED
      BY <3>1, <1>1, <1>2, <1>3 DEF Coming, TypeOK
  <2> QED
    BY <2>1, <1>3, RoomStays DEF TypeOK
<1>12. IndexFits'
  BY <1>2, <1>3, <1>5 DEF IndexFits, TypeOK
<1>13. NextIsFree'
  <2> SUFFICES ASSUME NEW q \in Proc, pc'[q] = "rotate", alone'[q], slot'[q] < Keep
               PROVE  name'[slot'[q] + 1] = None
    BY DEF NextIsFree
  <2>1. pc[q] = "rotate" /\ alone[q] /\ slot[q] < Keep
    BY <1>3 DEF TypeOK
  <2>2. slot[q] + 1 \in 1 .. Keep
    BY <2>1, LimitsAssumption DEF TypeOK
  <2> QED
    BY <2>1, <2>2, <1>2, <1>3 DEF NextIsFree
<1>14. NoDeadlyEmbrace'
  <2>1. ASSUME NEW q \in Proc, WaitsFor(p, q)' PROVE \A r \in Proc : ~WaitsFor(q, r)'
    <3>1. flock[f] = q
      BY <2>1, <1>1, <1>3 DEF WaitsFor, TypeOK
    <3>2. fd[q] = f /\ pc[q] \in Holding
      BY <3>1, NoneAssumption DEF LockOwners
    <3>3. q # p /\ pc[q] \notin Waiting
      BY <3>2, <1>3, <1>6 DEF Rotated, Waiting, Holding
    <3> QED
      BY <3>3, <1>3 DEF WaitsFor, Waiting, TypeOK
  <2>2. \A q \in Proc \ {p} : \A r \in Proc : WaitsFor(q, r)' => WaitsFor(q, r)
    BY <1>1, <1>3 DEF WaitsFor, TypeOK
  <2> QED
    BY <2>1, <2>2, NoNewEmbrace
<1> QED
  BY <1>7, <1>8, <1>9, <1>10, <1>11, <1>12, <1>13, <1>14

\* Relock: the new file is locked, the old one given back.
LEMMA RelockStep ==
  ASSUME LogInv, NEW p \in Proc, Relock(p)
  PROVE  LogInv'
<1> USE DEF LogInv
<1> DEFINE old == fd[p]
           new == newFd[p]
<1>1. /\ pc[p] = "relock" /\ pc' = [pc EXCEPT ![p] = "append"]
      /\ old \in File /\ new \in File /\ old # None /\ new # None
      /\ flock[new] = None /\ flock[old] = p /\ new # old
      /\ fd' = [fd EXCEPT ![p] = new] /\ newFd' = [newFd EXCEPT ![p] = None]
      /\ flock' = [flock EXCEPT ![new] = p, ![old] = None]
      /\ idx' = [idx EXCEPT ![p] = 1]
      /\ UNCHANGED <<name, slot, alone>>
  BY NoneAssumption DEF Relock, GoTo, Handles, TypeOK, Holding, Labels, Waiting
<1>2. /\ size' \in [File -> Nat] /\ last' \in [File -> 0 .. MaxEntries]
      /\ UnusedEmpty'
      /\ \A f \in File : size'[f] = size[f] \/ size'[f] = 0
      /\ \A f \in File : \A q \in Proc : fd'[q] = f => last'[f] = last[f]
  <2>1. Contents(size, last) /\ size \in [File -> Nat] /\ last \in [File -> 0 .. MaxEntries]
    BY DEF Relock, TypeOK
  <2> QED
    BY <2>1, ContentsKept
<1> HIDE DEF old, new
<1>3. TypeOK'
  <2>1. 1 \in 0 .. MaxEntries
    BY LimitsAssumption
  <2>2. idx' \in [Proc -> 0 .. MaxEntries]
    BY <1>1, <2>1 DEF TypeOK
  <2> QED
    BY <1>1, <1>2, <2>2 DEF TypeOK, Labels
<1>4. Handles'
  <2> SUFFICES ASSUME NEW q \in Proc
               PROVE  /\ fd'[q] = None <=> pc'[q] = "idle"
                      /\ newFd'[q] = None <=> pc'[q] # "relock"
                      /\ pc'[q] \in Holding => flock'[fd'[q]] = q
    BY DEF Handles
  <2>1. CASE q = p
    BY <2>1, <1>1 DEF TypeOK
  <2>2. CASE q # p
    <3>1. pc'[q] = pc[q] /\ fd'[q] = fd[q] /\ newFd'[q] = newFd[q]
      BY <2>2, <1>1 DEF TypeOK
    <3>2. pc[q] \in Holding => fd[q] \in File /\ flock[fd[q]] = q
      BY DEF Handles, Holding, TypeOK
    <3>3. pc[q] \in Holding => fd[q] # old /\ fd[q] # new
      BY <3>2, <2>2, <1>1, NoneAssumption
    <3> QED
      BY <3>1, <3>2, <3>3, <1>1 DEF Handles, TypeOK
  <2> QED
    BY <2>1, <2>2
<1>5. LockOwners'
  <2> SUFFICES ASSUME NEW f \in File, flock'[f] # None
               PROVE  fd'[flock'[f]] = f /\ pc'[flock'[f]] \in Holding
    BY DEF LockOwners
  <2>1. CASE f = new
    BY <2>1, <1>1 DEF TypeOK, Holding, Labels, Waiting
  <2>2. CASE f # new
    <3>1. f # old /\ flock'[f] = flock[f]
      BY <2>2, <1>1 DEF TypeOK
    <3>2. flock[f] \in Proc /\ fd[flock[f]] = f /\ pc[flock[f]] \in Holding
      BY <3>1 DEF LockOwners, TypeOK
    <3>3. flock[f] # p
      BY <3>1, <3>2 DEF old
    <3> QED
      BY <3>1, <3>2, <3>3, <1>1 DEF TypeOK
  <2> QED
    BY <2>1, <2>2
<1>6. RotatedAway' /\ NextIsFree'
  <2>1. \A q \in Proc : pc'[q] # "append" => pc'[q] = pc[q] /\ fd'[q] = fd[q]
    BY <1>1 DEF TypeOK
  <2>2. RotatedAway'
    BY <1>1, <2>1 DEF RotatedAway, Rotated
  <2>3. NextIsFree'
    BY <1>1, <2>1 DEF NextIsFree
  <2> QED
    BY <2>2, <2>3
<1>7. RoomLeft'
  <2>1. \A f \in File : Coming(f)' \subseteq Coming(f)
    BY <1>1, NoneAssumption DEF Coming, TypeOK, new
  <2> QED
    BY <2>1, <1>2, RoomStays, LimitsAssumption DEF TypeOK
<1>8. IndexFits'
  <2> SUFFICES ASSUME NEW q \in Proc, pc'[q] = "append", fd'[q] = name[0], idx'[q] # 1
               PROVE  idx'[q] = last'[fd'[q]] + 1
    BY <1>1 DEF IndexFits
  <2>1. q # p /\ pc[q] = "append" /\ fd'[q] = fd[q] /\ idx'[q] = idx[q] /\ fd[q] \in File
    BY <1>1 DEF TypeOK, Handles
  <2> QED
    BY <1>2, <2>1 DEF IndexFits
<1>9. NoDeadlyEmbrace'
  <2>1. \A q \in Proc : ~WaitsFor(p, q)'
    BY <1>1 DEF WaitsFor, TypeOK
  <2>2. ASSUME NEW q \in Proc \ {p}, NEW r \in Proc \ {p}, WaitsFor(q, r)'
        PROVE  WaitsFor(q, r)
    <3>1. pc'[q] = pc[q] /\ fd'[q] = fd[q] /\ newFd'[q] = newFd[q]
      BY <1>1 DEF TypeOK
    <3>2. \A f \in File : flock'[f] = r => flock[f] = r
      BY <1>1, NoneAssumption DEF TypeOK
    <3>3. /\ pc[q] = "lock" => fd[q] \in File
          /\ pc[q] = "relock" => newFd[q] \in File
      BY DEF Handles, TypeOK
    <3> QED
      BY <2>2, <3>1, <3>2, <3>3 DEF WaitsFor
  <2> QED
    BY <2>1, <2>2, NoNewEmbrace
<1> QED
  BY <1>2, <1>3, <1>4, <1>5, <1>6, <1>7, <1>8, <1>9

\* Close, at the end of a verb or of a process: nothing of p remains.
LEMMA Closed ==
  ASSUME LogInv, NEW p \in Proc, Close(p), pc[p] # "idle",
         UNCHANGED name, size' \in [File -> Nat], last' \in [File -> 0 .. MaxEntries]
  PROVE  /\ TypeOK' /\ Handles' /\ LockOwners' /\ RotatedAway' /\ NextIsFree'
         /\ NoDeadlyEmbrace'
         /\ pc'[p] = "idle"
         /\ \A q \in Proc \ {p} : pc'[q] = pc[q] /\ fd'[q] = fd[q] /\ newFd'[q] = newFd[q]
                                  /\ idx'[q] = idx[q]
<1> USE DEF LogInv
<1>1. /\ pc' \in [Proc -> Labels] /\ pc'[p] = "idle"
      /\ fd' \in [Proc -> File \cup {None}] /\ fd'[p] = None
      /\ newFd' \in [Proc -> File \cup {None}] /\ newFd'[p] = None
      /\ flock' = [f \in File |-> IF flock[f] = p THEN None ELSE flock[f]]
  BY DEF Close, GoTo, TypeOK, Labels
<1>2. \A q \in Proc \ {p} :
        /\ pc'[q] = pc[q] /\ fd'[q] = fd[q] /\ newFd'[q] = newFd[q]
        /\ idx'[q] = idx[q] /\ slot'[q] = slot[q]
        /\ alone'[q] = alone[q]
  BY DEF Close, GoTo, TypeOK
<1>3. TypeOK'
  <2>1. idx' \in [Proc -> 0 .. MaxEntries] /\ slot' \in [Proc -> 0 .. Keep]
    <3>1. 0 \in 0 .. MaxEntries /\ 0 \in 0 .. Keep
      BY LimitsAssumption
    <3> QED
      BY <3>1 DEF Close, TypeOK
  <2>2. alone' \in [Proc -> BOOLEAN]
    BY DEF Close, TypeOK
  <2>3. flock' \in [File -> Proc \cup {None}]
    BY <1>1 DEF TypeOK
  <2> QED
    BY <1>1, <2>1, <2>2, <2>3 DEF TypeOK
<1>4. Handles'
  <2> SUFFICES ASSUME NEW q \in Proc
               PROVE  /\ fd'[q] = None <=> pc'[q] = "idle"
                      /\ newFd'[q] = None <=> pc'[q] # "relock"
                      /\ pc'[q] \in Holding => flock'[fd'[q]] = q
    BY DEF Handles
  <2>1. CASE q = p
    BY <2>1, <1>1 DEF Holding
  <2>2. CASE q # p
    <3>1. pc[q] \in Holding => fd[q] \in File /\ flock[fd[q]] = q
      BY DEF Handles, Holding, TypeOK
    <3> QED
      BY <2>2, <3>1, <1>1, <1>2 DEF Handles
  <2> QED
    BY <2>1, <2>2
<1>5. LockOwners'
  <2> SUFFICES ASSUME NEW f \in File, flock'[f] # None
               PROVE  fd'[flock'[f]] = f /\ pc'[flock'[f]] \in Holding
    BY DEF LockOwners
  <2>1. flock'[f] = flock[f] /\ flock[f] # p /\ flock[f] \in Proc
    BY <1>1 DEF TypeOK
  <2> QED
    BY <2>1, <1>2 DEF LockOwners
<1>6. RotatedAway' /\ NextIsFree'
  <2>1. RotatedAway'
    BY <1>1, <1>2 DEF RotatedAway, Rotated
  <2>2. NextIsFree'
    <3> SUFFICES ASSUME NEW q \in Proc, pc'[q] = "rotate", alone'[q], slot'[q] < Keep
                 PROVE  name[slot'[q] + 1] = None
      BY DEF NextIsFree
    <3>1. q # p
      BY <1>1
    <3>2. pc[q] = "rotate" /\ alone[q] /\ slot'[q] = slot[q]
      BY <3>1, <1>2
    <3> QED
      BY <3>2 DEF NextIsFree
  <2> QED
    BY <2>1, <2>2
<1>7. NoDeadlyEmbrace'
  <2>1. \A q \in Proc : ~WaitsFor(p, q)'
    BY <1>1 DEF WaitsFor
  <2>2. ASSUME NEW q \in Proc \ {p}, NEW r \in Proc \ {p}, WaitsFor(q, r)'
        PROVE  WaitsFor(q, r)
    <3>1. \A f \in File : flock'[f] = r => flock[f] = r
      BY <1>1, NoneAssumption
    <3>2. /\ pc[q] = "lock" => fd[q] \in File
          /\ pc[q] = "relock" => newFd[q] \in File
      BY DEF Handles, TypeOK
    <3> QED
      BY <2>2, <3>1, <3>2, <1>2 DEF WaitsFor
  <2> QED
    BY <2>1, <2>2, NoNewEmbrace
<1> QED
  BY <1>1, <1>2, <1>3, <1>4, <1>5, <1>6, <1>7

\* Stop.
LEMMA StopStep ==
  ASSUME LogInv, NEW p \in Proc, Stop(p)
  PROVE  LogInv'
<1> USE DEF LogInv
<1>1. /\ size' \in [File -> Nat] /\ last' \in [File -> 0 .. MaxEntries]
      /\ UnusedEmpty'
      /\ \A f \in File : size'[f] = size[f] \/ size'[f] = 0
      /\ \A f \in File : \A q \in Proc : fd'[q] = f => last'[f] = last[f]
  <2>1. Contents(size, last) /\ size \in [File -> Nat] /\ last \in [File -> 0 .. MaxEntries]
    BY DEF Stop, TypeOK
  <2> QED
    BY <2>1, ContentsKept
<1>2. Close(p) /\ pc[p] # "idle" /\ name' = name
  BY DEF Stop
<1>3. /\ TypeOK' /\ Handles' /\ LockOwners' /\ RotatedAway' /\ NextIsFree'
      /\ NoDeadlyEmbrace'
      /\ pc'[p] = "idle"
      /\ \A q \in Proc \ {p} : pc'[q] = pc[q] /\ fd'[q] = fd[q] /\ newFd'[q] = newFd[q]
                               /\ idx'[q] = idx[q]
  BY <1>1, <1>2, Closed
<1>4. RoomLeft'
  <2>1. \A f \in File : Coming(f)' \subseteq Coming(f)
    BY <1>2, <1>3 DEF Coming
  <2> QED
    BY <2>1, <1>1, RoomStays, LimitsAssumption DEF TypeOK
<1>5. IndexFits'
  <2> SUFFICES ASSUME NEW q \in Proc, pc'[q] = "append", fd'[q] = name[0], idx'[q] # 1
               PROVE  idx'[q] = last'[fd'[q]] + 1
    BY <1>2 DEF IndexFits
  <2>1. q # p /\ pc[q] = "append" /\ fd'[q] = fd[q] /\ idx'[q] = idx[q] /\ fd[q] \in File
    BY <1>3 DEF TypeOK, Handles
  <2> QED
    BY <1>1, <2>1 DEF IndexFits
<1> QED
  BY <1>1, <1>3, <1>4, <1>5

\* Append: the process was coming to its file, and is not any more.
LEMMA AppendStep ==
  ASSUME LogInv, NEW p \in Proc, Append(p)
  PROVE  LogInv'
<1> USE DEF LogInv
<1> DEFINE mine == fd[p]
           sz == [size EXCEPT ![mine] = @ + 1]
           ls == [last EXCEPT ![mine] = idx[p]]
<1>1. /\ size' \in [File -> Nat] /\ last' \in [File -> 0 .. MaxEntries]
      /\ UnusedEmpty'
      /\ \A f \in File : size'[f] = sz[f] \/ size'[f] = 0
      /\ \A f \in File : \A q \in Proc : fd'[q] = f => last'[f] = ls[f]
  <2>1. Contents(sz, ls)
    BY DEF Append
  <2>2. sz \in [File -> Nat] /\ ls \in [File -> 0 .. MaxEntries]
    <3>1. sz \in [File -> Nat]
      <4>1. \A f \in File : size[f] \in Nat /\ size[f] + 1 \in Nat
        BY DEF TypeOK
      <4> QED
        BY <4>1 DEF TypeOK
    <3>2. ls \in [File -> 0 .. MaxEntries]
      BY DEF TypeOK
    <3> QED
      BY <3>1, <3>2
  <2> HIDE DEF sz, ls
  <2> QED
    BY <2>1, <2>2, ContentsKept
<1>2. Close(p) /\ pc[p] = "append" /\ name' = name
  BY DEF Append
<1>3. /\ TypeOK' /\ Handles' /\ LockOwners' /\ RotatedAway' /\ NextIsFree'
      /\ NoDeadlyEmbrace'
      /\ pc'[p] = "idle"
      /\ \A q \in Proc \ {p} : pc'[q] = pc[q] /\ fd'[q] = fd[q] /\ newFd'[q] = newFd[q]
                               /\ idx'[q] = idx[q]
  BY <1>1, <1>2, Closed
<1>4. mine \in File /\ flock[mine] = p
  BY <1>2 DEF Handles, TypeOK, Holding, Labels, Waiting
<1>5. \A f \in File \ {mine} : sz[f] = size[f] /\ ls[f] = last[f]
  BY DEF TypeOK
<1>6. sz[mine] = size[mine] + 1
  BY <1>4 DEF TypeOK
<1> HIDE DEF sz, ls, mine
<1>7. RoomLeft'
  <2> SUFFICES ASSUME NEW f \in File, size'[f] >= MaxSize
               PROVE  size'[f] + Cardinality(Coming(f)') < MaxSize + Cardinality(Proc)
    BY DEF RoomLeft
  <2>1. Coming(f)' \subseteq Coming(f) \ {p} /\ Coming(f) \subseteq Proc
    BY <1>2, <1>3 DEF Coming
  <2>2. size'[f] = sz[f] /\ MaxSize \in Nat /\ size[f] \in Nat
    BY <1>1, LimitsAssumption DEF TypeOK
  <2>3. Cardinality(Proc) \in Nat
    BY Fewer
  <2>4. CASE f # mine
    <3>1. /\ Cardinality(Coming(f)') \in Nat /\ Cardinality(Coming(f)) \in Nat
          /\ Cardinality(Coming(f)') <= Cardinality(Coming(f))
      <4>1. Coming(f)' \subseteq Coming(f)
        BY <2>1
      <4> QED
        BY <4>1, <2>1, Fewer
    <3>2. size[f] + Cardinality(Coming(f)) < MaxSize + Cardinality(Proc)
      BY <2>2, <2>4, <1>5 DEF RoomLeft
    <3> QED
      BY <3>1, <3>2, <2>2, <2>3, <2>4, <1>5
  <2>5. CASE f = mine /\ size[f] >= MaxSize
    <3>1. p \in Coming(f)
      BY <2>5, <1>2 DEF Coming, mine
    <3>2. Cardinality(Coming(f) \ {p}) = Cardinality(Coming(f)) - 1
      BY <3>1, <2>1, OneFewer
    <3>3. /\ Cardinality(Coming(f)') \in Nat /\ Cardinality(Coming(f) \ {p}) \in Nat
          /\ Cardinality(Coming(f)') <= Cardinality(Coming(f) \ {p})
      <4>1. Coming(f)' \subseteq Coming(f) \ {p} /\ Coming(f) \ {p} \subseteq Proc
        BY <2>1
      <4> QED
        BY <4>1, Fewer
    <3>4. size[f] + Cardinality(Coming(f)) < MaxSize + Cardinality(Proc) /\ Cardinality(Coming(f)) \in Nat
      BY <2>5, <2>1, Fewer DEF RoomLeft
    <3> QED
      BY <3>2, <3>3, <3>4, <2>2, <2>3, <2>5, <1>6
  <2>6. CASE f = mine /\ size[f] < MaxSize
    <3>1. Cardinality(Proc \ {p}) = Cardinality(Proc) - 1
      BY OneFewer
    <3>2. /\ Cardinality(Coming(f)') \in Nat /\ Cardinality(Proc \ {p}) \in Nat
          /\ Cardinality(Coming(f)') <= Cardinality(Proc \ {p})
      <4>1. Coming(f)' \subseteq Proc \ {p}
        BY <2>1
      <4> QED
        BY <4>1, Fewer
    <3> QED
      BY <3>1, <3>2, <2>2, <2>3, <2>6, <1>6
  <2> QED
    BY <2>2, <2>4, <2>5, <2>6
<1>8. IndexFits'
  <2> SUFFICES ASSUME NEW q \in Proc, pc'[q] = "append", fd'[q] = name[0], idx'[q] # 1
               PROVE  idx'[q] = last'[fd'[q]] + 1
    BY <1>2 DEF IndexFits
  <2>1. q # p /\ pc[q] = "append" /\ fd'[q] = fd[q] /\ idx'[q] = idx[q] /\ fd[q] \in File
    BY <1>3 DEF TypeOK, Handles
  <2>2. flock[fd[q]] = q
    BY <2>1 DEF Handles, Holding, Labels, Waiting
  <2>3. fd[q] # mine
    BY <2>1, <2>2, <1>4
  <2> QED
    BY <1>1, <1>5, <2>1, <2>3 DEF IndexFits
<1> QED
  BY <1>1, <1>3, <1>7, <1>8

-----------------------------------------------------------------------------
\* The audit log keeps its invariant.
THEOREM LogInvariant == Spec => []LogInv
<1>1. Init => LogInv
  <2> SUFFICES ASSUME Init PROVE LogInv
    OBVIOUS
  <2> USE NoneAssumption, LimitsAssumption DEF Init
  <2>1. TypeOK
    BY DEF TypeOK, Labels
  <2>2. Handles /\ LockOwners
    BY DEF Handles, LockOwners, Holding
  <2>3. UnusedEmpty /\ RotatedAway /\ IndexFits /\ NextIsFree
    BY DEF UnusedEmpty, Unused, RotatedAway, Rotated, IndexFits, NextIsFree
  <2>4. RoomLeft
    BY DEF RoomLeft
  <2>5. NoDeadlyEmbrace
    <3>1. \A q, r \in Proc : ~WaitsFor(q, r)
      BY DEF WaitsFor
    <3> SUFFICES ASSUME NEW S \in (SUBSET Proc) \ {{}}
                 PROVE  \E q \in S : \A r \in S : ~WaitsFor(q, r)
      BY DEF NoDeadlyEmbrace
    <3>2. \E q \in S : q \in Proc
      OBVIOUS
    <3> QED
      BY <3>1, <3>2
  <2> QED
    BY <2>1, <2>2, <2>3, <2>4, <2>5 DEF LogInv
<1>2. LogInv /\ [Next]_vars => LogInv'
  <2> SUFFICES ASSUME LogInv, [Next]_vars PROVE LogInv'
    OBVIOUS
  <2>1. CASE UNCHANGED vars
    <3> USE <2>1 DEF vars, LogInv
    <3>1. TypeOK' /\ Handles' /\ LockOwners' /\ RotatedAway' /\ IndexFits' /\ NextIsFree'
      BY DEF TypeOK, Handles, LockOwners, RotatedAway, IndexFits, NextIsFree
    <3>2. UnusedEmpty' /\ RoomLeft'
      BY DEF UnusedEmpty, Unused, Named, RoomLeft, Coming
    <3>3. NoDeadlyEmbrace'
      BY DEF NoDeadlyEmbrace, WaitsFor
    <3> QED
      BY <3>1, <3>2, <3>3
  <2>2. CASE Next
    BY <2>2, OpenStep, LockStep, LookStep, ShiftStep, ReopenStep, RelockStep, AppendStep, StopStep
       DEF Next, Step
  <2> QED
    BY <2>1, <2>2
<1> QED
  BY <1>1, <1>2, PTL DEF Spec

\* The lock of a file that was rotated away while somebody waits for it never
\* leads to a set of processes that wait for each other (_acquire, _rotate).
THEOREM EmbraceTheorem == Spec => []NoDeadlyEmbrace
<1>1. LogInv => NoDeadlyEmbrace
  BY DEF LogInv
<1> QED
  BY <1>1, LogInvariant, PTL

\* However processes overlap, a file ends at most one row per other process
\* beyond the limit that audit_append tests.
THEOREM BoundTheorem == Spec => []LogBounded
<1>1. LogInv => LogBounded
  <2> SUFFICES ASSUME LogInv, NEW f \in File PROVE size[f] < MaxSize + Cardinality(Proc)
    BY DEF LogBounded
  <2>1. MaxSize \in Nat \ {0} /\ size[f] \in Nat
    BY LimitsAssumption DEF LogInv, TypeOK
  <2>2. Cardinality(Proc) \in Nat
    BY Fewer
  <2>3. Cardinality(Coming(f)) \in Nat
    <3>1. Coming(f) \subseteq Proc
      BY DEF Coming
    <3> QED
      BY <3>1, Fewer
  <2>4. size[f] >= MaxSize => size[f] + Cardinality(Coming(f)) < MaxSize + Cardinality(Proc)
    BY DEF LogInv, RoomLeft
  <2> QED
    BY <2>1, <2>2, <2>3, <2>4
<1> QED
  BY <1>1, LogInvariant, PTL

\* The index of a row is the next one of the file it lands in, as long as that
\* is audit.log and the row is not the first one after a rotation.
THEOREM RowsTheorem == Spec => RowsCount
<1>1. LogInv /\ [Next]_vars =>
        [\A p \in Proc : Append(p) /\ fd[p] = name[0] /\ idx[p] # 1
           => idx[p] = last[fd[p]] + 1]_vars
  BY DEF LogInv, IndexFits, Append
<1> QED
  BY <1>1, LogInvariant, PTL DEF Spec, RowsCount

\* A row is lost with the oldest file, or to a rotation that overtook another.
THEOREM DroppedTheorem == Spec => OnlyOldestDropped
<1>1. ASSUME LogInv, [Next]_vars, NEW f \in Named \ {None}, f \notin {name'[n] : n \in 0 .. Keep}
      PROVE  \/ f = name[Keep] /\ name'[Keep] = None
             \/ \E p \in Proc : Shift(p) /\ ~alone[p]
  <2>1. PICK m \in 0 .. Keep : f = name[m] /\ f # None
    BY <1>1 DEF Named
  <2>2. \A n \in 0 .. Keep : name'[n] # f
    BY <1>1
  <2>3. name'[m] # name[m]
    BY <2>1, <2>2
  <2>4. PICK p \in Proc : Open(p) \/ Shift(p) \/ Reopen(p)
    BY <1>1, <2>3 DEF Next, Step, Stop, Append, Relock, LookUp, ReadLast, Lock, vars
  <2>5. CASE Open(p) \/ Reopen(p)
    <3>1. PICK g \in File : OpenLog(g)
      BY <2>5 DEF Open, Reopen
    <3> QED
      BY <3>1, <2>1, <2>3, <1>1 DEF OpenLog, LogInv, TypeOK
  <2>6. CASE Shift(p) /\ slot[p] = Keep
    BY <2>6, <2>1, <2>2, <1>1, LimitsAssumption DEF Shift, LogInv, TypeOK
  <2>7. CASE Shift(p) /\ slot[p] # Keep
    <3> DEFINE n == slot[p]
    <3>1. n \in 0 .. Keep - 1 /\ n + 1 \in 0 .. Keep /\ n \in 0 .. Keep /\ n + 1 # n
      BY <2>7, <1>1, LimitsAssumption DEF LogInv, TypeOK
    <3>2. name' = [name EXCEPT ![n + 1] = name[n], ![n] = None] \/ name' = name
      BY <2>7 DEF Shift
    <3> HIDE DEF n
    <3>3. m = n + 1
      BY <3>1, <3>2, <2>1, <2>2, <1>1 DEF LogInv, TypeOK
    <3>4. alone[p] => name[n + 1] = None
      BY <2>7, <3>1, <1>1, LimitsAssumption DEF LogInv, NextIsFree, Shift, n
    <3> QED
      BY <3>3, <3>4, <2>1, <2>7
  <2> QED
    BY <2>4, <2>5, <2>6, <2>7
<1>2. LogInv /\ [Next]_vars =>
        [\A f \in Named \ {None} :
           f \notin {name'[n] : n \in 0 .. Keep} =>
             \/ f = name[Keep] /\ name'[Keep] = None
             \/ \E p \in Proc : Shift(p) /\ ~alone[p]]_vars
  BY <1>1
<1> QED
  BY <1>2, LogInvariant, PTL DEF Spec, OnlyOldestDropped
=============================================================================

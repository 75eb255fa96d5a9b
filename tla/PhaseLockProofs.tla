--------------------------- MODULE PhaseLockProofs ---------------------------
(***************************************************************************)
(* Mutual exclusion of the primary lock, for any number of processes,      *)
(* hosts, crashes, pid reuses and reboots, as long as no recovery has      *)
(* taken a failed lookup of the boot identifier for a reboot.              *)
(*                                                                         *)
(* The argument. A verdict "stale" that rests on no such mistake is about  *)
(* a process that is gone, and gone for good: its record keeps its token   *)
(* and nobody but the holder of the recovery mutex can remove it.  So what *)
(* a recoverer unlinks is still the abandoned record it validated, an      *)
(* owner's file is never taken from it, and one file cannot have two       *)
(* owners.                                                                 *)
(***************************************************************************)
EXTENDS PhaseLock, TLAPS

\* What was recorded as start time is the creator's own, or null.
StartRecorded ==
  /\ primary # None => primary.start \in {primary.inc, NoStart}
  /\ \A p \in Proc : obs[p] # None => obs[p].start \in {obs[p].inc, NoStart}

\* A token names one record.
TokenNamesRecord ==
  \A p \in Proc : obs[p] # None /\ primary # None /\ primary.tok = obs[p].tok
                    => primary = obs[p]

\* Past the verdict of validation point (i), the observed owner is gone.
ValidatedIsGone ==
  misread \/ \A p \in Proc : pc[p] \in {"validate2", "unlink"} => OwnerGone(obs[p])

LockInv ==
  /\ TypeOK
  /\ HolderKeepsFile
  /\ OneRecoverer
  /\ UnlinkOnlyAbandoned
  /\ StartRecorded
  /\ TokenNamesRecord
  /\ ValidatedIsGone

-----------------------------------------------------------------------------
\* A stale verdict implies that the owner is gone, or that the boot identifier
\* could not be read on one side: the other branches of classify() that answer
\* "stale" never name a live holder.
LEMMA StaleIsGone ==
  ASSUME TypeOK, StartRecorded, NEW p \in Proc, obs[p] # None, NEW b,
         "stale" \in Verdicts(p, obs[p], b), ~Mistaken(p, obs[p], b)
  PROVE  OwnerGone(obs[p])
<1>1. obs[p] \in Record
  BY DEF TypeOK
<1>2. obs[p].start \in {obs[p].inc, NoStart}
  BY DEF StartRecorded
<1> QED
  BY <1>1, <1>2 DEF Verdicts, Mistaken, OwnerGone, Record

\* A process that owns the lock is not gone.
LEMMA OwnerIsThere ==
  ASSUME TypeOK, HolderKeepsFile, ~misread, NEW p \in Proc, pc[p] \in Owning
  PROVE  /\ primary # None
         /\ primary.owner = p
         /\ ~OwnerGone(primary)
  BY DEF TypeOK, HolderKeepsFile, OwnerGone, Owning, BootIdRead

\* An owner that is gone stays gone as long as its record is remembered: a
\* process that reuses its pid gets another start time, a rebooted host
\* another boot identifier.
LEMMA GoneStays ==
  ASSUME TypeOK, NEW r \in Remembered, OwnerGone(r),
         (\E p \in Proc : Start(p)) \/ (\E h \in Host : Reboot(h))
  PROVE  OwnerGone(r)'
<1>1. r \in Record
  BY DEF TypeOK, Remembered
<1>2. CASE \E p \in Proc : Start(p)
  BY <1>1, <1>2 DEF Start, TypeOK, OwnerGone, Record
<1>3. CASE \E h \in Host : Reboot(h)
  BY <1>1, <1>3, HostOfAssumption DEF Reboot, TypeOK, OwnerGone, Record
<1> QED
  BY <1>2, <1>3

\* The initial states satisfy the invariant.
LEMMA InitLockInv == Init => LockInv
  BY DEF Init, LockInv, TypeOK, HolderKeepsFile, OneRecoverer, UnlinkOnlyAbandoned,
         StartRecorded, TokenNamesRecord, ValidatedIsGone, PC, Owning, Recovering,
         Comparing

-----------------------------------------------------------------------------
(* One lemma per kind of action.                                           *)

\* Every step of a process preserves the invariant.
LEMMA ProcStep ==
  ASSUME LockInv, NEW p \in Proc,
         Begin(p) \/ Tick(p) \/ Step(p) \/ Release(p) \/ Crash(p) \/ Start(p)
  PROVE  LockInv'
<1> USE NoneAssumption, NoStartAssumption, HostOfAssumption DEF LockInv, BootIdRead
<1>1. CASE Begin(p)
  BY <1>1 DEF Begin, GoTo, Leave, Forget, Record, Revalidate,
         TypeOK, HolderKeepsFile, OneRecoverer, UnlinkOnlyAbandoned,
         StartRecorded, TokenNamesRecord, ValidatedIsGone, OwnerGone, PC, Owning,
         Recovering, Acquiring, Comparing
<1>2. CASE Tick(p)
  BY <1>2 DEF Tick, GoTo, Leave, Forget, Record, Revalidate,
         TypeOK, HolderKeepsFile, OneRecoverer, UnlinkOnlyAbandoned,
         StartRecorded, TokenNamesRecord, ValidatedIsGone, OwnerGone, PC, Owning,
         Recovering, Acquiring, Comparing
<1>3. CASE StepAPass(p)
  BY <1>3 DEF StepAPass, GoTo, Leave, Forget, Record, Revalidate,
         TypeOK, HolderKeepsFile, OneRecoverer, UnlinkOnlyAbandoned,
         StartRecorded, TokenNamesRecord, ValidatedIsGone, OwnerGone, PC, Owning,
         Recovering, Acquiring, Comparing
<1>4. CASE StepATimeout(p)
  BY <1>4 DEF StepATimeout, GoTo, Leave, Forget, Record, Revalidate,
         TypeOK, HolderKeepsFile, OneRecoverer, UnlinkOnlyAbandoned,
         StartRecorded, TokenNamesRecord, ValidatedIsGone, OwnerGone, PC, Owning,
         Recovering, Acquiring, Comparing
<1>5. CASE CreatePrimary(p)
  <2> USE <1>5 DEF CreatePrimary, GoTo, Leave, Forget, Revalidate, Record,
         PC, Owning, Recovering, Acquiring, Comparing
  <2>1. TypeOK'
    BY DEF TypeOK
  <2>2. HolderKeepsFile'
    <3>1. misread \/ \A q \in Proc \ {p} : pc'[q] \notin Owning
      BY DEF TypeOK, HolderKeepsFile
    <3>2. /\ primary'.owner = p /\ primary'.inc = born'[p]
          /\ primary'.start \in {born'[p], NoStart}
          /\ primary'.era = boot'[HostOf[p]]
          /\ primary'.boot \in {boot'[HostOf[p]], NoBootId} /\ ~primary'.sealed
          /\ pc'[p] = "created" /\ misread' = misread
      BY DEF TypeOK
    <3>3. primary' # None
      <4>1. primary' \in Record
        BY <2>1, NoneAssumption DEF TypeOK
      <4> QED
        BY <4>1, NoneAssumption
    <3>4. ~misread => \A q \in Proc : pc'[q] \in Owning => q = p
      BY <3>1
    <3> QED
      BY <3>2, <3>3, <3>4 DEF HolderKeepsFile
  <2>3. OneRecoverer'
    BY DEF TypeOK, OneRecoverer
  <2>4. UnlinkOnlyAbandoned'
    BY DEF TypeOK, UnlinkOnlyAbandoned, OwnerGone, ValidatedIsGone, TokenNamesRecord, HolderKeepsFile
  <2>5. StartRecorded'
    BY DEF TypeOK, StartRecorded
  <2>6. TokenNamesRecord'
    <3> SUFFICES ASSUME NEW q \in Proc, obs[q] # None
                 PROVE  primary'.tok # obs[q].tok
      BY DEF TokenNamesRecord
    <3>1. obs[q].tok \in {r.tok : r \in Remembered}
      BY DEF Remembered
    <3>2. primary'.tok \notin {r.tok : r \in Remembered}
      OBVIOUS
    <3> QED
      BY <3>1, <3>2
  <2>7. ValidatedIsGone'
    BY DEF TypeOK, ValidatedIsGone, OwnerGone
  <2> QED
    BY <2>1, <2>2, <2>3, <2>4, <2>5, <2>6, <2>7
<1>6. CASE CreateRefused(p)
  BY <1>6 DEF CreateRefused, GoTo, Leave, Forget, Record, Revalidate,
         TypeOK, HolderKeepsFile, OneRecoverer, UnlinkOnlyAbandoned,
         StartRecorded, TokenNamesRecord, ValidatedIsGone, OwnerGone, PC, Owning,
         Recovering, Acquiring, Comparing
<1>7. CASE WriteRecord(p)
  <2> USE <1>7 DEF WriteRecord, GoTo, Leave, Forget, Revalidate, Record,
         PC, Owning, Recovering, Acquiring, Comparing
  <2>1. TypeOK'
    BY DEF TypeOK
  <2>2. HolderKeepsFile'
    <3> SUFFICES ASSUME ~misread PROVE HolderKeepsFile'
      BY DEF HolderKeepsFile
    <3>1. \A q \in Proc \ {p} : pc'[q] \notin Owning
      BY DEF TypeOK, HolderKeepsFile
    <3>2. /\ primary # None /\ primary.owner = p /\ primary.inc = born[p]
          /\ primary.start \in {born[p], NoStart}
          /\ primary.era = boot[HostOf[p]]
          /\ primary.boot \in {boot[HostOf[p]], NoBootId} /\ primary \in Record
      BY DEF TypeOK, HolderKeepsFile
    <3>3. /\ primary' = [primary EXCEPT !.sealed = TRUE]
          /\ pc'[p] = "written"
      BY <3>2 DEF TypeOK
    <3>4. /\ primary' \in Record
          /\ primary'.sealed
          /\ primary'.owner = p /\ primary'.inc = born[p]
          /\ primary'.start \in {born[p], NoStart}
          /\ primary'.era = boot[HostOf[p]]
          /\ primary'.boot \in {boot[HostOf[p]], NoBootId}
      BY <3>2, <3>3
    <3> QED
      BY <3>1, <3>3, <3>4 DEF HolderKeepsFile
  <2>3. OneRecoverer'
    BY DEF TypeOK, OneRecoverer
  <2>4. UnlinkOnlyAbandoned'
    BY DEF TypeOK, UnlinkOnlyAbandoned, OwnerGone, ValidatedIsGone, TokenNamesRecord, HolderKeepsFile
  <2>5. StartRecorded'
    BY DEF TypeOK, StartRecorded
  <2>6. TokenNamesRecord'
    BY DEF TypeOK, TokenNamesRecord
  <2>7. ValidatedIsGone'
    BY DEF TypeOK, ValidatedIsGone, OwnerGone
  <2> QED
    BY <2>1, <2>2, <2>3, <2>4, <2>5, <2>6, <2>7
<1>8. CASE SyncRecord(p)
  BY <1>8 DEF SyncRecord, GoTo, Leave, Forget, Record, Revalidate,
         TypeOK, HolderKeepsFile, OneRecoverer, UnlinkOnlyAbandoned,
         StartRecorded, TokenNamesRecord, ValidatedIsGone, OwnerGone, PC, Owning,
         Recovering, Acquiring, Comparing
<1>9. CASE SealFails(p)
  BY <1>9 DEF SealFails, GoTo, Leave, Forget, Record, Revalidate,
         TypeOK, HolderKeepsFile, OneRecoverer, UnlinkOnlyAbandoned,
         StartRecorded, TokenNamesRecord, ValidatedIsGone, OwnerGone, PC, Owning,
         Recovering, Acquiring, Comparing
<1>10. CASE StepCRead(p)
  <2> USE <1>10 DEF StepCRead, GoTo, Leave, Forget, Revalidate, Record,
         PC, Owning, Recovering, Acquiring, Comparing
  <2>1. TypeOK'
    <3>1. pc' \in [Proc -> PC]
      BY DEF TypeOK
    <3>2. obs' \in [Proc -> Record \cup {None}]
      BY DEF TypeOK
    <3>3. expired' \in [Proc -> BOOLEAN]
      BY DEF TypeOK
    <3>4. /\ \A q \in Proc \ {p} : pc'[q] = pc[q] /\ obs'[q] = obs[q]
          /\ obs'[p] # None <=> pc'[p] \in Comparing
          /\ obs'[p] # None => obs'[p].sealed
      BY DEF TypeOK
    <3> QED
      BY <3>1, <3>2, <3>3, <3>4 DEF TypeOK
  <2>2. HolderKeepsFile'
    BY DEF TypeOK, HolderKeepsFile
  <2>3. OneRecoverer'
    BY DEF TypeOK, OneRecoverer
  <2>4. UnlinkOnlyAbandoned'
    BY DEF TypeOK, UnlinkOnlyAbandoned, OwnerGone, ValidatedIsGone, TokenNamesRecord, HolderKeepsFile
  <2>5. StartRecorded'
    BY DEF TypeOK, StartRecorded
  <2>6. TokenNamesRecord'
    BY DEF TypeOK, TokenNamesRecord
  <2>7. ValidatedIsGone'
    BY DEF TypeOK, ValidatedIsGone, OwnerGone
  <2> QED
    BY <2>1, <2>2, <2>3, <2>4, <2>5, <2>6, <2>7
<1>11. CASE StepCClassify(p)
  <2> USE <1>11 DEF StepCClassify, GoTo, Leave, Forget, Revalidate, Record,
         PC, Owning, Recovering, Acquiring, Comparing
  <2>1. TypeOK'
    <3>1. pc' \in [Proc -> PC]
      BY DEF TypeOK
    <3>2. obs' \in [Proc -> Record \cup {None}]
      BY DEF TypeOK
    <3>3. expired' \in [Proc -> BOOLEAN]
      BY DEF TypeOK
    <3>4. /\ \A q \in Proc \ {p} : pc'[q] = pc[q] /\ obs'[q] = obs[q]
          /\ obs'[p] # None <=> pc'[p] \in Comparing
          /\ obs'[p] # None => obs'[p].sealed
      BY DEF TypeOK
    <3> QED
      BY <3>1, <3>2, <3>3, <3>4 DEF TypeOK
  <2>2. HolderKeepsFile'
    BY DEF TypeOK, HolderKeepsFile
  <2>3. OneRecoverer'
    BY DEF TypeOK, OneRecoverer
  <2>4. UnlinkOnlyAbandoned'
    BY DEF TypeOK, UnlinkOnlyAbandoned, OwnerGone, ValidatedIsGone, TokenNamesRecord, HolderKeepsFile
  <2>5. StartRecorded'
    BY DEF TypeOK, StartRecorded
  <2>6. TokenNamesRecord'
    BY DEF TypeOK, TokenNamesRecord
  <2>7. ValidatedIsGone'
    BY DEF TypeOK, ValidatedIsGone, OwnerGone
  <2> QED
    BY <2>1, <2>2, <2>3, <2>4, <2>5, <2>6, <2>7
<1>12. CASE StepDWait(p)
  <2> USE <1>12 DEF StepDWait, GoTo, Leave, Forget, Revalidate, Record,
         PC, Owning, Recovering, Acquiring, Comparing
  <2>1. TypeOK'
    <3>1. pc' \in [Proc -> PC]
      BY DEF TypeOK
    <3>2. obs' \in [Proc -> Record \cup {None}]
      BY DEF TypeOK
    <3>3. expired' \in [Proc -> BOOLEAN]
      BY DEF TypeOK
    <3>4. /\ \A q \in Proc \ {p} : pc'[q] = pc[q] /\ obs'[q] = obs[q]
          /\ obs'[p] # None <=> pc'[p] \in Comparing
          /\ obs'[p] # None => obs'[p].sealed
      BY DEF TypeOK
    <3> QED
      BY <3>1, <3>2, <3>3, <3>4 DEF TypeOK
  <2>2. HolderKeepsFile'
    BY DEF TypeOK, HolderKeepsFile
  <2>3. OneRecoverer'
    BY DEF TypeOK, OneRecoverer
  <2>4. UnlinkOnlyAbandoned'
    BY DEF TypeOK, UnlinkOnlyAbandoned, OwnerGone, ValidatedIsGone, TokenNamesRecord, HolderKeepsFile
  <2>5. StartRecorded'
    BY DEF TypeOK, StartRecorded
  <2>6. TokenNamesRecord'
    BY DEF TypeOK, TokenNamesRecord
  <2>7. ValidatedIsGone'
    BY DEF TypeOK, ValidatedIsGone, OwnerGone
  <2> QED
    BY <2>1, <2>2, <2>3, <2>4, <2>5, <2>6, <2>7
<1>13. CASE TakeRecoveryMutex(p)
  BY <1>13 DEF TakeRecoveryMutex, GoTo, Leave, Forget, Record, Revalidate,
         TypeOK, HolderKeepsFile, OneRecoverer, UnlinkOnlyAbandoned,
         StartRecorded, TokenNamesRecord, ValidatedIsGone, OwnerGone, PC, Owning,
         Recovering, Acquiring, Comparing
<1>14. CASE Validate1Read(p)
  BY <1>14 DEF Validate1Read, GoTo, Leave, Forget, Record, Revalidate,
         TypeOK, HolderKeepsFile, OneRecoverer, UnlinkOnlyAbandoned,
         StartRecorded, TokenNamesRecord, ValidatedIsGone, OwnerGone, PC, Owning,
         Recovering, Acquiring, Comparing
<1>15. CASE Validate1Classify(p)
  <2> USE <1>15 DEF Validate1Classify, GoTo, Leave, Forget, Revalidate, Record,
         PC, Owning, Recovering, Acquiring, Comparing
  <2>1. TypeOK'
    BY DEF TypeOK
  <2>2. HolderKeepsFile'
    BY DEF TypeOK, HolderKeepsFile
  <2>3. OneRecoverer'
    BY DEF TypeOK, OneRecoverer
  <2>4. UnlinkOnlyAbandoned'
    BY DEF TypeOK, UnlinkOnlyAbandoned, OwnerGone, ValidatedIsGone, TokenNamesRecord, HolderKeepsFile
  <2>5. StartRecorded'
    BY DEF TypeOK, StartRecorded
  <2>6. TokenNamesRecord'
    BY DEF TypeOK, TokenNamesRecord
  <2>7. ValidatedIsGone'
    <3> SUFFICES ASSUME ~misread' PROVE ValidatedIsGone'
      BY DEF ValidatedIsGone
    <3>1. ~misread
      BY DEF TypeOK
    <3>2. pc'[p] \in {"validate2", "unlink"} => OwnerGone(obs[p]) /\ obs' = obs
      <4> SUFFICES ASSUME pc'[p] \in {"validate2", "unlink"}
                   PROVE  OwnerGone(obs[p]) /\ obs' = obs
        OBVIOUS
      <4>1. PICK b \in BootIdRead(p) : /\ "stale" \in Verdicts(p, obs[p], b)
                                       /\ misread' = (misread \/ Mistaken(p, obs[p], b))
                                       /\ obs' = obs
        BY DEF TypeOK
      <4>2. obs[p] # None
        BY DEF TypeOK
      <4> QED
        BY <4>1, <4>2, StaleIsGone
    <3>3. \A q \in Proc \ {p} : pc'[q] = pc[q] /\ obs'[q] = obs[q]
      BY DEF TypeOK
    <3> QED
      BY <3>1, <3>2, <3>3 DEF ValidatedIsGone, OwnerGone
  <2> QED
    BY <2>1, <2>2, <2>3, <2>4, <2>5, <2>6, <2>7
<1>16. CASE Validate2(p)
  BY <1>16 DEF Validate2, GoTo, Leave, Forget, Record, Revalidate,
         TypeOK, HolderKeepsFile, OneRecoverer, UnlinkOnlyAbandoned,
         StartRecorded, TokenNamesRecord, ValidatedIsGone, OwnerGone, PC, Owning,
         Recovering, Acquiring, Comparing
<1>17. CASE UnlinkStale(p)
  BY <1>17 DEF UnlinkStale, GoTo, Leave, Forget, Record, Revalidate,
         TypeOK, HolderKeepsFile, OneRecoverer, UnlinkOnlyAbandoned,
         StartRecorded, TokenNamesRecord, ValidatedIsGone, OwnerGone, PC, Owning,
         Recovering, Acquiring, Comparing
<1>18. CASE ReleaseRecoveryMutex(p)
  <2> USE <1>18 DEF ReleaseRecoveryMutex, GoTo, Leave, Forget, Revalidate, Record,
         PC, Owning, Recovering, Acquiring, Comparing
  <2>1. TypeOK'
    <3>1. pc' \in [Proc -> PC]
      BY DEF TypeOK
    <3>2. obs' \in [Proc -> Record \cup {None}]
      BY DEF TypeOK
    <3>3. expired' \in [Proc -> BOOLEAN]
      BY DEF TypeOK
    <3>4. /\ \A q \in Proc \ {p} : pc'[q] = pc[q] /\ obs'[q] = obs[q]
          /\ obs'[p] # None <=> pc'[p] \in Comparing
          /\ obs'[p] # None => obs'[p].sealed
      BY DEF TypeOK
    <3> QED
      BY <3>1, <3>2, <3>3, <3>4 DEF TypeOK
  <2>2. HolderKeepsFile'
    BY DEF TypeOK, HolderKeepsFile
  <2>3. OneRecoverer'
    BY DEF TypeOK, OneRecoverer
  <2>4. UnlinkOnlyAbandoned'
    BY DEF TypeOK, UnlinkOnlyAbandoned, OwnerGone, ValidatedIsGone, TokenNamesRecord, HolderKeepsFile
  <2>5. StartRecorded'
    BY DEF TypeOK, StartRecorded
  <2>6. TokenNamesRecord'
    BY DEF TypeOK, TokenNamesRecord
  <2>7. ValidatedIsGone'
    BY DEF TypeOK, ValidatedIsGone, OwnerGone
  <2> QED
    BY <2>1, <2>2, <2>3, <2>4, <2>5, <2>6, <2>7
<1>19. CASE Release(p)
  BY <1>19 DEF Release, GoTo, Leave, Forget, Record, Revalidate,
         TypeOK, HolderKeepsFile, OneRecoverer, UnlinkOnlyAbandoned,
         StartRecorded, TokenNamesRecord, ValidatedIsGone, OwnerGone, PC, Owning,
         Recovering, Acquiring, Comparing
<1>20. CASE Crash(p)
  BY <1>20 DEF Crash, GoTo, Leave, Forget, Record, Revalidate,
         TypeOK, HolderKeepsFile, OneRecoverer, UnlinkOnlyAbandoned,
         StartRecorded, TokenNamesRecord, ValidatedIsGone, OwnerGone, PC, Owning,
         Recovering, Acquiring, Comparing
<1>21. CASE Start(p)
  <2> USE <1>21 DEF Start, GoTo, Leave, Forget, Revalidate, Record,
         PC, Owning, Recovering, Acquiring, Comparing
  <2>1. TypeOK'
    BY DEF TypeOK
  <2>2. HolderKeepsFile'
    BY DEF TypeOK, HolderKeepsFile
  <2>3. OneRecoverer'
    BY DEF TypeOK, OneRecoverer
  <2>4. UnlinkOnlyAbandoned'
    BY GoneStays DEF UnlinkOnlyAbandoned, TypeOK, Remembered
  <2>5. StartRecorded'
    BY DEF TypeOK, StartRecorded
  <2>6. TokenNamesRecord'
    BY DEF TypeOK, TokenNamesRecord
  <2>7. ValidatedIsGone'
    BY GoneStays DEF ValidatedIsGone, TypeOK, Remembered
  <2> QED
    BY <2>1, <2>2, <2>3, <2>4, <2>5, <2>6, <2>7
<1>22. CASE MutexUnlinkFails(p)
  BY <1>22 DEF MutexUnlinkFails, GoTo, Leave, Forget, Record, Revalidate,
         TypeOK, HolderKeepsFile, OneRecoverer, UnlinkOnlyAbandoned,
         StartRecorded, TokenNamesRecord, ValidatedIsGone, OwnerGone, PC, Owning,
         Recovering, Acquiring, Comparing
<1> QED
  BY <1>1, <1>2, <1>3, <1>4, <1>5, <1>6, <1>7, <1>8, <1>9, <1>10, <1>11, <1>12, <1>13,
     <1>14, <1>15, <1>16, <1>17, <1>18, <1>19, <1>20, <1>21, <1>22 DEF Step

\* A reboot preserves the invariant: it kills every process of the host, and
\* what their records say can only become stale.
LEMMA RebootStep ==
  ASSUME LockInv, NEW h \in Host, Reboot(h)
  PROVE  LockInv'
<1> USE NoneAssumption, NoStartAssumption, HostOfAssumption DEF LockInv, Reboot, BootIdRead, PC,
        Owning, Recovering, Acquiring, Comparing
<1>1. TypeOK'
  BY DEF TypeOK
<1>2. HolderKeepsFile'
  BY DEF TypeOK, HolderKeepsFile
<1>3. OneRecoverer'
  BY DEF TypeOK, OneRecoverer
<1>4. UnlinkOnlyAbandoned'
  BY GoneStays DEF UnlinkOnlyAbandoned, TypeOK, Remembered
<1>5. StartRecorded'
  BY DEF TypeOK, StartRecorded
<1>6. TokenNamesRecord'
  BY DEF TypeOK, TokenNamesRecord
<1>7. ValidatedIsGone'
  BY GoneStays DEF ValidatedIsGone, TypeOK, Remembered
<1> QED
  BY <1>1, <1>2, <1>3, <1>4, <1>5, <1>6, <1>7

\* The invariant is inductive.
LEMMA NextLockInv == LockInv /\ [Next]_vars => LockInv'
<1> SUFFICES ASSUME LockInv, [Next]_vars PROVE LockInv'
  OBVIOUS
<1>1. CASE \E p \in Proc : Begin(p) \/ Tick(p) \/ Step(p) \/ Release(p)
                            \/ Crash(p) \/ Start(p)
  BY <1>1, ProcStep
<1>2. CASE \E h \in Host : Reboot(h)
  BY <1>2, RebootStep
<1>3. CASE UNCHANGED vars
  BY <1>3 DEF vars, LockInv, TypeOK, HolderKeepsFile, OneRecoverer, UnlinkOnlyAbandoned,
         StartRecorded, TokenNamesRecord, ValidatedIsGone, OwnerGone, BootIdRead
<1> QED
  BY <1>1, <1>2, <1>3 DEF Next

\* Every reachable state satisfies the inductive invariant.
THEOREM LockInvariant == Spec => []LockInv
  BY InitLockInv, NextLockInv, PTL DEF Spec

-----------------------------------------------------------------------------
\* The lock's state is well formed, and only the living are inside a call.
THEOREM TypeCorrect == Spec => []TypeOK
<1>1. LockInv => TypeOK
  BY DEF LockInv
<1> QED
  BY <1>1, LockInvariant, PTL

\* An owner's lock file is never taken from it before a failed lookup has been
\* misread.
THEOREM HolderIsSafe == Spec => []HolderKeepsFile
<1>1. LockInv => HolderKeepsFile
  BY DEF LockInv
<1> QED
  BY <1>1, LockInvariant, PTL

\* Before a failed lookup has been misread, two processes never own the primary
\* lock at once: the file they would both have created names one creator.
THEOREM Exclusion == Spec => []MutualExclusion
<1>1. LockInv => MutualExclusion
  BY DEF LockInv, HolderKeepsFile, MutualExclusion
<1> QED
  BY <1>1, LockInvariant, PTL

\* At most one process works under the recovery mutex.
THEOREM RecovererIsAlone == Spec => []OneRecoverer
<1>1. LockInv => OneRecoverer
  BY DEF LockInv
<1> QED
  BY <1>1, LockInvariant, PTL

\* Recovery unlinks abandoned records only, before a failed lookup has been
\* misread.
THEOREM UnlinkIsSafe == Spec => []UnlinkOnlyAbandoned
<1>1. LockInv => UnlinkOnlyAbandoned
  BY DEF LockInv
<1> QED
  BY <1>1, LockInvariant, PTL

\* No step removes or replaces the file of a process that still owns the lock,
\* but that of a recovery which misread a failed lookup.
THEOREM EvictionIsSafe == Spec => NoLiveEviction
<1> DEFINE Kept == primary # None /\ primary' # primary =>
             \/ primary' = [primary EXCEPT !.sealed = TRUE]
             \/ /\ primary' = None
                /\ \/ pc[primary.owner] \in Owning /\ pc'[primary.owner] \notin Owning
                   \/ OwnerGone(primary)
                   \/ misread
<1>1. LockInv /\ [Next]_vars => [Kept]_vars
  <2> SUFFICES ASSUME LockInv, Next, primary # None, primary' # primary
               PROVE  Kept
    BY DEF vars
  <2>1. PICK p \in Proc : WriteRecord(p) \/ SealFails(p) \/ UnlinkStale(p) \/ Release(p)
    BY DEF Next, Step, Begin, Tick, StepAPass, StepATimeout, CreatePrimary, CreateRefused,
       SyncRecord, StepCRead, StepCClassify, StepDWait, TakeRecoveryMutex, Validate1Read,
       Validate1Classify, Validate2, ReleaseRecoveryMutex, MutexUnlinkFails, Crash, Start,
       Reboot
  <2>2. CASE WriteRecord(p)
    BY <2>2 DEF WriteRecord
  <2>3. CASE SealFails(p) \/ Release(p)
    <3>1. misread \/ (primary.owner = p /\ pc[p] \in Owning)
      BY <2>3 DEF LockInv, HolderKeepsFile, SealFails, Release, Owning
    <3>2. pc'[p] = "idle" /\ primary' = None
      BY <2>3 DEF SealFails, Release, Leave, GoTo, LockInv, TypeOK
    <3> QED
      BY <3>1, <3>2 DEF Owning
  <2>4. CASE UnlinkStale(p)
    BY <2>4 DEF UnlinkStale, LockInv, UnlinkOnlyAbandoned
  <2> QED
    BY <2>1, <2>2, <2>3, <2>4
<1> QED
  BY <1>1, LockInvariant, PTL DEF Spec, NoLiveEviction

\* try_recover leaves no mutex behind unless its process dies or cannot unlink it
\* (invariant i3 of the lock design).
THEOREM MutexReturned == Spec => MutexGivenBack
<1> DEFINE Back == \A p \in Proc :
             pc[p] \in Recovering /\ pc'[p] \notin Recovering /\ alive'[p]
             => recovery' = None \/ MutexUnlinkFails(p)
<1>1. LockInv /\ [Next]_vars => [Back]_vars
  <2> SUFFICES ASSUME LockInv, Next, NEW p \in Proc, pc[p] \in Recovering,
                      pc'[p] \notin Recovering, alive'[p]
               PROVE  recovery' = None \/ MutexUnlinkFails(p)
    BY DEF vars
  <2>1. ASSUME NEW h \in Host, Reboot(h) PROVE FALSE
    <3>1. CASE HostOf[p] = h
      BY <2>1, <3>1 DEF Reboot
    <3>2. CASE HostOf[p] # h
      BY <2>1, <3>2 DEF Reboot
    <3> QED
      BY <3>1, <3>2
  <2>2. PICK q \in Proc : Begin(q) \/ Tick(q) \/ Step(q) \/ Release(q) \/ Crash(q) \/ Start(q)
    BY <2>1 DEF Next
  <2>3. q = p
    BY <2>2 DEF Step, Begin, Tick, StepAPass, StepATimeout, CreatePrimary, CreateRefused,
       WriteRecord, SyncRecord, SealFails, StepCRead, StepCClassify, StepDWait,
       TakeRecoveryMutex, Validate1Read, Validate1Classify, Validate2, UnlinkStale,
       ReleaseRecoveryMutex, MutexUnlinkFails, Release, Crash, Start, GoTo, Leave, Revalidate,
       LockInv, TypeOK
  <2>4. CASE ReleaseRecoveryMutex(p)
    BY <2>4 DEF ReleaseRecoveryMutex
  <2>5. CASE ~ReleaseRecoveryMutex(p) /\ ~MutexUnlinkFails(p)
    BY <2>2, <2>3, <2>5 DEF Step, Begin, Tick, StepAPass, StepATimeout, CreatePrimary,
       CreateRefused, WriteRecord, SyncRecord, SealFails, StepCRead, StepCClassify,
       StepDWait, TakeRecoveryMutex, Validate1Read, Validate1Classify, Validate2,
       UnlinkStale, Release, Crash, Start, GoTo, Leave, Revalidate, LockInv, TypeOK,
       Recovering
  <2> QED
    BY <2>4, <2>5
<1> QED
  BY <1>1, LockInvariant, PTL DEF Spec, MutexGivenBack

-----------------------------------------------------------------------------
\* What changes in one step of the owners of the lock: one process may have
\* come to own it, or some have ceased to.
LEMMA OwnersChange ==
  ASSUME LockInv, Next
  PROVE  \/ \E p \in Proc : \A q \in Proc \ {p} : pc'[q] \in Owning <=> pc[q] \in Owning
         \/ \A q \in Proc : pc'[q] \in Owning => pc[q] \in Owning
<1>1. ASSUME NEW h \in Host, Reboot(h)
      PROVE  \A q \in Proc : pc'[q] \in Owning => pc[q] \in Owning
  BY <1>1 DEF Reboot, Owning
<1>2. ASSUME NEW p \in Proc,
             Begin(p) \/ Tick(p) \/ Step(p) \/ Release(p) \/ Crash(p) \/ Start(p)
      PROVE  \A q \in Proc \ {p} : pc'[q] = pc[q]
  BY <1>2 DEF Step, Begin, Tick, StepAPass, StepATimeout, CreatePrimary, CreateRefused,
     WriteRecord, SyncRecord, SealFails, StepCRead, StepCClassify, StepDWait,
     TakeRecoveryMutex, Validate1Read, Validate1Classify, Validate2, UnlinkStale,
     ReleaseRecoveryMutex, MutexUnlinkFails, Release, Crash, Start, GoTo, Leave,
     Revalidate, LockInv, TypeOK
<1> QED
  BY <1>1, <1>2 DEF Next

\* What was misread is not taken back.
LEMMA MisreadStays == LockInv /\ Next => (misread => misread')
<1> SUFFICES ASSUME LockInv, Next, misread PROVE misread'
  OBVIOUS
<1>1. ASSUME NEW p \in Proc, Validate1Classify(p) PROVE misread'
  BY <1>1 DEF Validate1Classify
<1>2. ASSUME NEW p \in Proc, ~Validate1Classify(p),
             Begin(p) \/ Tick(p) \/ Step(p) \/ Release(p) \/ Crash(p) \/ Start(p)
      PROVE  misread'
  BY <1>2 DEF Step, Begin, Tick, StepAPass, StepATimeout, CreatePrimary, CreateRefused,
     WriteRecord, SyncRecord, SealFails, StepCRead, StepCClassify, StepDWait,
     TakeRecoveryMutex, Validate1Read, Validate2, UnlinkStale, ReleaseRecoveryMutex,
     MutexUnlinkFails, Release, Crash, Start
<1>3. ASSUME NEW h \in Host, Reboot(h) PROVE misread'
  BY <1>3 DEF Reboot
<1> QED
  BY <1>1, <1>2, <1>3 DEF Next

\* The lock is a mutex until a failed lookup is misread: as one owner at most is
\* there before a step and after it, a process that comes to own the lock finds
\* nobody in.
THEOREM LockIsMutex == Spec => ImplementsMutex
<1> DEFINE Owners == {p \in Proc : pc[p] \in Owning /\ ~misread}
<1>1. Init => Owners = {}
  BY DEF Init, Owning
<1>2. LockInv /\ LockInv' /\ [Next]_vars => [Promise!Next]_Owners
  <2> SUFFICES ASSUME LockInv, LockInv', [Next]_vars, Owners' # Owners
               PROVE  Promise!Next
    OBVIOUS
  <2>1. Next
    BY DEF vars
  <2>2. MutualExclusion /\ MutualExclusion'
    BY DEF LockInv, HolderKeepsFile, MutualExclusion
  <2>3. CASE misread'
    BY <2>3 DEF Promise!Next, Promise!Exit
  <2>4. CASE ~misread'
    <3>1. ~misread
      BY <2>1, <2>4, MisreadStays
    <3>2. CASE \A q \in Proc : pc'[q] \in Owning => pc[q] \in Owning
      BY <2>2, <2>4, <3>1, <3>2 DEF MutualExclusion, Promise!Next, Promise!Exit
    <3>3. ASSUME NEW p \in Proc,
                 \A q \in Proc \ {p} : pc'[q] \in Owning <=> pc[q] \in Owning
          PROVE  Promise!Next
      <4>1. CASE pc'[p] \in Owning
        <5>1. Owners' = {p} /\ Owners = {}
          BY <2>2, <2>4, <3>1, <3>3, <4>1 DEF MutualExclusion
        <5> QED
          BY <5>1 DEF Promise!Next, Promise!Enter
      <4>2. CASE pc'[p] \notin Owning
        <5>1. Owners' = {}
          BY <2>2, <2>4, <3>1, <3>3, <4>2 DEF MutualExclusion
        <5> QED
          BY <5>1 DEF Promise!Next, Promise!Exit
      <4> QED
        BY <4>1, <4>2
    <3> QED
      BY <2>1, <3>2, <3>3, OwnersChange
  <2> QED
    BY <2>3, <2>4
<1> QED
  BY <1>1, <1>2, LockInvariant, PTL DEF Spec, ImplementsMutex, Promise!Spec, Promise!Init
=============================================================================

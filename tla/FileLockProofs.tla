--------------------------- MODULE FileLockProofs ---------------------------
(***************************************************************************)
(* Mutual exclusion of withFileTransactionLock for any number of           *)
(* processes, hosts and calls, any wait budget and any number of faults.   *)
(***************************************************************************)
EXTENDS FileLock, TLAPS

Recovering == {"recRead", "recCheck", "recUnlink", "recRmdir"}

\* Call n has not written its owner file yet: it has not started, or it still
\* scans the candidates of others.
Unwritten(n) ==
  \/ pc[n] \in {"idle", "scan", "own"}
  \/ pc[n] \in Recovering /\ target[n] # Lock

\* The action of call n is over for good, though its owner file may remain.
Spent(n) == pc[n] \in Deferred \cup Over

\* A call that lost the rename keeps its candidate for the next attempt.
ContenderKept ==
  \A c \in Calls : pc[c] \in Recovering /\ target[c] = Lock => c \in exists /\ entries[c] = {c}

\* Owner files, and what recovery has looked at, belong to calls past writing.
FilesWritten ==
  /\ \A p \in Paths : \A n \in entries[p] : ~Unwritten(n)
  /\ \A c \in Calls : pc[c] \in Recovering => target[c] \in Paths
  /\ \A c \in Calls : pc[c] \in Recovering /\ target[c] \in Calls => ~Unwritten(target[c])
  /\ \A c \in Calls : pc[c] \in {"recCheck", "recUnlink"} =>
                        seen[c] \in Calls /\ ~Unwritten(seen[c])

\* An owner file is unlinked by recovery only after its call's action is over.
RecoversSpent ==
  /\ \A c \in Calls : pc[c] = "recUnlink" => Spent(seen[c])
  /\ \A p \in Procs : \A n \in abandoned[p] : Spent(n)

\* The calls of a dead process are over or never began.
DeadMeansOver == \A c \in Calls : ProcOf[c] \notin alive => pc[c] \in {"idle"} \cup Over

\* A reentrant call runs in the process and under the lease of the holder.
GuestOfHolder ==
  \A c \in Calls :
    /\ pc[c] = "nested" => /\ outer[c] \in Calls /\ pc[outer[c]] = "cs"
                           /\ ProcOf[outer[c]] = ProcOf[c]
    /\ pc[c] # "nested" => outer[c] = None

\* withRetry starts an attempt only below its limit.
AttemptsLeft ==
  \A c \in Calls :
    pc[c] \in {"idle", "scan", "own", "try"} \/ (pc[c] \in Recovering /\ target[c] # Lock)
      => attempts[c] < MaxAttempts

IInv ==
  /\ TypeOK
  /\ HolderKeepsLock /\ CandidateIntact /\ ContenderKept /\ NoManualRepair
  /\ FilesWritten /\ RecoversSpent /\ DeadMeansOver /\ GuestOfHolder /\ AttemptsLeft

-----------------------------------------------------------------------------
USE FileLockAssumption DEF Paths, Goto, disk, recovery, PCs, Acquiring, Cleaning, Deferred,
  Over, Recovering

(* The parts of the invariant are expanded in the lemmas that follow. *)
USE DEF IInv, TypeOK, HolderKeepsLock, CandidateIntact, ContenderKept, NoManualRepair, FilesWritten,
  RecoversSpent, DeadMeansOver, GuestOfHolder, AttemptsLeft, Unwritten, Spent

\* The initial state: no directories, no call begun.
LEMMA InitIInv == Init => IInv
BY DEF Init

(* One lemma per action: it preserves the inductive invariant. *)

\* Begin reads the parent directory only.
LEMMA BeginIInv == ASSUME NEW c \in Calls, IInv, Begin(c) PROVE IInv'
BY DEF Begin

\* The end of a reentrant action touches no file.
LEMMA EndNestedIInv == ASSUME NEW c \in Calls, IInv, EndNested(c) PROVE IInv'
BY DEF EndNested

\* A fresh candidate disturbs nobody else's.
LEMMA MakeCandidateIInv == ASSUME NEW c \in Calls, IInv, MakeCandidate(c) PROVE IInv'
BY DEF MakeCandidate

\* From here on the candidate names its owner.
LEMMA WriteOwnerIInv == ASSUME NEW c \in Calls, IInv, WriteOwner(c) PROVE IInv'
BY DEF WriteOwner

\* The rename finds no owner in the lock, so nobody is in its action.
LEMMA PublishIInv == ASSUME NEW c \in Calls, IInv, Publish(c) PROVE IInv'
BY DEF Publish

\* A refused rename leaves the candidate in place.
LEMMA ContendIInv == ASSUME NEW c \in Calls, IInv, Contend(c) PROVE IInv'
BY DEF Contend

\* An abort goes to the clean-up.
LEMMA AbortIInv == ASSUME NEW c \in Calls, IInv, Abort(c) PROVE IInv'
BY DEF Abort

\* The action is over before the lock is touched.
LEMMA EndActionIInv == ASSUME NEW c \in Calls, IInv, EndAction(c) PROVE IInv'
BY DEF EndAction

\* A reentrant call starts inside the holder's action, in the holder's process.
LEMMA ReenterIInv == ASSUME NEW c \in Calls, NEW o \in Calls, IInv, Reenter(c, o) PROVE IInv'
BY DEF Reenter

\* A release unlinks the releasing call's own name.
LEMMA ReleaseUnlinkIInv == ASSUME NEW c \in Calls, IInv, ReleaseUnlink(c) PROVE IInv'
BY DEF ReleaseUnlink, UnlinkOwner, Directory

\* rmdir takes an empty directory only, never a new owner's lock.
LEMMA ReleaseRmdirIInv == ASSUME NEW c \in Calls, IInv, ReleaseRmdir(c) PROVE IInv'
<1>1. /\ pc[c] \in {"relRmdir", "timerRmdir"} /\ Settle(c) /\ UNCHANGED entries
      /\ exists' = exists \/ \E d \in {c, Lock} : entries[d] = {} /\ exists' = exists \ {d}
      /\ UNCHANGED abandoned
      /\ UNCHANGED <<alive, outer, recovery, faults>>
  BY DEF ReleaseRmdir, removeEmpty, Directory
<1>2. TypeOK'
  BY <1>1 DEF Settle
<1>3. HolderKeepsLock' /\ NoManualRepair'
  BY <1>1 DEF Settle
<1>4. CandidateIntact' /\ ContenderKept'
  BY <1>1 DEF Settle
<1>5. FilesWritten'
  BY <1>1 DEF Settle
<1>6. RecoversSpent' /\ DeadMeansOver'
  BY <1>1 DEF Settle
<1>7. GuestOfHolder' /\ AttemptsLeft'
  BY <1>1 DEF Settle
<1> QED BY <1>2, <1>3, <1>4, <1>5, <1>6, <1>7 DEF IInv

\* A failed clean-up is noted after the action is over.
LEMMA ReleaseFaultIInv == ASSUME NEW c \in Calls, IInv, ReleaseFault(c) PROVE IInv'
BY DEF ReleaseFault

\* The timers repeat the release's unlink of the call's own name.
LEMMA TimerUnlinkIInv == ASSUME NEW c \in Calls, IInv, TimerUnlink(c) PROVE IInv'
BY DEF TimerUnlink, UnlinkOwner, Directory

\* The timers repeat the release's rmdir.
LEMMA TimerRmdirIInv == ASSUME NEW c \in Calls, IInv, TimerRmdir(c) PROVE IInv'
<1>1. /\ pc[c] \in {"relRmdir", "timerRmdir"} /\ Settle(c) /\ UNCHANGED entries
      /\ exists' = exists \/ \E d \in {c, Lock} : entries[d] = {} /\ exists' = exists \ {d}
      /\ abandoned' = [abandoned EXCEPT ![ProcOf[c]] = @ \ {c}]
      /\ UNCHANGED <<alive, outer, recovery, faults>>
  BY DEF TimerRmdir, removeEmpty, Directory
<1>2. TypeOK'
  BY <1>1 DEF Settle
<1>3. HolderKeepsLock' /\ NoManualRepair'
  BY <1>1 DEF Settle
<1>4. CandidateIntact' /\ ContenderKept'
  BY <1>1 DEF Settle
<1>5. FilesWritten'
  BY <1>1 DEF Settle
<1>6. RecoversSpent' /\ DeadMeansOver'
  BY <1>1 DEF Settle
<1>7. GuestOfHolder' /\ AttemptsLeft'
  BY <1>1 DEF Settle
<1> QED BY <1>2, <1>3, <1>4, <1>5, <1>6, <1>7 DEF IInv

\* A failing timer changes no file.
LEMMA TimerFaultIInv == ASSUME NEW c \in Calls, IInv, TimerFault(c) PROVE IInv'
BY DEF TimerFault

\* A crash ends all calls of the process and touches no file.
LEMMA CrashIInv == ASSUME NEW p \in Procs, IInv, Crash(p) PROVE IInv'
BY DEF Crash

\* A reused pid revives no call.
LEMMA ReusePidIInv == ASSUME NEW p \in Procs, IInv, ReusePid(p) PROVE IInv'
BY DEF ReusePid

\* A candidate is examined only once its owner file has been seen.
LEMMA ScanCandidateIInv == ASSUME NEW c \in Calls, IInv, ScanCandidate(c) PROVE IInv'
<1> PICK d \in todo[c] :
      /\ todo' = [todo EXCEPT ![c] = @ \ {d}]
      /\ \/ entries[d] # {} /\ Goto(c, "recRead") /\ target' = [target EXCEPT ![c] = d]
         \/ entries[d] = {} /\ UNCHANGED <<pc, target>>
  BY DEF ScanCandidate
<1>1. d \in Calls /\ (entries[d] # {} => ~Unwritten(d) /\ d # c)
  BY DEF ScanCandidate
<1>2. CASE entries[d] # {}
  <2>1. TypeOK'
    BY <1>1, <1>2 DEF ScanCandidate
  <2>2. HolderKeepsLock' /\ CandidateIntact' /\ NoManualRepair'
    BY <1>1, <1>2 DEF ScanCandidate
  <2>3. ContenderKept'
    BY <1>1, <1>2 DEF ScanCandidate
  <2>4. FilesWritten'
    BY <1>1, <1>2, SMTT(20) DEF ScanCandidate
  <2>5. RecoversSpent'
    BY <1>1, <1>2 DEF ScanCandidate
  <2>7. DeadMeansOver'
    BY <1>2 DEF ScanCandidate
  <2>6. GuestOfHolder' /\ AttemptsLeft'
    BY <1>1, <1>2 DEF ScanCandidate
  <2> QED BY <2>1, <2>2, <2>3, <2>4, <2>5, <2>6, <2>7 DEF IInv
<1>3. CASE entries[d] = {}
  BY <1>1, <1>3 DEF ScanCandidate
<1> QED BY <1>2, <1>3

\* Returning from recoverDeadOwner without having touched a file.
LEMMA AfterRecoveryIInv ==
  ASSUME NEW c \in Calls, IInv, pc[c] \in Recovering, AfterRecovery(c),
         UNCHANGED <<disk, alive, abandoned, attempts, published, outer, todo, faults>>
  PROVE  IInv'
BY DEF AfterRecovery

\* The one name read belongs to a call that has written it.
LEMMA RecoverReadIInv == ASSUME NEW c \in Calls, IInv, RecoverRead(c) PROVE IInv'
<1>1. CASE target[c] \notin exists /\ AfterRecovery(c)
  BY <1>1, AfterRecoveryIInv DEF RecoverRead
<1>2. CASE Goto(c, "recRmdir") /\ UNCHANGED <<target, seen>>
  BY <1>2 DEF RecoverRead
<1>3. ASSUME NEW n \in Calls, entries[target[c]] = {n}, Goto(c, "recCheck"),
             seen' = [seen EXCEPT ![c] = n], UNCHANGED target
      PROVE  IInv'
  <2>1. ~Unwritten(n)
    BY <1>3 DEF IInv, FilesWritten, RecoverRead
  <2> QED BY <1>3, <2>1 DEF RecoverRead
<1> QED BY <1>1, <1>2, <1>3 DEF RecoverRead

\* A name passes the check only if its call is over: it was abandoned by this
\* process, or its process is dead, and on this host the pid probe is right.
LEMMA RecoverCheckIInv == ASSUME NEW c \in Calls, IInv, RecoverCheck(c) PROVE IInv'
<1> DEFINE n == seen[c]
<1>1. n \in Calls /\ ~Unwritten(n)
  BY DEF IInv, FilesWritten, RecoverCheck
<1> PICK pidDead \in LooksDead(c, n) :
      \/ MayRecover(c, n, pidDead) /\ Goto(c, "recUnlink") /\ UNCHANGED <<target, seen>>
      \/ ~MayRecover(c, n, pidDead) /\ AfterRecovery(c)
  BY DEF RecoverCheck
<1>2. CASE MayRecover(c, n, pidDead) /\ Goto(c, "recUnlink") /\ UNCHANGED <<target, seen>>
  <2>1. n \in abandoned[ProcOf[c]] \/ ProcOf[n] \notin alive
    BY <1>2, Zenon DEF MayRecover, LooksDead
  <2>2. Spent(n)
    BY <1>1, <2>1 DEF IInv, TypeOK, RecoversSpent, DeadMeansOver, Unwritten, Spent
  <2> QED BY <1>1, <1>2, <2>2 DEF RecoverCheck
<1>3. CASE ~MayRecover(c, n, pidDead) /\ AfterRecovery(c)
  BY <1>3, AfterRecoveryIInv DEF RecoverCheck
<1> QED BY <1>2, <1>3

\* The name unlinked is that of a call that is over, so no holder loses its lock
\* and no contender its candidate.
LEMMA RecoverUnlinkIInv == ASSUME NEW c \in Calls, IInv, RecoverUnlink(c) PROVE IInv'
<1> DEFINE n == seen[c]
<1>1. /\ n \in Calls /\ Spent(n) /\ target[c] \in Paths
      /\ entries' = [entries EXCEPT ![target[c]] = @ \ {n}]
      /\ UNCHANGED <<exists, alive, attempts, published, outer, todo, faults>>
  BY DEF IInv, FilesWritten, RecoversSpent, RecoverUnlink, UnlinkOwner
<1>2. CASE n \in entries[target[c]]
  <2>1. /\ Goto(c, "recRmdir") /\ UNCHANGED <<target, seen>>
        /\ abandoned' = [abandoned EXCEPT ![ProcOf[c]] = @ \ {n}]
    BY <1>2 DEF RecoverUnlink
  <2> QED BY <1>1, <2>1 DEF RecoverUnlink
<1>3. CASE n \notin entries[target[c]]
  <2>1. UNCHANGED entries
    BY <1>1, <1>3 DEF IInv, TypeOK
  <2> QED BY <1>1, <1>3, <2>1, AfterRecoveryIInv DEF RecoverUnlink
<1> QED BY <1>2, <1>3

\* rmdir takes an empty directory only, and not the one a live call is about to
\* write its owner file into.
LEMMA RecoverRmdirIInv == ASSUME NEW c \in Calls, IInv, RecoverRmdir(c) PROVE IInv'
<1>1. /\ AfterRecovery(c) /\ UNCHANGED entries /\ target[c] \in Paths
      /\ exists' = exists \/ (entries[target[c]] = {} /\ exists' = exists \ {target[c]})
      /\ UNCHANGED <<alive, abandoned, attempts, published, outer, todo, faults>>
      /\ pc[c] = "recRmdir"
  BY DEF RecoverRmdir, removeEmpty, IInv, FilesWritten
<1>2. CASE exists' = exists
  BY <1>1, <1>2, AfterRecoveryIInv
<1>3. CASE entries[target[c]] = {} /\ exists' = exists \ {target[c]}
  <2>1. \A d \in Calls : pc[d] = "own" => d # target[c]
    BY <1>1 DEF IInv, FilesWritten, Unwritten
  <2>2. TypeOK' /\ HolderKeepsLock' /\ CandidateIntact' /\ NoManualRepair'
    BY <1>1, <1>3, <2>1 DEF AfterRecovery
  <2>3. FilesWritten' /\ RecoversSpent' /\ DeadMeansOver'
    BY <1>1 DEF AfterRecovery
  <2>4. GuestOfHolder' /\ AttemptsLeft'
    BY <1>1 DEF AfterRecovery
  <2>5. ContenderKept'
    <3> SUFFICES ASSUME NEW d \in Calls, pc'[d] \in Recovering, target'[d] = Lock
                 PROVE  d \in exists' /\ entries'[d] = {d}
      BY DEF ContenderKept
    <3>1. d # c
      BY <1>1 DEF IInv, TypeOK, AfterRecovery
    <3>2. d \in exists /\ entries[d] = {d}
      BY <1>1, <3>1 DEF IInv, TypeOK, AfterRecovery, ContenderKept
    <3> QED BY <1>1, <1>3, <3>2
  <2> QED BY <2>2, <2>3, <2>4, <2>5 DEF IInv
<1> QED BY <1>1, <1>2, <1>3

\* Stuttering.
LEMMA StutterIInv == IInv /\ UNCHANGED vars => IInv'
BY DEF vars

HIDE DEF IInv, TypeOK, HolderKeepsLock, CandidateIntact, ContenderKept, NoManualRepair, FilesWritten,
  RecoversSpent, DeadMeansOver, GuestOfHolder, AttemptsLeft, Unwritten, Spent

-----------------------------------------------------------------------------
\* No step of any call or process leaves the inductive invariant.
LEMMA NextIInv == IInv /\ [Next]_vars => IInv'
<1> SUFFICES ASSUME IInv, [Next]_vars PROVE IInv'
  OBVIOUS
<1>1. ASSUME NEW c \in Calls, Step(c) PROVE IInv'
  BY <1>1, EndNestedIInv, ScanCandidateIInv, MakeCandidateIInv, WriteOwnerIInv, PublishIInv,
     ContendIInv, RecoverReadIInv, RecoverCheckIInv, RecoverUnlinkIInv, RecoverRmdirIInv,
     EndActionIInv, ReleaseUnlinkIInv, ReleaseRmdirIInv, TimerUnlinkIInv, TimerRmdirIInv
     DEF Step
<1>2. ASSUME NEW c \in Calls,
             \/ Begin(c) \/ Abort(c) \/ ReleaseFault(c) \/ TimerFault(c)
             \/ \E o \in Calls : Reenter(c, o)
      PROVE  IInv'
  BY <1>2, BeginIInv, AbortIInv, ReleaseFaultIInv, TimerFaultIInv, ReenterIInv
<1>3. ASSUME NEW p \in Procs, Crash(p) \/ ReusePid(p) PROVE IInv'
  BY <1>3, CrashIInv, ReusePidIInv
<1>4. CASE UNCHANGED vars
  BY <1>4, StutterIInv
<1> QED BY <1>1, <1>2, <1>3, <1>4 DEF Next

\* The inductive invariant holds throughout.
THEOREM Invariance == Spec => []IInv
BY InitIInv, NextIInv, PTL DEF Spec

\* Type correctness of the file lock's state.
THEOREM TypeCorrect == Spec => []TypeOK
<1>1. IInv => TypeOK
  BY DEF IInv
<1> QED BY <1>1, Invariance, PTL

\* withFileTransactionLock never runs the actions of two calls at once, and a
\* reentrant action never outlives the lease it inherited.
THEOREM Exclusion == Spec => []MutualExclusion
<1>1. IInv => MutualExclusion
  BY DEF IInv, HolderKeepsLock, GuestOfHolder, MutualExclusion
<1> QED BY <1>1, Invariance, PTL

\* A live holder's lock directory is never taken from it.
THEOREM NeverEvicted == Spec => []HolderKeepsLock
<1>1. IInv => HolderKeepsLock
  BY DEF IInv
<1> QED BY <1>1, Invariance, PTL

\* recoverDeadCandidates never reaps what a live call is about to publish.
THEOREM NeverReaped == Spec => []CandidateIntact
<1>1. IInv => CandidateIntact
  BY DEF IInv
<1> QED BY <1>1, Invariance, PTL

\* No sequence of crashes and recoveries leaves a lock that needs manual repair.
THEOREM NeverNeedsRepair == Spec => []NoManualRepair
<1>1. IInv => NoManualRepair
  BY DEF IInv
<1> QED BY <1>1, Invariance, PTL

-----------------------------------------------------------------------------
(* Refinement of TransactionMutex. *)

USE DEF Holding, Guests, Ended

\* Guests run only while somebody holds.
LEMMA NoGuestsAlone == IInv /\ Holding = {} => Guests = {}
BY DEF IInv, GuestOfHolder

\* A call that gives up before its action ends for the mutex as well.
LEMMA GiveUpRefines ==
  ASSUME NEW c \in Calls, IInv, pc[c] \in Acquiring, Goto(c, "relUnlink")
  PROVE  Mutex!Next
<1> USE DEF IInv, TypeOK
<1>1. Holding' = Holding \ {c} /\ Holding' = Holding
  OBVIOUS
<1>2. Guests' = Guests \ {c} /\ Guests' = Guests
  OBVIOUS
<1>3. Ended' = Ended \cup {c} /\ c \notin Ended
  OBVIOUS
<1>4. Mutex!Finish({c})
  BY <1>1, <1>2, <1>3, NoGuestsAlone DEF Mutex!Finish
<1> QED BY <1>4 DEF Mutex!Next

\* A step of one call maps to the mutex's Enter, Finish or a stuttering step.
LEMMA StepRefines ==
  ASSUME NEW c \in Calls, IInv, Step(c)
  PROVE  Mutex!Next \/ UNCHANGED <<Holding, Guests, Ended>>
<1> USE DEF IInv, TypeOK
<1>1. CASE Publish(c)
  <2>1. Holding = {}
    BY <1>1 DEF HolderKeepsLock, Publish
  <2>2. CASE Goto(c, "cs")
    <3>1. Mutex!Enter(c)
      BY <1>1, <2>1, <2>2 DEF Mutex!Enter, Mutex!Fresh, Publish
    <3> QED BY <3>1 DEF Mutex!Next
  <2>3. CASE Goto(c, "relUnlink")
    BY <1>1, <2>3, GiveUpRefines DEF Publish
  <2> QED BY <1>1, <2>2, <2>3 DEF Publish
<1>2. CASE EndNested(c)
  <2>1. Mutex!Finish({c})
    BY <1>2 DEF Mutex!Finish, EndNested, GuestOfHolder
  <2> QED BY <2>1 DEF Mutex!Next
<1>3. CASE EndAction(c)
  <2>1. Guests = {}
    BY <1>3, SMTT(20) DEF EndAction, GuestOfHolder, HolderKeepsLock
  <2>2. Mutex!Finish({c})
    BY <1>3, <2>1 DEF Mutex!Finish, EndAction
  <2> QED BY <2>2 DEF Mutex!Next
<1>4. ASSUME AfterRecovery(c), pc[c] \in Recovering
      PROVE  Mutex!Next \/ UNCHANGED <<Holding, Guests, Ended>>
  <2>1. CASE pc'[c] = "relUnlink"
    <3> DEFINE label == IF target[c] # Lock THEN "scan"
                        ELSE IF attempts[c] < MaxAttempts THEN "try" ELSE "relUnlink"
    <3>1. pc' = [pc EXCEPT ![c] = label] /\ pc \in [Calls -> PCs]
      BY <1>4, Zenon DEF AfterRecovery
    <3>2. label = "relUnlink"
      BY <2>1, <3>1, Zenon
    <3>3. Goto(c, "relUnlink") /\ pc[c] \in Acquiring
      BY <1>4, <3>1, <3>2, Zenon
    <3>4. Mutex!Next
      BY <3>3, GiveUpRefines, Zenon
    <3> QED BY <3>4
  <2>2. CASE pc'[c] # "relUnlink"
    BY <1>4, <2>2 DEF AfterRecovery
  <2> QED BY <2>1, <2>2
<1>5. CASE RecoverRead(c)
  BY <1>4, <1>5 DEF RecoverRead
<1>6. CASE RecoverCheck(c)
  BY <1>4, <1>6 DEF RecoverCheck
<1>7. CASE RecoverUnlink(c)
  BY <1>4, <1>7 DEF RecoverUnlink
<1>8. CASE RecoverRmdir(c)
  BY <1>4, <1>8 DEF RecoverRmdir
<1>9. CASE ScanCandidate(c) \/ MakeCandidate(c) \/ WriteOwner(c) \/ Contend(c)
  BY <1>9 DEF ScanCandidate, MakeCandidate, WriteOwner, Contend
<1>10. CASE ReleaseUnlink(c) \/ ReleaseRmdir(c) \/ TimerUnlink(c) \/ TimerRmdir(c)
  BY <1>10 DEF ReleaseUnlink, ReleaseRmdir, TimerUnlink, TimerRmdir, Settle
<1> QED BY <1>1, <1>2, <1>3, <1>5, <1>6, <1>7, <1>8, <1>9, <1>10 DEF Step

\* The death of a process ends all its calls in one step of the mutex.
LEMMA CrashRefines ==
  ASSUME NEW p \in Procs, IInv, Crash(p)
  PROVE  Mutex!Next \/ UNCHANGED <<Holding, Guests, Ended>>
<1> DEFINE S == {c \in Calls : ProcOf[c] = p /\ pc[c] # "idle"} \ Ended
<1> USE DEF IInv, TypeOK
<1>1. Holding' = Holding \ S /\ Guests' = Guests \ S /\ Ended' = Ended \cup S
  BY DEF Crash
<1>2. Holding \ S = {} => Guests \ S = {}
  <2> SUFFICES ASSUME NEW g \in Guests \ S
               PROVE  outer[g] \in Holding \ S
    OBVIOUS
  <2>1. outer[g] \in Calls /\ pc[outer[g]] = "cs" /\ ProcOf[outer[g]] = ProcOf[g]
    BY DEF GuestOfHolder
  <2>2. pc[g] = "nested" /\ g \notin Ended /\ ProcOf[g] # p
    OBVIOUS
  <2> QED BY <2>1, <2>2
<1>3. CASE S = {}
  BY <1>1, <1>3
<1>4. CASE S # {}
  <2>1. S \cap Ended = {} /\ S \in SUBSET Calls
    OBVIOUS
  <2> HIDE DEF S, Holding, Guests, Ended
  <2>2. Mutex!Finish(S)
    BY <1>1, <1>2, <1>4, <2>1 DEF Mutex!Finish
  <2> QED BY <2>1, <2>2 DEF Mutex!Next
<1> QED BY <1>3, <1>4

\* The lock on directories implements the mutex its callers rely on.
THEOREM Refinement == Spec => RefinesMutex
<1>1. Init => Mutex!Init
  BY DEF Init, Mutex!Init
<1>2. ASSUME IInv, [Next]_vars
      PROVE  [Mutex!Next]_<<Holding, Guests, Ended>>
  <2> USE DEF IInv, TypeOK
  <2>1. ASSUME NEW c \in Calls, NEW o \in Calls, Reenter(c, o)
        PROVE  Mutex!Next
    <3>1. Guests' = Guests \cup {c} /\ Holding' = Holding /\ Ended' = Ended
      BY <1>2, <2>1 DEF Reenter
    <3>2. o \in Holding /\ c \notin Holding \cup Guests \cup Ended
      BY <1>2, <2>1 DEF Reenter
    <3>3. Mutex!Join(c)
      BY <3>1, <3>2 DEF Mutex!Join, Mutex!Fresh
    <3> QED BY <3>3 DEF Mutex!Next
  <2>2. ASSUME NEW c \in Calls, Abort(c)
        PROVE  Mutex!Next
    BY <1>2, <2>2, GiveUpRefines DEF Abort
  <2>3. ASSUME NEW c \in Calls, Begin(c) \/ ReleaseFault(c) \/ TimerFault(c)
        PROVE  UNCHANGED <<Holding, Guests, Ended>>
    <3>1. CASE Begin(c) BY <3>1 DEF Begin
    <3>2. CASE ReleaseFault(c) BY <3>2 DEF ReleaseFault
    <3>3. CASE TimerFault(c)
      <4>1. pc[c] \in Deferred /\ (Goto(c, "timer") \/ Goto(c, "leaked"))
        BY <3>3 DEF TimerFault
      <4>2. CASE Goto(c, "timer")  BY <4>1, <4>2
      <4>3. CASE Goto(c, "leaked") BY <4>1, <4>3
      <4> QED BY <4>1, <4>2, <4>3
    <3> QED BY <2>3, <3>1, <3>2, <3>3
  <2>4. ASSUME NEW p \in Procs, ReusePid(p)
        PROVE  UNCHANGED <<Holding, Guests, Ended>>
    BY <2>4 DEF ReusePid
  <2>5. CASE UNCHANGED vars
    BY <2>5 DEF vars
  <2> QED BY <1>2, <2>1, <2>2, <2>3, <2>4, <2>5, StepRefines, CrashRefines DEF Next
<1> QED BY <1>1, <1>2, Invariance, PTL DEF Spec, RefinesMutex, Mutex!Spec

=============================================================================

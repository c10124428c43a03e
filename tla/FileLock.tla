------------------------------ MODULE FileLock ------------------------------
(***************************************************************************)
(* lib/storage/file-lock.ts: the cross-process transaction lock.           *)
(*                                                                         *)
(* A call of withFileTransactionLock publishes a directory that already    *)
(* holds its owner file by renaming it onto <path>.write-lock.  One action *)
(* is one file system call (or one probe of a process id), so calls of     *)
(* several processes interleave between any two of them and a process may  *)
(* die there.  A call runs once: its randomUUID() owner name is the call   *)
(* itself, and the candidate directory mkdtemp gives it is named by it.    *)
(***************************************************************************)
EXTENDS Naturals

CONSTANTS
  Procs,        \* process ids
  Calls,        \* calls of withFileTransactionLock for one key
  ProcOf,       \* the process id a call runs under
  HostOf,       \* the host a process id belongs to
  Lock,         \* the path <key>.write-lock
  None,
  MaxAttempts,  \* lockMaxAttemptsForWaitMs(waitMs)
  MaxFaults     \* bound on clean-ups whose retries all fail

ASSUME FileLockAssumption ==
  /\ ProcOf \in [Calls -> Procs]
  /\ DOMAIN HostOf = Procs
  /\ Lock \notin Calls /\ None \notin Calls /\ None # Lock
  /\ MaxAttempts \in Nat \ {0}
  /\ MaxFaults \in Nat

VARIABLES
  exists,     \* directories that exist: Lock, and candidates (named by call)
  entries,    \* owner files in each directory
  alive,      \* process ids that answer kill(pid, 0)
  abandoned,  \* per process, abandonedOwners
  pc, attempts, published,
  outer,      \* the call whose active lease a reentrant call runs under
  todo,       \* candidates recoverDeadCandidates has still to visit
  target,     \* path recoverDeadOwner works on
  seen,       \* the one entry recoverDeadOwner read there
  faults

disk == <<exists, entries>>
recovery == <<todo, target, seen>>
vars == <<exists, entries, alive, abandoned, pc, attempts, published, outer,
          todo, target, seen, faults>>

Paths == Calls \cup {Lock}

Acquiring == {"scan", "own", "try", "recRead", "recCheck", "recUnlink", "recRmdir"}
Cleaning == {"relUnlink", "relRmdir"}
Deferred == {"timer", "timerRmdir", "leaked"}   \* clean-up left to timers
Over == {"done", "crashed"}
PCs == {"idle", "nested", "cs"} \cup Acquiring \cup Cleaning \cup Deferred \cup Over

TypeOK ==
  /\ exists \subseteq Paths
  /\ entries \in [Paths -> SUBSET Calls]
  /\ alive \subseteq Procs
  /\ abandoned \in [Procs -> SUBSET Calls]
  /\ pc \in [Calls -> PCs]
  /\ attempts \in [Calls -> 0..MaxAttempts]
  /\ published \subseteq Calls
  /\ outer \in [Calls -> Calls \cup {None}]
  /\ todo \in [Calls -> SUBSET Calls]
  /\ target \in [Calls -> Paths \cup {None}]
  /\ seen \in [Calls -> Calls \cup {None}]
  /\ faults \in 0..MaxFaults

Init ==
  /\ exists = {}
  /\ entries = [p \in Paths |-> {}]
  /\ alive = Procs
  /\ abandoned = [p \in Procs |-> {}]
  /\ pc = [c \in Calls |-> "idle"]
  /\ attempts = [c \in Calls |-> 0]
  /\ published = {}
  /\ outer = [c \in Calls |-> None]
  /\ todo = [c \in Calls |-> {}]
  /\ target = [c \in Calls |-> None]
  /\ seen = [c \in Calls |-> None]
  /\ faults = 0

-----------------------------------------------------------------------------
(* File system calls, as predicates on <<exists, entries>>. *)

Goto(c, label) == pc' = [pc EXCEPT ![c] = label]

\* Mutant of removeEmpty: a recursive delete.
removeTree(path) ==
  /\ exists' = exists \ {path}
  /\ entries' = [entries EXCEPT ![path] = {}]

\* removeEmpty: ENOENT, ENOTEMPTY and EEXIST are ignored.
removeEmpty(path) ==
  /\ exists' = IF entries[path] = {} THEN exists \ {path} ELSE exists
  /\ UNCHANGED entries

\* unlink of an owner file; a missing file leaves the disk as it is.
UnlinkOwner(path, owner) ==
  /\ entries' = [entries EXCEPT ![path] = @ \ {owner}]
  /\ UNCHANGED exists

-----------------------------------------------------------------------------
(* Acquisition. *)

\* First part of the guarded section: no active lease is inherited, so the
\* parent directory is listed for candidates that dead calls left behind.
Begin(c) ==
  /\ pc[c] = "idle" /\ ProcOf[c] \in alive
  /\ Goto(c, "scan")
  /\ todo' = [todo EXCEPT ![c] = exists \cap Calls]
  /\ UNCHANGED <<disk, alive, abandoned, attempts, published, outer, target, seen, faults>>

\* leases.getStore()?.get(key)?.active: called from inside o's action, the
\* action of c runs at once and neither takes nor releases anything.
Reenter(c, o) ==
  /\ pc[c] = "idle" /\ ProcOf[c] = ProcOf[o] /\ pc[o] = "cs"
  /\ Goto(c, "nested")
  /\ outer' = [outer EXCEPT ![c] = o]
  /\ UNCHANGED <<disk, alive, abandoned, attempts, published, recovery, faults>>

EndNested(c) ==
  /\ pc[c] = "nested"
  /\ Goto(c, "done")
  /\ outer' = [outer EXCEPT ![c] = None]
  /\ UNCHANGED <<disk, alive, abandoned, attempts, published, recovery, faults>>

\* Mutant of ScanCandidate: empty candidates are examined too.
ScanEveryCandidate(c) ==
  /\ pc[c] = "scan"
  /\ \E d \in todo[c] :
       /\ todo' = [todo EXCEPT ![c] = @ \ {d}]
       /\ target' = [target EXCEPT ![c] = d]
  /\ Goto(c, "recRead")
  /\ UNCHANGED <<disk, alive, abandoned, attempts, published, outer, seen, faults>>

\* recoverDeadCandidates: one more candidate; only a candidate with exactly
\* one owner file is examined, an empty one may be a live call's.
ScanCandidate(c) ==
  /\ pc[c] = "scan"
  /\ \E d \in todo[c] :
       /\ todo' = [todo EXCEPT ![c] = @ \ {d}]
       /\ \/ /\ entries[d] # {}
             /\ Goto(c, "recRead")
             /\ target' = [target EXCEPT ![c] = d]
          \/ /\ entries[d] = {}
             /\ UNCHANGED <<pc, target>>
  /\ UNCHANGED <<disk, alive, abandoned, attempts, published, outer, seen, faults>>

\* mkdtemp of the candidate, once the scan is over.
MakeCandidate(c) ==
  /\ pc[c] = "scan" /\ todo[c] = {}
  /\ Goto(c, "own")
  /\ exists' = exists \cup {c}
  /\ UNCHANGED <<entries, alive, abandoned, attempts, published, outer, recovery, faults>>

\* writeFile(join(candidate, owner), flag wx).
WriteOwner(c) ==
  /\ pc[c] = "own" /\ c \in exists
  /\ Goto(c, "try")
  /\ entries' = [entries EXCEPT ![c] = @ \cup {c}]
  /\ UNCHANGED <<exists, alive, abandoned, attempts, published, outer, recovery, faults>>

\* Mutant of Publish: the owner file is moved into whatever lock is there.
PublishIntoLock(c) ==
  /\ pc[c] = "try" /\ c \in exists
  /\ exists' = (exists \ {c}) \cup {Lock}
  /\ entries' = [entries EXCEPT ![Lock] = @ \cup entries[c], ![c] = {}]
  /\ published' = published \cup {c}
  /\ Goto(c, "cs")
  /\ UNCHANGED <<alive, abandoned, attempts, outer, recovery, faults>>

\* rename(candidate, lock) succeeds when there is no lock directory or (on
\* POSIX) an empty one.  A signal aborted meanwhile throws before the action.
Publish(c) ==
  /\ pc[c] = "try" /\ c \in exists
  /\ entries[Lock] = {}
  /\ exists' = (exists \ {c}) \cup {Lock}
  /\ entries' = [entries EXCEPT ![Lock] = entries[c], ![c] = {}]
  /\ published' = published \cup {c}
  /\ attempts' = [attempts EXCEPT ![c] = @ + 1]
  /\ \E next \in {"cs", "relUnlink"} : Goto(c, next)
  /\ UNCHANGED <<alive, abandoned, outer, recovery, faults>>

\* Mutant of Contend: the attempt is not counted.
ContendUncounted(c) ==
  /\ pc[c] = "try" /\ Lock \in exists
  /\ Goto(c, "recRead")
  /\ target' = [target EXCEPT ![c] = Lock]
  /\ UNCHANGED <<disk, alive, abandoned, attempts, published, outer, todo, seen, faults>>

\* rename fails because the lock directory exists (on Windows even an empty
\* one refuses the rename); recoverDeadOwner(lock) comes next.
Contend(c) ==
  /\ pc[c] = "try" /\ Lock \in exists
  /\ Goto(c, "recRead")
  /\ target' = [target EXCEPT ![c] = Lock]
  /\ attempts' = [attempts EXCEPT ![c] = @ + 1]
  /\ UNCHANGED <<disk, alive, abandoned, published, outer, todo, seen, faults>>

\* signal.throwIfAborted() before an attempt, or a call that fails for good
\* (the owner write, a rename for another reason than a lock in the way).
Abort(c) ==
  /\ pc[c] \in {"own", "try"}
  /\ Goto(c, "relUnlink")
  /\ UNCHANGED <<disk, alive, abandoned, attempts, published, outer, recovery, faults>>

-----------------------------------------------------------------------------
(* recoverDeadOwner(target[c]). *)

\* Mutant of AfterRecovery: one attempt too many.
AfterRecoveryLate(c) ==
  /\ Goto(c, IF target[c] # Lock THEN "scan"
             ELSE IF attempts[c] <= MaxAttempts THEN "try" ELSE "relUnlink")
  /\ target' = [target EXCEPT ![c] = None]
  /\ seen' = [seen EXCEPT ![c] = None]

\* Where a return from recoverDeadOwner goes: the next candidate, or ELOCKED,
\* which withRetry retries up to its attempt limit.
AfterRecovery(c) ==
  /\ Goto(c, IF target[c] # Lock THEN "scan"
             ELSE IF attempts[c] < MaxAttempts THEN "try" ELSE "relUnlink")
  /\ target' = [target EXCEPT ![c] = None]
  /\ seen' = [seen EXCEPT ![c] = None]

\* lstat and readdir.  (Two entries would be "manual repair required":
\* NoManualRepair shows that this never happens.)
RecoverRead(c) ==
  /\ pc[c] = "recRead"
  /\ \/ target[c] \notin exists /\ AfterRecovery(c)
     \/ /\ target[c] \in exists /\ entries[target[c]] = {}
        /\ Goto(c, "recRmdir") /\ UNCHANGED <<target, seen>>
     \/ \E n \in Calls :
          /\ target[c] \in exists /\ entries[target[c]] = {n}
          /\ Goto(c, "recCheck")
          /\ seen' = [seen EXCEPT ![c] = n]
          /\ UNCHANGED target
  /\ UNCHANGED <<disk, alive, abandoned, attempts, published, outer, todo, faults>>

\* What kill(pid, 0) answers on c's host about the pid in owner name n: a pid
\* of another host names an unrelated local process, or none.
LooksDead(c, n) ==
  IF HostOf[ProcOf[c]] = HostOf[ProcOf[n]] THEN {ProcOf[n] \notin alive} ELSE BOOLEAN

\* Mutants of MayRecover: no probe of the pid, and no recovery
\* of owners other than this process's abandoned ones.
MayRecoverUnprobed(c, n, pidDead) == HostOf[ProcOf[n]] = HostOf[ProcOf[c]]
MayRecoverOwn(c, n, pidDead) == n \in abandoned[ProcOf[c]]

\* A foreign host's owner is left alone; otherwise the owner must be one this
\* process abandoned, or its pid must be dead.
MayRecover(c, n, pidDead) ==
  /\ HostOf[ProcOf[n]] = HostOf[ProcOf[c]]
  /\ n \in abandoned[ProcOf[c]] \/ pidDead

RecoverCheck(c) ==
  /\ pc[c] = "recCheck"
  /\ \E pidDead \in LooksDead(c, seen[c]) :
       \/ /\ MayRecover(c, seen[c], pidDead)
          /\ Goto(c, "recUnlink") /\ UNCHANGED <<target, seen>>
       \/ ~MayRecover(c, seen[c], pidDead) /\ AfterRecovery(c)
  /\ UNCHANGED <<disk, alive, abandoned, attempts, published, outer, todo, faults>>

RecoverUnlink(c) ==
  /\ pc[c] = "recUnlink"
  /\ UnlinkOwner(target[c], seen[c])
  /\ \/ /\ seen[c] \in entries[target[c]]
        /\ abandoned' = [abandoned EXCEPT ![ProcOf[c]] = @ \ {seen[c]}]
        /\ Goto(c, "recRmdir") /\ UNCHANGED <<target, seen>>
     \/ /\ seen[c] \notin entries[target[c]]     \* ENOENT
        /\ AfterRecovery(c)
        /\ UNCHANGED abandoned
  /\ UNCHANGED <<alive, attempts, published, outer, todo, faults>>

RecoverRmdir(c) ==
  /\ pc[c] = "recRmdir"
  /\ removeEmpty(target[c])
  /\ AfterRecovery(c)
  /\ UNCHANGED <<alive, abandoned, attempts, published, outer, todo, faults>>

-----------------------------------------------------------------------------
(* The action, and the finally block. *)

\* Mutant of EndAction: calls made from the action are not awaited.
EndActionEarly(c) ==
  /\ pc[c] = "cs"
  /\ Goto(c, "relUnlink")
  /\ UNCHANGED <<disk, alive, abandoned, attempts, published, outer, recovery, faults>>

\* The action settles; calls it made and awaited have settled before it.
EndAction(c) ==
  /\ pc[c] = "cs" /\ \A d \in Calls : outer[d] # c
  /\ Goto(c, "relUnlink")
  /\ UNCHANGED <<disk, alive, abandoned, attempts, published, outer, recovery, faults>>

\* The call returns or throws; its locals are gone.
Settle(c) ==
  /\ Goto(c, "done")
  /\ attempts' = [attempts EXCEPT ![c] = 0]
  /\ published' = published \ {c}

\* directory = published ? lock : candidate.
Directory(c) == IF c \in published THEN Lock ELSE c

ReleaseUnlink(c) ==
  /\ pc[c] = "relUnlink"
  /\ UnlinkOwner(Directory(c), c)
  /\ Goto(c, "relRmdir")
  /\ UNCHANGED <<alive, abandoned, attempts, published, outer, recovery, faults>>

ReleaseRmdir(c) ==
  /\ pc[c] = "relRmdir"
  /\ removeEmpty(Directory(c))
  /\ Settle(c)
  /\ UNCHANGED <<alive, abandoned, outer, recovery, faults>>

\* Every retry of the clean-up failed: abandonedOwners.add(owner), timers.
ReleaseFault(c) ==
  /\ pc[c] \in Cleaning /\ faults < MaxFaults
  /\ faults' = faults + 1
  /\ abandoned' = [abandoned EXCEPT ![ProcOf[c]] = @ \cup {c}]
  /\ Goto(c, "timer")
  /\ UNCHANGED <<disk, alive, attempts, published, outer, recovery>>

\* retryAbandonedRelease.
TimerUnlink(c) ==
  /\ pc[c] = "timer"
  /\ UnlinkOwner(Directory(c), c)
  /\ Goto(c, "timerRmdir")
  /\ UNCHANGED <<alive, abandoned, attempts, published, outer, recovery, faults>>

TimerRmdir(c) ==
  /\ pc[c] = "timerRmdir"
  /\ removeEmpty(Directory(c))
  /\ abandoned' = [abandoned EXCEPT ![ProcOf[c]] = @ \ {c}]
  /\ Settle(c)
  /\ UNCHANGED <<alive, outer, recovery, faults>>

\* A timer's attempt fails: another one follows, or it was the thirtieth (one
\* stands for all thirty: only the failures that are retried are counted).
TimerFault(c) ==
  /\ pc[c] \in {"timer", "timerRmdir"}
  /\ \/ faults < MaxFaults /\ faults' = faults + 1 /\ Goto(c, "timer")
     \/ UNCHANGED faults /\ Goto(c, "leaked")
  /\ UNCHANGED <<disk, alive, abandoned, attempts, published, outer, recovery>>

-----------------------------------------------------------------------------
(* Processes. *)

\* The process dies, or exits with unref'd timers pending; its memory is gone.
Crash(p) ==
  /\ p \in alive
  /\ alive' = alive \ {p}
  /\ abandoned' = [abandoned EXCEPT ![p] = {}]
  /\ pc' = [c \in Calls |-> IF ProcOf[c] = p /\ pc[c] \notin {"idle", "done"}
                            THEN "crashed" ELSE pc[c]]
  /\ LET Cleared(f, v) == [c \in Calls |-> IF ProcOf[c] = p THEN v ELSE f[c]]
     IN  /\ attempts' = Cleared(attempts, 0)
         /\ outer' = Cleared(outer, None)
         /\ todo' = Cleared(todo, {})
         /\ target' = Cleared(target, None)
         /\ seen' = Cleared(seen, None)
  /\ published' = {c \in published : ProcOf[c] # p}
  /\ UNCHANGED <<disk, faults>>

\* The operating system hands the same pid to a new process.
ReusePid(p) ==
  /\ p \in Procs \ alive
  /\ alive' = alive \cup {p}
  /\ UNCHANGED <<disk, abandoned, pc, attempts, published, outer, recovery, faults>>

-----------------------------------------------------------------------------
\* What the scheduler of a live process carries out without further input.
Step(c) ==
  \/ EndNested(c) \/ ScanCandidate(c) \/ MakeCandidate(c) \/ WriteOwner(c)
  \/ Publish(c) \/ Contend(c)
  \/ RecoverRead(c) \/ RecoverCheck(c) \/ RecoverUnlink(c) \/ RecoverRmdir(c)
  \/ EndAction(c) \/ ReleaseUnlink(c) \/ ReleaseRmdir(c)
  \/ TimerUnlink(c) \/ TimerRmdir(c)

Next ==
  \/ \E c \in Calls : \/ Step(c) \/ Begin(c) \/ Abort(c)
                      \/ ReleaseFault(c) \/ TimerFault(c)
                      \/ \E o \in Calls : Reenter(c, o)
  \/ \E p \in Procs : Crash(p) \/ ReusePid(p)

Spec == Init /\ [][Next]_vars

FairSpec == Spec /\ \A c \in Calls : WF_vars(Step(c))

-----------------------------------------------------------------------------
(* Properties. *)

\* Two calls never run their actions at the same time, whatever the processes
\* do between two file system calls; a reentrant action runs only while the
\* call whose lease it inherited still holds the lock (doc of
\* withFileTransactionLock: "rather than risking two writers").
MutualExclusion ==
  /\ \A c, d \in Calls : pc[c] = "cs" /\ pc[d] = "cs" => c = d
  /\ \A c \in Calls : pc[c] = "nested" => pc[outer[c]] = "cs"

\* "Live processes are never evicted": while a call runs its action the lock
\* directory holds its owner file and no other, so neither another call's
\* recovery nor its release has taken the lock away underneath it.
HolderKeepsLock ==
  \A c \in Calls : pc[c] = "cs" => Lock \in exists /\ entries[Lock] = {c}

\* The candidate of a call that is still publishing is never reaped by another
\* call's recoverDeadCandidates: the rename and the owner write find it intact.
CandidateIntact ==
  \A c \in Calls :
    /\ pc[c] = "own" => c \in exists /\ entries[c] = {}
    /\ pc[c] = "try" => c \in exists /\ entries[c] = {c}

\* No directory ever holds two owner files or a stranger's in a candidate:
\* recoverDeadOwner's "manual repair required" is never the outcome.
NoManualRepair ==
  /\ \A c \in Calls : entries[c] \subseteq {c}
  /\ \A m, n \in entries[Lock] : m = n

\* What the lock is for: calls by what they promise their callers.
Holding == {c \in Calls : pc[c] = "cs"}
Guests == {c \in Calls : pc[c] = "nested"}
Ended == {c \in Calls : pc[c] \in Cleaning \cup Deferred \cup Over}

Mutex == INSTANCE TransactionMutex WITH holders <- Holding, guests <- Guests, over <- Ended

\* The protocol on directories implements the abstract mutex: a call enters
\* only when nobody holds, guests come and go within one holder's tenure, and
\* a call that ended (done, given up, or dead) never holds again.
RefinesMutex == Mutex!Spec

\* Every call that starts comes to an end, even when the lock is held by a
\* process that never lets go: attempts are bounded by the wait budget.  (The
\* thirty timers may run out, and then the owner file stays.)
EveryCallEnds ==
  \A c \in Calls : (pc[c] = "scan") ~> (pc[c] \in Over \cup {"leaked"})

\* A lock whose owner died is recovered by the next process on that host that
\* runs into it, unless the pid is reused before or its call is aborted or
\* it dies itself.
DeadOwnerRecovered ==
  \A o \in Calls : \A c \in {d \in Calls : ProcOf[d] # ProcOf[o]} :
    (/\ o \in entries[Lock] /\ pc[o] = "crashed" /\ pc[c] = "try"
     /\ HostOf[ProcOf[o]] = HostOf[ProcOf[c]])
      ~> (\/ o \notin entries[Lock] \/ ProcOf[o] \in alive \/ pc[c] = "crashed"
          \/ pc[c] = "relUnlink" /\ attempts[c] < MaxAttempts)   \* aborted

\* Nobody waits for ever: calls end, and locks of the dead are recovered.
CallsProgress == EveryCallEnds /\ DeadOwnerRecovered

=============================================================================

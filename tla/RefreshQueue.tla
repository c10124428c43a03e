---------------------------- MODULE RefreshQueue ----------------------------
(***************************************************************************)
(* lib/refresh-lease.ts: RefreshLeaseCoordinator, the cross-process lease  *)
(* on one refresh token.  A flight is one acquire()/release() pair; the    *)
(* lock file <hash>.lock is represented by the flight whose nonce it holds *)
(* and the result file <hash>.result.json by its age.  One action is one   *)
(* file system call.  The queue, below, drives the flights.                *)
(***************************************************************************)
EXTENDS Naturals

CONSTANTS
  Flights,      \* RefreshQueue generations that call acquire()
  MaxToken,     \* refresh tokens are 1..MaxToken, the server issues t + 1 for t
  None, Failed,
  LeaseModes,   \* values CODEX_AUTH_REFRESH_LEASE may have: a subset of BOOLEAN
  MaxPolls,     \* polls of the lock that fit in waitTimeoutMs
  MaxFaults     \* bound on failing file system calls

Tokens == 1..MaxToken

ASSUME LeaseAssumption ==
  /\ MaxToken \in Nat \ {0} /\ MaxPolls \in Nat /\ MaxFaults \in Nat
  /\ LeaseModes \subseteq BOOLEAN
  /\ None \notin Flights \cup Tokens /\ Failed \notin Tokens

VARIABLES
  leased,   \* whether the coordinator is enabled; never changes
  pc,       \* where each flight is
  tok,      \* the token it was started for
  lock,     \* the lock file of each token: None, or the flight that created it
  result,   \* the result file of each token: age and the token it hands out
  polls,
  value,    \* what the flight's promise resolves to: a token, Failed or None
  unread,   \* flights that could not read the result file under the lock (history)
  faults

leaseVars == <<pc, tok, lock, result, polls, value, unread, faults>>

NoResult == [age |-> "none", token |-> None]
Results == {NoResult} \cup [age : {"fresh", "stale"}, token : Tokens]

Goto(f, label) == pc' = [pc EXCEPT ![f] = label]
Resolve(f, v) == value' = [value EXCEPT ![f] = v]
Fault == faults < MaxFaults /\ faults' = faults + 1

-----------------------------------------------------------------------------
(* acquire(). *)

\* existsSync, readFile and the TTL test of readFreshResult, at the head of
\* the loop or again while holding the lock.
ReadResult(f) ==
  /\ pc[f] \in {"read", "recheck"}
  /\ LET r == result[tok[f]] IN
       \/ /\ r.age = "fresh"                   \* follower
          /\ Goto(f, IF pc[f] = "read" THEN "settle" ELSE "unlock")
          /\ Resolve(f, r.token)
       \/ /\ r.age = "stale"
          /\ Goto(f, IF pc[f] = "read" THEN "expire" ELSE "expireHeld")
          /\ UNCHANGED value
       \/ /\ r.age = "none"
          /\ Goto(f, IF pc[f] = "read" THEN "open" ELSE "gate")
          /\ UNCHANGED value
  /\ UNCHANGED <<tok, lock, result, polls, faults, unread>>

\* readJson catches every error of readFile and JSON.parse and answers null: the
\* flight goes on as if nothing were published, under the lock too.
ReadFault(f) ==
  /\ pc[f] \in {"read", "recheck"} /\ Fault
  /\ Goto(f, IF pc[f] = "read" THEN "open" ELSE "gate")
  /\ unread' = IF pc[f] = "recheck" THEN unread \cup {f} ELSE unread
  /\ UNCHANGED <<tok, lock, result, polls, value>>

\* safeUnlink(resultPath) of readFreshResult: whatever is there by now.
UnlinkExpired(f) ==
  /\ pc[f] \in {"expire", "expireHeld"}
  /\ result' = [result EXCEPT ![tok[f]] = NoResult]
  /\ Goto(f, IF pc[f] = "expire" THEN "open" ELSE "gate")
  /\ UNCHANGED <<tok, lock, polls, value, faults, unread>>

\* open(lockPath, "wx") succeeds.
CreateLock(f) ==
  /\ pc[f] = "open" /\ lock[tok[f]] = None
  /\ lock' = [lock EXCEPT ![tok[f]] = f]
  /\ Goto(f, "payload")
  /\ UNCHANGED <<tok, result, polls, value, faults, unread>>

\* Mutants of LockExists: one poll too many, no deadline, and taking over the
\* lock at the deadline.
LockExistsLate(f) ==
  /\ pc[f] = "open" /\ lock[tok[f]] # None /\ polls[f] <= MaxPolls
  /\ polls' = [polls EXCEPT ![f] = @ + 1]
  /\ Goto(f, "read")
  /\ UNCHANGED <<tok, lock, result, value, faults, unread>>
LockExistsForever(f) ==
  /\ pc[f] = "open" /\ lock[tok[f]] # None
  /\ Goto(f, "read")
  /\ UNCHANGED <<tok, lock, result, polls, value, faults, unread>>
LockExistsSteal(f) ==
  /\ pc[f] = "open" /\ lock[tok[f]] # None
  /\ lock' = [lock EXCEPT ![tok[f]] = f]
  /\ Goto(f, "payload")
  /\ UNCHANGED <<tok, result, polls, value, faults, unread>>

\* EEXIST: never stolen; poll again until the deadline, then blocked.
LockExists(f) ==
  /\ pc[f] = "open" /\ lock[tok[f]] # None
  /\ \/ /\ polls[f] < MaxPolls
        /\ polls' = [polls EXCEPT ![f] = @ + 1]
        /\ Goto(f, "read")
        /\ UNCHANGED value
     \/ /\ polls[f] = MaxPolls
        /\ Goto(f, "settle") /\ Resolve(f, Failed)
        /\ UNCHANGED polls
  /\ UNCHANGED <<tok, lock, result, faults, unread>>

\* Mutant of WritePayload: the result is not read again under the lock.
WritePayloadNoRecheck(f) ==
  /\ pc[f] = "payload"
  /\ Goto(f, "gate")
  /\ UNCHANGED <<tok, lock, result, polls, value, faults, unread>>

\* Writing and closing the payload with our nonce.
WritePayload(f) ==
  /\ pc[f] = "payload"
  /\ Goto(f, "recheck")
  /\ UNCHANGED <<tok, lock, result, polls, value, faults, unread>>

\* open or the payload fails for another reason: blocked ("acquire-error"),
\* after removing the lock if it was created.
AcquireError(f) ==
  /\ pc[f] \in {"open", "payload"} /\ Fault
  /\ Goto(f, IF pc[f] = "open" THEN "settle" ELSE "unlock")
  /\ Resolve(f, Failed)
  /\ UNCHANGED <<tok, lock, result, polls, unread>>

-----------------------------------------------------------------------------
(* release(result), for an owner. *)

\* writeResult: temp file, rename; only a success is published.
PublishResult(f) ==
  /\ pc[f] = "publish"
  /\ result' = [result EXCEPT ![tok[f]] = [age |-> "fresh", token |-> value[f]]]
  /\ Goto(f, "unlock")
  /\ UNCHANGED <<tok, lock, polls, value, faults, unread>>

\* writeResult throws: the lock is retained for good.
PublishFault(f) ==
  /\ pc[f] = "publish" /\ Fault
  /\ Goto(f, "settle")
  /\ UNCHANGED <<tok, lock, result, polls, value, unread>>

\* ownsLock, then safeUnlink.
UnlinkLock(f) ==
  /\ pc[f] = "unlock"
  /\ lock' = [lock EXCEPT ![tok[f]] = IF @ = f THEN None ELSE @]
  /\ Goto(f, "settle")
  /\ UNCHANGED <<tok, result, polls, value, faults, unread>>

\* safeUnlink gives up.
UnlinkFault(f) ==
  /\ pc[f] = "unlock" /\ Fault
  /\ Goto(f, "settle")
  /\ UNCHANGED <<tok, lock, result, polls, value, unread>>

-----------------------------------------------------------------------------
(* Time. *)

\* resultTtlMs passes.
Expire(t) ==
  /\ result[t].age = "fresh"
  /\ result' = [result EXCEPT ![t].age = "stale"]
  /\ UNCHANGED <<pc, tok, lock, polls, value, faults, unread>>

\* pruneExpiredArtifacts: started and not awaited by every acquire, deletes
\* results older than twice the TTL; it never touches a lock.
pruneExpiredArtifacts(t) ==
  /\ leased /\ result[t].age = "stale"
  /\ result' = [result EXCEPT ![t] = NoResult]
  /\ UNCHANGED <<pc, tok, lock, polls, value, faults, unread>>

LeaseStep(f) ==
  \/ ReadResult(f) \/ UnlinkExpired(f) \/ CreateLock(f) \/ LockExists(f)
  \/ WritePayload(f) \/ PublishResult(f) \/ UnlinkLock(f)

LeaseFault(f) == ReadFault(f) \/ AcquireError(f) \/ PublishFault(f) \/ UnlinkFault(f)

-----------------------------------------------------------------------------
(***************************************************************************)
(* lib/refresh-queue.ts: RefreshQueue.refresh in several processes, on top *)
(* of the lease, talking to the OAuth token endpoint (external) through    *)
(* refreshAccessToken in lib/auth/auth.ts.  A flight is one generation: a  *)
(* refresh() that finds nothing to join.  A refresh() that joins returns   *)
(* the promise of the flight it found and changes nothing else.            *)
(***************************************************************************)
CONSTANTS Procs, ProcOf

ASSUME QueueAssumption == ProcOf \in [Flights -> Procs] /\ None # Failed

VARIABLES
  pending,   \* per process and token, the flight in this.pending
  stage,     \* "acquire" or "refresh", the stage of a flight's entry
  overdue,   \* flights whose acquire outlasted the eviction age (stalled I/O)
  rotated,   \* per process, tokenRotationMap as pairs <<old, new>>
  joined,    \* the newer flight whose promise a superseded flight returns
  inflight,  \* <<flight, token>>: requests the token endpoint may yet process
  answer,    \* what a waiting flight hears: a token, Failed, or None yet
  spent,     \* tokens the endpoint no longer accepts
  issued     \* tokens a process has been handed, the only ones it can present

queueVars == <<pending, stage, overdue, rotated, joined>>
serverVars == <<inflight, answer, spent, issued>>
vars == <<leased, leaseVars, queueVars, serverVars>>

\* Where a flight is: in acquire(), holding the lease (or bypassing it), over.
Acquiring == {"read", "expire", "open", "payload", "recheck", "expireHeld"}
Owning == {"gate", "sent", "publish", "unlock"}
Over == {"done", "crashed", "crashedSent"}
Active(f) == pc[f] \notin {"idle"} \cup Over

TypeOK ==
  /\ leased \in BOOLEAN
  /\ pc \in [Flights -> {"idle", "settle"} \cup Acquiring \cup Owning \cup Over]
  /\ tok \in [Flights -> Tokens \cup {None}]
  /\ lock \in [Tokens -> Flights \cup {None}]
  /\ result \in [Tokens -> Results]
  /\ polls \in [Flights -> 0..MaxPolls]
  /\ value \in [Flights -> Tokens \cup {Failed, None}]
  /\ unread \subseteq Flights /\ faults \in 0..MaxFaults
  /\ pending \in [Procs -> [Tokens -> Flights \cup {None}]]
  /\ stage \in [Flights -> {"acquire", "refresh"}]
  /\ overdue \subseteq Flights
  /\ rotated \in [Procs -> SUBSET (Tokens \X Tokens)]
  /\ joined \in [Flights -> Flights \cup {None}]
  /\ inflight \subseteq Flights \X Tokens
  /\ answer \in [Flights -> Tokens \cup {Failed, None}]
  /\ spent \subseteq Tokens /\ issued \subseteq Tokens

Init ==
  /\ leased \in LeaseModes
  /\ pc = [f \in Flights |-> "idle"]
  /\ tok = [f \in Flights |-> None]
  /\ lock = [t \in Tokens |-> None]
  /\ result = [t \in Tokens |-> NoResult]
  /\ polls = [f \in Flights |-> 0]
  /\ value = [f \in Flights |-> None]
  /\ unread = {} /\ faults = 0
  /\ pending = [p \in Procs |-> [t \in Tokens |-> None]]
  /\ stage = [f \in Flights |-> "acquire"]
  /\ overdue = {}
  /\ rotated = [p \in Procs |-> {}]
  /\ joined = [f \in Flights |-> None]
  /\ inflight = {}
  /\ answer = [f \in Flights |-> None]
  /\ spent = {} /\ issued = {1}

-----------------------------------------------------------------------------
(* refresh(). *)

\* cleanup(): entries that are still acquiring past the eviction age.
Evicted(p) ==
  {t \in Tokens : pending[p][t] # None
                  /\ pending[p][t] \in overdue /\ stage[pending[p][t]] = "acquire"}

\* cleanupRotationMapping for a set of tokens.
Unmapped(p, S) == {m \in rotated[p] : m[1] \notin S /\ m[2] \notin S}

\* Mutants of NothingToJoin: without the pending entry, without the rotation map.
NothingToJoinRotated(p, t) ==
  \A m \in Unmapped(p, Evicted(p)) :
    m[2] = t => pending[p][m[1]] = None \/ m[1] \in Evicted(p)
NothingToJoinDirect(p, t) == pending[p][t] = None \/ t \in Evicted(p)

\* After cleanup(), nothing to join: neither an entry for t nor, through the
\* rotation map, an entry for the token t was rotated from.
NothingToJoin(p, t) ==
  /\ pending[p][t] = None \/ t \in Evicted(p)
  /\ \A m \in Unmapped(p, Evicted(p)) :
       m[2] = t => pending[p][m[1]] = None \/ m[1] \in Evicted(p)

\* A new generation; with leases disabled acquire() answers "bypass" at once.
Start(f, t) ==
  LET p == ProcOf[f] IN
  /\ pc[f] = "idle" /\ t \in issued
  /\ NothingToJoin(p, t)
  /\ pending' = [pending EXCEPT ![p] = [u \in Tokens |->
                   IF u = t THEN f ELSE IF u \in Evicted(p) THEN None ELSE @[u]]]
  /\ rotated' = [rotated EXCEPT ![p] = Unmapped(p, Evicted(p))]
  /\ tok' = [tok EXCEPT ![f] = t]
  /\ Goto(f, IF leased THEN "read" ELSE "gate")
  /\ UNCHANGED <<lock, result, polls, value, faults, stage, overdue, joined, serverVars, unread>>

\* File system calls stall for longer than the wait budget plus slack.
Stall(f) ==
  /\ pc[f] \in Acquiring /\ f \notin overdue
  /\ overdue' = overdue \cup {f}
  /\ UNCHANGED <<leaseVars, pending, stage, rotated, joined, serverVars>>

\* getSupersedingPromise.
Superseded(f) == pending[ProcOf[f]][tok[f]] \notin {f, None}
JoinNewer(f) ==
  /\ joined' = [joined EXCEPT ![f] = pending[ProcOf[f]][tok[f]]]
  /\ UNCHANGED <<pending, stage, overdue, rotated>>

\* acquire() throws (the lease directory cannot be made): join the newer
\* generation, or fail.
AcquireThrows(f) ==
  /\ pc[f] = "read" /\ polls[f] = 0 /\ Fault
  /\ Goto(f, "settle")
  /\ \/ Superseded(f) /\ JoinNewer(f) /\ UNCHANGED value
     \/ ~Superseded(f) /\ Resolve(f, Failed) /\ UNCHANGED queueVars
  /\ UNCHANGED <<tok, lock, result, polls, serverVars, unread>>

\* Mutant of YieldToNewer: returns without releasing the lease.
YieldToNewerUnreleased(f) ==
  /\ pc[f] = "gate" /\ Superseded(f)
  /\ Goto(f, "settle") /\ JoinNewer(f)
  /\ UNCHANGED <<tok, lock, result, polls, value, faults, serverVars, unread>>

\* Owner, but a newer generation took the entry: return its promise, after the
\* finally block has released the lease.  (A bypass never waits long enough.)
YieldToNewer(f) ==
  /\ pc[f] = "gate" /\ Superseded(f)
  /\ Goto(f, "unlock") /\ JoinNewer(f)
  /\ UNCHANGED <<tok, lock, result, polls, value, faults, serverVars, unread>>

\* markStage("refresh") and the POST of refreshAccessToken.
Send(f) ==
  /\ pc[f] = "gate" /\ ~Superseded(f)
  /\ Goto(f, "sent")
  /\ inflight' = inflight \cup {<<f, tok[f]>>}
  /\ stage' = IF pending[ProcOf[f]][tok[f]] = f
              THEN [stage EXCEPT ![f] = "refresh"] ELSE stage
  /\ UNCHANGED <<tok, lock, result, polls, value, faults,
                 pending, overdue, rotated, joined, answer, spent, issued, unread>>

\* A valid answer: note the rotation, publish through the lease.
Succeed(f) ==
  LET new == answer[f] IN
  /\ pc[f] = "sent" /\ new \in Tokens
  /\ Resolve(f, new)
  /\ issued' = issued \cup {new}
  /\ rotated' = [rotated EXCEPT ![ProcOf[f]] =
                   IF new # tok[f] THEN {m \in @ : m[1] # tok[f]} \cup {<<tok[f], new>>} ELSE @]
  /\ Goto(f, IF leased THEN "publish" ELSE "settle")
  /\ UNCHANGED <<tok, lock, result, polls, faults, pending, stage, overdue, joined, inflight, answer, spent, unread>>

\* An HTTP error, a body that does not validate, a network error, or the
\* timeout of executeRefresh, which aborts the request: a failed result, and
\* release() drops the lock without publishing anything.
Fail(f) ==
  /\ pc[f] = "sent"
  /\ Resolve(f, Failed)
  /\ Goto(f, IF leased THEN "unlock" ELSE "settle")
  /\ UNCHANGED <<tok, lock, result, polls, faults, queueVars, serverVars, unread>>

Refused(f) == answer[f] = Failed /\ Fail(f)
Unanswered(f) == answer[f] = None /\ Fail(f)

\* The locals of flights that are over; the token of a request whose fate
\* stays unknown is kept for the record.
Forget(S, noToken) ==
  LET Cleared(fn, T, v) == [f \in Flights |-> IF f \in T THEN v ELSE fn[f]] IN
  /\ tok' = Cleared(tok, noToken, None)
  /\ polls' = Cleared(polls, S, 0)
  /\ value' = Cleared(value, S, None)
  /\ answer' = Cleared(answer, S, None)
  /\ stage' = Cleared(stage, S, "acquire")
  /\ overdue' = overdue \ S
  /\ joined' = Cleared(joined, S, None)
  /\ unread' = unread \ S

\* The promise settles, with the newer flight's if it joined one; the finally
\* block of refresh().
Settle(f) ==
  LET p == ProcOf[f] mine == pending[p][tok[f]] \in {f, None} IN
  /\ pc[f] = "settle" /\ joined[f] \in {None} \cup {g \in Flights : pc[g] \in Over}
  /\ Goto(f, "done")
  /\ pending' = IF mine THEN [pending EXCEPT ![p][tok[f]] = None] ELSE pending
  /\ rotated' = IF mine THEN [rotated EXCEPT ![p] = Unmapped(p, {tok[f]})] ELSE rotated
  /\ Forget({f}, {f})
  /\ UNCHANGED <<lock, result, faults, inflight, spent, issued>>

-----------------------------------------------------------------------------
(* Processes and the token endpoint. *)

\* The process dies: its memory is gone, its files and requests are not.
Crash(p) ==
  LET S == {f \in Flights : ProcOf[f] = p /\ Active(f)}
      sent == {f \in S : pc[f] = "sent"}
  IN
  /\ S # {}
  /\ pc' = [f \in Flights |-> IF f \in sent THEN "crashedSent"
                              ELSE IF f \in S THEN "crashed" ELSE pc[f]]
  /\ pending' = [pending EXCEPT ![p] = [t \in Tokens |-> None]]
  /\ rotated' = [rotated EXCEPT ![p] = {}]
  /\ Forget(S, S \ sent)
  /\ UNCHANGED <<lock, result, faults, inflight, spent, issued>>

\* The endpoint accepts a token once; it issues a new one and retires the old
\* one, or keeps the old one valid (json.refresh_token is optional).
Serve(f, t) ==
  /\ <<f, t>> \in inflight
  /\ inflight' = inflight \ {<<f, t>>}
  /\ \E reply \in Tokens \cup {Failed} :
       /\ \/ t \notin spent /\ reply = t + 1 /\ spent' = spent \cup {t}
          \/ t \notin spent /\ reply = t /\ UNCHANGED spent
          \/ t \in spent /\ reply = Failed /\ UNCHANGED spent
       /\ \/ pc[f] = "sent" /\ answer' = [answer EXCEPT ![f] = reply]
          \/ UNCHANGED answer          \* lost, or nobody waits for it any more
  /\ UNCHANGED <<leaseVars, queueVars, issued>>

-----------------------------------------------------------------------------
FlightStep(f) ==
  /\ UNCHANGED leased
  /\ \/ LeaseStep(f) /\ UNCHANGED <<queueVars, serverVars>>
     \/ YieldToNewer(f) \/ Send(f) \/ Succeed(f) \/ Refused(f) \/ Unanswered(f)
     \/ Settle(f)

Next ==
  \/ \E f \in Flights : FlightStep(f)
  \/ /\ UNCHANGED leased
     /\ \/ \E f \in Flights :
             \/ Stall(f) \/ AcquireThrows(f)
             \/ LeaseFault(f) /\ UNCHANGED <<queueVars, serverVars>>
             \/ \E t \in Tokens : Start(f, t) \/ Serve(f, t)
        \/ \E t \in Tokens : (Expire(t) \/ pruneExpiredArtifacts(t)) /\ UNCHANGED <<queueVars, serverVars>>
        \/ \E p \in Procs : Crash(p)

Spec == Init /\ [][Next]_vars

FairSpec == Spec /\ \A f \in Flights : WF_vars(FlightStep(f))

-----------------------------------------------------------------------------
(* Properties. *)

\* Flights that have presented their token and still do not know its fate:
\* they wait for the answer, or their process died waiting.
Unresolved(t) == {f \in Flights : tok[f] = t /\ pc[f] \in {"sent", "crashedSent"}}

\* With leases, at most one flight of all processes has a token at the
\* endpoint, and after a crash in that window nobody presents the token again
\* ("Never steal or prune a lock to reuse that potentially spent token").
ExclusiveRefresh ==
  leased => \A t \in Tokens : \A f, g \in Unresolved(t) : f = g

\* A token is never presented while a fresh result for it is published: the
\* recheck under the lock closes the window between the first read and open.
\* The one way past it is a recheck that could not read the file.
FreshResultShields ==
  \A f \in Flights : Send(f) /\ leased => result[tok[f]].age # "fresh" \/ f \in unread

\* Within a process two flights for one token coexist only after the older
\* one's acquire outlasted the eviction age ("one in-flight refresh per token").
InProcessDedup ==
  \A f, g \in Flights :
    /\ f # g /\ ProcOf[f] = ProcOf[g] /\ tok[f] = tok[g]
    /\ Active(f) /\ Active(g)
    => f \in overdue \/ g \in overdue

\* A lock file survives its flight only if the process crashed or a file
\* system call failed: no path through refresh() forgets the lock.
NoForgottenLock ==
  \A t \in Tokens : lock[t] # None /\ pc[lock[t]] = "done" => faults > 0

\* While a rotation is being published, the process that holds the new token
\* joins that flight instead of presenting the new token itself.
RotatedJoins ==
  \A f \in Flights, t \in Tokens : Start(f, t) =>
    \A g \in Flights : ~(/\ ProcOf[g] = ProcOf[f] /\ g \notin overdue
                         /\ pc[g] \in {"publish", "unlock", "settle"}
                         /\ answer[g] = t /\ tok[g] # t)

\* Within a process a token has one flight, and no flight leaves its lock behind.
FlightsKept == InProcessDedup /\ NoForgottenLock

\* No step presents a token whose result is there or on its way.
ResultsShield == [][FreshResultShields /\ RotatedJoins]_vars

\* Every refresh() resolves: neither a lock nobody will ever remove nor a
\* superseded flight keeps a caller waiting for ever.
EveryRefreshResolves ==
  \A f \in Flights : (pc[f] = "read") ~> (pc[f] \in Over)

=============================================================================

---------------------------- MODULE ResetCredits ----------------------------
(***************************************************************************)
(* lib/runtime/reset-credits.ts and lib/runtime/account-reset-credits.ts:  *)
(* spending the resets a subscription has been granted.  A user redeems    *)
(* one with `resets redeem`; a proxy whose accounts are all exhausted does *)
(* it by itself when the policy says "last-resort".  Both work on one file *)
(* under the file lock.  The redemption itself happens at the backend,     *)
(* which knows an attempt by its idempotency key; its answer may be lost   *)
(* and either side may die around it.                                      *)
(*                                                                         *)
(* Times are ages that stop counting when they no longer matter.  Which    *)
(* account has the credit that expires first is left open.  A call changes *)
(* its copy of the file only where it saves it at once, so the copy is not *)
(* modelled.                                                               *)
(***************************************************************************)
EXTENDS Naturals, FiniteSetsExt

CONSTANTS Proxies,     \* processes that check by themselves
          Users,       \* commands of users
          Scopes,      \* account workspaces that have credits
          RedeemGap,   \* ticks in which a second redemption is refused
          CheckGap,    \* ticks between two automatic checks
          AutoGap,     \* ticks an automatic redemption waits after any other
          MaxPasses,   \* MAX_AUTOMATIC_CHECK_PASSES
          MaxAttempts, \* idempotency keys
          MaxFaults,   \* failures and deaths
          MaxChanges   \* quotas that run out or come back by themselves

ASSUME ResetAssumption ==
  /\ Proxies \cap Users = {}
  /\ RedeemGap \in Nat /\ CheckGap \in Nat /\ AutoGap \in Nat /\ RedeemGap <= AutoGap
  /\ MaxPasses \in Nat \ {0} /\ MaxAttempts \in Nat /\ MaxFaults \in Nat /\ MaxChanges \in Nat

VARIABLES resetFile, \* reset-credits.json
          backend,   \* credits left, accounts without quota, keys redeemed (external)
          resetLock, \* who holds the file lock, {} or one caller
          caller,    \* what each proxy or user is doing
          watched    \* attempts made, finished ones, faults and changes of quota

resetVars == <<resetFile, backend, resetLock, caller, watched>>
Redeemers == Proxies \cup Users
Nothing == [key |-> "none", idem |-> 0]
Idle == [pc |-> "idle", key |-> "none", seen |-> [k \in Scopes |-> "unread"], evidence |-> {}, grew |-> FALSE, pass |-> 0]

ResetInit ==
  /\ resetFile \in [policy : {"manual", "last-resort"}, pending : {Nothing}, redeemedAgo : {AutoGap},
                    checkedAgo : {CheckGap}, generation : {0}, receipts : {[k \in Scopes |-> 0]},
                    allowed : {{}}]
  /\ backend \in [credits : [Scopes -> {1}], exhausted : {Scopes}, redeemed : {{}}]
  /\ resetLock = {}
  /\ caller = [a \in Redeemers |-> Idle]
  /\ watched = [attempts |-> 0, finished |-> {}, faults |-> 0, changes |-> 0]

At(a, pc) == caller[a].pc = pc
Goes(a, pc) == caller' = [caller EXCEPT ![a].pc = pc]

\* Mutant of LeavesFile: an attempt that failed is forgotten.
LeavesCleared(a) ==
  /\ resetLock' = resetLock \ {a}
  /\ caller' = [caller EXCEPT ![a] = Idle]
  /\ resetFile' = [resetFile EXCEPT !.pending = Nothing]

\* The lock is released and the call returns or throws.
LeavesFile(a) ==
  /\ resetLock' = resetLock \ {a}
  /\ caller' = [caller EXCEPT ![a] = Idle]
  /\ UNCHANGED resetFile

-----------------------------------------------------------------------------
(* ResetCreditService.automatic: the checks of one proxy share a batch, which *)
(* repeats its pass while new evidence of exhaustion arrives.  Evidence about *)
(* an account that was not found healthy never counts and is left out.        *)

BeginCheck(p) ==
  /\ At(p, "idle")
  /\ \E found \in SUBSET resetFile.allowed :
       caller' = [caller EXCEPT ![p] = [Idle EXCEPT !.pc = "look", !.evidence = found, !.pass = 1]]
  /\ UNCHANGED <<resetFile, backend, resetLock, watched>>

\* Another request of the process joins while the batch still accepts.
JoinCheck(p) ==
  /\ ~At(p, "idle")
  /\ \E k \in resetFile.allowed \ caller[p].evidence :
       caller' = [caller EXCEPT ![p].evidence = @ \cup {k}, ![p].grew = TRUE]
  /\ UNCHANGED <<resetFile, backend, resetLock, watched>>

\* A pass that changed nothing is followed by another one if evidence came in.
EndsPass(p) ==
  /\ caller' = [caller EXCEPT ![p] =
       IF @.grew /\ @.pass < MaxPasses
         THEN [Idle EXCEPT !.pc = "look", !.evidence = caller[p].evidence, !.pass = caller[p].pass + 1]
         ELSE Idle]
  /\ resetLock' = resetLock \ {p}

\* The policy is looked at before the lock is asked for.
LookPolicy(p) ==
  /\ At(p, "look")
  /\ IF resetFile.policy = "last-resort"
       THEN Goes(p, "want") /\ UNCHANGED resetLock
       ELSE EndsPass(p)
  /\ UNCHANGED <<resetFile, backend, watched>>

\* hasNewExhaustion: evidence newer than the last check against an account that
\* was then found healthy.
NewExhaustion(p) == caller[p].evidence \cap resetFile.allowed # {}

\* Mutant of MaySpendAlone: the policy looked at before the lock is trusted.
TrustsEarlierLook(p) ==
  /\ resetFile.pending = Nothing /\ resetFile.redeemedAgo >= AutoGap
  /\ resetFile.checkedAgo >= CheckGap \/ NewExhaustion(p)

\* The conditions of automaticLocked, under the lock.
MaySpendAlone(p) ==
  /\ resetFile.policy = "last-resort" /\ resetFile.pending = Nothing
  /\ resetFile.redeemedAgo >= AutoGap
  /\ resetFile.checkedAgo >= CheckGap \/ NewExhaustion(p)

\* The check is stamped before it reads; all evidence is then older than it.
StartReads(p) ==
  /\ At(p, "in") /\ p \in Proxies
  /\ IF MaySpendAlone(p)
       THEN /\ resetFile' = [resetFile EXCEPT !.checkedAgo = 0]
            /\ caller' = [a \in Redeemers |->
                 [caller[a] EXCEPT !.evidence = {}, !.pc = IF a = p THEN "read" ELSE @]]
            /\ UNCHANGED resetLock
       ELSE EndsPass(p) /\ UNCHANGED resetFile
  /\ UNCHANGED <<backend, watched>>

\* What the backend says of a scope; a read may fail.
Reading(k) == {"failed", IF k \in backend.exhausted THEN "exhausted" ELSE "allowed"}

ReadScope(p) ==
  /\ At(p, "read")
  /\ \E k \in Scopes : /\ caller[p].seen[k] = "unread"
                       /\ \E r \in Reading(k) : caller' = [caller EXCEPT ![p].seen[k] = r]
  /\ UNCHANGED <<resetFile, backend, resetLock, watched>>

\* What the reads say is saved; a failed read keeps the earlier snapshot.
WithReads(seen) ==
  [resetFile EXCEPT !.allowed = (@ \ {k \in Scopes : seen[k] = "exhausted"}) \cup {k \in Scopes : seen[k] = "allowed"}]

\* Mutant of AllSpent: a scope that could not be read counts as exhausted.
NoneHealthy(seen) == \A k \in Scopes : seen[k] # "allowed"

\* Missing or failed reads prevent spending.
AllSpent(seen) == \A k \in Scopes : seen[k] = "exhausted"

Decide(p) ==
  LET seen == caller[p].seen IN
  /\ At(p, "read") /\ \A k \in Scopes : seen[k] # "unread"
  /\ resetFile' = WithReads(seen)
  /\ \/ /\ AllSpent(seen)
        /\ \E k \in Scopes : /\ backend.credits[k] > 0
                             /\ caller' = [caller EXCEPT ![p].pc = "pend", ![p].key = k]
        /\ UNCHANGED resetLock
     \/ EndsPass(p)
  /\ UNCHANGED <<backend, watched>>

-----------------------------------------------------------------------------
(* Commands. *)

Command(u) ==
  /\ At(u, "idle") /\ u \in Users
  /\ \/ Goes(u, "set")
     \/ \E k \in Scopes, what \in {"want", "fetch"} :
          caller' = [caller EXCEPT ![u] = [Idle EXCEPT !.pc = what, !.key = k]]
  /\ UNCHANGED <<resetFile, backend, resetLock, watched>>

SetPolicy(u) ==
  /\ At(u, "set") /\ resetLock = {}
  /\ \E policy \in {"manual", "last-resort"} : resetFile' = [resetFile EXCEPT !.policy = policy]
  /\ caller' = [caller EXCEPT ![u] = Idle]
  /\ UNCHANGED <<backend, resetLock, watched>>

\* refresh: the read is made before the lock is taken.
FetchUsage(u) ==
  /\ At(u, "fetch")
  /\ \E r \in Reading(caller[u].key) :
       caller' = [caller EXCEPT ![u].seen[caller[u].key] = r, ![u].pc = "store"]
  /\ UNCHANGED <<resetFile, backend, resetLock, watched>>

\* A snapshot that a check took meanwhile is newer and stays.
StoreUsage(u) ==
  /\ At(u, "store") /\ resetLock = {}
  /\ resetFile' \in {resetFile, WithReads(caller[u].seen)}
  /\ caller' = [caller EXCEPT ![u] = Idle]
  /\ UNCHANGED <<backend, resetLock, watched>>

\* redeem: a retry of a pending attempt needs no confirmation.
AdmitsCommand(u) ==
  /\ At(u, "in") /\ u \in Users
  /\ \/ /\ resetFile.pending = Nothing /\ resetFile.redeemedAgo >= RedeemGap
        /\ Goes(u, "confirm") /\ UNCHANGED <<resetFile, resetLock>>
     \/ /\ resetFile.pending = Nothing /\ resetFile.redeemedAgo < RedeemGap /\ LeavesFile(u)
     \/ /\ resetFile.pending # Nothing
        /\ Goes(u, "pend") /\ UNCHANGED <<resetFile, resetLock>>
  /\ UNCHANGED <<backend, watched>>

\* The read before a new redemption: unknown or no credit ends it.
Confirm(u) ==
  LET k == caller[u].key IN
  /\ At(u, "confirm")
  /\ \E r \in Reading(k) :
       IF r # "failed" /\ backend.credits[k] > 0
         THEN /\ resetFile' = WithReads([j \in Scopes |-> IF j = k THEN r ELSE "unread"])
              /\ Goes(u, "pend") /\ UNCHANGED resetLock
         ELSE LeavesFile(u)
  /\ UNCHANGED <<backend, watched>>

-----------------------------------------------------------------------------
(* consumeLocked. *)

TakeLock(a) ==
  /\ At(a, "want") /\ resetLock = {}
  /\ resetLock' = {a} /\ Goes(a, "in")
  /\ UNCHANGED <<resetFile, backend, watched>>

\* The wait for the lock has a limit.
GiveUp(a) ==
  /\ At(a, "want") /\ resetLock # {}
  /\ caller' = [caller EXCEPT ![a] = Idle]
  /\ UNCHANGED <<resetFile, backend, resetLock, watched>>

\* Mutant of AttemptFor: every try has a key of its own.
AttemptAnew(k) == [key |-> k, idem |-> watched.attempts + 1]

\* state.pending ??= ...: a retry keeps the idempotency key.
AttemptFor(k) == IF resetFile.pending = Nothing THEN [key |-> k, idem |-> watched.attempts + 1] ELSE resetFile.pending

\* The attempt is saved before the backend hears of it.
SavePending(a) ==
  LET k == caller[a].key IN
  /\ At(a, "pend")
  /\ IF resetFile.pending # Nothing /\ resetFile.pending.key # k THEN LeavesFile(a) /\ UNCHANGED watched
     ELSE /\ AttemptFor(k).idem <= MaxAttempts
          /\ resetFile' = [resetFile EXCEPT !.pending = AttemptFor(k), !.redeemedAgo = 0]
          /\ watched' = [watched EXCEPT !.attempts = IF AttemptFor(k).idem > @ THEN AttemptFor(k).idem ELSE @]
          /\ Goes(a, "consume") /\ UNCHANGED resetLock
  /\ UNCHANGED backend

\* The backend redeems a key once, from a credit of an exhausted account.
Redeems(idem, k) ==
  IF idem \in backend.redeemed \/ k \notin backend.exhausted \/ backend.credits[k] = 0 THEN backend
  ELSE [credits |-> [backend.credits EXCEPT ![k] = @ - 1], exhausted |-> backend.exhausted \ {k},
        redeemed |-> backend.redeemed \cup {idem}]

\* consume: the account is looked up again, then the call is sent.
Consume(a) ==
  /\ At(a, "consume")
  /\ backend' = Redeems(resetFile.pending.idem, caller[a].key)
  /\ Goes(a, "reread")
  /\ UNCHANGED <<resetFile, resetLock, watched>>

\* Mutant of NextGeneration: the number of the account's own receipts.
OwnGeneration(k) == resetFile.receipts[k] + 1

NextGeneration(k) == resetFile.generation + 1

\* The receipt replaces the pending attempt in one save, after a last read.
SaveReceipt(a) ==
  LET k == caller[a].key
      effective == resetFile.pending.idem \in backend.redeemed
  IN
  /\ At(a, "reread")
  /\ \E r \in Reading(k) \ {"failed"} :
       resetFile' = [WithReads([j \in Scopes |-> IF j = k THEN r ELSE "unread"]) EXCEPT
                       !.pending = Nothing, !.generation = NextGeneration(k),
                       !.receipts[k] = IF effective THEN NextGeneration(k) ELSE @]
  /\ watched' = [watched EXCEPT !.finished = @ \cup {resetFile.pending.idem}]
  /\ resetLock' = {} /\ caller' = [caller EXCEPT ![a] = Idle]
  /\ UNCHANGED backend

\* A call throws (account gone, answer lost, read or save failed), or its
\* process dies and the lock is recovered.
Fails(a) ==
  /\ ~At(a, "idle") /\ watched.faults < MaxFaults
  /\ watched' = [watched EXCEPT !.faults = @ + 1]
  /\ LeavesFile(a)
  /\ UNCHANGED backend

-----------------------------------------------------------------------------
\* Time passes.
Later ==
  /\ resetFile.redeemedAgo < AutoGap \/ resetFile.checkedAgo < CheckGap
  /\ resetFile' = [resetFile EXCEPT !.redeemedAgo = IF @ < AutoGap THEN @ + 1 ELSE @,
                                    !.checkedAgo = IF @ < CheckGap THEN @ + 1 ELSE @]
  /\ UNCHANGED <<backend, resetLock, caller, watched>>

\* Quota runs out or its window ends.
UsageChanges ==
  /\ watched.changes < MaxChanges
  /\ watched' = [watched EXCEPT !.changes = @ + 1]
  /\ \E k \in Scopes :
       backend' = [backend EXCEPT !.exhausted = IF k \in @ THEN @ \ {k} ELSE @ \cup {k}]
  /\ UNCHANGED <<resetFile, resetLock, caller>>

ResetNext ==
  \/ \E p \in Proxies : BeginCheck(p) \/ JoinCheck(p) \/ LookPolicy(p) \/ StartReads(p) \/ ReadScope(p) \/ Decide(p)
  \/ \E u \in Users : Command(u) \/ SetPolicy(u) \/ FetchUsage(u) \/ StoreUsage(u) \/ AdmitsCommand(u) \/ Confirm(u)
  \/ \E a \in Redeemers : TakeLock(a) \/ GiveUp(a) \/ SavePending(a) \/ Consume(a) \/ SaveReceipt(a) \/ Fails(a)
  \/ Later \/ UsageChanges

ResetSpec == ResetInit /\ [][ResetNext]_resetVars

-----------------------------------------------------------------------------
\* A reset that the backend has given out is known: its receipt is on file, or
\* its key is still the pending one, whatever failed or died around the call.
SpentIsOnRecord ==
  backend.redeemed \ watched.finished \subseteq {resetFile.pending.idem}

\* A proxy spends by itself only while the policy allows it, after every account
\* was read and found exhausted, and not while the fate of another attempt is open.
LastResortOnly ==
  \A p \in Proxies : At(p, "consume") =>
    /\ resetFile.policy = "last-resort"
    /\ \A k \in Scopes : caller[p].seen[k] = "exhausted"
    /\ backend.redeemed \subseteq watched.finished

\* Receipts are numbered across accounts: a redemption that ends later has a
\* higher generation than every receipt on file.
ReceiptsOrdered ==
  \A k \in Scopes : resetFile'.receipts[k] # resetFile.receipts[k] =>
    \A j \in Scopes : resetFile.receipts[j] < resetFile'.receipts[k]

-----------------------------------------------------------------------------
(***************************************************************************)
(* lib/runtime/confirmed-reset-reconciler.ts with the parts of the proxy   *)
(* and of the account manager that feed it: one account whose quota was    *)
(* reset somewhere (a receipt of ResetCredits, known by its generation) is *)
(* unblocked in a proxy that still remembers a 429.  A receipt is only a   *)
(* hint; a fresh read of the permission decides, and a rejection that came *)
(* after the reset must not be lifted by it.                               *)
(*                                                                         *)
(* Inflight run concurrently; what each knew of receipts when it was sent  *)
(* travels with it.  Receipts written before generations existed, which    *)
(* are told apart by their content, are not modelled.                      *)
(***************************************************************************)

CONSTANTS Inflight,
          MaxGeneration,  \* redemptions
          MaxRejections,  \* 429 answers
          MaxReadFaults   \* receipts that could not be read

ASSUME ReceiptAssumption == MaxGeneration \in Nat /\ MaxRejections \in Nat /\ MaxReadFaults \in Nat

VARIABLES redeemed,   \* generation of the receipt on file, 0 for none
          permitted,  \* whether the backend allows usage (external)
          sharedRead, \* the cached read of receipts: generation, rejection sequence when it began
          blocked,    \* the account's quota deadline has not passed
          knownGen,   \* account.resetReceiptGenerations
          rejection,  \* account.rateLimitObservations: revision, sequence, generations, failed read
          operation,  \* the reconciler's operation for this account
          request,    \* per request
          bound,      \* history: the newest receipt each remembered rejection may be older than
          readFaults

receiptVars == <<redeemed, permitted, sharedRead, blocked, knownGen, rejection, operation, request, bound, readFaults>>

NoRead == [generation |-> 0, sequence |-> 0, ok |-> FALSE]
NoOperation == [generation |-> 0, state |-> "none", revision |-> 0, by |-> 0]
Waiting == [pc |-> "idle", read |-> NoRead, sent |-> 0, blind |-> FALSE, revision |-> 0, allowed |-> FALSE]

ReceiptInit ==
  /\ redeemed = 0 /\ permitted \in BOOLEAN
  /\ sharedRead = NoRead /\ blocked = FALSE /\ knownGen = 0
  /\ rejection = [revision |-> 0, generation |-> 0, blind |-> FALSE]
  /\ operation = NoOperation
  /\ request = [r \in Inflight |-> Waiting]
  /\ bound = 0 /\ readFaults = 0

Is(r, pc) == request[r].pc = pc

-----------------------------------------------------------------------------
(* Reading receipts. *)

\* Mutant of Settles: a read bounds rejections that came after it began.
SettlesAll(read) ==
  IF read.ok /\ rejection.blind
    THEN [rejection EXCEPT !.generation = Max({@, read.generation}), !.blind = FALSE]
    ELSE rejection

\* settleReceiptBaselines: a rejection recorded while receipts were unreadable
\* is bounded by the next read that began after it.
Settles(read) ==
  IF read.ok /\ rejection.blind /\ rejection.revision <= read.sequence
    THEN [rejection EXCEPT !.generation = Max({@, read.generation}), !.blind = FALSE]
    ELSE rejection

\* A read of the file, begun now: readResetCredits.
FreshRead == [generation |-> redeemed, sequence |-> rejection.revision, ok |-> TRUE]

ReadFault == readFaults < MaxReadFaults /\ readFaults' = readFaults + 1

\* A request arrives: the shared read is used while it is young, or renewed.
Arrive(r) ==
  /\ Is(r, "idle")
  /\ \/ \E read \in {FreshRead} \cup (IF sharedRead.ok THEN {sharedRead} ELSE {}) :
          /\ request' = [request EXCEPT ![r] = [Waiting EXCEPT !.pc = "ready", !.read = read]]
          /\ sharedRead' = read /\ rejection' = Settles(read) /\ UNCHANGED readFaults
     \/ /\ request' = [request EXCEPT ![r] = [Waiting EXCEPT !.pc = "ready"]]
        /\ sharedRead' = NoRead /\ ReadFault /\ UNCHANGED rejection
  /\ UNCHANGED <<redeemed, permitted, blocked, knownGen, operation, bound>>

\* What the request knew of receipts when it was sent.
Knows(r) == request[r].sent

\* observeResetGenerations, then the request is sent.
Send(r) ==
  LET known == IF request[r].read.ok THEN Max({knownGen, request[r].read.generation}) ELSE knownGen IN
  /\ Is(r, "ready") /\ ~blocked
  /\ knownGen' = known
  /\ request' = [request EXCEPT ![r].pc = "sent", ![r].sent = known, ![r].blind = ~request[r].read.ok]
  /\ UNCHANGED <<redeemed, permitted, sharedRead, blocked, rejection, operation, bound, readFaults>>

-----------------------------------------------------------------------------
(* Answers. *)

AnswerServed(r) ==
  /\ Is(r, "sent") /\ permitted
  /\ request' = [request EXCEPT ![r] = Waiting]
  /\ UNCHANGED <<redeemed, permitted, sharedRead, blocked, knownGen, rejection, operation, bound, readFaults>>

\* Mutant of RecordedRejection: the last rejection replaces the ones before it.
RecordedAlone(r) ==
  [revision |-> rejection.revision + 1, generation |-> Knows(r), blind |-> request[r].blind]

\* recordRejection: chronology only accumulates.
RecordedRejection(r) ==
  [revision |-> rejection.revision + 1, generation |-> Max({rejection.generation, Knows(r)}),
   blind |-> rejection.blind \/ request[r].blind]

\* A 429; it may answer a request sent long ago, whatever is permitted now.
Rejected(r) ==
  /\ Is(r, "sent") /\ rejection.revision < MaxRejections
  /\ rejection' = RecordedRejection(r) /\ blocked' = TRUE
  /\ bound' = Max({bound, IF request[r].blind THEN redeemed ELSE request[r].sent})
  /\ request' = [request EXCEPT ![r].pc = "ready"]
  /\ UNCHANGED <<redeemed, permitted, sharedRead, knownGen, operation, readFaults>>

-----------------------------------------------------------------------------
(* ConfirmedResetReconciler.reconcile, for a request that finds the account blocked. *)

\* The receipts are read again; a redemption of a moment ago must be seen.
Reread(r) ==
  /\ Is(r, "ready") /\ blocked
  /\ \/ /\ request' = [request EXCEPT ![r].pc = "settle", ![r].read = FreshRead] /\ UNCHANGED readFaults
     \/ /\ request' = [request EXCEPT ![r].pc = "settle", ![r].read = NoRead] /\ ReadFault
  /\ UNCHANGED <<redeemed, permitted, sharedRead, blocked, knownGen, rejection, operation, bound>>

\* Mutant of Follows: a rejection that saw no receipts is not waited for.
FollowsBlindly(seen, generation) == seen.generation < generation

\* The receipt is newer than everything the rejections knew.
Follows(seen, generation) == ~seen.blind /\ seen.generation < generation

\* A running or judged operation for the same or a newer receipt is shared.
Joins(generation) ==
  /\ operation.generation >= generation
  /\ \/ operation.state \in {"reading", "failed"}
     \/ operation.state = "judged" /\ operation.revision = rejection.revision

Judge(r) ==
  LET read == request[r].read
      seen == Settles(read)
      generation == read.generation
      usable == /\ blocked /\ read.ok /\ generation > 0 /\ Follows(seen, generation)
                /\ generation >= knownGen
  IN
  /\ Is(r, "settle")
  /\ rejection' = seen
  /\ IF usable /\ ~Joins(generation)
       THEN /\ operation' = [generation |-> generation, state |-> "reading", revision |-> seen.revision, by |-> r]
            /\ knownGen' = Max({knownGen, generation})
            /\ request' = [request EXCEPT ![r].pc = "permit"]
       ELSE /\ request' = [request EXCEPT ![r] = Waiting] /\ UNCHANGED <<operation, knownGen>>
  /\ UNCHANGED <<redeemed, permitted, sharedRead, blocked, bound, readFaults>>

\* The permission is read; the answer takes its time.
ReadPermission(r) ==
  /\ Is(r, "permit")
  /\ request' = [request EXCEPT ![r].pc = "decide", ![r].allowed = permitted]
  /\ UNCHANGED <<redeemed, permitted, sharedRead, blocked, knownGen, rejection, operation, bound, readFaults>>

\* Mutant of ReadStands: a rejection during the read is overlooked.
ReadStandsAnyway(r) == request[r].allowed

\* A rejection during the read outranks its result.
ReadStands(r) == request[r].allowed /\ rejection.revision = operation.revision

\* The block is lifted, or the operation waits before it is tried again.
Lift(r) ==
  /\ Is(r, "decide")
  /\ IF operation.by # r THEN UNCHANGED <<operation, blocked>>
     ELSE IF ReadStands(r) THEN operation' = [operation EXCEPT !.state = "judged"] /\ blocked' = FALSE
     ELSE operation' = [operation EXCEPT !.state = "failed"] /\ UNCHANGED blocked
  /\ request' = [request EXCEPT ![r] = Waiting]
  /\ UNCHANGED <<redeemed, permitted, sharedRead, knownGen, rejection, bound, readFaults>>

-----------------------------------------------------------------------------
\* The delay of a failed operation is over.
RetryDue ==
  /\ operation.state = "failed"
  /\ operation' = NoOperation
  /\ UNCHANGED <<redeemed, permitted, sharedRead, blocked, knownGen, rejection, request, bound, readFaults>>

\* A redemption ends somewhere; the cached read may still be an older one.
Redemption ==
  /\ redeemed < MaxGeneration
  /\ redeemed' = redeemed + 1 /\ permitted' = TRUE
  /\ UNCHANGED <<sharedRead, blocked, knownGen, rejection, operation, request, bound, readFaults>>

\* Quota runs out again, and the cached read grows old.
QuotaGone ==
  /\ permitted /\ permitted' = FALSE
  /\ UNCHANGED <<redeemed, sharedRead, blocked, knownGen, rejection, operation, request, bound, readFaults>>
CacheOld ==
  /\ sharedRead.ok /\ sharedRead' = NoRead
  /\ UNCHANGED <<redeemed, permitted, blocked, knownGen, rejection, operation, request, bound, readFaults>>

ReceiptNext ==
  \/ \E r \in Inflight : \/ Arrive(r) \/ Send(r) \/ AnswerServed(r) \/ Rejected(r)
                         \/ Reread(r) \/ Judge(r) \/ ReadPermission(r) \/ Lift(r)
  \/ RetryDue \/ Redemption \/ QuotaGone \/ CacheOld

ReceiptSpec == ReceiptInit /\ [][ReceiptNext]_receiptVars

-----------------------------------------------------------------------------
\* A block is lifted only by a receipt newer than anything the rejected requests
\* knew of, or, if one of them could know nothing, newer than what was on file
\* when its rejection was recorded.
LiftedByNewerReset == (blocked /\ ~blocked') => operation.generation > bound
=============================================================================

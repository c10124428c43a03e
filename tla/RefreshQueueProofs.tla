------------------------- MODULE RefreshQueueProofs -------------------------
(***************************************************************************)
(* Proofs about RefreshQueue and the lease below it, for every number of   *)
(* processes, flights, tokens, polls and faults.  The inductive invariant  *)
(* IInv says what a flight's program counter means for its locals, who     *)
(* may have created a lock file and which flight a process has on record;  *)
(* RInv, proved from it, which tokens a process can know and that a        *)
(* rotation stays in its process' map until its flight has settled.        *)
(***************************************************************************)
EXTENDS RefreshQueue, TLAPS

\* The stages at which a flight of a leased process has the lock file of its token.
HoldStages == {"payload", "recheck", "expireHeld", "gate", "sent", "publish", "unlock", "crashedSent"}

\* A flight under way has a token, one that publishes has a success to publish, and
\* only a leased process goes through acquire().
Locals ==
  \A f \in Flights :
    /\ Active(f) \/ pc[f] = "crashedSent" => tok[f] \in Tokens
    /\ pc[f] = "publish" => value[f] \in Tokens
    /\ pc[f] \in Acquiring => leased

\* The lock file names its creator: from its creation to its removal the flight that
\* goes through these stages is its owner, and an owner that goes on without having
\* removed it met a fault.
Leases ==
  /\ \A f \in Flights : leased /\ pc[f] \in HoldStages => lock[tok[f]] = f
  /\ \A t \in Tokens, f \in Flights : lock[t] = f =>
       /\ leased /\ pc[f] \notin {"idle", "read", "expire", "open"}
       /\ Active(f) => tok[f] = t
       /\ pc[f] \in {"settle", "done"} => faults > 0

\* A holder past its recheck does not overlook a published result that it could read.
Shielded ==
  \A f \in Flights : leased /\ pc[f] = "gate" => result[tok[f]].age # "fresh" \/ f \in unread

\* this.pending has the flight of a token, unless its acquire outlasted the eviction age.
OnRecord ==
  \A f \in Flights : Active(f) => pending[ProcOf[f]][tok[f]] = f \/ f \in overdue

IInv == TypeOK /\ Locals /\ Leases /\ Shielded /\ OnRecord

\* An entry of this.pending is a flight under way of this process for this token, and only
\* leased flights stall.
Filed ==
  /\ \A p \in Procs, t \in Tokens : \A f \in Flights : pending[p][t] = f =>
       Active(f) /\ ProcOf[f] = p /\ tok[f] = t
  /\ overdue # {} => leased

\* A request at the endpoint is its flight's only one, for the flight's own token.
Requested ==
  \A f \in Flights, t \in Tokens : <<f, t>> \in inflight =>
    /\ pc[f] \notin {"idle", "gate"} \cup Acquiring
    /\ Active(f) => tok[f] = t

\* A flight hears its own token or the successor of one that it spent, of which nobody
\* knows before the flight itself does.
Rotation(f) == answer[f] \in Tokens /\ answer[f] # tok[f]
Heard ==
  \A f \in Flights :
    /\ answer[f] # None => pc[f] \in {"sent", "publish", "unlock", "settle"}
    /\ Rotation(f) => answer[f] = tok[f] + 1 /\ tok[f] \in spent
    /\ Rotation(f) /\ pc[f] = "sent" => answer[f] \notin issued
    /\ Active(f) => tok[f] \in issued

\* A token is issued once, to one flight.
Minted ==
  /\ \A f, g \in Flights : Rotation(f) /\ Rotation(g) /\ answer[f] = answer[g] => f = g
  /\ \A t \in Tokens : t + 1 \in issued => t \in spent

\* From its success to its end a flight's rotation is in the process' map, no other flight
\* of the process waits for an answer about its token, and none is about the new token.
Noted ==
  \A g \in Flights :
    pc[g] \in {"publish", "unlock", "settle"} /\ g \notin overdue /\ Rotation(g) =>
      /\ <<tok[g], answer[g]>> \in rotated[ProcOf[g]]
      /\ \A h \in Flights : ProcOf[h] = ProcOf[g] /\ Active(h) =>
           /\ tok[h] # answer[g]
           /\ h # g /\ tok[h] = tok[g] => pc[h] # "sent"

RInv == Filed /\ Requested /\ Heard /\ Minted /\ Noted

-----------------------------------------------------------------------------
(* Initially. *)

LEMMA InitIInv == Init => IInv
BY LeaseAssumption, QueueAssumption DEF Init, IInv, TypeOK, Locals, Leases, Shielded, OnRecord,
   Active, Over, Acquiring, Owning, HoldStages, Results, NoResult, Tokens

\* A result file is absent, or hands out a token.
LEMMA ResultType ==
  ASSUME TypeOK, NEW t \in Tokens
  PROVE  /\ result[t].age \in {"none", "fresh", "stale"}
         /\ result[t].age # "none" => result[t].token \in Tokens
BY DEF TypeOK, Results, NoResult

-----------------------------------------------------------------------------
(* One lemma per action: the types, then each part of the invariant. *)

LEMMA ReadResultIInv ==
  ASSUME NEW f \in Flights, IInv, UNCHANGED leased, ReadResult(f), UNCHANGED <<queueVars, serverVars>>
  PROVE  IInv'
<1> USE LeaseAssumption, QueueAssumption DEF IInv, leaseVars, queueVars, serverVars
<1> USE DEF Active, Over, Acquiring, Owning, HoldStages
<1> DEFINE t == tok[f]
           next == IF result[t].age = "fresh" THEN IF pc[f] = "read" THEN "settle" ELSE "unlock"
                   ELSE IF result[t].age = "stale" THEN IF pc[f] = "read" THEN "expire" ELSE "expireHeld"
                   ELSE IF pc[f] = "read" THEN "open" ELSE "gate"
<1>0. /\ pc[f] \in {"read", "recheck"} /\ t \in Tokens
      /\ pc' = [pc EXCEPT ![f] = next]
      /\ value' = value \/ (value' = [value EXCEPT ![f] = result[t].token] /\ result[t].token \in Tokens)
      /\ UNCHANGED <<tok, lock, result, polls, faults, unread, queueVars, serverVars>>
  <2>1. pc[f] \in {"read", "recheck"} /\ t \in Tokens BY DEF ReadResult, Locals, TypeOK
  <2>2. /\ result[t].age \in {"none", "fresh", "stale"}
        /\ result[t].age # "none" => result[t].token \in Tokens
    BY <2>1, ResultType
  <2>3. UNCHANGED <<tok, lock, result, polls, faults, unread, queueVars, serverVars>> BY DEF ReadResult
  <2>4. CASE result[t].age = "fresh" BY <2>1, <2>2, <2>3, <2>4 DEF ReadResult, Goto, Resolve
  <2>5. CASE result[t].age = "stale" BY <2>1, <2>2, <2>3, <2>5 DEF ReadResult, Goto, Resolve
  <2>6. CASE result[t].age = "none"
    <3>1. result[t].age # "fresh" /\ result[t].age # "stale" BY <2>6
    <3>2. pc' = [pc EXCEPT ![f] = next] /\ value' = value
      BY <2>6, <3>1 DEF ReadResult, Goto
    <3> QED BY <2>1, <2>3, <3>2
  <2> QED BY <2>2, <2>4, <2>5, <2>6
<1>a. next \in {"settle", "unlock", "expire", "expireHeld", "open", "gate"} /\ next # "publish" BY <1>0
<1>b. pc[f] = "read" <=> next \in {"settle", "expire", "open"} BY <1>0
<1>c. next = "gate" => result[t].age \notin {"fresh", "stale"} BY <1>0
<1> HIDE DEF next
<1>1. TypeOK'
  <2>1. pc' \in [Flights -> {"idle", "settle"} \cup Acquiring \cup Owning \cup Over] BY <1>0, <1>a DEF TypeOK
  <2>2. value' \in [Flights -> Tokens \cup {Failed, None}] BY <1>0 DEF TypeOK
  <2> QED BY <1>0, <2>1, <2>2 DEF TypeOK
<1>2. Locals' BY <1>0, <1>a DEF TypeOK, Locals
<1>3. Leases' BY <1>0, <1>a, <1>b DEF TypeOK, Locals, Leases
<1>4. Shielded' BY <1>0, <1>a, <1>c DEF TypeOK, Locals, Leases, Shielded
<1>5. OnRecord' BY <1>0, <1>a DEF TypeOK, Locals, OnRecord
<1> QED BY <1>1, <1>2, <1>3, <1>4, <1>5

LEMMA UnlinkExpiredIInv == ASSUME NEW f \in Flights, IInv, UNCHANGED leased, UnlinkExpired(f), UNCHANGED <<queueVars, serverVars>> PROVE IInv'
<1> USE LeaseAssumption, QueueAssumption DEF UnlinkExpired, Goto, Results, IInv, leaseVars, queueVars, serverVars
<1> USE DEF Active, Over, Acquiring, Owning, HoldStages
<1>1. TypeOK' BY DEF TypeOK, Locals, Results, NoResult
<1>2. Locals' BY DEF TypeOK, Locals, Results, NoResult
<1>3. Leases' BY DEF TypeOK, Locals, Leases
<1>4. Shielded'
  <2>1. tok[f] \in Tokens /\ tok' = tok /\ result' = [result EXCEPT ![tok[f]] = NoResult]
    BY <1>1 DEF TypeOK, Locals
  <2>2. NoResult.age # "fresh" BY DEF NoResult
  <2>3. \A g \in Flights : pc'[g] = "gate" /\ g # f => pc[g] = "gate" BY DEF TypeOK
  <2>4. \A t \in Tokens : result'[t] = result[t] \/ result'[t].age # "fresh" BY <2>1, <2>2 DEF TypeOK
  <2>5. result'[tok[f]].age # "fresh" BY <2>1, <2>2 DEF TypeOK
  <2> QED BY <2>1, <2>3, <2>4, <2>5 DEF TypeOK, Locals, Shielded
<1>5. OnRecord' BY DEF TypeOK, Locals, OnRecord
<1> QED BY <1>1, <1>2, <1>3, <1>4, <1>5

LEMMA CreateLockIInv == ASSUME NEW f \in Flights, IInv, UNCHANGED leased, CreateLock(f), UNCHANGED <<queueVars, serverVars>> PROVE IInv'
<1> USE LeaseAssumption, QueueAssumption DEF CreateLock, Goto, IInv, leaseVars, queueVars, serverVars
<1> USE DEF Active, Over, Acquiring, Owning, HoldStages
<1>1. TypeOK' BY DEF TypeOK, Locals, Results, NoResult
<1>2. Locals' BY DEF TypeOK, Locals, Results, NoResult
<1>3. Leases'
  <2>1. /\ tok[f] \in Tokens /\ lock[tok[f]] = None /\ pc[f] = "open" /\ leased
        /\ lock' = [lock EXCEPT ![tok[f]] = f] /\ pc' = [pc EXCEPT ![f] = "payload"]
        /\ UNCHANGED <<leased, tok, unread, faults>>
    BY DEF TypeOK, Locals
  <2>2. \A g \in Flights : g # f => pc'[g] = pc[g] BY <2>1 DEF TypeOK
  <2>3. pc'[f] = "payload" /\ lock'[tok[f]] = f BY <2>1 DEF TypeOK
  <2>4. \A t \in Tokens : t # tok[f] => lock'[t] = lock[t] BY <2>1 DEF TypeOK
  <2>5. \A t \in Tokens : lock[t] # f BY <2>1 DEF Leases
  <2>6. ASSUME NEW g \in Flights, pc'[g] \in HoldStages PROVE lock'[tok[g]] = g
    <3>1. CASE g = f BY <2>3, <3>1
    <3>2. CASE g # f
      <4>1. lock[tok[g]] = g /\ tok[g] \in Tokens BY <2>1, <2>2, <2>6, <3>2 DEF Leases, Locals
      <4> QED BY <2>1, <2>4, <4>1
    <3> QED BY <3>1, <3>2
  <2>7. ASSUME NEW t \in Tokens, NEW g \in Flights, lock'[t] = g
        PROVE  /\ leased /\ pc'[g] \notin {"idle", "read", "expire", "open"}
               /\ Active(g)' => tok'[g] = t
               /\ pc'[g] \in {"settle", "done"} => faults > 0
    <3>1. CASE t = tok[f] BY <2>1, <2>3, <2>7, <3>1
    <3>2. CASE t # tok[f] BY <2>1, <2>2, <2>4, <2>5, <2>7, <3>2 DEF Leases
    <3> QED BY <3>1, <3>2
  <2> QED BY <2>1, <2>6, <2>7 DEF Leases
<1>4. Shielded' BY DEF TypeOK, Locals, Leases, Shielded, NoResult
<1>5. OnRecord' BY DEF TypeOK, Locals, OnRecord
<1> QED BY <1>1, <1>2, <1>3, <1>4, <1>5

LEMMA LockExistsIInv == ASSUME NEW f \in Flights, IInv, UNCHANGED leased, LockExists(f), UNCHANGED <<queueVars, serverVars>> PROVE IInv'
<1> USE LeaseAssumption, QueueAssumption DEF LockExists, Goto, Resolve, IInv, leaseVars, queueVars, serverVars
<1> USE DEF Active, Over, Acquiring, Owning, HoldStages
<1>1. TypeOK'
  <2>0. ProcOf[f] \in Procs /\ tok[f] \in Tokens BY DEF TypeOK, Locals
  <2>1. pc' \in [Flights -> {"idle", "settle"} \cup Acquiring \cup Owning \cup Over] BY <2>0 DEF TypeOK
  <2>2. value' \in [Flights -> Tokens \cup {Failed, None}] BY <2>0 DEF TypeOK
  <2>3. polls' \in [Flights -> 0..MaxPolls]
    <3>1. CASE polls[f] < MaxPolls
      <4>1. polls[f] + 1 \in 0..MaxPolls BY <3>1 DEF TypeOK
      <4>2. polls' = [polls EXCEPT ![f] = polls[f] + 1] BY <3>1 DEF TypeOK
      <4> QED BY <4>1, <4>2 DEF TypeOK
    <3>2. CASE ~(polls[f] < MaxPolls) BY <3>2 DEF TypeOK
    <3> QED BY <3>1, <3>2
  <2> QED BY <2>1, <2>2, <2>3 DEF TypeOK
<1>2. Locals' BY DEF TypeOK, Locals, Results, NoResult
<1>3. Leases' BY DEF TypeOK, Locals, Leases
<1>4. Shielded' BY DEF TypeOK, Locals, Leases, Shielded, NoResult
<1>5. OnRecord' BY DEF TypeOK, Locals, OnRecord
<1> QED BY <1>1, <1>2, <1>3, <1>4, <1>5

LEMMA WritePayloadIInv == ASSUME NEW f \in Flights, IInv, UNCHANGED leased, WritePayload(f), UNCHANGED <<queueVars, serverVars>> PROVE IInv'
<1> USE LeaseAssumption, QueueAssumption DEF WritePayload, Goto, IInv, leaseVars, queueVars, serverVars
<1> USE DEF Active, Over, Acquiring, Owning, HoldStages
<1>1. TypeOK' BY DEF TypeOK, Locals, Results, NoResult
<1>2. Locals' BY DEF TypeOK, Locals, Results, NoResult
<1>3. Leases' BY DEF TypeOK, Locals, Leases
<1>4. Shielded' BY DEF TypeOK, Locals, Leases, Shielded, NoResult
<1>5. OnRecord' BY DEF TypeOK, Locals, OnRecord
<1> QED BY <1>1, <1>2, <1>3, <1>4, <1>5

LEMMA ReadFaultIInv == ASSUME NEW f \in Flights, IInv, UNCHANGED leased, ReadFault(f), UNCHANGED <<queueVars, serverVars>> PROVE IInv'
<1> USE LeaseAssumption, QueueAssumption DEF ReadFault, Goto, Fault, IInv, leaseVars, queueVars, serverVars
<1> USE DEF Active, Over, Acquiring, Owning, HoldStages
<1>1. TypeOK' BY DEF TypeOK, Locals, Results, NoResult
<1>2. Locals' BY DEF TypeOK, Locals, Results, NoResult
<1>3. Leases' BY DEF TypeOK, Locals, Leases
<1>4. Shielded' BY DEF TypeOK, Locals, Leases, Shielded, NoResult
<1>5. OnRecord' BY DEF TypeOK, Locals, OnRecord
<1> QED BY <1>1, <1>2, <1>3, <1>4, <1>5

LEMMA AcquireErrorIInv == ASSUME NEW f \in Flights, IInv, UNCHANGED leased, AcquireError(f), UNCHANGED <<queueVars, serverVars>> PROVE IInv'
<1> USE LeaseAssumption, QueueAssumption DEF AcquireError, Goto, Resolve, Fault, IInv, leaseVars, queueVars, serverVars
<1> USE DEF Active, Over, Acquiring, Owning, HoldStages
<1>1. TypeOK' BY DEF TypeOK, Locals, Results, NoResult
<1>2. Locals' BY DEF TypeOK, Locals, Results, NoResult
<1>3. Leases' BY DEF TypeOK, Locals, Leases
<1>4. Shielded' BY DEF TypeOK, Locals, Leases, Shielded, NoResult
<1>5. OnRecord' BY DEF TypeOK, Locals, OnRecord
<1> QED BY <1>1, <1>2, <1>3, <1>4, <1>5

LEMMA PublishResultIInv == ASSUME NEW f \in Flights, IInv, UNCHANGED leased, PublishResult(f), UNCHANGED <<queueVars, serverVars>> PROVE IInv'
<1> USE LeaseAssumption, QueueAssumption DEF PublishResult, Goto, IInv, leaseVars, queueVars, serverVars
<1> USE DEF Active, Over, Acquiring, Owning, HoldStages
<1>1. TypeOK' BY DEF TypeOK, Locals, Results, NoResult
<1>2. Locals' BY DEF TypeOK, Locals, Results, NoResult
<1>3. Leases' BY DEF TypeOK, Locals, Leases
<1>4. Shielded' BY DEF TypeOK, Locals, Leases, Shielded, NoResult
<1>5. OnRecord' BY DEF TypeOK, Locals, OnRecord
<1> QED BY <1>1, <1>2, <1>3, <1>4, <1>5

LEMMA PublishFaultIInv == ASSUME NEW f \in Flights, IInv, UNCHANGED leased, PublishFault(f), UNCHANGED <<queueVars, serverVars>> PROVE IInv'
<1> USE LeaseAssumption, QueueAssumption DEF PublishFault, Goto, Fault, IInv, leaseVars, queueVars, serverVars
<1> USE DEF Active, Over, Acquiring, Owning, HoldStages
<1>1. TypeOK' BY DEF TypeOK, Locals, Results, NoResult
<1>2. Locals' BY DEF TypeOK, Locals, Results, NoResult
<1>3. Leases' BY DEF TypeOK, Locals, Leases
<1>4. Shielded' BY DEF TypeOK, Locals, Leases, Shielded, NoResult
<1>5. OnRecord' BY DEF TypeOK, Locals, OnRecord
<1> QED BY <1>1, <1>2, <1>3, <1>4, <1>5

LEMMA UnlinkLockIInv == ASSUME NEW f \in Flights, IInv, UNCHANGED leased, UnlinkLock(f), UNCHANGED <<queueVars, serverVars>> PROVE IInv'
<1> USE LeaseAssumption, QueueAssumption DEF UnlinkLock, Goto, IInv, leaseVars, queueVars, serverVars
<1> USE DEF Active, Over, Acquiring, Owning, HoldStages
<1>1. TypeOK' BY DEF TypeOK, Locals, Results, NoResult
<1>2. Locals' BY DEF TypeOK, Locals, Results, NoResult
<1>3. Leases' BY DEF TypeOK, Locals, Leases
<1>4. Shielded' BY DEF TypeOK, Locals, Leases, Shielded, NoResult
<1>5. OnRecord' BY DEF TypeOK, Locals, OnRecord
<1> QED BY <1>1, <1>2, <1>3, <1>4, <1>5

LEMMA UnlinkFaultIInv == ASSUME NEW f \in Flights, IInv, UNCHANGED leased, UnlinkFault(f), UNCHANGED <<queueVars, serverVars>> PROVE IInv'
<1> USE LeaseAssumption, QueueAssumption DEF UnlinkFault, Goto, Fault, IInv, leaseVars, queueVars, serverVars
<1> USE DEF Active, Over, Acquiring, Owning, HoldStages
<1>1. TypeOK' BY DEF TypeOK, Locals, Results, NoResult
<1>2. Locals' BY DEF TypeOK, Locals, Results, NoResult
<1>3. Leases' BY DEF TypeOK, Locals, Leases
<1>4. Shielded' BY DEF TypeOK, Locals, Leases, Shielded, NoResult
<1>5. OnRecord' BY DEF TypeOK, Locals, OnRecord
<1> QED BY <1>1, <1>2, <1>3, <1>4, <1>5

LEMMA StallIInv == ASSUME NEW f \in Flights, IInv, UNCHANGED leased, Stall(f) PROVE IInv'
<1> USE LeaseAssumption, QueueAssumption DEF Stall, IInv, leaseVars, queueVars, serverVars
<1> USE DEF Active, Over, Acquiring, Owning, HoldStages
<1>1. TypeOK' BY DEF TypeOK, Locals, Results, NoResult
<1>2. Locals' BY DEF TypeOK, Locals, Results, NoResult
<1>3. Leases' BY DEF TypeOK, Locals, Leases
<1>4. Shielded' BY DEF TypeOK, Locals, Leases, Shielded, NoResult
<1>5. OnRecord' BY DEF TypeOK, Locals, OnRecord
<1> QED BY <1>1, <1>2, <1>3, <1>4, <1>5

LEMMA AcquireThrowsIInv == ASSUME NEW f \in Flights, IInv, UNCHANGED leased, AcquireThrows(f) PROVE IInv'
<1> USE LeaseAssumption, QueueAssumption DEF AcquireThrows, Goto, Resolve, Fault, JoinNewer, Superseded, IInv, leaseVars, queueVars, serverVars
<1> USE DEF Active, Over, Acquiring, Owning, HoldStages
<1>1. TypeOK'
  <2>0. ProcOf[f] \in Procs /\ tok[f] \in Tokens BY DEF TypeOK, Locals
  <2>1. pc' \in [Flights -> {"idle", "settle"} \cup Acquiring \cup Owning \cup Over] BY <2>0 DEF TypeOK
  <2>2. value' \in [Flights -> Tokens \cup {Failed, None}] BY <2>0 DEF TypeOK
  <2>3. faults' \in 0..MaxFaults BY <2>0 DEF TypeOK
  <2>4. joined' \in [Flights -> Flights \cup {None}]
    <3>1. pending[ProcOf[f]][tok[f]] \in Flights \cup {None} BY <2>0 DEF TypeOK
    <3>2. joined' = joined \/ joined' = [joined EXCEPT ![f] = pending[ProcOf[f]][tok[f]]] OBVIOUS
    <3> QED BY <3>1, <3>2 DEF TypeOK
  <2> QED BY <2>1, <2>2, <2>3, <2>4 DEF TypeOK
<1>2. Locals' BY DEF TypeOK, Locals, Results, NoResult
<1>3. Leases' BY DEF TypeOK, Locals, Leases
<1>4. Shielded' BY DEF TypeOK, Locals, Leases, Shielded, NoResult
<1>5. OnRecord' BY DEF TypeOK, Locals, OnRecord
<1> QED BY <1>1, <1>2, <1>3, <1>4, <1>5

LEMMA YieldToNewerIInv == ASSUME NEW f \in Flights, IInv, UNCHANGED leased, YieldToNewer(f) PROVE IInv'
<1> USE LeaseAssumption, QueueAssumption DEF YieldToNewer, Goto, JoinNewer, Superseded, IInv, leaseVars, queueVars, serverVars
<1> USE DEF Active, Over, Acquiring, Owning, HoldStages
<1>1. TypeOK'
  <2>0. ProcOf[f] \in Procs /\ tok[f] \in Tokens BY DEF TypeOK, Locals
  <2>1. pc' \in [Flights -> {"idle", "settle"} \cup Acquiring \cup Owning \cup Over] BY <2>0 DEF TypeOK
  <2>2. joined' \in [Flights -> Flights \cup {None}] BY <2>0 DEF TypeOK
  <2> QED BY <2>1, <2>2 DEF TypeOK
<1>2. Locals' BY DEF TypeOK, Locals, Results, NoResult
<1>3. Leases' BY DEF TypeOK, Locals, Leases
<1>4. Shielded' BY DEF TypeOK, Locals, Leases, Shielded, NoResult
<1>5. OnRecord' BY DEF TypeOK, Locals, OnRecord
<1> QED BY <1>1, <1>2, <1>3, <1>4, <1>5

LEMMA SendIInv == ASSUME NEW f \in Flights, IInv, UNCHANGED leased, Send(f) PROVE IInv'
<1> USE LeaseAssumption, QueueAssumption DEF Send, Goto, Superseded, IInv, leaseVars, queueVars, serverVars
<1> USE DEF Active, Over, Acquiring, Owning, HoldStages
<1>1. TypeOK'
  <2>0. ProcOf[f] \in Procs /\ tok[f] \in Tokens BY DEF TypeOK, Locals
  <2>1. pc' \in [Flights -> {"idle", "settle"} \cup Acquiring \cup Owning \cup Over] BY DEF TypeOK
  <2>2. stage' \in [Flights -> {"acquire", "refresh"}] BY DEF TypeOK
  <2>3. inflight' \subseteq Flights \X Tokens BY <2>0 DEF TypeOK
  <2> QED BY <2>1, <2>2, <2>3 DEF TypeOK
<1>2. Locals' BY DEF TypeOK, Locals, Results, NoResult
<1>3. Leases' BY DEF TypeOK, Locals, Leases
<1>4. Shielded' BY DEF TypeOK, Locals, Leases, Shielded, NoResult
<1>5. OnRecord' BY DEF TypeOK, Locals, OnRecord
<1> QED BY <1>1, <1>2, <1>3, <1>4, <1>5

LEMMA SucceedIInv == ASSUME NEW f \in Flights, IInv, UNCHANGED leased, Succeed(f) PROVE IInv'
<1> USE LeaseAssumption, QueueAssumption DEF Succeed, Goto, Resolve, IInv, leaseVars, queueVars, serverVars
<1> USE DEF Active, Over, Acquiring, Owning, HoldStages
<1>1. TypeOK'
  <2>0. ProcOf[f] \in Procs /\ tok[f] \in Tokens BY DEF TypeOK, Locals
  <2>1. pc' \in [Flights -> {"idle", "settle"} \cup Acquiring \cup Owning \cup Over] BY <2>0 DEF TypeOK
  <2>2. value' \in [Flights -> Tokens \cup {Failed, None}] BY <2>0 DEF TypeOK
  <2>3. rotated' \in [Procs -> SUBSET (Tokens \X Tokens)] BY <2>0 DEF TypeOK
  <2>4. issued' \subseteq Tokens BY <2>0 DEF TypeOK
  <2> QED BY <2>1, <2>2, <2>3, <2>4 DEF TypeOK
<1>2. Locals' BY DEF TypeOK, Locals, Results, NoResult
<1>3. Leases' BY DEF TypeOK, Locals, Leases
<1>4. Shielded' BY DEF TypeOK, Locals, Leases, Shielded, NoResult
<1>5. OnRecord' BY DEF TypeOK, Locals, OnRecord
<1> QED BY <1>1, <1>2, <1>3, <1>4, <1>5

LEMMA FailIInv == ASSUME NEW f \in Flights, IInv, UNCHANGED leased, Fail(f) PROVE IInv'
<1> USE LeaseAssumption, QueueAssumption DEF Fail, Goto, Resolve, IInv, leaseVars, queueVars, serverVars
<1> USE DEF Active, Over, Acquiring, Owning, HoldStages
<1>1. TypeOK' BY DEF TypeOK, Locals, Results, NoResult
<1>2. Locals' BY DEF TypeOK, Locals, Results, NoResult
<1>3. Leases' BY DEF TypeOK, Locals, Leases
<1>4. Shielded' BY DEF TypeOK, Locals, Leases, Shielded, NoResult
<1>5. OnRecord' BY DEF TypeOK, Locals, OnRecord
<1> QED BY <1>1, <1>2, <1>3, <1>4, <1>5

LEMMA SettleIInv == ASSUME NEW f \in Flights, IInv, UNCHANGED leased, Settle(f) PROVE IInv'
<1> USE LeaseAssumption, QueueAssumption DEF Settle, Goto, Forget, IInv, leaseVars, queueVars, serverVars
<1> USE DEF Active, Over, Acquiring, Owning, HoldStages
<1>1. TypeOK'
  <2>0. ProcOf[f] \in Procs /\ tok[f] \in Tokens BY DEF TypeOK, Locals
  <2>1. pc' \in [Flights -> {"idle", "settle"} \cup Acquiring \cup Owning \cup Over] BY <2>0 DEF TypeOK
  <2>2. pending' \in [Procs -> [Tokens -> Flights \cup {None}]] BY <2>0 DEF TypeOK
  <2>3. rotated' \in [Procs -> SUBSET (Tokens \X Tokens)]
    <3>1. Unmapped(ProcOf[f], {tok[f]}) \subseteq rotated[ProcOf[f]] BY DEF Unmapped
    <3>2. rotated[ProcOf[f]] \in SUBSET (Tokens \X Tokens) BY <2>0 DEF TypeOK
    <3>3. rotated' = rotated \/ rotated' = [rotated EXCEPT ![ProcOf[f]] = Unmapped(ProcOf[f], {tok[f]})] OBVIOUS
    <3> QED BY <2>0, <3>1, <3>2, <3>3 DEF TypeOK
  <2>4. tok' \in [Flights -> Tokens \cup {None}] /\ joined' \in [Flights -> Flights \cup {None}] BY <2>0 DEF TypeOK
  <2>5. polls' \in [Flights -> 0..MaxPolls] /\ stage' \in [Flights -> {"acquire", "refresh"}] BY <2>0 DEF TypeOK
  <2>6. value' \in [Flights -> Tokens \cup {Failed, None}] /\ answer' \in [Flights -> Tokens \cup {Failed, None}] BY <2>0 DEF TypeOK
  <2>7. overdue' \subseteq Flights /\ unread' \subseteq Flights BY <2>0 DEF TypeOK
  <2> QED BY <2>1, <2>2, <2>3, <2>4, <2>5, <2>6, <2>7 DEF TypeOK
<1>2. Locals' BY DEF TypeOK, Locals, Results, NoResult
<1>3. Leases' BY DEF TypeOK, Locals, Leases
<1>4. Shielded' BY DEF TypeOK, Locals, Leases, Shielded, NoResult
<1>5. OnRecord' BY DEF TypeOK, Locals, OnRecord
<1> QED BY <1>1, <1>2, <1>3, <1>4, <1>5

LEMMA StartIInv ==
  ASSUME NEW f \in Flights, NEW t \in Tokens, IInv, UNCHANGED leased, Start(f, t)
  PROVE  IInv'
<1> USE LeaseAssumption, QueueAssumption DEF IInv, serverVars
<1> USE DEF Active, Over, Acquiring, Owning, HoldStages
<1> DEFINE p == ProcOf[f]
           filed == [u \in Tokens |-> IF u = t THEN f ELSE IF u \in Evicted(p) THEN None ELSE pending[p][u]]
<1>0. /\ p \in Procs /\ pc[f] = "idle"
      /\ pending' = [pending EXCEPT ![p] = filed]
      /\ rotated' = [rotated EXCEPT ![p] = Unmapped(p, Evicted(p))]
      /\ tok' = [tok EXCEPT ![f] = t]
      /\ pc' = [pc EXCEPT ![f] = IF leased THEN "read" ELSE "gate"]
      /\ UNCHANGED <<lock, result, polls, value, unread, faults, stage, overdue, joined, inflight, answer, spent, issued>>
  BY DEF Start, Goto, TypeOK
<1>a. /\ filed \in [Tokens -> Flights \cup {None}] /\ filed[t] = f
      /\ \A u \in Tokens : u # t => filed[u] = pending[p][u]
                                   \/ (pending[p][u] \in overdue /\ filed[u] = None)
  BY <1>0 DEF TypeOK, Evicted
<1>b. Unmapped(p, Evicted(p)) \in SUBSET (Tokens \X Tokens) BY <1>0 DEF TypeOK, Unmapped
<1>c. pending[p][t] = None \/ (pending[p][t] \in overdue) BY DEF Start, NothingToJoin, Evicted
<1> HIDE DEF filed
<1>1. TypeOK' BY <1>0, <1>a, <1>b DEF TypeOK
<1>2. Locals' BY <1>0 DEF TypeOK, Locals
<1>3. Leases' BY <1>0 DEF TypeOK, Locals, Leases
<1>4. Shielded' BY <1>0 DEF TypeOK, Locals, Shielded
<1>5. OnRecord'
  <2> SUFFICES ASSUME NEW g \in Flights, Active(g)', g \notin overdue PROVE pending'[ProcOf[g]][tok'[g]] = g
    BY <1>0 DEF OnRecord
  <2>1. CASE g = f BY <1>0, <1>a, <2>1 DEF TypeOK
  <2>2. CASE g # f
    <3>1. Active(g) /\ tok'[g] = tok[g] /\ tok[g] \in Tokens /\ pending[ProcOf[g]][tok[g]] = g
      BY <1>0, <2>2 DEF TypeOK, Locals, OnRecord
    <3>2. CASE ProcOf[g] # p BY <1>0, <3>1, <3>2 DEF TypeOK
    <3>3. CASE ProcOf[g] = p
      <4>1. pending'[p] = filed BY <1>0 DEF TypeOK
      <4>2. tok[g] # t BY <1>c, <3>1, <3>3, <2>2
      <4> QED BY <1>a, <3>1, <3>3, <4>1, <4>2
    <3> QED BY <3>2, <3>3
  <2> QED BY <2>1, <2>2
<1> QED BY <1>1, <1>2, <1>3, <1>4, <1>5

LEMMA CrashIInv ==
  ASSUME NEW p \in Procs, IInv, UNCHANGED leased, Crash(p)
  PROVE  IInv'
<1> USE LeaseAssumption, QueueAssumption DEF IInv
<1> USE DEF Active, Over, Acquiring, Owning, HoldStages
<1> DEFINE S == {f \in Flights : ProcOf[f] = p /\ Active(f)}
           sent == {f \in S : pc[f] = "sent"}
<1>0. /\ pc' = [f \in Flights |-> IF f \in sent THEN "crashedSent" ELSE IF f \in S THEN "crashed" ELSE pc[f]]
      /\ pending' = [pending EXCEPT ![p] = [t \in Tokens |-> None]]
      /\ rotated' = [rotated EXCEPT ![p] = {}]
      /\ tok' = [f \in Flights |-> IF f \in S \ sent THEN None ELSE tok[f]]
      /\ polls' = [f \in Flights |-> IF f \in S THEN 0 ELSE polls[f]]
      /\ value' = [f \in Flights |-> IF f \in S THEN None ELSE value[f]]
      /\ answer' = [f \in Flights |-> IF f \in S THEN None ELSE answer[f]]
      /\ stage' = [f \in Flights |-> IF f \in S THEN "acquire" ELSE stage[f]]
      /\ overdue' = overdue \ S /\ unread' = unread \ S
      /\ joined' = [f \in Flights |-> IF f \in S THEN None ELSE joined[f]]
      /\ UNCHANGED <<lock, result, faults, inflight, spent, issued>>
  BY DEF Crash, Forget
<1>a. \A f \in Flights :
        /\ f \notin S => pc'[f] = pc[f] /\ tok'[f] = tok[f] /\ value'[f] = value[f] /\ (f \in unread => f \in unread')
        /\ f \in S /\ pc[f] = "sent" => pc'[f] = "crashedSent" /\ tok'[f] = tok[f]
        /\ f \in S /\ pc[f] # "sent" => pc'[f] = "crashed"
  BY <1>0
<1>b. \A f \in Flights : Active(f)' => Active(f) /\ f \notin S /\ ProcOf[f] # p BY <1>a
<1>1. TypeOK'
  <2>1. pc' \in [Flights -> {"idle", "settle"} \cup Acquiring \cup Owning \cup Over] BY <1>0 DEF TypeOK
  <2>2. /\ tok' \in [Flights -> Tokens \cup {None}] /\ joined' \in [Flights -> Flights \cup {None}]
        /\ polls' \in [Flights -> 0..MaxPolls] /\ stage' \in [Flights -> {"acquire", "refresh"}]
        /\ value' \in [Flights -> Tokens \cup {Failed, None}]
        /\ answer' \in [Flights -> Tokens \cup {Failed, None}]
    BY <1>0 DEF TypeOK
  <2>3. /\ pending' \in [Procs -> [Tokens -> Flights \cup {None}]]
        /\ rotated' \in [Procs -> SUBSET (Tokens \X Tokens)]
        /\ overdue' \subseteq Flights /\ unread' \subseteq Flights
    BY <1>0 DEF TypeOK
  <2> QED BY <1>0, <2>1, <2>2, <2>3 DEF TypeOK
<1>2. Locals' BY <1>a DEF TypeOK, Locals
<1>3. Leases'
  <2>1. \A f \in Flights : leased /\ pc'[f] \in HoldStages => lock[tok'[f]] = f BY <1>a DEF Leases
  <2>2. \A t \in Tokens, f \in Flights : lock[t] = f => pc'[f] \notin {"idle", "read", "expire", "open"}
    BY <1>a DEF Leases
  <2>3. \A t \in Tokens, f \in Flights : lock[t] = f /\ Active(f)' => tok'[f] = t BY <1>a, <1>b DEF Leases
  <2>4. \A t \in Tokens, f \in Flights : lock[t] = f /\ pc'[f] \in {"settle", "done"} => faults > 0
    BY <1>a DEF Leases
  <2> QED BY <1>0, <2>1, <2>2, <2>3, <2>4 DEF Leases
<1>4. Shielded' BY <1>0, <1>a DEF Shielded
<1>5. OnRecord' BY <1>0, <1>a, <1>b DEF TypeOK, OnRecord
<1> QED BY <1>1, <1>2, <1>3, <1>4, <1>5

LEMMA ServeIInv ==
  ASSUME NEW f \in Flights, NEW t \in Tokens, IInv, UNCHANGED leased, Serve(f, t)
  PROVE  IInv'
<1> USE LeaseAssumption, QueueAssumption DEF IInv, leaseVars, queueVars
<1>1. PICK reply \in Tokens \cup {Failed} :
        /\ spent' = spent \/ spent' = spent \cup {t}
        /\ answer' = answer \/ answer' = [answer EXCEPT ![f] = reply]
  BY DEF Serve
<1>2. inflight' \subseteq inflight /\ UNCHANGED <<leaseVars, queueVars, issued>> BY DEF Serve
<1>3. TypeOK'
  <2>1. answer' \in [Flights -> Tokens \cup {Failed, None}] BY <1>1 DEF TypeOK
  <2>2. spent' \subseteq Tokens /\ inflight' \subseteq Flights \X Tokens BY <1>1, <1>2 DEF TypeOK
  <2> QED BY <1>2, <2>1, <2>2 DEF TypeOK
<1>4. Locals' /\ Leases' /\ Shielded' /\ OnRecord'
  BY <1>2 DEF Locals, Leases, Shielded, OnRecord, Active
<1> QED BY <1>3, <1>4

\* Results only age or disappear outside of publishing.
LEMMA AgeIInv ==
  ASSUME NEW t \in Tokens, IInv, UNCHANGED leased, Expire(t) \/ pruneExpiredArtifacts(t),
         UNCHANGED <<queueVars, serverVars>>
  PROVE  IInv'
<1> USE LeaseAssumption, QueueAssumption DEF IInv, queueVars, serverVars
<1>0. UNCHANGED <<pc, tok, lock, polls, value, unread, faults, queueVars, serverVars>>
  BY DEF Expire, pruneExpiredArtifacts
<1>1. \A u \in Tokens : result'[u] \in Results /\ (result'[u].age = "fresh" => result[u].age = "fresh")
  <2>1. CASE Expire(t)
    <3>1. result[t] \in [age : {"fresh", "stale"}, token : Tokens] BY <2>1 DEF TypeOK, Expire, Results, NoResult
    <3>2. result' = [result EXCEPT ![t].age = "stale"] BY <2>1 DEF Expire
    <3>3. result'[t] = [age |-> "stale", token |-> result[t].token] BY <3>1, <3>2 DEF TypeOK
    <3>4. \A u \in Tokens : u # t => result'[u] = result[u] BY <3>2 DEF TypeOK
    <3> QED BY <3>1, <3>3, <3>4 DEF TypeOK, Results
  <2>2. CASE pruneExpiredArtifacts(t) BY <2>2 DEF pruneExpiredArtifacts, TypeOK, Results, NoResult
  <2> QED BY <2>1, <2>2
<1>2. result' \in [Tokens -> Results] BY <1>1 DEF TypeOK, Expire, pruneExpiredArtifacts
<1>3. TypeOK' BY <1>0, <1>2 DEF TypeOK
<1>4. Locals' /\ Leases' /\ OnRecord' BY <1>0 DEF Locals, Leases, OnRecord, Active
<1>5. Shielded' BY <1>0, <1>1 DEF Shielded, Locals, Active, Over
<1> QED BY <1>3, <1>4, <1>5

\* Every step preserves it.
LEMMA NextIInv == IInv /\ [Next]_vars => IInv'
<1> SUFFICES ASSUME IInv, [Next]_vars PROVE IInv' OBVIOUS
<1>0. CASE UNCHANGED vars
  BY <1>0 DEF IInv, vars, leaseVars, queueVars, serverVars, TypeOK, Locals, Leases, Shielded, OnRecord, Active
<1>1. ASSUME NEW f \in Flights, FlightStep(f) PROVE IInv'
  <2>1. UNCHANGED leased BY <1>1 DEF FlightStep
  <2>2. CASE LeaseStep(f) /\ UNCHANGED <<queueVars, serverVars>>
    BY <2>1, <2>2, ReadResultIInv, UnlinkExpiredIInv, CreateLockIInv, LockExistsIInv, WritePayloadIInv,
       PublishResultIInv, UnlinkLockIInv DEF LeaseStep
  <2>3. CASE YieldToNewer(f) \/ Send(f) \/ Succeed(f) \/ Settle(f)
    BY <2>1, <2>3, YieldToNewerIInv, SendIInv, SucceedIInv, SettleIInv
  <2>4. CASE Refused(f) \/ Unanswered(f) BY <2>1, <2>4, FailIInv DEF Refused, Unanswered
  <2> QED BY <1>1, <2>2, <2>3, <2>4 DEF FlightStep
<1>2. ASSUME NEW f \in Flights, UNCHANGED leased, Stall(f) \/ AcquireThrows(f) PROVE IInv'
  BY <1>2, StallIInv, AcquireThrowsIInv
<1>3. ASSUME NEW f \in Flights, UNCHANGED leased, LeaseFault(f), UNCHANGED <<queueVars, serverVars>> PROVE IInv'
  BY <1>3, ReadFaultIInv, AcquireErrorIInv, PublishFaultIInv, UnlinkFaultIInv DEF LeaseFault
<1>4. ASSUME NEW f \in Flights, NEW t \in Tokens, UNCHANGED leased, Start(f, t) \/ Serve(f, t) PROVE IInv'
  BY <1>4, StartIInv, ServeIInv
<1>5. ASSUME NEW t \in Tokens, UNCHANGED leased, Expire(t) \/ pruneExpiredArtifacts(t),
             UNCHANGED <<queueVars, serverVars>>
      PROVE  IInv'
  BY <1>5, AgeIInv
<1>6. ASSUME NEW p \in Procs, UNCHANGED leased, Crash(p) PROVE IInv' BY <1>6, CrashIInv
<1> QED BY <1>0, <1>1, <1>2, <1>3, <1>4, <1>5, <1>6 DEF Next

\* No flight and no process ever has state outside of the declared sets.
THEOREM TypeCorrect == Spec => []TypeOK
<1>1. Init => IInv BY InitIInv
<1>2. IInv /\ [Next]_vars => IInv' BY NextIInv
<1>3. IInv => TypeOK BY DEF IInv
<1> QED BY <1>1, <1>2, <1>3, PTL DEF Spec

\* The invariant holds for ever.
LEMMA Inductive == Spec => []IInv
<1>1. Init => IInv BY InitIInv
<1>2. IInv /\ [Next]_vars => IInv' BY NextIInv
<1> QED BY <1>1, <1>2, PTL DEF Spec

\* With leases, one flight at most of all processes has a token at the endpoint, and nobody
\* presents a token again whose owner died waiting: the lock file of refresh-lease.ts is
\* created by open "wx" and never stolen or pruned (Leases).
THEOREM Exclusive == Spec => []ExclusiveRefresh
<1>1. IInv => ExclusiveRefresh
  BY DEF IInv, ExclusiveRefresh, Unresolved, Leases, HoldStages
<1> QED BY <1>1, Inductive, PTL

\* In one process two flights for one token exist only after the older one's acquire outlasted
\* the eviction age of refresh-queue.ts, and only a fault leaves a lock file behind a flight
\* that is over.
THEOREM Kept == Spec => []FlightsKept
<1>1. IInv => InProcessDedup BY DEF IInv, InProcessDedup, OnRecord
<1>2. IInv => NoForgottenLock
  BY LeaseAssumption DEF IInv, NoForgottenLock, TypeOK, Leases
<1> QED BY <1>1, <1>2, Inductive, PTL DEF FlightsKept

-----------------------------------------------------------------------------
(* Rotations: what a process knows of the tokens its flights were handed. *)

\* Nothing of it depends on the lease's files or on a flight's polls and locals.
LEMMA SameRInv ==
  ASSUME RInv, UNCHANGED <<leased, pc, tok, pending, rotated, overdue, serverVars>>
  PROVE  RInv'
BY DEF RInv, Filed, Requested, Heard, Minted, Noted, Rotation, Active, serverVars

\* A flight that goes on without sending or settling disturbs none of it.
LEMMA MoveRInv ==
  ASSUME NEW f \in Flights, NEW label \in Acquiring \cup {"gate", "unlock", "settle"}, IInv, RInv,
         UNCHANGED <<leased, tok, pending, rotated, overdue, serverVars>>,
         pc' = [pc EXCEPT ![f] = label],
         pc[f] \in Acquiring \cup {"gate", "sent", "publish", "unlock"},
         pc[f] \in {"sent", "publish", "unlock"} => label \in {"unlock", "settle"},
         pc[f] = "sent" => answer[f] \notin Tokens
  PROVE  RInv'
<1> USE QueueAssumption DEF IInv, RInv, Active, Over, Acquiring, serverVars
<1>1. \A g \in Flights : (Active(g)' <=> Active(g)) /\ (g # f => pc'[g] = pc[g]) /\ pc'[f] = label
  BY DEF TypeOK
<1>2. Filed' BY <1>1 DEF Filed
<1>3. Requested' BY <1>1 DEF Requested
<1>4. Heard' BY <1>1 DEF Heard, Rotation
<1>5. Minted' BY DEF Minted, Rotation
<1>6. Noted'
  <2> SUFFICES ASSUME NEW g \in Flights, pc'[g] \in {"publish", "unlock", "settle"}, g \notin overdue, Rotation(g)
               PROVE  /\ <<tok[g], answer[g]>> \in rotated[ProcOf[g]]
                      /\ \A h \in Flights : ProcOf[h] = ProcOf[g] /\ Active(h)' =>
                           tok[h] # answer[g] /\ (h # g /\ tok[h] = tok[g] => pc'[h] # "sent")
    BY DEF Noted, Rotation
  <2>1. answer[g] # None /\ answer[g] \in Tokens BY LeaseAssumption DEF Rotation
  <2>2. pc[g] \in {"publish", "unlock", "settle"} BY <1>1, <2>1 DEF Heard
  <2> QED BY <1>1, <2>2 DEF Noted
<1> QED BY <1>2, <1>3, <1>4, <1>5, <1>6

LEMMA StallRInv == ASSUME NEW f \in Flights, IInv, RInv, UNCHANGED leased, Stall(f) PROVE RInv'
<1> USE DEF IInv, RInv, leaseVars, serverVars
<1>0. UNCHANGED <<leased, pc, tok, pending, rotated, serverVars>> /\ overdue' = overdue \cup {f} /\ leased
  BY DEF Stall, Locals
<1>1. Filed' BY <1>0 DEF Filed, Active
<1>2. Requested' /\ Heard' /\ Minted' BY <1>0 DEF Requested, Heard, Minted, Rotation, Active
<1>3. Noted' BY <1>0 DEF Noted, Rotation, Active
<1> QED BY <1>1, <1>2, <1>3

LEMMA SendRInv == ASSUME NEW f \in Flights, IInv, RInv, UNCHANGED leased, Send(f) PROVE RInv'
<1> USE QueueAssumption DEF IInv, RInv, Active, Over, Acquiring
<1>0. /\ pc[f] = "gate" /\ pc' = [pc EXCEPT ![f] = "sent"] /\ ~Superseded(f)
      /\ inflight' = inflight \cup {<<f, tok[f]>>}
      /\ UNCHANGED <<tok, pending, rotated, overdue, answer, spent, issued>>
  BY DEF Send, Goto
<1>1. \A g \in Flights : (Active(g)' <=> Active(g)) /\ (g # f => pc'[g] = pc[g]) /\ pc'[f] = "sent"
  BY <1>0 DEF TypeOK
<1>2. Filed' BY <1>0, <1>1 DEF Filed
<1>3. Requested'
  <2> SUFFICES ASSUME NEW g \in Flights, NEW t \in Tokens, <<g, t>> \in inflight'
               PROVE  pc'[g] \notin {"idle", "gate"} \cup Acquiring /\ (Active(g)' => tok'[g] = t)
    BY DEF Requested
  <2>1. CASE <<g, t>> \in inflight BY <2>1, <1>0, <1>1 DEF Requested
  <2>2. CASE g = f /\ t = tok[f] BY <2>2, <1>0, <1>1
  <2> QED BY <2>1, <2>2, <1>0
<1>4. Heard'
  <2>1. answer[f] = None /\ ~Rotation(f) BY <1>0, LeaseAssumption DEF Heard, Rotation
  <2>2. \A g \in Flights : Rotation(g)' <=> Rotation(g) BY <1>0 DEF Rotation
  <2> QED BY <1>0, <1>1, <2>1, <2>2 DEF Heard
<1>5. Minted' BY <1>0 DEF Minted, Rotation
<1>6. Noted'
  <2> SUFFICES ASSUME NEW g \in Flights, pc'[g] \in {"publish", "unlock", "settle"}, g \notin overdue, Rotation(g)
               PROVE  /\ <<tok[g], answer[g]>> \in rotated[ProcOf[g]]
                      /\ \A h \in Flights : ProcOf[h] = ProcOf[g] /\ Active(h)' =>
                           tok[h] # answer[g] /\ (h # g /\ tok[h] = tok[g] => pc'[h] # "sent")
    BY <1>0 DEF Noted, Rotation
  <2>1. g # f /\ pc[g] \in {"publish", "unlock", "settle"} BY <1>1
  <2>2. pending[ProcOf[g]][tok[g]] = g BY <2>1 DEF OnRecord
  <2>3. ~(ProcOf[f] = ProcOf[g] /\ tok[f] = tok[g])
    BY <1>0, <2>1, <2>2, LeaseAssumption DEF Superseded, TypeOK
  <2> QED BY <1>1, <2>1, <2>3 DEF Noted
<1> QED BY <1>2, <1>3, <1>4, <1>5, <1>6

LEMMA SucceedRInv == ASSUME NEW f \in Flights, IInv, RInv, UNCHANGED leased, Succeed(f) PROVE RInv'
<1> USE QueueAssumption DEF IInv, RInv, Active, Over, Acquiring
<1> DEFINE new == answer[f]
           label == IF leased THEN "publish" ELSE "settle"
           noted == IF new # tok[f] THEN {m \in rotated[ProcOf[f]] : m[1] # tok[f]} \cup {<<tok[f], new>>}
                    ELSE rotated[ProcOf[f]]
<1>0. /\ pc[f] = "sent" /\ new \in Tokens /\ tok[f] \in Tokens /\ ProcOf[f] \in Procs
      /\ pc' = [pc EXCEPT ![f] = label]
      /\ issued' = issued \cup {new}
      /\ rotated' = [rotated EXCEPT ![ProcOf[f]] = noted]
      /\ UNCHANGED <<tok, pending, overdue, inflight, answer, spent>>
  BY DEF Succeed, Goto, TypeOK, Locals
<1>1. \A g \in Flights : (Active(g)' <=> Active(g)) /\ (g # f => pc'[g] = pc[g]) /\ pc'[f] \in {"publish", "settle"}
  BY <1>0 DEF TypeOK
<1>a. \A p \in Procs : rotated'[p] = IF p = ProcOf[f] THEN noted ELSE rotated[p] BY <1>0 DEF TypeOK
<1>b. new # tok[f] => <<tok[f], new>> \in noted OBVIOUS
<1>c. \A u, v \in Tokens : u # tok[f] /\ <<u, v>> \in rotated[ProcOf[f]] => <<u, v>> \in noted OBVIOUS
<1>d. new = tok[f] => noted = rotated[ProcOf[f]] OBVIOUS
<1> HIDE DEF noted, label
<1>2. Filed' BY <1>0, <1>1 DEF Filed
<1>3. Requested' BY <1>0, <1>1 DEF Requested
<1>4. Heard'
  <2> SUFFICES ASSUME NEW g \in Flights
               PROVE  /\ answer[g] # None => pc'[g] \in {"sent", "publish", "unlock", "settle"}
                      /\ Rotation(g) => answer[g] = tok[g] + 1 /\ tok[g] \in spent
                      /\ Rotation(g) /\ pc'[g] = "sent" => answer[g] \notin issued'
                      /\ Active(g)' => tok[g] \in issued'
    BY <1>0 DEF Heard, Rotation
  <2>1. Rotation(g) /\ pc'[g] = "sent" => answer[g] \notin issued'
    <3> SUFFICES ASSUME Rotation(g), pc'[g] = "sent" PROVE answer[g] # new BY <1>0, <1>1 DEF Heard
    <3>1. g # f /\ pc[g] = "sent" BY <1>1
    <3>2. CASE new = tok[f] BY <1>0, <3>1, <3>2 DEF Heard
    <3>3. CASE new # tok[f] BY <1>0, <3>1, <3>3 DEF Minted, Rotation
    <3> QED BY <3>2, <3>3
  <2> QED BY <1>0, <1>1, <2>1 DEF Heard
<1>5. Minted'
  <2>1. \A t \in Tokens : t + 1 = new => t + 1 \in issued \/ t \in spent
    <3> SUFFICES ASSUME NEW t \in Tokens, t + 1 = new, new # tok[f] PROVE t \in spent BY <1>0 DEF Heard
    <3>1. new = tok[f] + 1 /\ tok[f] \in spent BY <1>0 DEF Heard, Rotation
    <3> QED BY <1>0, <3>1, LeaseAssumption DEF Tokens
  <2> QED BY <1>0, <2>1 DEF Minted, Rotation
<1>6. Noted'
  <2> SUFFICES ASSUME NEW g \in Flights, pc'[g] \in {"publish", "unlock", "settle"}, g \notin overdue, Rotation(g)
               PROVE  /\ <<tok[g], answer[g]>> \in rotated'[ProcOf[g]]
                      /\ \A h \in Flights : ProcOf[h] = ProcOf[g] /\ Active(h)' =>
                           tok[h] # answer[g] /\ (h # g /\ tok[h] = tok[g] => pc'[h] # "sent")
    BY <1>0 DEF Noted, Rotation
  <2>p. ProcOf[g] \in Procs OBVIOUS
  <2>1. CASE g = f
    <3>1. <<tok[g], answer[g]>> \in rotated'[ProcOf[g]] BY <1>a, <1>b, <2>1, <2>p DEF Rotation
    <3>2. ASSUME NEW h \in Flights, Active(h) PROVE tok[h] # answer[f]
      BY <1>0, <2>1, <3>2 DEF Heard, Rotation
    <3>3. ASSUME NEW h \in Flights, ProcOf[h] = ProcOf[f], h # f, tok[h] = tok[f] PROVE pc[h] # "sent"
      <4>1. CASE leased BY <1>0, <3>3, <4>1 DEF Leases, HoldStages
      <4>2. CASE ~leased BY <1>0, <3>3, <4>2 DEF Filed, OnRecord
      <4> QED BY <4>1, <4>2
    <3> QED BY <1>0, <1>1, <2>1, <3>1, <3>2, <3>3
  <2>2. CASE g # f
    <3>1. pc[g] \in {"publish", "unlock", "settle"} /\ tok[g] \in Tokens /\ answer[g] \in Tokens
      BY <1>1, <2>2 DEF Locals, Rotation
    <3>2. tok[g] = tok[f] => ProcOf[g] # ProcOf[f] BY <1>0, <2>2, <3>1 DEF Noted
    <3>3. <<tok[g], answer[g]>> \in rotated[ProcOf[g]] BY <3>1 DEF Noted
    <3>4. <<tok[g], answer[g]>> \in rotated'[ProcOf[g]] BY <1>a, <1>c, <2>p, <3>1, <3>2, <3>3
    <3>5. ASSUME NEW h \in Flights, ProcOf[h] = ProcOf[g], Active(h)'
          PROVE  tok[h] # answer[g] /\ (h # g /\ tok[h] = tok[g] => pc'[h] # "sent")
      BY <1>1, <3>1, <3>5 DEF Noted
    <3> QED BY <3>4, <3>5
  <2> QED BY <2>1, <2>2
<1> QED BY <1>2, <1>3, <1>4, <1>5, <1>6

LEMMA SettleRInv == ASSUME NEW f \in Flights, IInv, RInv, UNCHANGED leased, Settle(f) PROVE RInv'
<1> USE LeaseAssumption, QueueAssumption DEF IInv, RInv, Active, Over, Acquiring
<1> DEFINE p == ProcOf[f] mine == pending[p][tok[f]] \in {f, None}
<1>0. /\ pc[f] = "settle" /\ tok[f] \in Tokens /\ p \in Procs
      /\ pc' = [pc EXCEPT ![f] = "done"]
      /\ pending' = IF mine THEN [pending EXCEPT ![p][tok[f]] = None] ELSE pending
      /\ rotated' = IF mine THEN [rotated EXCEPT ![p] = Unmapped(p, {tok[f]})] ELSE rotated
      /\ tok' = [g \in Flights |-> IF g = f THEN None ELSE tok[g]]
      /\ answer' = [g \in Flights |-> IF g = f THEN None ELSE answer[g]]
      /\ overdue' = overdue \ {f}
      /\ UNCHANGED <<inflight, spent, issued>>
  BY DEF Settle, Goto, Forget, TypeOK, Locals
<1>1. \A g \in Flights : g # f => pc'[g] = pc[g] /\ tok'[g] = tok[g] /\ answer'[g] = answer[g]
                                  /\ (Active(g)' <=> Active(g)) /\ (Rotation(g)' <=> Rotation(g))
  BY <1>0 DEF TypeOK, Rotation
<1>2. ~Active(f)' /\ ~Rotation(f)' /\ pc'[f] = "done" /\ answer'[f] = None BY <1>0 DEF TypeOK, Rotation
<1>3. \A q \in Procs, t \in Tokens :
        pending'[q][t] = pending[q][t] \/ (q = p /\ t = tok[f] /\ pending'[q][t] = None)
  BY <1>0 DEF TypeOK
<1>4. pending'[p][tok[f]] # f BY <1>0 DEF TypeOK
<1> HIDE DEF mine
<1>5. Filed'
  <2>1. ASSUME NEW q \in Procs, NEW t \in Tokens, NEW g \in Flights, pending'[q][t] = g
        PROVE  g # f /\ pending[q][t] = g
    <3>1. pending[q][t] = g BY <1>3, <2>1
    <3>2. g = f => q = p /\ t = tok[f] BY <3>1 DEF Filed
    <3> QED BY <1>4, <2>1, <3>1, <3>2
  <2>2. overdue' # {} => leased' BY <1>0 DEF Filed
  <2> QED BY <1>1, <2>1, <2>2 DEF Filed
<1>6. Requested' BY <1>0, <1>1, <1>2 DEF Requested
<1>7. Heard' BY <1>0, <1>1, <1>2 DEF Heard
<1>8. Minted' BY <1>0, <1>1, <1>2 DEF Minted
<1>9. Noted'
  <2> SUFFICES ASSUME NEW g \in Flights, pc'[g] \in {"publish", "unlock", "settle"}, g \notin overdue', Rotation(g)'
               PROVE  /\ <<tok'[g], answer'[g]>> \in rotated'[ProcOf[g]]
                      /\ \A h \in Flights : ProcOf[h] = ProcOf[g] /\ Active(h)' =>
                           tok'[h] # answer'[g] /\ (h # g /\ tok'[h] = tok'[g] => pc'[h] # "sent")
    BY DEF Noted
  <2>1. /\ g # f /\ pc[g] \in {"publish", "unlock", "settle"} /\ g \notin overdue /\ Rotation(g)
        /\ tok'[g] = tok[g] /\ answer'[g] = answer[g]
    BY <1>0, <1>1, <1>2
  <2>2. /\ <<tok[g], answer[g]>> \in rotated[ProcOf[g]]
        /\ \A h \in Flights : ProcOf[h] = ProcOf[g] /\ Active(h) =>
             tok[h] # answer[g] /\ (h # g /\ tok[h] = tok[g] => pc[h] # "sent")
    BY <2>1 DEF Noted
  <2>3. pending[ProcOf[g]][tok[g]] = g BY <2>1 DEF OnRecord
  <2>4. <<tok[g], answer[g]>> \in rotated'[ProcOf[g]]
    <3>1. CASE mine /\ ProcOf[g] = p
      <4>1. tok[g] # tok[f] BY <2>1, <2>3, <3>1 DEF mine
      <4>2. answer[g] # tok[f] BY <1>0, <2>2, <3>1
      <4>3. rotated'[p] = Unmapped(p, {tok[f]}) BY <1>0, <3>1 DEF TypeOK
      <4> QED BY <2>2, <3>1, <4>1, <4>2, <4>3 DEF Unmapped
    <3>2. CASE ~(mine /\ ProcOf[g] = p) BY <1>0, <2>2, <3>2 DEF TypeOK
    <3> QED BY <3>1, <3>2
  <2> QED BY <1>1, <1>2, <2>1, <2>2, <2>4
<1> QED BY <1>5, <1>6, <1>7, <1>8, <1>9

LEMMA StartRInv ==
  ASSUME NEW f \in Flights, NEW t \in Tokens, IInv, RInv, UNCHANGED leased, Start(f, t)
  PROVE  /\ RInv'
         /\ \A g \in Flights : ~(/\ ProcOf[g] = ProcOf[f] /\ g \notin overdue
                                 /\ pc[g] \in {"publish", "unlock", "settle"}
                                 /\ answer[g] = t /\ tok[g] # t)
<1> USE LeaseAssumption, QueueAssumption DEF IInv, RInv, Active, Over, Acquiring
<1> DEFINE p == ProcOf[f]
           filed == [u \in Tokens |-> IF u = t THEN f ELSE IF u \in Evicted(p) THEN None ELSE pending[p][u]]
<1>0. /\ p \in Procs /\ pc[f] = "idle" /\ t \in issued
      /\ pending' = [pending EXCEPT ![p] = filed]
      /\ rotated' = [rotated EXCEPT ![p] = Unmapped(p, Evicted(p))]
      /\ tok' = [tok EXCEPT ![f] = t]
      /\ pc' = [pc EXCEPT ![f] = IF leased THEN "read" ELSE "gate"]
      /\ UNCHANGED <<overdue, inflight, answer, spent, issued>>
  BY DEF Start, Goto, TypeOK, serverVars
<1>1. \A g \in Flights : g # f => pc'[g] = pc[g] /\ tok'[g] = tok[g] /\ (Active(g)' <=> Active(g))
                                  /\ (Rotation(g)' <=> Rotation(g))
  BY <1>0 DEF TypeOK, Rotation
<1>2. /\ pc'[f] \in {"read", "gate"} /\ tok'[f] = t /\ Active(f)'
      /\ answer[f] = None /\ ~Rotation(f)'
  BY <1>0 DEF TypeOK, Heard, Rotation
<1>3. \A q \in Procs, u \in Tokens :
        pending'[q][u] = IF q # p THEN pending[q][u]
                         ELSE IF u = t THEN f ELSE IF u \in Evicted(p) THEN None ELSE pending[q][u]
  BY <1>0 DEF TypeOK
<1>4. ASSUME NEW g \in Flights, ProcOf[g] = p, g \notin overdue, Rotation(g),
             pc[g] \in {"publish", "unlock", "settle"}
      PROVE  answer[g] # t /\ <<tok[g], answer[g]>> \in Unmapped(p, Evicted(p))
  <2>1. /\ tok[g] \in Tokens /\ answer[g] \in Tokens /\ pending[p][tok[g]] = g
        /\ <<tok[g], answer[g]>> \in rotated[p]
        /\ \A h \in Flights : ProcOf[h] = p /\ Active(h) => tok[h] # answer[g]
    BY <1>4 DEF Locals, Rotation, OnRecord, Noted
  <2>2. tok[g] \notin Evicted(p) BY <1>4, <2>1 DEF Evicted
  <2>3. answer[g] \notin Evicted(p)
    <3> SUFFICES ASSUME answer[g] \in Evicted(p) PROVE FALSE OBVIOUS
    <3>1. pending[p][answer[g]] \in Flights BY <1>0, <2>1 DEF Evicted, TypeOK
    <3> QED BY <1>0, <2>1, <3>1 DEF Filed
  <2>4. <<tok[g], answer[g]>> \in Unmapped(p, Evicted(p)) BY <2>1, <2>2, <2>3 DEF Unmapped
  <2>5. answer[g] # t BY <2>1, <2>2, <2>4 DEF Start, NothingToJoin
  <2> QED BY <2>4, <2>5
<1>5. Filed'
  <2>1. ASSUME NEW q \in Procs, NEW u \in Tokens, NEW g \in Flights, pending'[q][u] = g
        PROVE  Active(g)' /\ ProcOf[g] = q /\ tok'[g] = u
    <3>1. CASE q = p /\ u = t BY <1>2, <1>3, <2>1, <3>1
    <3>2. CASE ~(q = p /\ u = t)
      <4>1. pending[q][u] = g BY <1>3, <2>1, <3>2
      <4>2. Active(g) /\ ProcOf[g] = q /\ tok[g] = u BY <4>1 DEF Filed
      <4>3. g # f BY <1>0, <4>2
      <4> QED BY <1>1, <4>2, <4>3
    <3> QED BY <3>1, <3>2
  <2> QED BY <1>0, <2>1 DEF Filed
<1>6. Requested'
  <2>1. \A u \in Tokens : <<f, u>> \notin inflight BY <1>0 DEF Requested
  <2> QED BY <1>0, <1>1, <2>1 DEF Requested
<1>7. Heard' BY <1>0, <1>1, <1>2 DEF Heard
<1>8. Minted' BY <1>0, <1>1, <1>2 DEF Minted
<1>9. Noted'
  <2> SUFFICES ASSUME NEW g \in Flights, pc'[g] \in {"publish", "unlock", "settle"}, g \notin overdue', Rotation(g)'
               PROVE  /\ <<tok'[g], answer'[g]>> \in rotated'[ProcOf[g]]
                      /\ \A h \in Flights : ProcOf[h] = ProcOf[g] /\ Active(h)' =>
                           tok'[h] # answer'[g] /\ (h # g /\ tok'[h] = tok'[g] => pc'[h] # "sent")
    BY DEF Noted
  <2>1. /\ g # f /\ pc[g] \in {"publish", "unlock", "settle"} /\ g \notin overdue /\ Rotation(g)
        /\ tok'[g] = tok[g] /\ answer'[g] = answer[g]
    BY <1>0, <1>1, <1>2
  <2>2. /\ <<tok[g], answer[g]>> \in rotated[ProcOf[g]]
        /\ \A h \in Flights : ProcOf[h] = ProcOf[g] /\ Active(h) =>
             tok[h] # answer[g] /\ (h # g /\ tok[h] = tok[g] => pc[h] # "sent")
    BY <2>1 DEF Noted
  <2>3. CASE ProcOf[g] = p
    <3>1. rotated'[p] = Unmapped(p, Evicted(p)) BY <1>0 DEF TypeOK
    <3>2. answer[g] # t /\ <<tok[g], answer[g]>> \in Unmapped(p, Evicted(p)) BY <1>4, <2>1, <2>3
    <3> QED BY <1>1, <1>2, <2>1, <2>2, <2>3, <3>1, <3>2
  <2>4. CASE ProcOf[g] # p
    <3>1. rotated'[ProcOf[g]] = rotated[ProcOf[g]] BY <1>0, <2>4 DEF TypeOK
    <3> QED BY <1>1, <2>1, <2>2, <2>4, <3>1
  <2> QED BY <2>3, <2>4
<1>10. ASSUME NEW g \in Flights, ProcOf[g] = p, g \notin overdue, pc[g] \in {"publish", "unlock", "settle"},
              answer[g] = t, tok[g] # t
       PROVE  FALSE
  BY <1>4, <1>10 DEF Rotation
<1> QED BY <1>5, <1>6, <1>7, <1>8, <1>9, <1>10

LEMMA CrashRInv == ASSUME NEW p \in Procs, IInv, RInv, UNCHANGED leased, Crash(p) PROVE RInv'
<1> USE LeaseAssumption, QueueAssumption DEF IInv, RInv, Active, Over, Acquiring
<1> DEFINE S == {f \in Flights : ProcOf[f] = p /\ Active(f)}
           sent == {f \in S : pc[f] = "sent"}
<1>0. /\ pc' = [f \in Flights |-> IF f \in sent THEN "crashedSent" ELSE IF f \in S THEN "crashed" ELSE pc[f]]
      /\ pending' = [pending EXCEPT ![p] = [t \in Tokens |-> None]]
      /\ rotated' = [rotated EXCEPT ![p] = {}]
      /\ tok' = [f \in Flights |-> IF f \in S \ sent THEN None ELSE tok[f]]
      /\ answer' = [f \in Flights |-> IF f \in S THEN None ELSE answer[f]]
      /\ overdue' = overdue \ S
      /\ UNCHANGED <<inflight, spent, issued>>
  BY DEF Crash, Forget
<1>1. \A f \in Flights \ S : /\ pc'[f] = pc[f] /\ tok'[f] = tok[f] /\ answer'[f] = answer[f]
                             /\ (Active(f)' <=> Active(f)) /\ (Rotation(f)' <=> Rotation(f))
  BY <1>0 DEF Rotation
<1>2. \A f \in S : pc'[f] \in {"crashed", "crashedSent"} /\ answer'[f] = None /\ ~Active(f)' /\ ~Rotation(f)'
  BY <1>0 DEF Rotation
<1>3. \A q \in Procs, t \in Tokens : pending'[q][t] = IF q = p THEN None ELSE pending[q][t] BY <1>0 DEF TypeOK
<1>4. \A f \in Flights : (Active(f) => (f \in S <=> ProcOf[f] = p)) /\ (f \in S => Active(f)) OBVIOUS
<1> HIDE DEF S
<1>5. Filed' BY <1>0, <1>1, <1>3, <1>4 DEF Filed
<1>6. Requested' BY <1>0, <1>1, <1>2 DEF Requested
<1>7. Heard' BY <1>0, <1>1, <1>2 DEF Heard
<1>8. Minted' BY <1>0, <1>1, <1>2 DEF Minted
<1>9. Noted'
  <2> SUFFICES ASSUME NEW g \in Flights, pc'[g] \in {"publish", "unlock", "settle"}, g \notin overdue', Rotation(g)'
               PROVE  /\ <<tok'[g], answer'[g]>> \in rotated'[ProcOf[g]]
                      /\ \A h \in Flights : ProcOf[h] = ProcOf[g] /\ Active(h)' =>
                           tok'[h] # answer'[g] /\ (h # g /\ tok'[h] = tok'[g] => pc'[h] # "sent")
    BY DEF Noted
  <2>1. /\ g \notin S /\ pc[g] \in {"publish", "unlock", "settle"} /\ g \notin overdue /\ Rotation(g)
        /\ tok'[g] = tok[g] /\ answer'[g] = answer[g] /\ ProcOf[g] # p
    BY <1>0, <1>1, <1>2, <1>4
  <2>2. rotated'[ProcOf[g]] = rotated[ProcOf[g]] BY <1>0, <2>1 DEF TypeOK
  <2>3. \A h \in Flights : Active(h)' => h \notin S BY <1>2
  <2> QED BY <1>1, <2>1, <2>2, <2>3 DEF Noted
<1> QED BY <1>5, <1>6, <1>7, <1>8, <1>9

LEMMA ServeRInv ==
  ASSUME NEW f \in Flights, NEW t \in Tokens, IInv, RInv, UNCHANGED leased, Serve(f, t)
  PROVE  RInv'
<1> USE LeaseAssumption, QueueAssumption DEF IInv, RInv
<1>0. PICK reply \in Tokens \cup {Failed} :
        /\ \/ t \notin spent /\ reply = t + 1 /\ spent' = spent \cup {t}
           \/ t \notin spent /\ reply = t /\ spent' = spent
           \/ t \in spent /\ reply = Failed /\ spent' = spent
        /\ (pc[f] = "sent" /\ answer' = [answer EXCEPT ![f] = reply]) \/ answer' = answer
  BY DEF Serve
<1>1. /\ <<f, t>> \in inflight /\ inflight' \subseteq inflight
      /\ UNCHANGED <<pc, tok, pending, rotated, overdue, issued>>
  BY DEF Serve, leaseVars, queueVars
<1>2. Filed' /\ Requested' BY <1>1 DEF Filed, Requested, Active
<1>a. \A g \in Flights : Active(g)' <=> Active(g) BY <1>1 DEF Active
<1>3. CASE answer' = answer
  <2>1. \A g \in Flights : Rotation(g)' <=> Rotation(g) BY <1>1, <1>3 DEF Rotation
  <2>2. spent \subseteq spent' BY <1>0
  <2>3. Heard' BY <1>1, <1>3, <1>a, <2>1, <2>2 DEF Heard
  <2>4. Minted' BY <1>1, <1>3, <2>1, <2>2 DEF Minted
  <2>5. Noted' BY <1>1, <1>3, <1>a, <2>1 DEF Noted
  <2> QED BY <1>2, <2>3, <2>4, <2>5
<1>4. CASE pc[f] = "sent" /\ answer' = [answer EXCEPT ![f] = reply]
  <2>1. tok[f] = t BY <1>1, <1>4 DEF Requested, Active, Over
  <2>2. \A g \in Flights : g # f => answer'[g] = answer[g] /\ (Rotation(g)' <=> Rotation(g))
    BY <1>1, <1>4 DEF Rotation, TypeOK
  <2>3. answer'[f] = reply /\ (Rotation(f)' => reply = t + 1 /\ reply \in Tokens /\ t \notin spent /\ t \in spent')
    BY <1>0, <1>1, <1>4, <2>1 DEF Rotation, TypeOK
  <2>4. Rotation(f)' => reply \notin issued BY <2>3 DEF Minted
  <2>5. spent \subseteq spent' BY <1>0
  <2>6. Heard' BY <1>1, <1>4, <1>a, <2>1, <2>2, <2>3, <2>4, <2>5 DEF Heard
  <2>7. ASSUME NEW g \in Flights, g # f, Rotation(g), Rotation(f)' PROVE answer[g] # reply
    <3>1. answer[g] = tok[g] + 1 /\ tok[g] \in spent BY <2>7 DEF Heard
    <3>2. tok[g] \in Tokens /\ tok[g] # t BY <2>3, <2>7, <3>1 DEF TypeOK
    <3>3. tok[g] \in Nat /\ t \in Nat BY <3>2 DEF Tokens
    <3>4. tok[g] + 1 # t + 1 BY <3>2, <3>3
    <3> QED BY <2>3, <2>7, <3>1, <3>4
  <2>8. Minted'
    <3>1. ASSUME NEW g \in Flights, NEW h \in Flights, Rotation(g)', Rotation(h)', answer'[g] = answer'[h]
          PROVE  g = h
      <4>1. CASE g # f /\ h # f BY <2>2, <3>1, <4>1 DEF Minted
      <4>2. CASE g = f /\ h # f BY <2>2, <2>3, <2>7, <3>1, <4>2
      <4>3. CASE g # f /\ h = f BY <2>2, <2>3, <2>7, <3>1, <4>3
      <4> QED BY <4>1, <4>2, <4>3
    <3> QED BY <1>1, <2>5, <3>1 DEF Minted
  <2>9. Noted'
    <3> SUFFICES ASSUME NEW g \in Flights, pc'[g] \in {"publish", "unlock", "settle"}, g \notin overdue', Rotation(g)'
                 PROVE  /\ <<tok'[g], answer'[g]>> \in rotated'[ProcOf[g]]
                        /\ \A h \in Flights : ProcOf[h] = ProcOf[g] /\ Active(h)' =>
                             tok'[h] # answer'[g] /\ (h # g /\ tok'[h] = tok'[g] => pc'[h] # "sent")
      BY DEF Noted
    <3>1. g # f /\ Rotation(g) /\ answer'[g] = answer[g] BY <1>1, <1>4, <2>2
    <3> QED BY <1>1, <1>a, <3>1 DEF Noted
  <2> QED BY <1>2, <2>6, <2>8, <2>9
<1> QED BY <1>0, <1>3, <1>4

LEMMA InitRInv == Init => RInv
<1> SUFFICES ASSUME Init PROVE RInv OBVIOUS
<1> USE LeaseAssumption, QueueAssumption DEF Init, Tokens
<1>1. Filed /\ Requested BY DEF Filed, Requested
<1>2. \A f \in Flights : ~Rotation(f) /\ ~Active(f) BY DEF Rotation, Active
<1>3. Heard /\ Noted BY <1>2 DEF Heard, Noted
<1>4. Minted BY <1>2 DEF Minted
<1> QED BY <1>1, <1>3, <1>4 DEF RInv

\* The steps of one flight that neither send nor settle.
LEMMA FlightRInv ==
  ASSUME NEW f \in Flights, IInv, RInv, UNCHANGED leased,
         \/ (LeaseStep(f) \/ LeaseFault(f)) /\ UNCHANGED <<queueVars, serverVars>>
         \/ AcquireThrows(f) \/ YieldToNewer(f) \/ Refused(f) \/ Unanswered(f)
  PROVE  RInv'
<1>1. CASE LeaseStep(f) /\ UNCHANGED <<queueVars, serverVars>>
  <2>1. pc[f] \in Acquiring \cup {"publish", "unlock"}
    BY <1>1 DEF LeaseStep, ReadResult, UnlinkExpired, CreateLock, LockExists, WritePayload, PublishResult,
       UnlinkLock, Acquiring
  <2>2. UNCHANGED <<tok, pending, rotated, overdue, serverVars>>
    BY <1>1 DEF LeaseStep, ReadResult, UnlinkExpired, CreateLock, LockExists, WritePayload, PublishResult,
       UnlinkLock, queueVars
  <2>3. PICK label \in Acquiring \cup {"gate", "unlock", "settle"} :
          pc' = [pc EXCEPT ![f] = label] /\ (pc[f] \in {"publish", "unlock"} => label \in {"unlock", "settle"})
    <3>1. CASE ReadResult(f) BY <3>1 DEF ReadResult, Goto, Acquiring
    <3>2. CASE ~ReadResult(f)
      BY <1>1, <3>2 DEF LeaseStep, UnlinkExpired, CreateLock, LockExists, WritePayload, PublishResult,
         UnlinkLock, Goto, Acquiring
    <3> QED BY <3>1, <3>2
  <2>4. pc[f] # "sent" BY <2>1 DEF Acquiring
  <2> QED BY <2>1, <2>2, <2>3, <2>4, MoveRInv
<1>2. CASE LeaseFault(f) /\ UNCHANGED <<queueVars, serverVars>>
  <2>1. PICK label \in {"open", "gate", "unlock", "settle"} :
          /\ pc' = [pc EXCEPT ![f] = label] /\ UNCHANGED <<tok, pending, rotated, overdue, serverVars>>
          /\ pc[f] \in Acquiring \cup {"publish", "unlock"} /\ pc[f] # "sent"
          /\ pc[f] \in {"publish", "unlock"} => label \in {"unlock", "settle"}
    BY <1>2 DEF LeaseFault, ReadFault, AcquireError, PublishFault, UnlinkFault, Goto, Acquiring, queueVars
  <2> QED BY <2>1, MoveRInv DEF Acquiring
<1>3. CASE AcquireThrows(f) \/ YieldToNewer(f)
  <2>1. PICK label \in {"unlock", "settle"} :
          /\ pc' = [pc EXCEPT ![f] = label] /\ UNCHANGED <<tok, pending, rotated, overdue, serverVars>>
          /\ pc[f] \in {"read", "gate"}
    BY <1>3 DEF AcquireThrows, YieldToNewer, JoinNewer, Goto, queueVars
  <2> QED BY <2>1, MoveRInv DEF Acquiring
<1>4. CASE Refused(f) \/ Unanswered(f)
  <2>1. PICK label \in {"unlock", "settle"} :
          /\ pc' = [pc EXCEPT ![f] = label] /\ UNCHANGED <<tok, pending, rotated, overdue, serverVars>>
          /\ pc[f] = "sent" /\ answer[f] \notin Tokens
    BY <1>4, LeaseAssumption DEF Refused, Unanswered, Fail, Goto, queueVars
  <2> QED BY <2>1, MoveRInv
<1> QED BY <1>1, <1>2, <1>3, <1>4

\* Every step preserves it.
LEMMA NextRInv == IInv /\ RInv /\ [Next]_vars => RInv'
<1> SUFFICES ASSUME IInv, RInv, [Next]_vars PROVE RInv' OBVIOUS
<1>0. CASE UNCHANGED vars BY <1>0, SameRInv DEF vars, leaseVars, queueVars
<1>1. ASSUME NEW f \in Flights, FlightStep(f) PROVE RInv'
  <2>1. UNCHANGED leased BY <1>1 DEF FlightStep
  <2> QED BY <1>1, <2>1, FlightRInv, SendRInv, SucceedRInv, SettleRInv DEF FlightStep
<1>2. ASSUME NEW f \in Flights, UNCHANGED leased, Stall(f) \/ AcquireThrows(f) PROVE RInv'
  BY <1>2, StallRInv, FlightRInv
<1>3. ASSUME NEW f \in Flights, UNCHANGED leased, LeaseFault(f), UNCHANGED <<queueVars, serverVars>> PROVE RInv'
  BY <1>3, FlightRInv
<1>4. ASSUME NEW f \in Flights, NEW t \in Tokens, UNCHANGED leased, Start(f, t) \/ Serve(f, t) PROVE RInv'
  BY <1>4, StartRInv, ServeRInv
<1>5. ASSUME NEW t \in Tokens, UNCHANGED leased, Expire(t) \/ pruneExpiredArtifacts(t),
             UNCHANGED <<queueVars, serverVars>>
      PROVE  RInv'
  BY <1>5, SameRInv DEF Expire, pruneExpiredArtifacts, queueVars
<1>6. ASSUME NEW p \in Procs, UNCHANGED leased, Crash(p) PROVE RInv' BY <1>6, CrashRInv
<1> QED BY <1>0, <1>1, <1>2, <1>3, <1>4, <1>5, <1>6 DEF Next

\* No step presents a token while a fresh result for it is published that readFreshResult, again
\* under the lock, could read, and while a rotation is published no flight of the process starts for the new token
\* (tokenRotationMap): the process joins instead.
THEOREM Shields == Spec => ResultsShield
<1>1. IInv => FreshResultShields
  BY DEF IInv, FreshResultShields, Shielded, Send
<1>2. ASSUME IInv, RInv, UNCHANGED leased PROVE RotatedJoins
  BY <1>2, StartRInv DEF RotatedJoins
<1>3. [Next]_vars => UNCHANGED leased
  BY DEF Next, FlightStep, vars
<1>4. IInv /\ RInv /\ [Next]_vars => [FreshResultShields /\ RotatedJoins]_vars
  BY <1>1, <1>2, <1>3
<1>5. Init => IInv /\ RInv BY InitIInv, InitRInv
<1>6. IInv /\ RInv /\ [Next]_vars => IInv' /\ RInv' BY NextIInv, NextRInv
<1> QED BY <1>4, <1>5, <1>6, PTL DEF Spec, ResultsShield

=============================================================================

-------------------------- MODULE ComponentsProofs --------------------------
(***************************************************************************)
(* Safety of components that MCComponents runs, for all values of their    *)
(* constants: the circuit breaker, the bridge with its client tokens, the  *)
(* moves of accounts between the pool file and the flagged file, the       *)
(* websocket relay, the recovery of sessions, and the copies in memory of  *)
(* the accounts file, its selection and the official CLI's files.  Each    *)
(* has an inductive invariant of its own.                                  *)
(***************************************************************************)
EXTENDS CircuitBreaker, ClientTokens, RepairPool, Relays, SessionRecovery,
        MemoryCopies, StorageMeta, FiniteSetTheorems, TLAPS

-----------------------------------------------------------------------------
(* The circuit breaker. *)

Probing == {r \in Requests : probe[r] = probeWindow}

BreakerTypeOK ==
  /\ now \in Nat /\ lastStateChange \in Nat /\ lastStateChange <= now
  /\ state \in {"closed", "open", "half-open"}
  /\ halfOpenAttempts \in 0..MaxProbes
  /\ probeWindow \in Nat \ {0}
  /\ req \in [Requests -> {"idle", "running"}]
  /\ probe \in [Requests -> Nat]
  /\ tripped \in Int

\* Windows are numbered upwards and an idle request holds no probe: a new window
\* starts without probes.
ProbesKnown ==
  \A r \in Requests : probe[r] <= probeWindow /\ (req[r] = "idle" => probe[r] = 0)

\* The slots that running probes occupy are counted.
SlotsCounted == state = "half-open" => Cardinality(Probing) <= halfOpenAttempts

\* A tripped breaker is not closed; it is open since the trip, or later, and probes
\* only after the wait.
TripWaits ==
  tripped >= 0 => /\ state # "closed"
                  /\ state = "open" => tripped <= lastStateChange
                  /\ state = "half-open" => now - tripped >= ResetTimeout

BreakerInv == BreakerTypeOK /\ ProbesKnown /\ SlotsCounted /\ TripWaits

LEMMA ProbingFinite == IsFiniteSet(Probing) /\ Cardinality(Probing) \in Nat
<1>1. Probing \subseteq Requests
  BY DEF Probing
<1> QED BY <1>1, BreakerAssumption, FS_Subset, FS_CardinalityType

LEMMA BreakerInitInv == Init => BreakerInv
BY BreakerAssumption DEF Init, BreakerInv, BreakerTypeOK, ProbesKnown, SlotsCounted, TripWaits

\* A request ends: its probe is given up.
LEMMA EndsProbing ==
  ASSUME BreakerInv, NEW r \in Requests, Ends(r), UNCHANGED probeWindow
  PROVE  /\ Probing' = Probing \ {r}
         /\ Cardinality(Probing') = Cardinality(Probing) - (IF r \in Probing THEN 1 ELSE 0)
<1>1. Probing' = Probing \ {r}
  BY DEF Ends, Probing, BreakerInv, BreakerTypeOK
<1>2. CASE r \in Probing
  BY <1>1, <1>2, ProbingFinite, FS_RemoveElement
<1>3. CASE r \notin Probing
  <2>1. Probing' = Probing
    BY <1>1, <1>3
  <2> QED BY <1>1, <2>1, <1>3, ProbingFinite
<1> QED BY <1>2, <1>3

LEMMA EndsType ==
  ASSUME BreakerInv, NEW r \in Requests, Ends(r), probeWindow' \in Nat \ {0}, probeWindow <= probeWindow'
  PROVE  req' \in [Requests -> {"idle", "running"}] /\ probe' \in [Requests -> Nat] /\ ProbesKnown'
<1>1. req' \in [Requests -> {"idle", "running"}] /\ probe' \in [Requests -> Nat]
  BY DEF Ends, BreakerInv, BreakerTypeOK
<1>2. \A q \in Requests : /\ probe'[q] = probe[q] \/ probe'[q] = 0
                          /\ probe[q] \in Nat /\ probe[q] <= probeWindow
                          /\ q = r => probe'[q] = 0
                          /\ q # r => probe'[q] = probe[q] /\ req'[q] = req[q]
  BY DEF Ends, BreakerInv, BreakerTypeOK, ProbesKnown
<1>3. probeWindow \in Nat /\ probeWindow' \in Nat
  BY DEF BreakerInv, BreakerTypeOK
<1>4. ProbesKnown'
  BY <1>2, <1>3 DEF BreakerInv, ProbesKnown
<1> QED BY <1>1, <1>4

LEMMA AdmitInv == ASSUME BreakerInv, NEW r \in Requests, Admit(r) PROVE BreakerInv'
<1> USE BreakerAssumption
<1>0. /\ now \in Nat /\ lastStateChange \in Nat /\ lastStateChange <= now /\ probeWindow \in Nat \ {0}
      /\ halfOpenAttempts \in 0..MaxProbes /\ tripped \in Int
      /\ probe \in [Requests -> Nat] /\ req \in [Requests -> {"idle", "running"}]
  BY DEF BreakerInv, BreakerTypeOK
<1>1. CASE AdmitClosed(r)
  <2>1. UNCHANGED <<now, breaker, tripped>> /\ state = "closed"
    BY <1>1 DEF AdmitClosed, history
  <2>2. BreakerTypeOK' /\ ProbesKnown'
    BY <1>0, <1>1, <2>1 DEF AdmitClosed, Admitted, breaker, BreakerInv, BreakerTypeOK, ProbesKnown
  <2> QED BY <2>1, <2>2 DEF breaker, BreakerInv, SlotsCounted, TripWaits
<1>2. CASE AdmitFirstProbe(r)
  <2>1. /\ state' = "half-open" /\ probeWindow' = probeWindow + 1 /\ lastStateChange' = now
        /\ halfOpenAttempts' = 1 /\ UNCHANGED <<now, tripped>> /\ StartsWindow
        /\ req' = [req EXCEPT ![r] = "running"] /\ probe' = [probe EXCEPT ![r] = probeWindow + 1]
    BY <1>2 DEF AdmitFirstProbe, NewWindow, Admitted, history
  <2>2. BreakerTypeOK'
    BY <1>0, <2>1 DEF BreakerTypeOK
  <2>3. ProbesKnown' /\ Probing' = {r}
    BY <1>0, <2>1 DEF BreakerInv, ProbesKnown, Probing
  <2>4. SlotsCounted'
    <3>1. Cardinality({r}) = 1
      BY FS_Singleton
    <3>2. Cardinality(Probing') = 1
      BY <2>3, <3>1
    <3>3. Cardinality(Probing') <= halfOpenAttempts'
      BY <2>1, <3>2
    <3> QED BY <3>3 DEF SlotsCounted
  <2>5. TripWaits'
    BY <1>0, <2>1 DEF StartsWindow, Waited, BreakerInv, TripWaits
  <2> QED BY <2>2, <2>3, <2>4, <2>5 DEF BreakerInv
<1>3. CASE AdmitNextProbe(r)
  <2>1. /\ state = "half-open" /\ halfOpenAttempts \in 1..(MaxProbes - 1)
        /\ halfOpenAttempts' = halfOpenAttempts + 1 /\ req[r] = "idle"
        /\ UNCHANGED <<now, state, lastStateChange, probeWindow, tripped>>
        /\ req' = [req EXCEPT ![r] = "running"] /\ probe' = [probe EXCEPT ![r] = probeWindow]
    BY <1>3 DEF AdmitNextProbe, Admitted, history
  <2>2. BreakerTypeOK'
    BY <1>0, <2>1 DEF BreakerInv, BreakerTypeOK
  <2>3. ProbesKnown' /\ Probing' = Probing \cup {r} /\ r \notin Probing
    BY <1>0, <2>1 DEF BreakerInv, ProbesKnown, Probing
  <2>4. Cardinality(Probing') = Cardinality(Probing) + 1
    BY <2>3, ProbingFinite, FS_AddElement
  <2>5. SlotsCounted' /\ TripWaits'
    BY <1>0, <2>1, <2>4, ProbingFinite DEF BreakerInv, SlotsCounted, TripWaits
  <2> QED BY <2>2, <2>3, <2>5 DEF BreakerInv
<1> QED BY <1>1, <1>2, <1>3 DEF Admit

LEMMA EndInv ==
  ASSUME BreakerInv, NEW r \in Requests,
         recordSuccess(r) \/ recordFailure(r) \/ Release(r) \/ EndSilently(r)
  PROVE  BreakerInv'
<1> USE BreakerAssumption
<1>0. /\ now \in Nat /\ lastStateChange \in Nat /\ lastStateChange <= now /\ probeWindow \in Nat \ {0}
      /\ halfOpenAttempts \in 0..MaxProbes /\ tripped \in Int
      /\ probe \in [Requests -> Nat] /\ req \in [Requests -> {"idle", "running"}]
      /\ state \in {"closed", "open", "half-open"}
  BY DEF BreakerInv, BreakerTypeOK
<1>1. Ends(r) /\ UNCHANGED now
  BY DEF recordSuccess, recordFailure, Release, EndSilently
<1>2. CASE \* The window stays, and with it what the breaker knows; slots of the
           \* window's own probes may be given back.
           /\ UNCHANGED <<state, lastStateChange, probeWindow, tripped>>
           /\ \/ halfOpenAttempts' = halfOpenAttempts
              \/ state = "half-open" /\ r \in Probing /\ halfOpenAttempts' = halfOpenAttempts - 1
  <2>1. state = "half-open" /\ r \in Probing => halfOpenAttempts >= 1
    <3>1. r \in Probing => Cardinality(Probing) # 0
      BY ProbingFinite, FS_EmptySet
    <3> QED BY <1>0, <3>1, ProbingFinite DEF BreakerInv, SlotsCounted
  <2>2. BreakerTypeOK' /\ ProbesKnown'
    BY <1>0, <1>1, <1>2, <2>1, EndsType DEF BreakerInv, BreakerTypeOK
  <2>3. SlotsCounted'
    BY <1>0, <1>1, <1>2, EndsProbing, ProbingFinite DEF BreakerInv, SlotsCounted
  <2>4. TripWaits'
    BY <1>1, <1>2 DEF BreakerInv, TripWaits
  <2> QED BY <2>2, <2>3, <2>4 DEF BreakerInv
<1>3. CASE \* The breaker opens or closes with a new window.
           /\ probeWindow' = probeWindow + 1 /\ lastStateChange' = now /\ halfOpenAttempts' = 0
           /\ \/ state' = "open" /\ tripped' = now
              \/ state' = "closed" /\ tripped' = -1
  <2>1. BreakerTypeOK' /\ ProbesKnown'
    BY <1>0, <1>1, <1>3, EndsType DEF BreakerInv, BreakerTypeOK
  <2> QED BY <1>0, <1>1, <1>3, <2>1 DEF BreakerInv, SlotsCounted, TripWaits
<1>4. CASE recordSuccess(r)
  BY <1>2, <1>3, <1>4 DEF recordSuccess, resetToClosed, NewWindow, breaker, history
<1>5. CASE recordFailure(r)
  BY <1>2, <1>3, <1>5 DEF recordFailure, transitionToOpen, NewWindow
<1>6. CASE Release(r)
  <2>1. probe[r] = probeWindow => r \in Probing
    BY DEF Probing
  <2> QED BY <1>2, <1>6, <2>1 DEF Release, history
<1>7. CASE EndSilently(r)
  BY <1>2, <1>7 DEF EndSilently, breaker, history
<1> QED BY <1>4, <1>5, <1>6, <1>7

LEMMA BreakerNextInv == BreakerInv /\ [Next]_vars => BreakerInv'
<1> SUFFICES ASSUME BreakerInv, [Next]_vars PROVE BreakerInv'
  OBVIOUS
<1> USE BreakerAssumption
<1>1. CASE reset
  <2>1. /\ state' = "closed" /\ tripped' = -1 /\ probeWindow' = probeWindow + 1 /\ lastStateChange' = now
        /\ halfOpenAttempts' = 0 /\ UNCHANGED <<now, req, probe>>
    BY <1>1 DEF reset, resetToClosed, NewWindow, requests
  <2>2. BreakerTypeOK' /\ ProbesKnown'
    BY <2>1 DEF BreakerInv, BreakerTypeOK, ProbesKnown
  <2> QED BY <2>1, <2>2 DEF BreakerInv, SlotsCounted, TripWaits
<1>2. CASE Tick
  <2>1. now' = now + 1 /\ UNCHANGED <<state, lastStateChange, halfOpenAttempts, probeWindow, req, probe, tripped>>
    BY <1>2 DEF Tick, breaker, requests, history
  <2> QED BY <2>1 DEF BreakerInv, BreakerTypeOK, ProbesKnown, SlotsCounted, TripWaits, Probing
<1>3. CASE UNCHANGED vars
  BY <1>3 DEF vars, breaker, requests, history, BreakerInv, BreakerTypeOK, ProbesKnown, SlotsCounted, TripWaits, Probing
<1> QED BY <1>1, <1>2, <1>3, AdmitInv, EndInv DEF Next

\* For any number of requests, any threshold, window, timeout and probe count: a
\* half-open window never has more running probes than slots taken, isAvailable says
\* what tryCanExecute does, and an exhausted window is available again after the wait
\* that is announced (lib/circuit-breaker.ts).
THEOREM BreakerIsFaithful == Spec => []BreakerFaithful
<1>1. BreakerInv => ProbeBound
  BY BreakerAssumption DEF BreakerInv, BreakerTypeOK, SlotsCounted, Probing, ProbeBound
<1>2. BreakerInv => AvailabilityIsFaithful
  <2> SUFFICES ASSUME BreakerInv PROVE AvailabilityIsFaithful
    OBVIOUS
  <2>1. /\ now \in Nat /\ lastStateChange \in Nat /\ lastStateChange <= now
        /\ halfOpenAttempts \in 0..MaxProbes /\ state \in {"closed", "open", "half-open"}
    BY DEF BreakerInv, BreakerTypeOK
  <2>2. CASE state = "closed"
    BY <2>2 DEF AvailabilityIsFaithful, isAvailable
  <2>3. CASE state = "open"
    BY <2>1, <2>3, BreakerAssumption DEF AvailabilityIsFaithful, isAvailable, getTimeUntilAvailable, StartsWindow, Waited
  <2>4. CASE state = "half-open"
    BY <2>1, <2>4, BreakerAssumption DEF AvailabilityIsFaithful, isAvailable, getTimeUntilAvailable, StartsWindow, Waited
  <2> QED BY <2>1, <2>2, <2>3, <2>4
<1> QED BY <1>1, <1>2, BreakerInitInv, BreakerNextInv, PTL DEF Spec, BreakerFaithful

\* A trip holds: no request is admitted within resetTimeoutMs of the last trip, unless
\* a probe succeeded or the breaker was reset since, whatever late outcomes report.
THEOREM TripIsHeld == Spec => [][TripHolds]_vars
<1>1. BreakerInv /\ [Next]_vars => [TripHolds]_vars
  <2> SUFFICES ASSUME BreakerInv, Next, NEW r \in Requests, req[r] = "idle", req'[r] = "running", tripped >= 0
               PROVE  now - tripped >= ResetTimeout
    BY DEF TripHolds
  <2>1. PICK q \in Requests : Admit(q)
    BY DEF Next, recordSuccess, recordFailure, Release, EndSilently, Ends, reset, Tick, requests, BreakerInv, BreakerTypeOK
  <2>2. state # "closed" /\ (StartsWindow \/ state = "half-open")
    BY <2>1 DEF Admit, AdmitClosed, AdmitFirstProbe, AdmitNextProbe, BreakerInv, TripWaits
  <2> QED BY <2>2, BreakerAssumption DEF StartsWindow, Waited, BreakerInv, BreakerTypeOK, TripWaits
<1> QED BY <1>1, BreakerInitInv, BreakerNextInv, PTL DEF Spec

-----------------------------------------------------------------------------
(* Client tokens and the bridge. *)

Tickets ==
  [at : {"idle", "waiting", "read", "write", "forward"},
   op : {"none", "add", "rotate", "revoke", "save", "verify"},
   tok : Tokens \cup {NoToken}, new : Tokens \cup {NoToken}, moved : BOOLEAN,
   view : [Tokens -> States], snap : [Tokens -> States], tries : Nat,
   late : BOOLEAN, verified : BOOLEAN]

TokenTypeOK ==
  /\ tokens \in [Tokens -> States]
  /\ clients \in [Clients -> Tickets]
  /\ minted \subseteq Tokens /\ issued \subseteq minted /\ barred \subseteq issued
  /\ denied \in BOOLEAN
  /\ bridge \in [auth : BOOLEAN, key : BOOLEAN] /\ (bridge.key = TRUE => bridge.auth = TRUE)

\* The file holds nothing that was not issued; unless a read failed it holds all
\* that was, with what was barred revoked.
FileTrue ==
  /\ \A t \in Tokens : tokens[t] # "absent" => t \in issued
  /\ denied = FALSE => /\ \A t \in issued : tokens[t] # "absent"
                       /\ \A t \in barred : tokens[t] = "revoked"

\* Reads and writes of the store happen under its lock.
LockTrue == \A c \in Clients : clients[c].at \in {"read", "write"} => tokenLock = c

\* Two callers never create the same token.
FreshApart ==
  \A c, d \in Clients : clients[c].new = clients[d].new /\ c # d => clients[c].new = NoToken

\* A changed store that is about to replace an unmoved file keeps every token and
\* every revocation of that file.
Covers(rows) == \A t \in Tokens : /\ tokens[t] = "revoked" => rows[t] = "revoked"
                                  /\ tokens[t] # "absent" => rows[t] # "absent"

\* The store that a caller is about to write.
DraftTrue(v) ==
  v.at = "write" =>
    /\ \A t \in Tokens : v.view[t] # "absent" => t \in issued \cup {v.new}
    /\ v.new # NoToken => v.view[v.new] = "live"
    /\ v.op \in {"rotate", "revoke"} => v.view[v.tok] = "revoked"
    /\ denied = FALSE /\ v.moved = FALSE => Covers(v.view)

\* What a caller knows: its new token is nobody's yet, its target and its copy were
\* issued, and a request of a barred token does not get past the store.
CallerTrue(v) ==
  /\ v.at # "idle" => v.op # "none"
  /\ v.new # NoToken => v.op \in {"add", "rotate"} /\ v.new \in minted \ issued
  /\ v.op \in {"rotate", "revoke", "verify"} => v.tok \in issued
  /\ \A t \in Tokens : v.snap[t] # "absent" => t \in issued
  /\ v.late = TRUE => v.tok \in barred
  /\ v.op = "verify" /\ v.late = TRUE /\ denied = FALSE /\ bridge.auth = TRUE => v.at \notin {"write", "forward"}
  /\ v.at = "forward" /\ bridge.key = TRUE => v.verified = TRUE

TokenInv ==
  /\ TokenTypeOK /\ FileTrue /\ LockTrue /\ FreshApart
  /\ \A c \in Clients : CallerTrue(clients[c]) /\ DraftTrue(clients[c])

LEMMA AtRestTicket == AtRest \in Tickets /\ Unknown \in [Tokens -> States]
BY DEF AtRest, Unknown, Tickets, States

LEMMA TokenInitInv == TokenInit => TokenInv
<1> SUFFICES ASSUME TokenInit PROVE TokenInv
  OBVIOUS
<1> USE TokenAssumption
<1>1. issued \subseteq Tokens /\ minted = issued /\ barred = {} /\ denied = FALSE
  BY DEF TokenInit
<1>2. tokens \in [Tokens -> States] /\ \A t \in Tokens : tokens[t] = IF t \in issued THEN "live" ELSE "absent"
  BY DEF TokenInit, States
<1>3. clients \in [Clients -> Tickets] /\ \A c \in Clients : clients[c] = AtRest
  BY AtRestTicket DEF TokenInit
<1>4. bridge \in [auth : BOOLEAN, key : BOOLEAN] /\ (bridge.key = TRUE => bridge.auth = TRUE)
  BY DEF TokenInit, MayStart
<1>5. TokenTypeOK /\ FileTrue
  BY <1>1, <1>2, <1>3, <1>4 DEF TokenTypeOK, FileTrue
<1>6. LockTrue /\ FreshApart
  BY <1>3 DEF LockTrue, FreshApart, AtRest
<1>7. CallerTrue(AtRest) /\ DraftTrue(AtRest)
  BY DEF CallerTrue, DraftTrue, AtRest, Unknown
<1> QED BY <1>3, <1>5, <1>6, <1>7 DEF TokenInv

\* A step of one caller that leaves the file alone, with what its new record must
\* satisfy.
LEMMA CallerStepInv ==
  ASSUME TokenInv, NEW c \in Clients, NEW v \in Tickets, clients' = [clients EXCEPT ![c] = v],
         UNCHANGED <<tokens, issued, barred, bridge>>,
         minted \subseteq minted', minted' \subseteq Tokens,
         denied' \in BOOLEAN, denied = TRUE => denied' = TRUE,
         v.new \in {NoToken, clients[c].new} \/ v.new \notin minted,
         v.at \in {"read", "write"} => tokenLock' = c,
         tokenLock' = tokenLock \/ tokenLock \in {c, NoClient},
         CallerTrue(v)', DraftTrue(v)'
  PROVE  TokenInv'
<1> USE TokenAssumption DEF TokenInv
<1>1. clients'[c] = v /\ \A d \in Clients : d # c => clients'[d] = clients[d]
  BY DEF TokenTypeOK
<1>2. TokenTypeOK'
  BY DEF TokenTypeOK
<1>3. FileTrue'
  BY DEF FileTrue, TokenTypeOK
<1>4. LockTrue'
  BY <1>1 DEF LockTrue
<1>5. FreshApart'
  BY <1>1 DEF FreshApart, CallerTrue
<1>6. ASSUME NEW d \in Clients, d # c PROVE CallerTrue(clients[d])' /\ DraftTrue(clients[d])'
  <2>1. clients'[d] = clients[d] /\ CallerTrue(clients[d]) /\ DraftTrue(clients[d])
    BY <1>1, <1>6
  <2>2. denied' = FALSE => denied = FALSE
    BY DEF TokenTypeOK
  <2> QED BY <2>1, <2>2 DEF CallerTrue, DraftTrue, Covers
<1>7. CallerTrue(clients[c])' /\ DraftTrue(clients[c])'
  BY <1>1 DEF CallerTrue, DraftTrue, Covers
<1> QED BY <1>2, <1>3, <1>4, <1>5, <1>6, <1>7

\* The common case of a caller that is not about to write.
LEMMA OutsideInv ==
  ASSUME TokenInv, NEW c \in Clients, NEW v \in Tickets, clients' = [clients EXCEPT ![c] = v],
         UNCHANGED <<tokens, issued, barred, bridge, minted>>,
         denied' \in BOOLEAN, denied = TRUE => denied' = TRUE,
         v.new \in {NoToken, clients[c].new}, v.at # "write",
         v.at = "read" => tokenLock' = c, tokenLock' = tokenLock \/ tokenLock \in {c, NoClient},
         CallerTrue(v)
  PROVE  TokenInv'
<1>1. CallerTrue(v)'
  BY DEF CallerTrue, TokenInv, TokenTypeOK
<1>2. DraftTrue(v)'
  BY DEF DraftTrue
<1> QED BY <1>1, <1>2, CallerStepInv DEF TokenInv, TokenTypeOK

\* A command or a request begins.
LEMMA BeginsInv ==
  ASSUME TokenInv, NEW c \in Clients, NEW op \in {"rotate", "revoke", "save", "verify"},
         NEW t \in Tokens \cup {NoToken}, NEW stage \in {"waiting", "forward"}, Begins(c, op, t, stage),
         op # "save" => t \in issued, op = "save" => t = NoToken,
         stage = "forward" => bridge.auth = FALSE,
         UNCHANGED <<tokens, tokenLock, minted, issued, barred, denied, foreign, bridge>>
  PROVE  TokenInv'
<1> USE TokenAssumption
<1> DEFINE copy == IF op = "save" THEN tokens ELSE Unknown
           late == t \in barred
           v == [AtRest EXCEPT !.at = stage, !.op = op, !.tok = t, !.snap = copy, !.late = late]
<1>1. clients' = [clients EXCEPT ![c] = v]
  BY DEF Begins
<1>2. copy \in [Tokens -> States] /\ \A s \in Tokens : copy[s] # "absent" => s \in issued
  BY AtRestTicket DEF TokenInv, TokenTypeOK, FileTrue, Unknown
<1>3. late \in BOOLEAN /\ (late = TRUE => t \in barred)
  OBVIOUS
<1>4. op = "verify" /\ stage = "forward" => bridge.auth = FALSE /\ bridge.key = FALSE
  BY DEF TokenInv, TokenTypeOK
<1>5. denied \in BOOLEAN
  BY DEF TokenInv, TokenTypeOK
<1> HIDE DEF copy, late
<1>6. v \in Tickets
  BY <1>2, <1>3, AtRestTicket DEF Tickets
<1>7. /\ v.at = stage /\ v.op = op /\ v.tok = t /\ v.snap = copy /\ v.late = late /\ v.new = NoToken
      /\ v.verified = FALSE
  BY DEF AtRest
<1> HIDE DEF v
<1>8. CallerTrue(v)
  BY <1>2, <1>3, <1>4, <1>7 DEF CallerTrue, TokenInv, TokenTypeOK
<1> QED BY <1>1, <1>5, <1>6, <1>7, <1>8, OutsideInv

\* What a change makes of a store, of the file or of the empty one a failed read gives.
LEMMA MutatedTrue ==
  ASSUME TokenInv, NEW w \in Tickets, w.op # "none",
         \A t \in Tokens : w.view[t] # "absent" => t \in issued,
         \A t \in Tokens : w.snap[t] # "absent" => t \in issued,
         w.op \in {"rotate", "revoke", "verify"} => w.tok \in issued,
         w.new # NoToken => w.op \in {"add", "rotate"} /\ w.new \notin issued,
         w.op = "rotate" => w.new # NoToken
  PROVE  /\ Mutated(w) \in [Tokens -> States]
         /\ \A t \in Tokens : Mutated(w)[t] # "absent" => t \in issued \cup {w.new}
         /\ w.new # NoToken => Mutated(w)[w.new] = "live"
         /\ w.op \in {"rotate", "revoke"} => Mutated(w)[w.tok] = "revoked"
         /\ w.view = tokens => Covers(Mutated(w))
<1> USE TokenAssumption
<1>1. w.view \in [Tokens -> States] /\ w.new \in Tokens \cup {NoToken}
  BY DEF Tickets
<1>2. w.snap \in [Tokens -> States]
  BY DEF Tickets
<1>3. w.op \in {"rotate", "revoke", "verify"} => w.tok \in Tokens /\ w.tok \in issued
  BY DEF TokenInv, TokenTypeOK
<1>4. CASE w.op = "add"
  <2>1. Mutated(w) = [w.view EXCEPT ![w.new] = "live"]
    BY <1>4 DEF Mutated
  <2> QED BY <1>1, <1>4, <2>1 DEF Covers, States, TokenInv, FileTrue
<1>5. CASE w.op = "rotate"
  <2>1. Mutated(w) = [w.view EXCEPT ![w.tok] = "revoked", ![w.new] = "live"]
    BY <1>5 DEF Mutated
  <2> QED BY <1>1, <1>3, <1>5, <2>1 DEF Covers, States, TokenInv, FileTrue
<1>6. CASE w.op = "revoke"
  <2>1. Mutated(w) = [w.view EXCEPT ![w.tok] = "revoked"]
    BY <1>6 DEF Mutated
  <2> QED BY <1>1, <1>3, <1>6, <2>1 DEF Covers, States
<1>7. CASE w.op = "save"
  <2>1. Mutated(w) = mergeTokenStoreRecords(w.view, w.snap)
    BY <1>7 DEF Mutated
  <2>2. /\ mergeTokenStoreRecords(w.view, w.snap) \in [Tokens -> States]
        /\ \A t \in Tokens :
             /\ w.view[t] = "revoked" => mergeTokenStoreRecords(w.view, w.snap)[t] = "revoked"
             /\ w.view[t] # "absent" => mergeTokenStoreRecords(w.view, w.snap)[t] # "absent"
             /\ mergeTokenStoreRecords(w.view, w.snap)[t] # "absent" => t \in issued
    BY <1>1, <1>2 DEF mergeTokenStoreRecords, States
  <2> QED BY <1>1, <1>7, <2>1, <2>2 DEF Covers
<1>8. CASE w.op = "verify"
  <2>1. Mutated(w) = w.view
    BY <1>8 DEF Mutated
  <2> QED BY <1>1, <1>8, <2>1 DEF Covers
<1>9. w.op \in {"add", "rotate", "revoke", "save", "verify"}
  BY DEF Tickets
<1> QED BY <1>4, <1>5, <1>6, <1>7, <1>8, <1>9

\* The store is changed in memory.
LEMMA TokenMutateInv == ASSUME TokenInv, NEW c \in Clients, TokenMutate(c) PROVE TokenInv'
<1> USE TokenAssumption
<1>1. /\ clients[c] \in Tickets /\ CallerTrue(clients[c]) /\ tokens \in [Tokens -> States]
      /\ denied \in BOOLEAN /\ minted \subseteq Tokens /\ issued \subseteq minted
      /\ clients \in [Clients -> Tickets]
  BY DEF TokenInv, TokenTypeOK
<1>2. PICK fails \in BOOLEAN, new \in Tokens \cup {NoToken} :
        LET v == [clients[c] EXCEPT !.view = Loads(fails)]
        IN  /\ clients[c].at = "read" /\ Applies(v)
            /\ \/ new = v.new /\ minted' = minted /\ (v.op = "rotate" => v.new # NoToken)
               \/ v.op = "rotate" /\ new \in Tokens \ minted /\ minted' = minted \cup {new}
            /\ clients' = [clients EXCEPT ![c] = [v EXCEPT !.at = "write", !.new = new,
                                                       !.view = Mutated([v EXCEPT !.new = new])]]
            /\ denied' = (denied \/ fails)
            /\ UNCHANGED <<tokens, tokenLock, issued, barred, foreign, bridge, calls>>
  <2>1. PICK fails \in BOOLEAN :
        LET v == [clients[c] EXCEPT !.view = Loads(fails)]
            mints == v.op = "rotate" /\ v.new = NoToken
        IN
          /\ v.at = "read" /\ Applies(v)
          /\ \E new \in IF mints THEN Tokens \ minted ELSE {v.new} :
               /\ minted' = IF mints THEN minted \cup {new} ELSE minted
               /\ clients' = [clients EXCEPT ![c] = [v EXCEPT !.at = "write", !.new = new,
                                                             !.view = Mutated([v EXCEPT !.new = new])]]
          /\ denied' = (denied \/ fails)
          /\ UNCHANGED <<tokens, tokenLock, issued, barred, foreign, bridge, calls>>
    BY DEF TokenMutate
  <2> DEFINE v == [clients[c] EXCEPT !.view = Loads(fails)]
  <2>2. v.new \in Tokens \cup {NoToken} /\ v.at = clients[c].at
    BY <1>1 DEF Tickets
  <2> HIDE DEF v
  <2>3. \E new \in Tokens \cup {NoToken} :
           /\ \/ new = v.new /\ minted' = minted /\ (v.op = "rotate" => v.new # NoToken)
              \/ v.op = "rotate" /\ new \in Tokens \ minted /\ minted' = minted \cup {new}
           /\ clients' = [clients EXCEPT ![c] = [v EXCEPT !.at = "write", !.new = new,
                                                      !.view = Mutated([v EXCEPT !.new = new])]]
    <3>1. CASE v.op = "rotate" /\ v.new = NoToken
      BY <2>1, <3>1 DEF v
    <3>2. CASE ~(v.op = "rotate" /\ v.new = NoToken)
      BY <2>1, <2>2, <3>2 DEF v
    <3> QED BY <3>1, <3>2
  <2> QED BY <2>1, <2>2, <2>3 DEF v
<1> DEFINE store == Loads(fails)
           v == [clients[c] EXCEPT !.view = store]
           w == [v EXCEPT !.new = new]
           draft == Mutated(w)
<1>3. /\ store \in [Tokens -> States] /\ \A t \in Tokens : store[t] # "absent" => t \in issued
      /\ denied' \in BOOLEAN /\ (denied = TRUE => denied' = TRUE)
      /\ denied' = FALSE => denied = FALSE /\ store = tokens
  BY <1>1, <1>2, AtRestTicket DEF Loads, Unknown, TokenInv, FileTrue
<1>4. /\ clients[c].at = "read" /\ Applies(v)
      /\ clients' = [clients EXCEPT ![c] = [v EXCEPT !.at = "write", !.new = new, !.view = draft]]
      /\ UNCHANGED <<tokens, tokenLock, issued, barred, foreign, bridge, calls>>
  BY <1>2
<1> HIDE DEF store
<1>5. /\ v \in Tickets /\ v.view = store /\ v.op = clients[c].op /\ v.tok = clients[c].tok
      /\ v.new = clients[c].new /\ v.snap = clients[c].snap /\ v.late = clients[c].late
      /\ v.moved = clients[c].moved
  BY <1>1, <1>3 DEF Tickets
<1>6. /\ w = [clients[c] EXCEPT !.view = store, !.new = new]
      /\ v.op \in {"add", "rotate", "revoke", "save", "verify"}
      /\ new # NoToken => v.op \in {"add", "rotate"} /\ new \notin issued
      /\ v.op = "rotate" => new # NoToken
      /\ new \in {NoToken, clients[c].new} \/ new \notin minted
      /\ minted \subseteq minted' /\ minted' \subseteq Tokens
      /\ new # NoToken => new \in minted'
      /\ new \in Tokens \cup {NoToken}
  <2>1. CallerTrue(clients[c]) /\ clients[c].op \in {"none", "add", "rotate", "revoke", "save", "verify"}
    BY <1>1 DEF Tickets
  <2>2. \/ new = v.new /\ minted' = minted /\ (v.op = "rotate" => v.new # NoToken)
        \/ v.op = "rotate" /\ new \in Tokens \ minted /\ minted' = minted \cup {new}
    BY <1>2 DEF store
  <2> HIDE DEF v
  <2>3. w = [clients[c] EXCEPT !.view = store, !.new = new]
    BY DEF v
  <2> QED BY <1>1, <1>2, <1>4, <1>5, <2>1, <2>2, <2>3 DEF CallerTrue
<1>7. /\ draft \in [Tokens -> States]
      /\ \A t \in Tokens : draft[t] # "absent" => t \in issued \cup {new}
      /\ new # NoToken => draft[new] = "live"
      /\ v.op \in {"rotate", "revoke"} => draft[v.tok] = "revoked"
      /\ store = tokens => Covers(draft)
  <2> HIDE DEF v, w
  <2>1. /\ w \in Tickets /\ w.view = store /\ w.op = clients[c].op /\ w.tok = clients[c].tok
        /\ w.new = new /\ w.snap = clients[c].snap
    BY <1>1, <1>3, <1>6 DEF Tickets
  <2>2. /\ w.op # "none"
        /\ \A t \in Tokens : w.view[t] # "absent" => t \in issued
        /\ \A t \in Tokens : w.snap[t] # "absent" => t \in issued
        /\ w.op \in {"rotate", "revoke", "verify"} => w.tok \in issued
        /\ w.new # NoToken => w.op \in {"add", "rotate"} /\ w.new \notin issued
        /\ w.op = "rotate" => w.new # NoToken
    BY <1>1, <1>3, <1>5, <1>6, <2>1 DEF CallerTrue
  <2>3. /\ Mutated(w) \in [Tokens -> States]
        /\ \A t \in Tokens : Mutated(w)[t] # "absent" => t \in issued \cup {w.new}
        /\ w.new # NoToken => Mutated(w)[w.new] = "live"
        /\ w.op \in {"rotate", "revoke"} => Mutated(w)[w.tok] = "revoked"
        /\ w.view = tokens => Covers(Mutated(w))
    BY <2>1, <2>2, MutatedTrue
  <2> QED BY <1>5, <2>1, <2>3
<1> HIDE DEF draft
<1>8. PICK next \in Tickets :
        /\ clients' = [clients EXCEPT ![c] = next]
        /\ next.at = "write" /\ next.new = new /\ next.view = draft
        /\ next.op = v.op /\ next.tok = v.tok /\ next.snap = v.snap /\ next.late = v.late
        /\ next.moved = v.moved
  <2> DEFINE nx == [v EXCEPT !.at = "write", !.new = new, !.view = draft]
  <2>1. /\ nx \in Tickets /\ nx.at = "write" /\ nx.new = new /\ nx.view = draft
        /\ nx.op = v.op /\ nx.tok = v.tok /\ nx.snap = v.snap /\ nx.late = v.late
        /\ nx.moved = v.moved
    BY <1>5, <1>7 DEF Tickets
  <2>2. clients' = [clients EXCEPT ![c] = nx]
    BY <1>4
  <2> HIDE DEF nx
  <2> QED BY <2>1, <2>2
<1>9. v.op = "verify" /\ v.late = TRUE /\ denied' = FALSE => FALSE
  <2>1. v.op = "verify" => store[v.tok] = "live"
    BY <1>4, <1>5 DEF Applies
  <2>2. v.late = TRUE => v.tok \in barred
    BY <1>1, <1>5 DEF CallerTrue
  <2> QED BY <1>3, <2>1, <2>2 DEF TokenInv, FileTrue
<1> HIDE DEF v, w
<1>10. CallerTrue(next)'
  BY <1>1, <1>4, <1>5, <1>6, <1>8, <1>9 DEF CallerTrue
<1>11. DraftTrue(next)'
  BY <1>3, <1>4, <1>5, <1>7, <1>8 DEF DraftTrue, Covers
<1>12. tokenLock' = c
  BY <1>4 DEF TokenInv, LockTrue
<1> QED BY <1>3, <1>4, <1>6, <1>8, <1>10, <1>11, <1>12, CallerStepInv

\* The rename: the store becomes the file, and the caller is answered.
LEMMA TokenRenameInv == ASSUME TokenInv, NEW c \in Clients, TokenRename(c) PROVE TokenInv'
<1> USE TokenAssumption
<1> DEFINE v == clients[c]
           next == IF v.op = "verify" THEN VerifiedFor(c) ELSE AtRest
<1>1. /\ v \in Tickets /\ CallerTrue(v) /\ DraftTrue(v) /\ clients \in [Clients -> Tickets]
      /\ minted \subseteq Tokens /\ issued \subseteq minted /\ barred \subseteq issued /\ denied \in BOOLEAN
  BY DEF TokenInv, TokenTypeOK
<1>2. /\ v.at = "write" /\ v.moved = FALSE /\ tokens' = v.view /\ tokenLock' = NoClient
      /\ clients' = [clients EXCEPT ![c] = next]
      /\ issued' = IF v.new # NoToken THEN issued \cup {v.new} ELSE issued
      /\ barred' = IF v.op \in {"rotate", "revoke"} THEN barred \cup {v.tok} ELSE barred
      /\ UNCHANGED <<minted, denied, bridge>>
  BY <1>1 DEF TokenRename, TokenLeaves, FileMoved, Tickets
<1>3. /\ v.view \in [Tokens -> States] /\ v.tok \in Tokens \cup {NoToken} /\ v.late \in BOOLEAN
  BY <1>1 DEF Tickets
<1>4. /\ next \in Tickets /\ next.new = NoToken /\ next.snap = Unknown /\ next.at \in {"idle", "forward"}
      /\ next.at = "forward" => /\ v.op = "verify" /\ next.op = "verify" /\ next.tok = v.tok /\ next.late = v.late
                                /\ next.verified = TRUE
      /\ next.at = "idle" => next.op = "none" /\ next.late = FALSE
  <2>1. VerifiedFor(c) \in Tickets
    BY <1>3, AtRestTicket DEF VerifiedFor, Tickets
  <2>2. CASE v.op = "verify" BY <1>3, <2>1, <2>2 DEF VerifiedFor, AtRest
  <2>3. CASE v.op # "verify" BY <2>3, AtRestTicket DEF AtRest
  <2> QED BY <2>2, <2>3
<1> HIDE DEF next, v
<1>5. clients'[c] = next /\ \A d \in Clients : d # c => clients'[d] = clients[d]
  BY <1>1, <1>2
<1>6. \A d \in Clients : d # c => clients[d].at \notin {"read", "write"} /\ (clients[d].new # NoToken => clients[d].new # v.new)
  BY <1>2 DEF TokenInv, LockTrue, FreshApart, v
<1>7. TokenTypeOK'
  <2>1. clients' \in [Clients -> Tickets]
    BY <1>1, <1>2, <1>4
  <2>2. issued' \subseteq minted' /\ barred' \subseteq issued' /\ minted' \subseteq Tokens
    BY <1>1, <1>2 DEF CallerTrue
  <2> QED BY <1>2, <1>3, <2>1, <2>2 DEF TokenTypeOK, TokenInv
<1>8. FileTrue'
  <2>1. \A t \in Tokens : tokens'[t] # "absent" => t \in issued'
    BY <1>1, <1>2 DEF DraftTrue
  <2>2. ASSUME denied' = FALSE PROVE \A t \in issued' : tokens'[t] # "absent"
    BY <1>1, <1>2, <2>2 DEF DraftTrue, Covers, TokenInv, FileTrue
  <2>3. ASSUME denied' = FALSE PROVE \A t \in barred' : tokens'[t] = "revoked"
    BY <1>1, <1>2, <2>3 DEF DraftTrue, Covers, TokenInv, FileTrue
  <2> QED BY <2>1, <2>2, <2>3 DEF FileTrue
<1>9. LockTrue' /\ FreshApart'
  BY <1>4, <1>5, <1>6 DEF LockTrue, FreshApart, TokenInv
<1>10. ASSUME NEW d \in Clients, d # c PROVE CallerTrue(clients[d])' /\ DraftTrue(clients[d])'
  <2>1. clients'[d] = clients[d] /\ CallerTrue(clients[d])
    BY <1>5, <1>10 DEF TokenInv
  <2>2. issued \subseteq issued' /\ barred \subseteq barred' /\ (clients[d].new # NoToken => clients[d].new \notin issued')
    BY <1>2, <1>6, <1>10, <2>1 DEF CallerTrue
  <2> QED BY <1>2, <1>6, <1>10, <2>1, <2>2 DEF CallerTrue, DraftTrue
<1>11. CallerTrue(clients[c])' /\ DraftTrue(clients[c])'
  <2>1. next.at = "forward" /\ next.late = TRUE /\ bridge.auth = TRUE => denied # FALSE
    BY <1>1, <1>2, <1>4 DEF CallerTrue
  <2>2. next.at = "forward" => v.tok \in issued /\ (v.late = TRUE => v.tok \in barred)
    BY <1>1, <1>4 DEF CallerTrue
  <2>3. \A t \in Tokens : next.snap[t] = "absent"
    BY <1>4 DEF Unknown
  <2>4. CallerTrue(clients[c])'
    <3>1. UNCHANGED <<denied, bridge>> /\ issued \subseteq issued' /\ barred \subseteq barred'
      BY <1>2
    <3>2. clients'[c] = next
      BY <1>5
    <3>3. CASE next.at = "forward"
      BY <1>4, <2>1, <2>2, <2>3, <3>1, <3>2, <3>3 DEF CallerTrue
    <3>4. CASE next.at = "idle"
      BY <1>4, <2>3, <3>1, <3>2, <3>4 DEF CallerTrue
    <3> QED BY <1>4, <3>3, <3>4
  <2>5. DraftTrue(clients[c])'
    BY <1>4, <1>5 DEF DraftTrue
  <2> QED BY <2>4, <2>5
<1> QED BY <1>7, <1>8, <1>9, <1>10, <1>11 DEF TokenInv

\* A writer without the lock revokes a token: whoever is between the lock and its
\* rename will find the file moved.
LEMMA ForeignRevokesInv == TokenInv /\ ForeignRevokes => TokenInv'
<1> SUFFICES ASSUME TokenInv, ForeignRevokes PROVE TokenInv'
  OBVIOUS
<1>1. PICK t \in issued : /\ tokens[t] = "live" /\ tokens' = [tokens EXCEPT ![t] = "revoked"]
                          /\ clients' = [c \in Clients |-> [clients[c] EXCEPT !.moved = clients[c].at \in {"read", "write"}]]
                          /\ barred' = barred \cup {t}
                          /\ UNCHANGED <<tokenLock, minted, issued, denied, bridge, calls>>
  BY DEF ForeignRevokes
<1>2. ASSUME NEW c \in Clients
      PROVE  /\ clients'[c] \in Tickets /\ clients'[c].at = clients[c].at /\ clients'[c].op = clients[c].op
             /\ clients'[c].tok = clients[c].tok /\ clients'[c].new = clients[c].new
             /\ clients'[c].view = clients[c].view /\ clients'[c].snap = clients[c].snap
             /\ clients'[c].late = clients[c].late /\ clients'[c].verified = clients[c].verified
             /\ clients[c].at = "write" => clients'[c].moved = TRUE
  <2> DEFINE m == clients[c].at \in {"read", "write"}
  <2>1. m \in BOOLEAN /\ (clients[c].at = "write" => m = TRUE)
    OBVIOUS
  <2>2. clients'[c] = [clients[c] EXCEPT !.moved = m] /\ clients[c] \in Tickets
    BY <1>1 DEF TokenInv, TokenTypeOK
  <2> HIDE DEF m
  <2> QED BY <2>1, <2>2 DEF Tickets
<1>3. tokens' \in [Tokens -> States] /\ \A s \in Tokens : tokens'[s] = IF s = t THEN "revoked" ELSE tokens[s]
  BY <1>1 DEF TokenInv, TokenTypeOK, States
<1>4. TokenTypeOK'
  <2>1. clients' \in [Clients -> Tickets]
    BY <1>1, <1>2
  <2> QED BY <1>1, <1>3, <2>1 DEF TokenInv, TokenTypeOK
<1>5. FileTrue'
  BY <1>1, <1>3 DEF TokenInv, TokenTypeOK, FileTrue
<1>6. LockTrue' /\ FreshApart'
  <2>1. LockTrue'
    BY <1>1, <1>2 DEF TokenInv, LockTrue
  <2>2. \A c \in Clients : clients'[c].new = clients[c].new
    BY <1>2
  <2>3. FreshApart'
    BY <2>2 DEF TokenInv, FreshApart
  <2> QED BY <2>1, <2>3
<1>7. ASSUME NEW c \in Clients PROVE CallerTrue(clients[c])' /\ DraftTrue(clients[c])'
  <2>1. CallerTrue(clients[c]) /\ DraftTrue(clients[c])
    BY DEF TokenInv
  <2>2. CallerTrue(clients[c])'
    <3>1. /\ clients'[c].at = clients[c].at /\ clients'[c].op = clients[c].op
          /\ clients'[c].tok = clients[c].tok /\ clients'[c].new = clients[c].new
          /\ clients'[c].snap = clients[c].snap /\ clients'[c].late = clients[c].late
          /\ clients'[c].verified = clients[c].verified
      BY <1>2
    <3>2. UNCHANGED <<minted, issued, denied, bridge>> /\ barred \subseteq barred'
      BY <1>1
    <3> QED BY <2>1, <3>1, <3>2 DEF CallerTrue
  <2>3. DraftTrue(clients[c])'
    BY <1>1, <1>2, <2>1 DEF DraftTrue
  <2> QED BY <2>2, <2>3
<1> QED BY <1>4, <1>5, <1>6, <1>7 DEF TokenInv

LEMMA TokenNextInv == TokenInv /\ [TokenNext]_tokenVars => TokenInv'
<1> SUFFICES ASSUME TokenInv, [TokenNext]_tokenVars PROVE TokenInv'
  OBVIOUS
<1> USE TokenAssumption
<1>0. /\ clients \in [Clients -> Tickets] /\ denied \in BOOLEAN /\ issued \subseteq Tokens
      /\ \A c \in Clients : clients[c] \in Tickets /\ CallerTrue(clients[c])
  BY DEF TokenInv, TokenTypeOK
<1>00. CallerTrue(AtRest) /\ AtRest.at = "idle" /\ AtRest.new = NoToken /\ AtRest \in Tickets
  BY AtRestTicket DEF CallerTrue, AtRest, Unknown
<1>1. ASSUME NEW c \in Clients, addLocalClientToken(c) PROVE TokenInv'
  <2>1. PICK t \in Tokens \ minted :
          /\ clients' = [clients EXCEPT ![c] = [AtRest EXCEPT !.at = "waiting", !.op = "add", !.new = t]]
          /\ minted' = minted \cup {t}
          /\ UNCHANGED <<tokens, tokenLock, issued, barred, denied, foreign, bridge>>
    BY <1>1 DEF addLocalClientToken
  <2>2. PICK v \in Tickets : /\ clients' = [clients EXCEPT ![c] = v]
                             /\ v.at = "waiting" /\ v.op = "add" /\ v.new = t /\ v.late = FALSE
                             /\ v.snap = Unknown
    <3> DEFINE nx == [AtRest EXCEPT !.at = "waiting", !.op = "add", !.new = t]
    <3>1. /\ nx \in Tickets /\ nx.at = "waiting" /\ nx.op = "add" /\ nx.new = t /\ nx.late = FALSE
          /\ nx.snap = Unknown
      BY AtRestTicket DEF Tickets, AtRest
    <3>2. clients' = [clients EXCEPT ![c] = nx]
      BY <2>1
    <3> HIDE DEF nx
    <3> QED BY <3>1, <3>2
  <2>3. minted \subseteq minted' /\ minted' \subseteq Tokens /\ issued \subseteq minted
    BY <2>1 DEF TokenInv, TokenTypeOK
  <2>4. CallerTrue(v)' /\ DraftTrue(v)'
    BY <2>1, <2>2, <2>3 DEF CallerTrue, DraftTrue, Unknown
  <2> QED BY <1>0, <2>1, <2>2, <2>3, <2>4, CallerStepInv
<1>2. ASSUME NEW c \in Clients, rotateLocalClientToken(c) \/ revokeLocalClientToken(c) PROVE TokenInv'
  BY <1>0, <1>2, BeginsInv DEF rotateLocalClientToken, revokeLocalClientToken
<1>3. ASSUME NEW c \in Clients, saveLocalClientTokenStore(c) PROVE TokenInv'
  BY <1>3, BeginsInv DEF saveLocalClientTokenStore
<1>4. ASSUME NEW c \in Clients, BridgeRequest(c) PROVE TokenInv'
  <2>1. bridge.auth \in BOOLEAN
    BY DEF TokenInv, TokenTypeOK
  <2>2. CASE bridge.auth = TRUE
    BY <1>0, <1>4, <2>2, BeginsInv DEF BridgeRequest
  <2>3. CASE bridge.auth = FALSE
    BY <1>0, <1>4, <2>3, BeginsInv DEF BridgeRequest
  <2> QED BY <2>1, <2>2, <2>3
<1>5. ASSUME NEW c \in Clients, TokenLocked(c) PROVE TokenInv'
  <2> DEFINE v == [clients[c] EXCEPT !.at = "read", !.moved = FALSE]
  <2>1. /\ clients[c].at = "waiting" /\ tokenLock = NoClient /\ tokenLock' = c
        /\ clients' = [clients EXCEPT ![c] = v]
        /\ UNCHANGED <<tokens, minted, issued, barred, denied, bridge>>
    BY <1>0, <1>5 DEF TokenLocked
  <2>2. /\ v \in Tickets /\ v.at = "read" /\ v.op = clients[c].op /\ v.tok = clients[c].tok
        /\ v.new = clients[c].new /\ v.snap = clients[c].snap /\ v.late = clients[c].late
    BY <1>0 DEF Tickets
  <2> HIDE DEF v
  <2>3. CallerTrue(v)
    BY <1>0, <2>1, <2>2 DEF CallerTrue
  <2> QED BY <1>0, <2>1, <2>2, <2>3, OutsideInv
<1>6. ASSUME NEW c \in Clients, TokenRefused(c) \/ TokenGivesUp(c) PROVE TokenInv'
  <2>1. /\ clients[c].at \in {"read", "write"} /\ clients' = [clients EXCEPT ![c] = AtRest]
        /\ UNCHANGED <<tokens, minted, issued, barred, bridge>>
        /\ denied' \in BOOLEAN /\ (denied = TRUE => denied' = TRUE)
    BY <1>0, <1>6 DEF TokenRefused, TokenGivesUp, TokenLeaves
  <2>2. tokenLock = c
    BY <2>1 DEF TokenInv, LockTrue
  <2> QED BY <1>00, <2>1, <2>2, OutsideInv
<1>7. ASSUME NEW c \in Clients, VerifiedUnwritten(c) PROVE TokenInv'
  <2> DEFINE v == VerifiedFor(c)
  <2>1. /\ clients[c].at = "read" /\ clients[c].op = "verify" /\ clients' = [clients EXCEPT ![c] = v]
        /\ UNCHANGED <<tokens, minted, issued, barred, denied, bridge>>
        /\ Applies([clients[c] EXCEPT !.view = tokens])
    BY <1>7 DEF VerifiedUnwritten, TokenLeaves
  <2>2. tokenLock = c
    BY <2>1 DEF TokenInv, LockTrue
  <2>3. clients[c].tok \in Tokens \cup {NoToken} /\ clients[c].late \in BOOLEAN
    BY <1>0 DEF Tickets
  <2>4. v \in Tickets
    BY <2>3, AtRestTicket DEF VerifiedFor, Tickets
  <2>5. /\ v.at = "forward" /\ v.op = "verify" /\ v.tok = clients[c].tok /\ v.late = clients[c].late
        /\ v.verified = TRUE /\ v.new = NoToken /\ v.snap = Unknown
    BY DEF VerifiedFor, AtRest
  <2>6. tokens[clients[c].tok] = "live"
    BY <1>0, <2>1 DEF Applies, Tickets
  <2> HIDE DEF v
  <2>7. CallerTrue(v)
    BY <1>0, <2>1, <2>5, <2>6 DEF CallerTrue, TokenInv, FileTrue, Unknown
  <2> QED BY <1>0, <2>1, <2>2, <2>4, <2>5, <2>7, OutsideInv
<1>8. ASSUME NEW c \in Clients, TokenRetries(c) PROVE TokenInv'
  <2> DEFINE n == clients[c].tries + 1
             v == [clients[c] EXCEPT !.at = "read", !.tries = n, !.moved = FALSE]
  <2>1. /\ clients[c].at = "write" /\ clients' = [clients EXCEPT ![c] = v]
        /\ UNCHANGED <<tokens, tokenLock, minted, issued, barred, denied, bridge>>
    BY <1>0, <1>8 DEF TokenRetries, Tickets
  <2>0. n \in Nat
    BY <1>0 DEF Tickets
  <2> HIDE DEF n
  <2>2. /\ v \in Tickets /\ v.at = "read" /\ v.op = clients[c].op /\ v.tok = clients[c].tok
        /\ v.new = clients[c].new /\ v.snap = clients[c].snap /\ v.late = clients[c].late
    BY <1>0, <2>0 DEF Tickets
  <2> HIDE DEF v
  <2>3. CallerTrue(v)
    BY <1>0, <2>1, <2>2 DEF CallerTrue
  <2>4. tokenLock' = c
    BY <2>1 DEF TokenInv, LockTrue
  <2> QED BY <1>0, <2>1, <2>2, <2>3, <2>4, OutsideInv
<1>9. ASSUME NEW c \in Clients, forward(c) PROVE TokenInv'
  BY <1>0, <1>00, <1>9, OutsideInv DEF forward
<1>10. CASE UNCHANGED tokenVars
  BY <1>10 DEF tokenVars, TokenInv, TokenTypeOK, FileTrue, LockTrue, FreshApart, CallerTrue, DraftTrue, Covers
<1> QED BY <1>1, <1>2, <1>3, <1>4, <1>5, <1>6, <1>7, <1>8, <1>9, <1>10, TokenMutateInv, TokenRenameInv,
           ForeignRevokesInv DEF TokenNext

\* Whatever commands, verifications, older saves and writers without the lock do, and
\* unless the file could not be read, no request is forwarded that came after its
\* token's revocation, no issued token disappears, and the proxy's key travels only
\* with verified requests (lib/local-client-tokens.ts, lib/local-bridge.ts).
THEOREM BridgeIsGuarded == TokenSpec => []BridgeGuarded
<1>1. TokenInv => BridgeGuarded
  BY DEF TokenInv, TokenTypeOK, CallerTrue, FileTrue, BridgeGuarded, RevokedStaysOut, IssuedKept, KeyNeedsToken, Tickets
<1> QED BY <1>1, TokenInitInv, TokenNextInv, PTL DEF TokenSpec

\* Revocation is final: no step makes a revoked token live again, since a change is
\* renamed into place only if the file is the one it was made of.
THEOREM RevokedForGood == TokenSpec => [][RevocationFinal]_tokenVars
<1>1. TokenInv /\ [TokenNext]_tokenVars => [RevocationFinal]_tokenVars
  <2> SUFFICES ASSUME TokenInv, TokenNext, NEW t \in Tokens, tokens[t] = "revoked", ~denied
               PROVE  tokens'[t] # "live"
    BY DEF RevocationFinal
  <2>1. CASE UNCHANGED tokens BY <2>1
  <2>2. ASSUME NEW c \in Clients, TokenRename(c) PROVE tokens'[t] # "live"
    <3>1. /\ clients[c].at = "write" /\ clients[c].moved = FALSE /\ denied = FALSE
          /\ tokens' = clients[c].view /\ DraftTrue(clients[c])
      BY <2>2 DEF TokenRename, FileMoved, TokenInv, TokenTypeOK, Tickets
    <3> QED BY <3>1 DEF DraftTrue, Covers
  <2>3. CASE ForeignRevokes
    BY <2>3 DEF ForeignRevokes, TokenInv, TokenTypeOK
  <2> QED BY <2>1, <2>2, <2>3 DEF TokenNext, addLocalClientToken, rotateLocalClientToken, revokeLocalClientToken,
             saveLocalClientTokenStore, BridgeRequest, TokenLocked, TokenRefused, VerifiedUnwritten,
             TokenMutate, TokenRetries, TokenGivesUp, forward
<1> QED BY <1>1, TokenInitInv, TokenNextInv, PTL DEF TokenSpec

-----------------------------------------------------------------------------
(* Moves between the pool file and the flagged file. *)

TokenFile == [Holders -> Nat]

RepairType ==
  [kind : {"none"} \union UNION {RepairKinds[p] : p \in Repairs},
   pc : {"idle", "refresh", "pool", "second", "rollback", "done"},
   pool : TokenFile, enabled : SUBSET Holders, flagged : TokenFile, todo : SUBSET Holders,
   got : TokenFile, failed : SUBSET Holders]

FilesOK ==
  /\ poolFile \in TokenFile /\ flaggedFile \in TokenFile /\ newest \in TokenFile
  /\ poolEnabled \subseteq In(poolFile)

\* The accounts a command of the pool looks at are those of its snapshot, and
\* the deep check flags what it is about to remove.
SnapshotOK(r) ==
  /\ ~Flags(r.kind) /\ r.pc \in {"refresh", "pool"} => r.todo \union r.failed \subseteq In(r.pool)
  /\ r.kind = "deepCheck" /\ r.pc = "pool" => r.failed \subseteq In(r.flagged)

\* A token that verify-flagged has got is newer than the one it sent.
NewerOK(r) ==
  r.kind \in {"verify", "verifyKeep"} /\ r.pc = "refresh" =>
    \A a \in Holders : r.got[a] # 0 => r.got[a] > r.flagged[a]

\* Under the lock, between the two writes: what the roll back puts back, and
\* what the second write is going to leave, account for every account.
CommitOK(r) ==
  /\ r.pc \in {"second", "rollback"} =>
       /\ r.kind \in {"verify", "runtimeVerify"} /\ r.enabled \subseteq In(r.pool)
       /\ \A a \in Holders \ forsaken : r.pool[a] # 0 \/ flaggedFile[a] # 0
  /\ r.pc = "second" /\ r.kind = "verify" => \A a \in Holders :
       /\ r.flagged[a] = 0 \/ r.flagged[a] >= flaggedFile[a]
       /\ flaggedFile[a] # 0 /\ r.flagged[a] = 0 => poolFile[a] # 0

OneCommits == \A p, other \in Repairs : Committing(p) /\ Committing(other) => p = other

RepairInv ==
  /\ FilesOK /\ repair \in [Repairs -> RepairType]
  /\ \A p \in Repairs : SnapshotOK(repair[p]) /\ NewerOK(repair[p]) /\ CommitOK(repair[p])
  /\ OneCommits /\ NotLost

-----------------------------------------------------------------------------

LEMMA RepairInvInit == RepairInit => RepairInv
<1> SUFFICES ASSUME RepairInit PROVE RepairInv
  OBVIOUS
<1>1. Inactive \in RepairType
  BY DEF Inactive, RepairType, TokenFile
<1>2. FilesOK /\ NotLost
  BY DEF RepairInit, FilesOK, NotLost, TokenFile, In
<1>3. \A p \in Repairs : repair[p] = Inactive
  BY DEF RepairInit
<1>4. \A p \in Repairs : SnapshotOK(repair[p]) /\ NewerOK(repair[p]) /\ CommitOK(repair[p])
  BY <1>3 DEF Inactive, SnapshotOK, NewerOK, CommitOK
<1>5. OneCommits
  BY <1>3 DEF Inactive, OneCommits, Committing
<1> QED BY <1>1, <1>2, <1>3, <1>4, <1>5 DEF RepairInv, RepairInit

\* A step that touches neither file: only the record of one command changes.
LEMMA RecordStep ==
  ASSUME RepairInv, NEW p \in Repairs, NEW t \in RepairType, repair' = [repair EXCEPT ![p] = t],
         UNCHANGED <<files, forsaken>>, newest' \in TokenFile,
         SnapshotOK(t), NewerOK(t), t.pc \notin {"second", "rollback"}
  PROVE  RepairInv'
<1>1. repair' \in [Repairs -> RepairType] /\ repair'[p] = t /\ \A o \in Repairs \ {p} : repair'[o] = repair[o]
  BY DEF RepairInv
<1>2. UNCHANGED <<poolFile, poolEnabled, flaggedFile, forsaken>>
  BY DEF files
<1>3. FilesOK' /\ NotLost'
  BY <1>2 DEF RepairInv, FilesOK, NotLost, In
<1>4. \A o \in Repairs : SnapshotOK(repair'[o]) /\ NewerOK(repair'[o])
  BY <1>1 DEF RepairInv
<1>5. \A o \in Repairs : CommitOK(repair[o])'
  BY <1>1, <1>2 DEF RepairInv, CommitOK, In
<1>6. OneCommits'
  BY <1>1 DEF RepairInv, OneCommits, Committing
<1>7. \A o \in Repairs : SnapshotOK(repair[o])' /\ NewerOK(repair[o])'
  BY <1>4 DEF SnapshotOK, NewerOK, In, Flags
<1> QED BY <1>1, <1>3, <1>5, <1>6, <1>7 DEF RepairInv

\* A step that writes a file while no command is between its two writes.
LEMMA CommitStep ==
  ASSUME RepairInv, NEW p \in Repairs, NEW t \in RepairType, repair' = [repair EXCEPT ![p] = t], Unlocked(p),
         FilesOK', NotLost', SnapshotOK(t), NewerOK(t), CommitOK(t)'
  PROVE  RepairInv'
<1>1. repair' \in [Repairs -> RepairType] /\ repair'[p] = t /\ \A o \in Repairs \ {p} : repair'[o] = repair[o]
  BY DEF RepairInv
<1>2. \A o \in Repairs \ {p} : repair[o].pc \notin {"second", "rollback"}
  BY DEF Unlocked, Committing
<1>3. \A o \in Repairs : SnapshotOK(repair[o])' /\ NewerOK(repair[o])'
  BY <1>1 DEF RepairInv, SnapshotOK, NewerOK, In, Flags
<1>4. \A o \in Repairs : CommitOK(repair[o])'
  BY <1>1, <1>2 DEF CommitOK, In
<1>5. OneCommits'
  BY <1>1, <1>2 DEF OneCommits, Committing
<1> QED BY <1>1, <1>3, <1>4, <1>5 DEF RepairInv

LEMMA FinishedOK ==
  LET t == [Inactive EXCEPT !.pc = "done"] IN t \in RepairType /\ t.pc = "done" /\ SnapshotOK(t) /\ NewerOK(t) /\ CommitOK(t) /\ CommitOK(t)'
<1> DEFINE t == [Inactive EXCEPT !.pc = "done"]
<1>1. t \in RepairType /\ t.pc = "done" /\ t.kind = "none"
  BY DEF Inactive, RepairType, TokenFile
<1> HIDE DEF t
<1> QED BY <1>1 DEF SnapshotOK, NewerOK, CommitOK, t

-----------------------------------------------------------------------------
(* The steps before a commit. *)

LEMMA BeginKeeps ==
  ASSUME RepairInv, NEW p \in Repairs, NEW kind \in RepairKinds[p], Begin(p, kind)
  PROVE  RepairInv'
<1> DEFINE t(todo) == [Inactive EXCEPT !.kind = kind, !.pc = "refresh", !.pool = poolFile,
                         !.enabled = poolEnabled, !.flagged = flaggedFile, !.todo = todo]
<1>1. PICK todo \in Todo(kind) : repair' = [repair EXCEPT ![p] = t(todo)]
  BY DEF Begin
<1>2. FilesOK /\ UNCHANGED <<files, newest, forsaken>>
  BY DEF Begin, RepairInv
<1>3. todo \in SUBSET Holders /\ (~Flags(kind) => todo \subseteq In(poolFile)) /\ poolEnabled \in SUBSET Holders
  <2>1. todo = In(flaggedFile) \/ todo = poolEnabled \/ \E a \in In(poolFile) : todo = {a}
    BY <1>1 DEF Todo, VerifyTodo, RuntimeVerifyTodo, FixTodo, CheckTodo, DoctorTodo
  <2>2. ~Flags(kind) => todo = poolEnabled \/ \E a \in In(poolFile) : todo = {a}
    BY <1>1 DEF Todo, FixTodo, CheckTodo, DoctorTodo, Flags, VerifyTodo, RuntimeVerifyTodo
  <2> QED BY <1>2, <2>1, <2>2 DEF FilesOK, In
<1>4. t(todo) \in RepairType
  BY <1>2, <1>3 DEF FilesOK, Inactive, RepairType, TokenFile
<1>5. /\ t(todo).kind = kind /\ t(todo).pc = "refresh" /\ t(todo).pool = poolFile /\ t(todo).todo = todo
      /\ t(todo).failed = {} /\ \A a \in Holders : t(todo).got[a] = 0
  BY DEF Inactive
<1> HIDE DEF t
<1>6. SnapshotOK(t(todo)) /\ NewerOK(t(todo))
  BY <1>3, <1>5 DEF SnapshotOK, NewerOK
<1>7. newest' \in TokenFile
  BY <1>2 DEF FilesOK
<1> QED BY <1>1, <1>2, <1>4, <1>5, <1>6, <1>7, RecordStep

\* An account's turn in the loop: a newer token, or none.
LEMMA TurnKeeps ==
  ASSUME RepairInv, NEW p \in Repairs, NEW a \in Holders, Due(p, a), UNCHANGED <<files, forsaken>>, newest' \in TokenFile,
         \/ \E token \in Nat : /\ Learn(p, a, token)
                               /\ repair[p].kind \in {"verify", "verifyKeep"} => token > repair[p].flagged[a]
         \/ \E hard \in BOOLEAN : repair' = [repair EXCEPT ![p].todo = @ \ {a}, ![p].failed = IF hard THEN @ \union {a} ELSE @]
  PROVE  RepairInv'
<1> DEFINE r == repair[p]
<1>1. r \in RepairType /\ r.pc = "refresh" /\ a \in r.todo /\ SnapshotOK(r) /\ NewerOK(r)
  BY DEF RepairInv, Due
<1>2. ASSUME NEW token \in Nat, Learn(p, a, token), r.kind \in {"verify", "verifyKeep"} => token > r.flagged[a]
      PROVE  RepairInv'
  <2> DEFINE t == [r EXCEPT !.todo = @ \ {a}, !.got[a] = token]
  <2>1. repair' = [repair EXCEPT ![p] = t]
    BY <1>1, <1>2 DEF RepairInv, Learn, RepairType
  <2>2. /\ t \in RepairType /\ t.pc = "refresh" /\ t.kind = r.kind /\ t.pool = r.pool /\ t.flagged = r.flagged
        /\ t.todo = r.todo \ {a} /\ t.failed = r.failed /\ t.got = [r.got EXCEPT ![a] = token]
    BY <1>1 DEF RepairType, TokenFile
  <2> HIDE DEF t
  <2>3. SnapshotOK(t)
    BY <1>1, <2>2 DEF SnapshotOK
  <2>4. NewerOK(t)
    BY <1>1, <1>2, <2>2 DEF NewerOK, RepairType, TokenFile
  <2> QED BY <2>1, <2>2, <2>3, <2>4, RecordStep
<1>3. ASSUME NEW hard \in BOOLEAN,
             repair' = [repair EXCEPT ![p].todo = @ \ {a}, ![p].failed = IF hard THEN @ \union {a} ELSE @]
      PROVE  RepairInv'
  <2>1. PICK failed \in SUBSET Holders : failed \subseteq r.failed \union {a} /\ repair' = [repair EXCEPT ![p] = [r EXCEPT !.todo = @ \ {a}, !.failed = failed]]
    <3>1. r.failed \in SUBSET Holders /\ r.failed \union {a} \in SUBSET Holders
      BY <1>1 DEF RepairType
    <3>2. repair' = [repair EXCEPT ![p] = [r EXCEPT !.todo = @ \ {a}, !.failed = IF hard THEN r.failed \union {a} ELSE r.failed]]
      BY <1>1, <1>3 DEF RepairInv, RepairType
    <3>3. (IF hard THEN r.failed \union {a} ELSE r.failed) \in {r.failed, r.failed \union {a}}
      OBVIOUS
    <3> QED BY <3>1, <3>2, <3>3
  <2> DEFINE t == [r EXCEPT !.todo = @ \ {a}, !.failed = failed]
  <2>2. /\ t \in RepairType /\ t.pc = "refresh" /\ t.kind = r.kind /\ t.pool = r.pool /\ t.flagged = r.flagged
        /\ t.todo = r.todo \ {a} /\ t.failed = failed /\ t.got = r.got
    BY <1>1 DEF RepairType
  <2> HIDE DEF t
  <2>3. SnapshotOK(t) /\ NewerOK(t)
    BY <1>1, <2>1, <2>2 DEF SnapshotOK, NewerOK
  <2> QED BY <2>1, <2>2, <2>3, RecordStep DEF t
<1> QED BY <1>2, <1>3

LEMMA LoopKeeps ==
  ASSUME RepairInv, NEW p \in Repairs, NEW a \in Holders,
         \/ RefreshRotates(p, a) \/ RefreshJoins(p, a) \/ TakeCodexCli(p, a)
         \/ \E hard \in BOOLEAN : RefreshFails(p, a, hard)
  PROVE  RepairInv'
<1>1. newest \in TokenFile /\ repair[p] \in RepairType
  BY DEF RepairInv, FilesOK
<1>2. Held(p, a) \in Nat /\ newest[a] \in Nat
  BY <1>1 DEF Held, RepairType, TokenFile
<1>3. repair[p].kind \in {"verify", "verifyKeep"} => Held(p, a) = repair[p].flagged[a]
  BY DEF Held, Flags
<1>4. Due(p, a) /\ UNCHANGED <<files, forsaken>>
  BY DEF RefreshRotates, RefreshJoins, TakeCodexCli, RefreshFails
<1>5. CASE RefreshRotates(p, a)
  <2>1. newest' \in TokenFile /\ newest'[a] = Held(p, a) + 1 /\ Learn(p, a, newest'[a])
    BY <1>1, <1>2, <1>5 DEF RefreshRotates, TokenFile
  <2>2. newest'[a] \in Nat /\ newest'[a] > Held(p, a)
    BY <1>2, <2>1
  <2> QED BY <1>3, <1>4, <2>1, <2>2, TurnKeeps
<1>6. CASE RefreshJoins(p, a)
  <2>1. newest' \in TokenFile /\ Learn(p, a, Held(p, a) + 1) /\ Held(p, a) + 1 \in Nat /\ Held(p, a) + 1 > Held(p, a)
    BY <1>1, <1>2, <1>6 DEF RefreshJoins
  <2> QED BY <1>3, <1>4, <2>1, TurnKeeps
<1>7. CASE TakeCodexCli(p, a)
  <2>1. newest' \in TokenFile /\ repair[p].kind = "runtimeVerify" /\ \E token \in Nat : Learn(p, a, token)
    BY <1>1, <1>2, <1>7 DEF TakeCodexCli
  <2> QED BY <1>4, <2>1, TurnKeeps
<1>8. ASSUME NEW hard \in BOOLEAN, RefreshFails(p, a, hard) PROVE RepairInv'
  <2>1. newest' \in TokenFile
    BY <1>1, <1>8 DEF RefreshFails
  <2> QED BY <1>4, <1>8, <2>1, TurnKeeps DEF RefreshFails
<1> QED BY <1>5, <1>6, <1>7, <1>8

-----------------------------------------------------------------------------
(* Commits of one write. *)

\* A command that ends with a single write, or with none.
LEMMA LastWrite ==
  ASSUME RepairInv, NEW p \in Repairs, Finish(p), Unlocked(p), FilesOK', NotLost'
  PROVE  RepairInv'
<1> DEFINE t == [Inactive EXCEPT !.pc = "done"]
<1>1. t \in RepairType /\ SnapshotOK(t) /\ NewerOK(t) /\ CommitOK(t)'
  BY FinishedOK
<1>2. repair' = [repair EXCEPT ![p] = t]
  BY DEF Finish
<1> HIDE DEF t
<1> QED BY <1>1, <1>2, CommitStep

LEMMA PoolCommitsKeep ==
  ASSUME RepairInv, NEW p \in Repairs,
         FixCommits(p) \/ DoctorCommits(p) \/ (\E a, survivor \in Holders : DoctorFallsBack(p, a, survivor)) \/ CheckSavesPool(p)
  PROVE  RepairInv'
<1> DEFINE r == repair[p]
<1>1. /\ r \in RepairType /\ SnapshotOK(r) /\ FilesOK /\ NotLost
      /\ Finish(p) /\ Unlocked(p) /\ UNCHANGED <<flaggedFile, newest>>
  BY DEF RepairInv, FixCommits, DoctorCommits, DoctorFallsBack, CheckSavesPool
<1>2. CASE FixCommits(p)
  <2>1. PICK off \in DisablesDead(p) :
          LET here == Changed(p, off) \intersect In(poolFile) IN
          /\ poolFile' = [a \in Holders |-> FixedToken(p, off, a)]
          /\ poolEnabled' = (poolEnabled \union (here \intersect r.enabled)) \ (here \intersect off)
    BY <1>2 DEF FixCommits
  <2>2. off \subseteq r.failed
    BY <2>1 DEF DisablesDead
  <2>3. r.failed \subseteq In(r.pool)
    BY <1>1, <1>2 DEF FixCommits, SnapshotOK, Flags
  <2>4. ASSUME NEW a \in Holders
        PROVE  /\ poolFile'[a] = FixedToken(p, off, a) /\ FixedToken(p, off, a) \in Nat
               /\ poolFile[a] # 0 <=> FixedToken(p, off, a) # 0
    <3>1. poolFile[a] \in Nat /\ r.got[a] \in Nat /\ r.pool[a] \in Nat
      BY <1>1 DEF FilesOK, RepairType, TokenFile
    <3>2. a \in Changed(p, off) => r.got[a] # 0 \/ r.pool[a] # 0
      BY <2>2, <2>3 DEF Changed, In
    <3> QED BY <2>1, <3>1, <3>2 DEF FixedToken
  <2>5. poolFile' \in TokenFile /\ In(poolFile)' = In(poolFile)
    BY <2>1, <2>4 DEF TokenFile, In
  <2>6. FilesOK' /\ NotLost'
    BY <1>1, <1>2, <2>1, <2>4, <2>5 DEF FixCommits, FilesOK, NotLost
  <2> QED BY <1>1, <2>6, LastWrite
<1>3. CASE DoctorCommits(p)
  <2>1. ASSUME NEW a \in Holders PROVE poolFile'[a] \in Nat /\ (poolFile[a] # 0 => poolFile'[a] # 0)
    BY <1>1, <1>3 DEF DoctorCommits, FilesOK, RepairType, TokenFile
  <2>2. poolFile' \in TokenFile /\ In(poolFile) \subseteq In(poolFile)'
    BY <1>3, <2>1 DEF DoctorCommits, TokenFile, In
  <2>3. poolEnabled' \subseteq In(poolFile)
    BY <1>1, <1>3 DEF DoctorCommits, Reenabled, FilesOK
  <2>4. FilesOK' /\ NotLost'
    BY <1>1, <1>3, <2>1, <2>2, <2>3 DEF DoctorCommits, FilesOK, NotLost
  <2> QED BY <1>1, <2>4, LastWrite
<1>4. ASSUME NEW a \in Holders, NEW survivor \in Holders, DoctorFallsBack(p, a, survivor) PROVE RepairInv'
  <2>1. CASE UNCHANGED <<poolFile, poolEnabled, forsaken>>
    <3>1. FilesOK' /\ NotLost'
      BY <1>1, <2>1 DEF FilesOK, NotLost, In
    <3> QED BY <1>1, <3>1, LastWrite
  <2>2. CASE /\ survivor \in In(poolFile)
             /\ poolFile' = [poolFile EXCEPT ![survivor] = 0, ![a] = r.got[a]]
             /\ poolEnabled' = (poolEnabled \ {survivor}) \union {a}
             /\ forsaken' = forsaken \union {survivor}
    <3>1. r.got[a] \in Nat /\ r.got[a] # 0 /\ poolFile[a] = 0
      BY <1>1, <1>4 DEF DoctorFallsBack, RepairType, TokenFile
    <3>2. ASSUME NEW b \in Holders
          PROVE  poolFile'[b] \in Nat /\ (b \in poolEnabled' => poolFile'[b] # 0)
                 /\ (poolFile[b] # 0 /\ b # survivor => poolFile'[b] # 0)
      BY <1>1, <2>2, <3>1 DEF FilesOK, TokenFile, In
    <3>3. poolFile' \in TokenFile /\ poolEnabled' \subseteq In(poolFile)'
      BY <1>1, <2>2, <3>1, <3>2 DEF FilesOK, TokenFile, In
    <3>4. FilesOK' /\ NotLost'
      BY <1>1, <2>2, <3>2, <3>3 DEF FilesOK, NotLost
    <3> QED BY <1>1, <3>4, LastWrite
  <2> QED BY <1>4, <2>1, <2>2 DEF DoctorFallsBack
<1>5. CASE CheckSavesPool(p)
  <2>1. CASE UNCHANGED <<poolFile, poolEnabled, forsaken>>
    <3>1. FilesOK' /\ NotLost'
      BY <1>1, <2>1 DEF FilesOK, NotLost, In
    <3> QED BY <1>1, <3>1, LastWrite
  <2>2. CASE /\ poolFile' = [a \in Holders |->
                   IF a \in r.failed \/ poolFile[a] = 0 THEN 0 ELSE IF r.got[a] # 0 THEN r.got[a] ELSE poolFile[a]]
             /\ poolEnabled' = poolEnabled \ r.failed
             /\ forsaken' = forsaken \union (In(r.flagged) \ In(flaggedFile))
    <3>1. r.failed \subseteq In(r.flagged)
      BY <1>1, <1>5 DEF CheckSavesPool, SnapshotOK
    <3>2. ASSUME NEW a \in Holders
          PROVE  poolFile'[a] \in Nat /\ (poolFile[a] # 0 /\ a \notin r.failed => poolFile'[a] # 0)
      BY <1>1, <2>2 DEF FilesOK, RepairType, TokenFile
    <3>3. poolFile' \in TokenFile /\ poolEnabled' \subseteq In(poolFile)'
      BY <1>1, <2>2, <3>2 DEF FilesOK, TokenFile, In
    <3>4. FilesOK' /\ NotLost'
      BY <1>1, <2>2, <3>1, <3>2, <3>3 DEF FilesOK, NotLost, In
    <3> QED BY <1>1, <3>4, LastWrite
  <2> QED BY <1>5, <2>1, <2>2 DEF CheckSavesPool
<1> QED BY <1>2, <1>3, <1>4, <1>5

LEMMA FlaggedCommitsKeep ==
  ASSUME RepairInv, NEW p \in Repairs, CheckSavesFlagged(p) \/ VerifyKeeps(p)
  PROVE  RepairInv'
<1> DEFINE r == repair[p]
<1>1. /\ r \in RepairType /\ SnapshotOK(r) /\ FilesOK /\ NotLost /\ Unlocked(p)
      /\ UNCHANGED <<poolFile, poolEnabled, newest>> /\ r.pc = "refresh"
  BY DEF RepairInv, CheckSavesFlagged, VerifyKeeps
<1>2. CASE CheckSavesFlagged(p)
  <2> DEFINE list == CheckFlagged(p)
             t == [r EXCEPT !.pc = "pool", !.flagged = list]
  <2>1. /\ flaggedFile' = list /\ forsaken' = forsaken \union Overwritten(list) /\ r.kind = "deepCheck"
        /\ repair' = [repair EXCEPT ![p] = t]
    BY <1>1, <1>2 DEF CheckSavesFlagged, RepairInv, RepairType
  <2>2. r.failed \subseteq In(r.pool) /\ r.todo \subseteq In(r.pool)
    BY <1>1, <2>1 DEF SnapshotOK, Flags
  <2>3. list \in TokenFile /\ r.failed \subseteq In(list)
    BY <1>1, <2>2 DEF CheckFlagged, RepairType, TokenFile, In
  <2> HIDE DEF list
  <2>4. FilesOK' /\ NotLost'
    BY <1>1, <2>1, <2>3 DEF FilesOK, NotLost, Overwritten, In
  <2>5. t \in RepairType /\ t.pc = "pool" /\ t.kind = r.kind /\ t.failed = r.failed /\ t.todo = r.todo /\ t.flagged = list /\ t.pool = r.pool
    BY <1>1, <2>3 DEF RepairType
  <2>6. PICK u : u = t
    OBVIOUS
  <2> HIDE DEF t
  <2>7. u \in RepairType /\ SnapshotOK(u) /\ NewerOK(u) /\ CommitOK(u)'
    BY <2>1, <2>2, <2>3, <2>5, <2>6 DEF SnapshotOK, NewerOK, CommitOK
  <2> QED BY <1>1, <2>1, <2>4, <2>6, <2>7, CommitStep
<1>3. CASE VerifyKeeps(p)
  <2>1. ASSUME NEW a \in Holders PROVE flaggedFile'[a] \in Nat /\ (flaggedFile[a] # 0 => flaggedFile'[a] # 0)
    BY <1>1, <1>3 DEF VerifyKeeps, Verified, FilesOK, RepairType, TokenFile
  <2>2. flaggedFile' \in TokenFile
    BY <1>1, <1>3, <2>1 DEF VerifyKeeps, FilesOK, TokenFile
  <2>3. FilesOK' /\ NotLost'
    BY <1>1, <1>3, <2>1, <2>2 DEF VerifyKeeps, FilesOK, NotLost, In
  <2> QED BY <1>1, <1>3, <2>3, LastWrite DEF VerifyKeeps
<1> QED BY <1>2, <1>3

-----------------------------------------------------------------------------
(* The transaction over both files. *)

LEMMA RestoreBeginsKeeps ==
  ASSUME RepairInv, NEW p \in Repairs, RestoreBegins(p)
  PROVE  RepairInv'
<1> DEFINE r == repair[p]
           list(back) == [a \in Holders |->
             IF a \in back THEN 0
             ELSE IF r.kind = "runtimeVerify" THEN r.flagged[a]
             ELSE IF a \in Verified(p) /\ flaggedFile[a] # 0 THEN r.got[a] ELSE flaggedFile[a]]
           t(back) == [r EXCEPT !.pc = "second", !.pool = poolFile, !.enabled = poolEnabled, !.flagged = list(back)]
<1>1. /\ r \in RepairType /\ NewerOK(r) /\ FilesOK /\ NotLost /\ Unlocked(p) /\ r.kind \in {"verify", "runtimeVerify"}
      /\ r.pc = "refresh" /\ UNCHANGED <<flaggedFile, newest, forsaken>>
  BY DEF RepairInv, RestoreBegins
<1>2. CASE Finish(p) /\ UNCHANGED <<poolFile, poolEnabled>>
  <2>1. FilesOK' /\ NotLost'
    BY <1>1, <1>2 DEF FilesOK, NotLost, In
  <2> QED BY <1>1, <1>2, <2>1, LastWrite
<1>3. ASSUME NEW back \in SUBSET {a \in Holders : r.got[a] # 0}, r.kind = "verify" => back \subseteq Verified(p),
             poolFile' = [a \in Holders |-> IF a \in back THEN r.got[a] ELSE poolFile[a]],
             poolEnabled' = poolEnabled \union back,
             repair' = [repair EXCEPT ![p].pc = "second", ![p].pool = poolFile,
                          ![p].enabled = poolEnabled, ![p].flagged = list(back)]
      PROVE  RepairInv'
  <2>1. ASSUME NEW a \in Holders
        PROVE  /\ r.got[a] \in Nat /\ r.flagged[a] \in Nat /\ flaggedFile[a] \in Nat /\ poolFile[a] \in Nat
               /\ poolFile'[a] = IF a \in back THEN r.got[a] ELSE poolFile[a]
    BY <1>1, <1>3 DEF FilesOK, RepairType, TokenFile
  <2>2. poolFile' \in TokenFile /\ (poolEnabled' \subseteq In(poolFile)') /\ In(poolFile) \subseteq In(poolFile)'
    BY <1>1, <1>3, <2>1 DEF FilesOK, TokenFile, In
  <2>3. FilesOK' /\ NotLost'
    BY <1>1, <2>2 DEF FilesOK, NotLost, In
  <2>4. list(back) \in TokenFile
    BY <1>1, <2>1 DEF TokenFile
  <2>5. r.kind = "verify" => \A a \in Holders :
          /\ list(back)[a] = 0 \/ list(back)[a] >= flaggedFile[a]
          /\ flaggedFile[a] # 0 /\ list(back)[a] = 0 => poolFile'[a] # 0
    <3> SUFFICES ASSUME r.kind = "verify", NEW a \in Holders
                 PROVE  /\ list(back)[a] = 0 \/ list(back)[a] >= flaggedFile[a]
                        /\ flaggedFile[a] # 0 /\ list(back)[a] = 0 => poolFile'[a] # 0
      OBVIOUS
    <3>1. a \in Verified(p) /\ flaggedFile[a] # 0 => r.got[a] > flaggedFile[a]
      BY <1>1, <2>1 DEF Verified, Drifted, NewerOK
    <3>2. a \in Verified(p) => r.got[a] # 0
      BY DEF Verified
    <3> QED BY <1>3, <2>1, <3>1, <3>2
  <2>6. repair' = [repair EXCEPT ![p] = t(back)]
    BY <1>1, <1>3 DEF RepairInv, RepairType
  <2> HIDE DEF list
  <2>7. /\ t(back) \in RepairType /\ t(back).pc = "second" /\ t(back).kind = r.kind /\ t(back).pool = poolFile
        /\ t(back).enabled = poolEnabled /\ t(back).flagged = list(back)
    BY <1>1, <2>4 DEF RepairType, FilesOK, TokenFile, In
  <2>8. PICK u : u = t(back)
    OBVIOUS
  <2> HIDE DEF t
  <2>9. u \in RepairType /\ SnapshotOK(u) /\ NewerOK(u)
    BY <1>1, <2>7, <2>8 DEF SnapshotOK, NewerOK
  <2>10. CommitOK(u)'
    <3>1. u.enabled \subseteq In(u.pool) /\ \A a \in Holders \ forsaken : u.pool[a] # 0 \/ flaggedFile[a] # 0
      BY <1>1, <2>7, <2>8 DEF FilesOK, NotLost
    <3>2. u.kind = r.kind /\ u.flagged = list(back)
      BY <2>7, <2>8
    <3> QED BY <1>1, <2>5, <3>1, <3>2 DEF CommitOK, In
  <2> QED BY <1>1, <2>3, <2>6, <2>8, <2>9, <2>10, CommitStep
<1>4. PICK back \in IF r.kind = "verify" THEN Restorable(p) ELSE {{a \in Holders : r.got[a] # 0}} :
        \/ /\ poolFile' = [a \in Holders |-> IF a \in back THEN r.got[a] ELSE poolFile[a]]
           /\ poolEnabled' = poolEnabled \union back
           /\ repair' = [repair EXCEPT ![p].pc = "second", ![p].pool = poolFile,
                            ![p].enabled = poolEnabled, ![p].flagged = list(back)]
        \/ Finish(p) /\ UNCHANGED <<poolFile, poolEnabled>>
  BY DEF RestoreBegins
<1>5. r.kind = "verify" => back \subseteq Verified(p)
  BY <1>4 DEF Restorable
<1>6. back \subseteq {a \in Holders : r.got[a] # 0}
  BY <1>4, <1>5 DEF Verified
<1> HIDE DEF list, t
<1> QED BY <1>2, <1>3, <1>4, <1>5, <1>6

LEMMA RestoreEndsKeeps ==
  ASSUME RepairInv, NEW p \in Repairs, RestoreEnds(p) \/ RestoreRollsBack(p)
  PROVE  RepairInv'
<1> DEFINE r == repair[p]
<1>1. /\ r \in RepairType /\ CommitOK(r) /\ FilesOK /\ NotLost /\ UNCHANGED newest
      /\ r.pc \in {"second", "rollback"}
  BY DEF RepairInv, RestoreEnds, RestoreRollsBack
<1>2. Unlocked(p)
  BY <1>1 DEF RepairInv, OneCommits, Unlocked, Committing
<1>3. CASE r.pc = "second" /\ Finish(p) /\ flaggedFile' = r.flagged /\ UNCHANGED <<poolFile, poolEnabled>>
           /\ forsaken' = IF r.kind = "verify" THEN forsaken ELSE forsaken \union Overwritten(r.flagged)
  <2>1. flaggedFile' \in TokenFile
    BY <1>1, <1>3 DEF RepairType
  <2>2. ASSUME NEW a \in Holders \ forsaken' PROVE poolFile'[a] # 0 \/ flaggedFile'[a] # 0
    BY <1>1, <1>3 DEF NotLost, CommitOK, Overwritten
  <2>3. FilesOK' /\ NotLost'
    BY <1>1, <1>3, <2>1, <2>2 DEF FilesOK, NotLost, In
  <2> QED BY <1>2, <1>3, <2>3, LastWrite
<1>4. CASE r.pc = "second" /\ Go(p, "rollback") /\ UNCHANGED <<poolFile, poolEnabled, flaggedFile, forsaken>>
  <2> DEFINE t == [r EXCEPT !.pc = "rollback"]
  <2>1. t \in RepairType /\ t.pc = "rollback" /\ t.enabled = r.enabled /\ t.pool = r.pool /\ t.kind = r.kind
    BY <1>1 DEF RepairType
  <2>2. repair' = [repair EXCEPT ![p] = t]
    BY <1>1, <1>4 DEF Go, RepairInv, RepairType
  <2>3. PICK u : u = t
    OBVIOUS
  <2> HIDE DEF t
  <2>4. u \in RepairType /\ SnapshotOK(u) /\ NewerOK(u) /\ CommitOK(u)'
    BY <1>1, <1>4, <2>1, <2>3 DEF SnapshotOK, NewerOK, CommitOK, In
  <2>5. FilesOK' /\ NotLost'
    BY <1>1, <1>4 DEF FilesOK, NotLost, In
  <2> QED BY <1>2, <2>2, <2>3, <2>4, <2>5, CommitStep
<1>5. CASE RestoreRollsBack(p)
  <2>1. CASE UNCHANGED <<poolFile, poolEnabled>>
    <3>1. FilesOK' /\ NotLost'
      BY <1>1, <1>5, <2>1 DEF RestoreRollsBack, FilesOK, NotLost, In
    <3> QED BY <1>2, <1>5, <3>1, LastWrite DEF RestoreRollsBack
  <2>2. CASE poolFile' = r.pool /\ poolEnabled' = r.enabled
    <3>1. poolFile' \in TokenFile /\ poolEnabled' \subseteq In(poolFile)'
      BY <1>1, <2>2 DEF RepairType, CommitOK, In
    <3>2. FilesOK' /\ NotLost'
      BY <1>1, <1>5, <2>2, <3>1 DEF RestoreRollsBack, FilesOK, NotLost, CommitOK
    <3> QED BY <1>2, <1>5, <3>2, LastWrite DEF RestoreRollsBack
  <2> QED BY <1>5, <2>1, <2>2 DEF RestoreRollsBack
<1> QED BY <1>3, <1>4, <1>5 DEF RestoreEnds

-----------------------------------------------------------------------------
(* Deaths, and what the others do meanwhile. *)

LEMMA OthersKeep ==
  ASSUME RepairInv,
         \/ \E p \in Repairs : RepairDies(p)
         \/ \E a \in Holders : RuntimeRotates(a) \/ Revoke(a) \/ DeleteAccount(a)
  PROVE  RepairInv'
<1>1. ASSUME NEW p \in Repairs, RepairDies(p) PROVE RepairInv'
  <2> DEFINE t == [Inactive EXCEPT !.pc = "done"]
  <2>1. t \in RepairType /\ t.pc = "done" /\ SnapshotOK(t) /\ NewerOK(t)
    BY FinishedOK
  <2>2. repair' = [repair EXCEPT ![p] = t] /\ UNCHANGED <<files, forsaken>> /\ newest' \in TokenFile
    BY <1>1 DEF RepairDies, Finish, RepairInv, FilesOK
  <2> HIDE DEF t
  <2> QED BY <2>1, <2>2, RecordStep
<1>2. ASSUME NEW a \in Holders, Revoke(a) PROVE RepairInv'
  BY <1>2 DEF Revoke, files, RepairInv, FilesOK, NotLost, SnapshotOK, NewerOK, CommitOK, OneCommits, Committing, In, Flags
<1>3. ASSUME UNCHANGED repair, \A p \in Repairs : ~Committing(p), FilesOK', NotLost' PROVE RepairInv'
  BY <1>3 DEF RepairInv, SnapshotOK, NewerOK, CommitOK, OneCommits, Committing, In, Flags
<1>4. ASSUME NEW a \in Holders, RuntimeRotates(a) PROVE RepairInv'
  <2>1. FilesOK /\ NotLost
    BY DEF RepairInv
  <2>2. newest' \in TokenFile /\ poolFile' \in TokenFile /\ In(poolFile) \subseteq In(poolFile)'
    BY <1>4, <2>1 DEF RuntimeRotates, FilesOK, TokenFile, In
  <2>3. FilesOK' /\ NotLost'
    BY <1>4, <2>1, <2>2 DEF RuntimeRotates, FilesOK, NotLost, In
  <2> QED BY <1>3, <1>4, <2>3 DEF RuntimeRotates
<1>5. ASSUME NEW a \in Holders, DeleteAccount(a) PROVE RepairInv'
  <2>1. FilesOK /\ NotLost
    BY DEF RepairInv
  <2>2. poolFile' \in TokenFile /\ flaggedFile' \in TokenFile
    BY <1>5, <2>1 DEF DeleteAccount, FilesOK, TokenFile
  <2>3. \A b \in Holders \ {a} : poolFile'[b] = poolFile[b] /\ flaggedFile'[b] = flaggedFile[b]
    BY <1>5, <2>1 DEF DeleteAccount, FilesOK, TokenFile
  <2>4. FilesOK' /\ NotLost'
    BY <1>5, <2>1, <2>2, <2>3 DEF DeleteAccount, FilesOK, NotLost, In
  <2> QED BY <1>3, <1>5, <2>4 DEF DeleteAccount
<1> QED BY <1>1, <1>2, <1>4, <1>5

LEMMA RepairInvNext == RepairInv /\ [RepairNext]_repairVars => RepairInv'
<1> SUFFICES ASSUME RepairInv, [RepairNext]_repairVars PROVE RepairInv'
  OBVIOUS
<1>1. CASE UNCHANGED repairVars
  BY <1>1 DEF repairVars, RepairInv, FilesOK, NotLost, SnapshotOK, NewerOK, CommitOK, OneCommits, Committing, In, Flags
<1>2. CASE RepairNext
  BY <1>2, BeginKeeps, LoopKeeps, PoolCommitsKeep, FlaggedCommitsKeep, RestoreBeginsKeeps, RestoreEndsKeeps, OthersKeep
  DEF RepairNext
<1> QED BY <1>1, <1>2

\* The inductive invariant: under the lock, between the two writes of a move, what
\* the roll back restores and what the second write leaves account for everybody.
THEOREM RepairInvariant == RepairSpec => []RepairInv
BY RepairInvInit, RepairInvNext, PTL DEF RepairSpec

\* Whichever of the two writes fails, wherever a command dies, and whatever other
\* commands, runtimes and deletions do between a command's snapshot and its commit,
\* an account that nobody let go of is in the pool file or in the flagged file.
THEOREM NeverLost == RepairSpec => []NotLost
<1>1. RepairInv => NotLost
  BY DEF RepairInv
<1> QED BY <1>1, RepairInvariant, PTL

\* Neither form of the CLI's verify-flagged takes a flagged credential back to an
\* older one (hasFlaggedRefreshTokenDrift).
THEOREM NeverOlder == RepairSpec => [][FlaggedNeverOlder]_repairVars
<1>1. RepairInv /\ [RepairNext]_repairVars => [FlaggedNeverOlder]_repairVars
  <2> SUFFICES ASSUME RepairInv, RepairNext, NEW p \in Repairs, NEW a \in Holders,
                      repair[p].kind \in {"verify", "verifyKeep"}, repair[p].pc # repair'[p].pc
               PROVE  flaggedFile'[a] = 0 \/ flaggedFile'[a] >= flaggedFile[a]
    BY DEF FlaggedNeverOlder
  <2> DEFINE r == repair[p]
  <2>1. r \in RepairType /\ NewerOK(r) /\ CommitOK(r) /\ flaggedFile[a] \in Nat /\ r.got[a] \in Nat
    BY DEF RepairInv, FilesOK, TokenFile, RepairType
  <2>2. CASE UNCHANGED flaggedFile
    BY <2>1, <2>2
  <2>3. CASE VerifyKeeps(p)
    <3>1. a \in Verified(p) /\ flaggedFile[a] # 0 => r.got[a] > flaggedFile[a]
      BY <2>1, <2>3 DEF VerifyKeeps, Verified, Drifted, NewerOK
    <3> QED BY <2>1, <2>3, <3>1 DEF VerifyKeeps
  <2>4. CASE RestoreEnds(p)
    <3>1. r.pc = "second" /\ (flaggedFile' = r.flagged \/ UNCHANGED flaggedFile)
      BY <2>4 DEF RestoreEnds
    <3>2. r.kind = "verify"
      BY <2>1, <3>1 DEF CommitOK
    <3> QED BY <2>1, <2>2, <3>1, <3>2 DEF CommitOK
  <2>5. CASE CheckSavesFlagged(p)
    BY <2>5 DEF CheckSavesFlagged
  <2>6. ASSUME NEW o \in Repairs, o # p, CheckSavesFlagged(o) \/ VerifyKeeps(o) \/ RestoreEnds(o) PROVE FALSE
    <3>1. \E t : repair' = [repair EXCEPT ![o] = t]
      BY <2>6 DEF CheckSavesFlagged, VerifyKeeps, RestoreEnds, Finish, Go
    <3>2. repair'[p] = repair[p]
      BY <2>6, <3>1 DEF RepairInv
    <3> QED BY <3>2
  <2>7. UNCHANGED repair \/ UNCHANGED flaggedFile
        \/ \E o \in Repairs : CheckSavesFlagged(o) \/ VerifyKeeps(o) \/ RestoreEnds(o)
    <3>1. ASSUME NEW o \in Repairs,
                 \/ \E kind \in RepairKinds[o] : Begin(o, kind)
                 \/ \E b \in Holders :
                      \/ RefreshRotates(o, b) \/ RefreshJoins(o, b) \/ TakeCodexCli(o, b)
                      \/ \E hard \in BOOLEAN : RefreshFails(o, b, hard)
                 \/ RepairDies(o)
          PROVE  UNCHANGED flaggedFile
      BY <3>1 DEF files, Begin, RefreshRotates, RefreshJoins, TakeCodexCli, RefreshFails, RepairDies
    <3>2. ASSUME NEW o \in Repairs,
                 \/ FixCommits(o) \/ DoctorCommits(o) \/ CheckSavesPool(o) \/ RestoreBegins(o) \/ RestoreRollsBack(o)
                 \/ \E b, survivor \in Holders : DoctorFallsBack(o, b, survivor)
          PROVE  UNCHANGED flaggedFile
      BY <3>2 DEF FixCommits, DoctorCommits, DoctorFallsBack, CheckSavesPool, RestoreBegins, RestoreRollsBack
    <3>3. ASSUME NEW b \in Holders, RuntimeRotates(b) \/ Revoke(b) \/ DeleteAccount(b)
          PROVE  UNCHANGED repair \/ UNCHANGED flaggedFile
      BY <3>3 DEF RuntimeRotates, Revoke, DeleteAccount
    <3> QED BY <3>1, <3>2, <3>3 DEF RepairNext
  <2> QED BY <2>2, <2>3, <2>4, <2>5, <2>6, <2>7
<1> QED BY <1>1, RepairInvariant, PTL DEF RepairSpec

-----------------------------------------------------------------------------
(* The websocket relay. *)

\* The socket that create c was last sent on.
LastSent(c) == sends[c][Len(sends[c])].socket

Stages == {"none", "route", "open", "http", "sent", "stream"}
Accepted == [create : Creates, gen : Nat]
Serving == [create : Creates \cup {NoCreate}, at : Stages,
            key : Credentials \cup {NoCreate}, socket : Nat, routes : Nat, aborted : BOOLEAN]
Sent == [socket : Nat, delta : BOOLEAN]
Results == {"new", "queued", "queue full", "skipped", "not found", "cancelled", "failed", "done", "disconnected"}
InterruptStates == {"none", "asked", "accepted", "failed", "dropped"}

RelayTypeOK ==
  /\ queue \in Seq(Accepted) /\ generation \in Nat /\ current \in Serving
  /\ previous \in [Creates -> Creates \cup {NoCreate}]
  /\ channels \in [Credentials -> Nat] /\ sockets \subseteq Nat /\ lastSocket \in Nat
  /\ owners \in [Creates -> Nat]
  /\ result \in [Creates -> Results] /\ sends \in [Creates -> Seq(Sent)]
  /\ interrupts \in [Creates -> InterruptStates]
  /\ answers \in [Creates -> Nat]
  /\ ambiguous \subseteq Creates /\ withdrawn \subseteq Creates

\* A create is either waiting, once, or being served, or it has its result.
ServedOnce ==
  /\ \A i \in DOMAIN queue : /\ queue[i].create # current.create /\ result[queue[i].create] = "queued"
                             /\ queue[i].gen <= generation /\ sends[queue[i].create] = <<>>
  /\ \A i, j \in DOMAIN queue : queue[i].create = queue[j].create => i = j
  /\ \A c \in Creates : result[c] = "new" => sends[c] = <<>>
  /\ current.at = "none" <=> current.create = NoCreate
  /\ current.at # "none" => result[current.create] = "queued"

\* The socket a create was sent on last is known while it is served, and it owns the
\* response from the first event on.
OwnerTrue ==
  /\ current.at \in {"sent", "stream"} => sends[current.create] # <<>> /\ LastSent(current.create) = current.socket
  /\ \A c \in Creates : owners[c] # 0 =>
       sends[c] # <<>> /\ LastSent(c) = owners[c] /\ (current.create = c => current.at = "stream")

\* What a create continues is done.
DeltaTrue ==
  \A c \in Creates :
    /\ previous[c] # NoCreate => result[previous[c]] = "done" /\ result[c] # "new"
    /\ \A i \in DOMAIN sends[c] : sends[c][i].delta =>
         previous[c] # NoCreate /\ sends[previous[c]] # <<>> /\ sends[c][i].socket = LastSent(previous[c])

WithdrawnTrue ==
  /\ \A c \in ambiguous : result[c] = "disconnected"
  /\ \A c \in withdrawn :
       /\ result[c] # "new" /\ (current.create = c => current.aborted /\ current.at \in {"route", "open"})
       /\ \A i \in DOMAIN queue : queue[i].create = c => queue[i].gen < generation

InterruptsTrue == \A c \in Creates : answers[c] = IF interrupts[c] \in {"accepted", "failed"} THEN 1 ELSE 0

RelayInv == RelayTypeOK /\ ServedOnce /\ OwnerTrue /\ DeltaTrue /\ WithdrawnTrue /\ InterruptsTrue


LEMMA TailFacts ==
  ASSUME NEW S, NEW s \in Seq(S), s # <<>>
  PROVE  /\ Head(s) = s[1] /\ 1 \in DOMAIN s /\ Tail(s) \in Seq(S) /\ s[1] \in S
         /\ \A i \in DOMAIN Tail(s) : i + 1 \in DOMAIN s /\ Tail(s)[i] = s[i + 1] /\ i + 1 # 1 /\ i \in Nat
OBVIOUS
LEMMA AppendFacts ==
  ASSUME NEW S, NEW s \in Seq(S), NEW x \in S
  PROVE  /\ Append(s, x) \in Seq(S) /\ Append(s, x) # <<>> /\ Len(Append(s, x)) = Len(s) + 1
         /\ Append(s, x)[Len(Append(s, x))] = x
         /\ \A i \in DOMAIN Append(s, x) : (i \in DOMAIN s /\ Append(s, x)[i] = s[i]) \/ (i = Len(s) + 1 /\ Append(s, x)[i] = x /\ i \notin DOMAIN s)
OBVIOUS

LEMMA RelayShape ==
  ASSUME RelayInv
  PROVE  /\ \A i \in DOMAIN queue : queue[i].create \in Creates /\ queue[i].gen \in Nat
         /\ current.create \in Creates \cup {NoCreate} /\ current.aborted \in BOOLEAN /\ current.socket \in Nat
         /\ current.routes \in Nat /\ current.key \in Credentials \cup {NoCreate} /\ current.at \in Stages
         /\ result \in [Creates -> Results] /\ sends \in [Creates -> Seq(Sent)]
         /\ previous \in [Creates -> Creates \cup {NoCreate}] /\ owners \in [Creates -> Nat]
         /\ channels \in [Credentials -> Nat] /\ generation \in Nat /\ ambiguous \subseteq Creates /\ withdrawn \subseteq Creates
<1>1. \A i \in DOMAIN queue : queue[i] \in Accepted
  BY DEF RelayInv, RelayTypeOK
<1>2. current \in Serving
  BY DEF RelayInv, RelayTypeOK
<1>3. \A i \in DOMAIN queue : queue[i].create \in Creates /\ queue[i].gen \in Nat
  BY <1>1 DEF Accepted
<1>4. /\ current.create \in Creates \cup {NoCreate} /\ current.aborted \in BOOLEAN /\ current.socket \in Nat
      /\ current.routes \in Nat /\ current.key \in Credentials \cup {NoCreate} /\ current.at \in Stages
  BY <1>2 DEF Serving
<1> QED BY <1>3, <1>4 DEF RelayInv, RelayTypeOK


\* The create being served, moved on by a step that neither replaces nor aborts it.
ServingMoved(r, stage, k, s, n) == [create |-> r.create, at |-> stage, key |-> k, socket |-> s, routes |-> n, aborted |-> r.aborted]

LEMMA ServingAborted ==
  ASSUME NEW r \in Serving, NEW b \in BOOLEAN, NEW q, q = [r EXCEPT !.aborted = b]
  PROVE  q \in Serving /\ q.create = r.create /\ q.at = r.at /\ q.socket = r.socket /\ q.aborted = b
BY DEF Serving

LEMMA ServingFree == Free \in Serving /\ Free.create = NoCreate /\ Free.at = "none"
BY DEF Serving, Free, Stages

LEMMA ServingStart ==
  ASSUME NEW c \in Creates, NEW q, q = [Free EXCEPT !.create = c, !.at = "route"]
  PROVE  q \in Serving /\ q.create = c /\ q.at = "route"
BY DEF Serving, Free, Stages

LEMMA RelayInvInit == RelayInit => RelayInv
<1> SUFFICES ASSUME RelayInit PROVE RelayInv
  OBVIOUS
<1>1. /\ queue = <<>> /\ generation = 0 /\ current = Free /\ previous = [c \in Creates |-> NoCreate]
      /\ channels = [k \in Credentials |-> 0] /\ sockets = {} /\ lastSocket = 0
      /\ owners = [c \in Creates |-> 0] /\ interrupts = [c \in Creates |-> "none"] /\ answers = [c \in Creates |-> 0]
      /\ result = [c \in Creates |-> "new"] /\ ambiguous = {} /\ withdrawn = {} /\ sends = [c \in Creates |-> <<>>]
  BY DEF RelayInit
<1>2. queue \in Seq(Accepted) /\ <<>> \in Seq(Sent) /\ DOMAIN queue = {}
  BY <1>1
<1>3. RelayTypeOK BY <1>1, <1>2, ServingFree DEF RelayTypeOK, Results, InterruptStates
<1>4. ServedOnce BY <1>1, <1>2, ServingFree DEF ServedOnce
<1>5. OwnerTrue BY <1>1, ServingFree DEF OwnerTrue
<1>6. DeltaTrue
  <2>1. \A c \in Creates : previous[c] = NoCreate /\ sends[c] = <<>> /\ DOMAIN sends[c] = {}
    BY <1>1
  <2> QED BY <2>1 DEF DeltaTrue
<1>7. WithdrawnTrue /\ InterruptsTrue BY <1>1 DEF WithdrawnTrue, InterruptsTrue
<1> QED BY <1>3, <1>4, <1>5, <1>6, <1>7 DEF RelayInv

\* Steps that leave the queue, the current create and what was sent alone.
LEMMA SocketStep ==
  ASSUME RelayInv, UNCHANGED <<relayQueue, result, relayHistory>>, RelayTypeOK', InterruptsTrue',
         \A c \in Creates : owners'[c] \in {0, owners[c]}
  PROVE  RelayInv'
<1>1. UNCHANGED <<queue, generation, current, previous, result, ambiguous, withdrawn, sends>>
  BY DEF relayQueue, relayHistory
<1>2. ServedOnce' BY <1>1 DEF RelayInv, ServedOnce
<1>3. OwnerTrue' BY <1>1 DEF RelayInv, OwnerTrue, LastSent
<1>4. DeltaTrue' BY <1>1 DEF RelayInv, DeltaTrue, LastSent
<1>5. WithdrawnTrue' BY <1>1 DEF RelayInv, WithdrawnTrue
<1> QED BY <1>2, <1>3, <1>4, <1>5 DEF RelayInv

LEMMA CreatesKeep ==
  ASSUME RelayInv, NEW c \in Creates, NEW p \in (Creates \ {c}) \cup {NoCreate}, ClientCreates(c, p) PROVE RelayInv'
<1>0. /\ result[c] = "new" /\ (p # NoCreate => result[p] = "done")
      /\ UNCHANGED <<generation, current, relaySockets, interrupting, relayHistory>>
  BY DEF ClientCreates
<1>1. UNCHANGED <<generation, current, channels, sockets, lastSocket, owners, interrupts, answers, ambiguous, withdrawn, sends>>
  BY <1>0 DEF relaySockets, interrupting, relayHistory
<1>2. InterruptsTrue' BY <1>1 DEF RelayInv, InterruptsTrue
<1>3. OwnerTrue' BY <1>1 DEF RelayInv, OwnerTrue, LastSent
<1>4. CASE Len(queue) < MaxQueued
  <2> DEFINE q == [create |-> c, gen |-> generation]
  <2>1. queue' = Append(queue, q) /\ previous' = [previous EXCEPT ![c] = p] /\ result' = [result EXCEPT ![c] = "queued"]
    BY <1>4 DEF ClientCreates
  <2>2. queue \in Seq(Accepted) /\ q \in Accepted
    BY RelayShape DEF RelayInv, RelayTypeOK, Accepted
  <2>3. /\ queue' \in Seq(Accepted)
        /\ \A i \in DOMAIN queue' : \/ i \in DOMAIN queue /\ queue'[i] = queue[i]
                                    \/ i = Len(queue) + 1 /\ queue'[i] = q
    BY <2>1, <2>2, AppendFacts
  <2>4. q.create = c /\ q.gen = generation
    OBVIOUS
  <2>5. RelayTypeOK'
    <3>1. previous' \in [Creates -> Creates \cup {NoCreate}] BY <2>1 DEF RelayInv, RelayTypeOK
    <3>2. result' \in [Creates -> Results] BY <2>1 DEF RelayInv, RelayTypeOK, Results
    <3> QED BY <1>1, <2>3, <3>1, <3>2 DEF RelayInv, RelayTypeOK
  <2>6. /\ \A i \in DOMAIN queue : queue[i].create # c
        /\ current.create # c /\ sends[c] = <<>> /\ generation <= generation
    <3>1. current.create = c => current.at # "none" BY RelayAssumption DEF RelayInv, ServedOnce
    <3> QED BY <1>0, <3>1, RelayShape DEF RelayInv, ServedOnce
  <2>7. \A d \in Creates : result'[d] = IF d = c THEN "queued" ELSE result[d]
    BY <2>1, RelayShape
  <2>8. \A d \in Creates : previous'[d] = IF d = c THEN p ELSE previous[d]
    BY <2>1, RelayShape
  <2>9. ServedOnce'
    <3>1. \A i \in DOMAIN queue' : /\ queue'[i].create # current'.create /\ result'[queue'[i].create] = "queued"
                                   /\ queue'[i].gen <= generation' /\ sends'[queue'[i].create] = <<>>
      BY <1>1, <2>3, <2>4, <2>6, <2>7, RelayShape DEF RelayInv, ServedOnce
    <3>2. \A i, j \in DOMAIN queue' : queue'[i].create = queue'[j].create => i = j
      BY <2>3, <2>4, <2>6 DEF RelayInv, ServedOnce
    <3>3. \A d \in Creates : result'[d] = "new" => sends'[d] = <<>>
      BY <1>1, <2>7 DEF RelayInv, ServedOnce
    <3>4. current'.at # "none" => result'[current'.create] = "queued"
      BY <1>1, <2>6, <2>7, RelayShape DEF RelayInv, ServedOnce
    <3> QED BY <1>1, <3>1, <3>2, <3>3, <3>4 DEF RelayInv, ServedOnce
  <2>10. DeltaTrue'
    <3> SUFFICES ASSUME NEW d \in Creates
                 PROVE  /\ previous'[d] # NoCreate => result'[previous'[d]] = "done" /\ result'[d] # "new"
                        /\ \A i \in DOMAIN sends'[d] : sends'[d][i].delta =>
                             /\ previous'[d] # NoCreate /\ sends'[previous'[d]] # <<>>
                             /\ sends'[d][i].socket = (LastSent(previous[d]))'
      BY DEF DeltaTrue, LastSent
    <3>1. CASE d = c
      <4>1. DOMAIN sends'[d] = {} BY <1>1, <2>6, <3>1
      <4> QED BY <1>0, <2>7, <2>8, <3>1, <4>1
    <3>2. CASE d # c
      <4>1. previous'[d] = previous[d] /\ result'[d] = result[d] BY <2>7, <2>8, <3>2
      <4>2. previous[d] # NoCreate => previous[d] \in Creates /\ previous[d] # c
        BY <1>0, RelayShape DEF RelayInv, DeltaTrue
      <4>3. (LastSent(previous[d]))' = LastSent(previous[d]) BY <1>1, <4>1 DEF LastSent
      <4>4. previous[d] # NoCreate => result'[previous[d]] = result[previous[d]] BY <2>7, <4>2
      <4> QED BY <1>1, <4>1, <4>3, <4>4 DEF RelayInv, DeltaTrue
    <3> QED BY <3>1, <3>2
  <2>11. WithdrawnTrue'
    <3>1. c \notin ambiguous /\ c \notin withdrawn BY <1>0 DEF RelayInv, WithdrawnTrue
    <3>2. \A d \in ambiguous : result'[d] = "disconnected"
      BY <2>7, <3>1, RelayShape DEF RelayInv, WithdrawnTrue
    <3>3. \A d \in withdrawn : result'[d] # "new"
      BY <2>7, <3>1, RelayShape DEF RelayInv, WithdrawnTrue
    <3>4. \A d \in withdrawn : \A i \in DOMAIN queue' : queue'[i].create = d => queue'[i].gen < generation
      BY <2>3, <2>4, <3>1 DEF RelayInv, WithdrawnTrue
    <3> QED BY <1>1, <3>2, <3>3, <3>4 DEF RelayInv, WithdrawnTrue
  <2> QED BY <1>2, <1>3, <2>5, <2>9, <2>10, <2>11 DEF RelayInv
<1>5. CASE ~(Len(queue) < MaxQueued)
  <2>1. result' = [result EXCEPT ![c] = "queue full"] /\ UNCHANGED <<queue, previous>>
    BY <1>5 DEF ClientCreates
  <2>2. \A d \in Creates : result'[d] = IF d = c THEN "queue full" ELSE result[d]
    BY <2>1, RelayShape
  <2>3. result' \in [Creates -> Results] BY <2>1 DEF RelayInv, RelayTypeOK, Results
  <2>4. RelayTypeOK' BY <1>1, <2>1, <2>3 DEF RelayInv, RelayTypeOK
  <2>5. ServedOnce'
    <3>1. /\ \A i \in DOMAIN queue : queue[i].create # c
          /\ current.at # "none" => current.create \in Creates /\ current.create # c
      BY <1>0, RelayShape, RelayAssumption DEF RelayInv, ServedOnce
    <3>2. \A i \in DOMAIN queue : result'[queue[i].create] = result[queue[i].create]
      BY <2>2, <3>1, RelayShape
    <3>3. \A d \in Creates : result'[d] = "new" => sends'[d] = <<>>
      BY <1>1, <2>2 DEF RelayInv, ServedOnce
    <3>4. current'.at # "none" => result'[current'.create] = "queued"
      BY <1>1, <2>2, <3>1 DEF RelayInv, ServedOnce
    <3> QED BY <1>1, <2>1, <3>2, <3>3, <3>4 DEF RelayInv, ServedOnce
  <2>6. DeltaTrue'
    <3>1. \A d \in Creates : previous[d] # NoCreate => previous[d] \in Creates /\ previous[d] # c /\ d # c
      BY <1>0, RelayShape DEF RelayInv, DeltaTrue
    <3> QED BY <1>1, <2>1, <2>2, <3>1 DEF RelayInv, DeltaTrue, LastSent
  <2>7. WithdrawnTrue'
    <3>1. c \notin ambiguous /\ c \notin withdrawn BY <1>0 DEF RelayInv, WithdrawnTrue
    <3>2. \A d \in ambiguous \cup withdrawn : result'[d] = result[d]
      BY <2>2, <3>1, RelayShape
    <3> QED BY <1>1, <2>1, <3>2 DEF RelayInv, WithdrawnTrue
  <2> QED BY <1>2, <1>3, <2>4, <2>5, <2>6, <2>7 DEF RelayInv
<1> QED BY <1>4, <1>5

LEMMA CancelsKeep == ASSUME RelayInv, ClientCancels PROVE RelayInv'
<1>1. /\ generation' = generation + 1 /\ current' = [current EXCEPT !.aborted = current.at # "none"]
      /\ withdrawn' = withdrawn \cup {queue[i].create : i \in DOMAIN queue}
                                \cup (IF current.at \in {"route", "open"} THEN {current.create} ELSE {})
      /\ sockets' \subseteq sockets
      /\ UNCHANGED <<queue, previous, channels, lastSocket, owners, interrupts, answers, result, ambiguous, sends>>
  BY DEF ClientCancels, interrupting
<1>2. /\ current' \in Serving /\ current'.create = current.create /\ current'.at = current.at
      /\ current'.socket = current.socket /\ current'.aborted = (current.at # "none")
  <2> DEFINE busy == current.at # "none"
  <2>1. current \in Serving /\ busy \in BOOLEAN BY DEF RelayInv, RelayTypeOK
  <2>2. current' = [current EXCEPT !.aborted = busy] BY <1>1
  <2> HIDE DEF busy
  <2>3. /\ current' \in Serving /\ current'.create = current.create /\ current'.at = current.at
        /\ current'.socket = current.socket /\ current'.aborted = busy
    BY <2>1, <2>2, ServingAborted
  <2> QED BY <2>3 DEF busy
<1>3. current.at # "none" => current.create \in Creates
  BY RelayShape DEF RelayInv, ServedOnce
<1>4. RelayTypeOK'
  <2>1. withdrawn' \subseteq Creates BY <1>1, <1>3, RelayShape
  <2> QED BY <1>1, <1>2, <2>1 DEF RelayInv, RelayTypeOK
<1>5. ServedOnce'
  <2>1. \A i \in DOMAIN queue : queue[i].gen <= generation'
    BY <1>1, RelayShape DEF RelayInv, ServedOnce
  <2> QED BY <1>1, <1>2, <2>1 DEF RelayInv, ServedOnce
<1>6. OwnerTrue' BY <1>1, <1>2 DEF RelayInv, OwnerTrue, LastSent
<1>7. DeltaTrue' BY <1>1 DEF RelayInv, DeltaTrue, LastSent
<1>8. WithdrawnTrue'
  <2>1. \A i \in DOMAIN queue : queue[i].gen < generation'
    BY <1>1, RelayShape DEF RelayInv, ServedOnce
  <2>2. ASSUME NEW c \in withdrawn'
        PROVE  result[c] # "new" /\ (current.create = c => current.at \in {"route", "open"})
    <3>1. CASE c \in withdrawn BY <3>1 DEF RelayInv, WithdrawnTrue
    <3>2. CASE \E i \in DOMAIN queue : c = queue[i].create BY <3>2 DEF RelayInv, ServedOnce
    <3>3. CASE current.at \in {"route", "open"} /\ c = current.create BY <3>3 DEF RelayInv, ServedOnce
    <3> QED BY <1>1, <3>1, <3>2, <3>3
  <2> QED BY <1>1, <1>2, <2>1, <2>2 DEF RelayInv, WithdrawnTrue
<1>9. InterruptsTrue' BY <1>1 DEF RelayInv, InterruptsTrue
<1> QED BY <1>4, <1>5, <1>6, <1>7, <1>8, <1>9 DEF RelayInv

LEMMA ClosesKeeps == ASSUME RelayInv, ClientCloses PROVE RelayInv'
<1>1. /\ current' = [current EXCEPT !.aborted = current.at # "none"] /\ owners' = [c \in Creates |-> 0]
      /\ sockets' \subseteq sockets /\ channels' = [k \in Credentials |-> 0]
      /\ interrupts' = [c \in Creates |-> IF interrupts[c] = "asked" THEN "dropped" ELSE interrupts[c]]
      /\ UNCHANGED <<queue, generation, previous, lastSocket, answers, result, ambiguous, withdrawn, sends>>
  BY DEF ClientCloses, relayHistory
<1>2. /\ current' \in Serving /\ current'.create = current.create /\ current'.at = current.at
      /\ current'.socket = current.socket /\ current'.aborted = (current.at # "none")
  <2> DEFINE busy == current.at # "none"
  <2>1. current \in Serving /\ busy \in BOOLEAN BY DEF RelayInv, RelayTypeOK
  <2>2. current' = [current EXCEPT !.aborted = busy] BY <1>1
  <2> HIDE DEF busy
  <2>3. /\ current' \in Serving /\ current'.create = current.create /\ current'.at = current.at
        /\ current'.socket = current.socket /\ current'.aborted = busy
    BY <2>1, <2>2, ServingAborted
  <2> QED BY <2>3 DEF busy
<1>3. RelayTypeOK'
  <2>1. interrupts' \in [Creates -> InterruptStates] BY <1>1 DEF RelayInv, RelayTypeOK, InterruptStates
  <2>2. channels' \in [Credentials -> Nat] /\ owners' \in [Creates -> Nat] BY <1>1
  <2> QED BY <1>1, <1>2, <2>1, <2>2 DEF RelayInv, RelayTypeOK
<1>4. InterruptsTrue' BY <1>1 DEF RelayInv, InterruptsTrue
<1>5. ServedOnce' BY <1>1, <1>2 DEF RelayInv, ServedOnce
<1>6. OwnerTrue' BY <1>1, <1>2 DEF RelayInv, OwnerTrue, LastSent
<1>7. DeltaTrue' BY <1>1 DEF RelayInv, DeltaTrue, LastSent
<1>8. WithdrawnTrue' BY <1>1, <1>2 DEF RelayInv, WithdrawnTrue
<1> QED BY <1>3, <1>4, <1>5, <1>6, <1>7, <1>8 DEF RelayInv

\* A result for a create that was queued or served and did not end before.
LEMMA EndKeeps ==
  ASSUME RelayInv, NEW c \in Creates, result[c] = "queued", NEW how, result' = [result EXCEPT ![c] = how],
         how \notin {"new", "queued"}, UNCHANGED <<previous, sends>>
  PROVE  DeltaTrue' /\ \A d \in Creates : result'[d] = IF d = c THEN how ELSE result[d]
<1>1. \A d \in Creates : result'[d] = IF d = c THEN how ELSE result[d]
  BY RelayShape
<1>2. \A d \in Creates : previous[d] # NoCreate => previous[d] \in Creates /\ previous[d] # c
  BY RelayShape DEF RelayInv, DeltaTrue
<1>3. \A d \in Creates : (LastSent(previous[d]))' = LastSent(previous[d])
  BY DEF LastSent
<1> QED BY <1>1, <1>2, <1>3 DEF RelayInv, DeltaTrue

LEMMA QueueKeeps == ASSUME RelayInv, QueueDrops \/ QueueServes PROVE RelayInv'
<1> DEFINE c == Head(queue).create
<1>1. queue # <<>> /\ queue' = Tail(queue) /\ current.at = "none"
  BY DEF QueueDrops, QueueServes
<1>2. /\ Head(queue) = queue[1] /\ 1 \in DOMAIN queue /\ queue' \in Seq(Accepted)
      /\ \A i \in DOMAIN queue' : i + 1 \in DOMAIN queue /\ queue'[i] = queue[i + 1] /\ i + 1 # 1 /\ i \in Nat
  BY <1>1, TailFacts DEF RelayInv, RelayTypeOK
<1>3. c = queue[1].create /\ c \in Creates /\ result[c] = "queued" /\ sends[c] = <<>> /\ c # current.create
  BY <1>2, RelayShape DEF RelayInv, ServedOnce
<1>4. \A i \in DOMAIN queue' : queue'[i].create # c
  BY <1>2, <1>3 DEF RelayInv, ServedOnce
<1>5. UNCHANGED <<generation, previous, channels, sockets, lastSocket, owners, interrupts, answers, ambiguous, withdrawn, sends>>
  BY DEF QueueDrops, QueueServes, relaySockets, interrupting, relayHistory
<1>6. /\ \A i, j \in DOMAIN queue' : queue'[i].create = queue'[j].create => i = j
      /\ \A i \in DOMAIN queue' : /\ queue'[i].create \in Creates /\ result[queue'[i].create] = "queued"
                                  /\ queue'[i].create # current.create
                                  /\ queue'[i].gen <= generation /\ sends[queue'[i].create] = <<>>
  <2>1. ASSUME NEW i \in DOMAIN queue', NEW j \in DOMAIN queue', queue'[i].create = queue'[j].create PROVE i = j
    <3>1. i + 1 = j + 1 BY <1>2, <2>1 DEF RelayInv, ServedOnce
    <3> QED BY <1>2, <3>1
  <2> QED BY <1>2, <2>1, RelayShape DEF RelayInv, ServedOnce
<1>7. \A d \in withdrawn : \A i \in DOMAIN queue' : queue'[i].create = d => queue'[i].gen < generation
  BY <1>2 DEF RelayInv, WithdrawnTrue
<1>8. InterruptsTrue' BY <1>5 DEF RelayInv, InterruptsTrue
<1>9. CASE QueueDrops
  <2>1. PICK how \in {"skipped", "not found"} : result' = [result EXCEPT ![c] = how]
    BY <1>9 DEF QueueDrops
  <2>2. current' = current
    BY <1>9 DEF QueueDrops
  <2>3. DeltaTrue' /\ \A d \in Creates : result'[d] = IF d = c THEN how ELSE result[d]
    BY <1>3, <1>5, <2>1, EndKeeps
  <2>4. RelayTypeOK'
    <3>1. result' \in [Creates -> Results] BY <2>1 DEF RelayInv, RelayTypeOK, Results
    <3> QED BY <1>2, <1>5, <2>2, <3>1 DEF RelayInv, RelayTypeOK
  <2>5. ServedOnce'
    <3>1. \A i \in DOMAIN queue' : result'[queue'[i].create] = "queued"
      BY <1>4, <1>6, <2>3
    <3>2. current.at = "none" /\ current.create = NoCreate
      BY <1>1 DEF RelayInv, ServedOnce
    <3> QED BY <1>5, <1>6, <2>2, <2>3, <3>1, <3>2 DEF RelayInv, ServedOnce
  <2>6. OwnerTrue' BY <1>5, <2>2 DEF RelayInv, OwnerTrue, LastSent
  <2>7. WithdrawnTrue'
    <3>1. \A d \in ambiguous : result'[d] = "disconnected"
      BY <1>3, <2>3, RelayShape DEF RelayInv, WithdrawnTrue
    <3>2. \A d \in withdrawn : result'[d] # "new"
      BY <1>3, <2>3, RelayShape DEF RelayInv, WithdrawnTrue
    <3> QED BY <1>5, <1>7, <2>2, <3>1, <3>2 DEF RelayInv, WithdrawnTrue
  <2> QED BY <1>8, <2>3, <2>4, <2>5, <2>6, <2>7 DEF RelayInv
<1>10. CASE QueueServes
  <2>1. current' = [Free EXCEPT !.create = c, !.at = "route"] /\ result' = result /\ queue[1].gen = generation
    BY <1>2, <1>10 DEF QueueServes, Withdrawn
  <2>2. current' \in Serving /\ current'.create = c /\ current'.at = "route"
    BY <1>3, <2>1, ServingStart
  <2>3. RelayTypeOK' BY <1>2, <1>5, <2>1, <2>2 DEF RelayInv, RelayTypeOK
  <2>4. ServedOnce'
    BY <1>3, <1>4, <1>5, <1>6, <2>1, <2>2, RelayAssumption DEF RelayInv, ServedOnce
  <2>5. OwnerTrue'
    <3>1. owners[c] = 0 BY <1>3 DEF RelayInv, OwnerTrue
    <3> QED BY <1>5, <2>2, <3>1 DEF RelayInv, OwnerTrue, LastSent
  <2>6. DeltaTrue' BY <1>5, <2>1 DEF RelayInv, DeltaTrue, LastSent
  <2>7. WithdrawnTrue'
    <3>1. c \notin withdrawn
      BY <1>2, <1>3, <2>1, RelayShape DEF RelayInv, WithdrawnTrue
    <3> QED BY <1>5, <1>7, <2>1, <2>2, <3>1 DEF RelayInv, WithdrawnTrue
  <2> QED BY <1>8, <2>3, <2>4, <2>5, <2>6, <2>7 DEF RelayInv
<1> QED BY <1>9, <1>10

\* The current create ends with a result.
LEMMA EndedKeeps ==
  ASSUME RelayInv, NEW how \in Results \ {"new", "queued"}, current.at # "none", Ended(current.create, how),
         UNCHANGED <<queue, generation, previous, withdrawn, sends>>,
         channels' \in [Credentials -> Nat], sockets' \subseteq Nat, lastSocket' \in Nat, owners' \in [Creates -> Nat],
         \A c \in Creates : owners'[c] \in {0, owners[c]}, UNCHANGED interrupting,
         ambiguous' = ambiguous \/ (how = "disconnected" /\ ~current.aborted /\ ambiguous' = ambiguous \cup {current.create})
  PROVE  RelayInv'
<1> DEFINE c == current.create
<1>1. c \in Creates /\ result[c] = "queued"
  BY RelayShape DEF RelayInv, ServedOnce
<1>2. current' = Free /\ result' = [result EXCEPT ![c] = how]
  BY DEF Ended
<1> HIDE DEF c
<1>0. how \notin {"new", "queued"} /\ UNCHANGED <<previous, sends>>
  OBVIOUS
<1>3. DeltaTrue' /\ \A d \in Creates : result'[d] = IF d = c THEN how ELSE result[d]
  BY <1>0, <1>1, <1>2, EndKeeps, ZenonT(60)
<1> USE DEF c
<1>4. InterruptsTrue' /\ UNCHANGED <<interrupts, answers>> BY DEF RelayInv, InterruptsTrue, interrupting
<1>5. ambiguous' \subseteq ambiguous \cup {c} /\ (c \in ambiguous' => c \in ambiguous \/ how = "disconnected")
  OBVIOUS
<1>6. RelayTypeOK'
  <2>1. result' \in [Creates -> Results] BY <1>2 DEF RelayInv, RelayTypeOK
  <2>2. ambiguous' \subseteq Creates BY <1>1, <1>5 DEF RelayInv, RelayTypeOK
  <2> QED BY <1>2, <1>4, <2>1, <2>2, ServingFree DEF RelayInv, RelayTypeOK
<1>7. ServedOnce'
  <2>1. \A i \in DOMAIN queue : queue[i].create # c /\ queue[i].create \in Creates /\ queue[i].create # NoCreate
    BY RelayShape, RelayAssumption DEF RelayInv, ServedOnce
  <2>2. \A i \in DOMAIN queue : result'[queue[i].create] = "queued"
    BY <1>3, <2>1 DEF RelayInv, ServedOnce
  <2>3. \A d \in Creates : result'[d] = "new" => sends'[d] = <<>>
    BY <1>3 DEF RelayInv, ServedOnce
  <2> QED BY <1>2, <2>1, <2>2, <2>3, ServingFree DEF RelayInv, ServedOnce
<1>8. OwnerTrue'
  BY <1>2, ServingFree, RelayAssumption DEF RelayInv, OwnerTrue, LastSent
<1>9. WithdrawnTrue'
  <2>1. \A d \in ambiguous' : d \in Creates /\ result'[d] = "disconnected"
    BY <1>1, <1>3, <1>5, RelayShape DEF RelayInv, WithdrawnTrue
  <2>2. \A d \in withdrawn : d \in Creates /\ d # NoCreate /\ result'[d] # "new"
    BY <1>3, RelayShape, RelayAssumption DEF RelayInv, WithdrawnTrue
  <2> QED BY <1>2, <2>1, <2>2, ServingFree DEF RelayInv, WithdrawnTrue
<1> QED BY <1>3, <1>4, <1>6, <1>7, <1>8, <1>9 DEF RelayInv

\* The current create goes on: it keeps its abort, and what it was sent on is known.
LEMMA GoesOn ==
  ASSUME RelayInv, current.at # "none", UNCHANGED <<queue, generation, previous, result, ambiguous, withdrawn>>,
         current' \in Serving, current'.create = current.create, current'.aborted = current.aborted, current'.at # "none",
         current.aborted /\ current.at \in {"route", "open"} => current'.at = current.at,
         channels' \in [Credentials -> Nat], sockets' \subseteq Nat, lastSocket' \in Nat, owners' \in [Creates -> Nat],
         UNCHANGED interrupting, sends' \in [Creates -> Seq(Sent)],
         \A c \in Creates : c # current.create => sends'[c] = sends[c] /\ owners'[c] \in {0, owners[c]},
         sends' = sends \/ ~current.aborted,
         current'.at \in {"sent", "stream"} => sends'[current.create] # <<>> /\ (LastSent(current.create))' = current'.socket,
         owners'[current.create] # 0 => current'.at = "stream" /\ owners'[current.create] = current'.socket,
         \A i \in DOMAIN sends'[current.create] : sends'[current.create][i].delta =>
           \/ i \in DOMAIN sends[current.create] /\ sends'[current.create][i] = sends[current.create][i]
           \/ LET p == previous[current.create] IN p # NoCreate /\ owners[p] # 0 /\ sends'[current.create][i].socket = owners[p]
  PROVE  RelayInv'
<1> DEFINE c == current.create
<1>1. c \in Creates /\ result[c] = "queued"
  BY RelayShape DEF RelayInv, ServedOnce
<1>2. InterruptsTrue' /\ UNCHANGED <<interrupts, answers>> BY DEF RelayInv, InterruptsTrue, interrupting
<1>3. RelayTypeOK' BY <1>2 DEF RelayInv, RelayTypeOK
<1>4. ServedOnce'
  <2>1. \A i \in DOMAIN queue : queue[i].create \in Creates /\ queue[i].create # c /\ sends'[queue[i].create] = sends[queue[i].create]
    BY RelayShape DEF RelayInv, ServedOnce
  <2>2. \A d \in Creates : result'[d] = "new" => sends'[d] = <<>>
    BY <1>1 DEF RelayInv, ServedOnce
  <2> QED BY <1>1, <2>1, <2>2, RelayAssumption DEF RelayInv, ServedOnce
<1>5. OwnerTrue'
  <2> SUFFICES ASSUME NEW d \in Creates, owners'[d] # 0
               PROVE  sends'[d] # <<>> /\ (LastSent(d))' = owners'[d] /\ (current'.create = d => current'.at = "stream")
    BY DEF OwnerTrue
  <2>1. CASE d = c BY <2>1
  <2>2. CASE d # c
    <3>1. owners'[d] = owners[d] /\ sends'[d] = sends[d] BY <2>2
    <3>2. (LastSent(d))' = LastSent(d) BY <3>1 DEF LastSent
    <3> QED BY <2>2, <3>1, <3>2 DEF RelayInv, OwnerTrue
  <2> QED BY <2>1, <2>2
<1>6. DeltaTrue'
  <2>1. \A d \in Creates : previous[d] # NoCreate => previous[d] \in Creates /\ previous[d] # c
    BY <1>1, RelayShape DEF RelayInv, DeltaTrue
  <2>2. \A d \in Creates : previous[d] # NoCreate =>
          sends'[previous[d]] = sends[previous[d]] /\ (LastSent(previous[d]))' = LastSent(previous[d])
    BY <2>1 DEF LastSent
  <2> SUFFICES ASSUME NEW d \in Creates, NEW i \in DOMAIN sends'[d], sends'[d][i].delta
               PROVE  previous[d] # NoCreate /\ sends'[previous[d]] # <<>> /\ sends'[d][i].socket = (LastSent(previous[d]))'
    BY DEF RelayInv, DeltaTrue
  <2>3. CASE i \in DOMAIN sends[d] /\ sends'[d][i] = sends[d][i]
    BY <2>2, <2>3 DEF RelayInv, DeltaTrue
  <2>4. CASE d = c /\ previous[d] # NoCreate /\ owners[previous[d]] # 0 /\ sends'[d][i].socket = owners[previous[d]]
    BY <2>1, <2>2, <2>4 DEF RelayInv, OwnerTrue
  <2> QED BY <2>3, <2>4
<1>7. WithdrawnTrue'
  BY <1>1 DEF RelayInv, WithdrawnTrue
<1> QED BY <1>2, <1>3, <1>4, <1>5, <1>6, <1>7 DEF RelayInv

\* A create is sent on a socket, as a delta only where its previous response lives.
LEMMA SendKeeps ==
  ASSUME RelayInv, current.at \in {"route", "open"}, ~current.aborted, NEW s \in Nat \ {0}, Send(current.create, s),
         UNCHANGED <<queue, generation, previous, result, ambiguous, withdrawn, interrupting>>,
         current' \in Serving, current'.create = current.create, current'.aborted = current.aborted, current'.at = "sent",
         current'.socket = s,
         channels' \in [Credentials -> Nat], sockets' \subseteq Nat, lastSocket' \in Nat, owners' \in [Creates -> Nat],
         \A c \in Creates : owners'[c] \in {0, owners[c]}
  PROVE  RelayInv'
<1> DEFINE c == current.create
           x == [socket |-> s, delta |-> SendsDelta(c, s)]
<1>1. c \in Creates /\ owners[c] = 0 /\ sends \in [Creates -> Seq(Sent)] /\ sends[c] \in Seq(Sent)
  BY RelayShape DEF RelayInv, ServedOnce, OwnerTrue
<1>2. SendsDelta(c, s) \in BOOLEAN
  BY DEF SendsDelta, HasPrevious
<1>3. x \in Sent /\ x.socket = s /\ (x.delta <=> SendsDelta(c, s))
  BY <1>2 DEF Sent
<1>4. sends' = [sends EXCEPT ![c] = Append(sends[c], x)]
  BY DEF Send
<1> HIDE DEF x
<1>5. /\ sends' \in [Creates -> Seq(Sent)] /\ sends'[c] = Append(sends[c], x)
      /\ \A d \in Creates : d # c => sends'[d] = sends[d]
  BY <1>1, <1>3, <1>4, AppendFacts
<1>6. sends'[c] # <<>> /\ (LastSent(c))' = s
  BY <1>1, <1>3, <1>5, AppendFacts DEF LastSent
<1>7. \A i \in DOMAIN sends'[c] : sends'[c][i].delta =>
        \/ i \in DOMAIN sends[c] /\ sends'[c][i] = sends[c][i]
        \/ previous[c] # NoCreate /\ owners[previous[c]] # 0 /\ sends'[c][i].socket = owners[previous[c]]
  <2>1. \A i \in DOMAIN sends'[c] : (i \in DOMAIN sends[c] /\ sends'[c][i] = sends[c][i]) \/ sends'[c][i] = x
    BY <1>1, <1>3, <1>5, AppendFacts
  <2>2. x.delta => previous[c] # NoCreate /\ owners[previous[c]] = s
    BY <1>3 DEF SendsDelta, HasPrevious
  <2> QED BY <1>3, <2>1, <2>2
<1>8. owners'[c] = 0 BY <1>1
<1> QED BY <1>1, <1>5, <1>6, <1>7, <1>8, GoesOn

\* The router: a create is sent on a socket that is free, or goes to open one.
LEMMA RouterKeeps == ASSUME RelayInv, NEW k \in Credentials, RouterPicks(k) PROVE RelayInv'
<1> DEFINE c == current.create
           n == current.routes + 1
<1>1. /\ current.at = "route" /\ ~current.aborted
      /\ UNCHANGED <<queue, generation, previous, chains, interrupting, closed, ambiguous, withdrawn>>
  BY DEF RouterPicks
<1>2. c \in Creates /\ current \in Serving /\ n \in Nat /\ owners[c] = 0 /\ sends[c] \in Seq(Sent)
  BY <1>1, RelayShape DEF RelayInv, RelayTypeOK, ServedOnce, OwnerTrue
<1>6. /\ "http" \in Stages /\ "sent" \in Stages /\ "open" \in Stages /\ current.key \in Credentials \cup {NoCreate} /\ current.socket \in Nat
      /\ k \in Credentials \cup {NoCreate}
  BY RelayShape DEF Stages
<1>3. /\ channels \in [Credentials -> Nat] /\ sockets \subseteq Nat /\ lastSocket \in Nat /\ owners \in [Creates -> Nat]
      /\ sends \in [Creates -> Seq(Sent)]
  BY DEF RelayInv, RelayTypeOK
<1> HIDE DEF n
<1>4. CASE current' = [current EXCEPT !.at = "http", !.routes = @ + 1] /\ UNCHANGED <<relaySockets, sends, result>>
  <2>1. current' = ServingMoved(current, "http", current.key, current.socket, n)
    BY <1>2, <1>4 DEF Serving, ServingMoved, n
  <2>2. current' \in Serving /\ current'.create = c /\ current'.at = "http" /\ current'.aborted = current.aborted
    BY <1>2, <1>6, <2>1, RelayShape DEF ServingMoved, Serving
  <2>3. UNCHANGED <<channels, sockets, lastSocket, owners, sends, result>> BY <1>4 DEF relaySockets
  <2> QED BY <1>1, <1>2, <1>3, <2>2, <2>3, GoesOn
<1>5. ASSUME NEW s \in Reusable(k), owners' = Disowned(k, s),
             sockets' = IF s = 0 THEN sockets \ {channels[k]} ELSE sockets, channels' = [channels EXCEPT ![k] = s],
             UNCHANGED <<lastSocket, httpOnly, disconnects>>,
             \/ s # 0 /\ current' = [current EXCEPT !.at = "sent", !.key = k, !.socket = s, !.routes = @ + 1]
                /\ Send(c, s) /\ UNCHANGED result
             \/ s = 0 /\ current' = [current EXCEPT !.at = "open", !.key = k, !.routes = @ + 1] /\ UNCHANGED <<sends, result>>
             \/ Ended(c, "not found") /\ UNCHANGED sends
      PROVE  RelayInv'
  <2>1. s \in Nat /\ channels' \in [Credentials -> Nat] /\ sockets' \subseteq Nat /\ lastSocket' \in Nat
    <3>1. s = channels[k] \/ s = 0 BY <1>5 DEF Reusable
    <3>2. channels[k] \in Nat BY <1>3
    <3>3. s \in Nat BY <3>1, <3>2
    <3>4. sockets' \subseteq sockets BY <1>5
    <3> QED BY <1>3, <1>5, <3>3, <3>4
  <2>2. owners' \in [Creates -> Nat] /\ \A d \in Creates : owners'[d] \in {0, owners[d]}
    BY <1>3, <1>5 DEF Disowned
  <2>3. CASE s # 0 /\ current' = [current EXCEPT !.at = "sent", !.key = k, !.socket = s, !.routes = @ + 1] /\ Send(c, s) /\ UNCHANGED result
    <3>1. current' = ServingMoved(current, "sent", k, s, n)
      BY <1>2, <2>3 DEF Serving, ServingMoved, n
    <3>2. current' \in Serving /\ current'.create = c /\ current'.at = "sent" /\ current'.aborted = current.aborted /\ current'.socket = s
      BY <1>2, <1>6, <2>1, <3>1, RelayShape DEF ServingMoved, Serving
    <3> QED BY <1>1, <1>2, <1>3, <2>1, <2>2, <2>3, <3>2, SendKeeps
  <2>4. CASE s = 0 /\ current' = [current EXCEPT !.at = "open", !.key = k, !.routes = @ + 1] /\ UNCHANGED <<sends, result>>
    <3>1. current' = ServingMoved(current, "open", k, current.socket, n)
      BY <1>2, <2>4 DEF Serving, ServingMoved, n
    <3>2. current' \in Serving /\ current'.create = c /\ current'.at = "open" /\ current'.aborted = current.aborted
      BY <1>2, <1>6, <3>1, RelayShape DEF ServingMoved, Serving
    <3> QED BY <1>1, <1>2, <1>3, <2>1, <2>2, <2>4, <3>2, GoesOn
  <2>5. CASE Ended(c, "not found") /\ UNCHANGED sends
    BY <1>1, <2>1, <2>2, <2>5, EndedKeeps DEF Results
  <2> QED BY <1>5, <2>3, <2>4, <2>5
<1> QED BY <1>1, <1>4, <1>5 DEF RouterPicks

LEMMA OpensKeeps == ASSUME RelayInv, SocketOpens PROVE RelayInv'
<1> DEFINE s == lastSocket + 1
<1>1. /\ current.at = "open" /\ ~current.aborted /\ lastSocket' = s /\ sockets' = sockets \cup {s}
      /\ channels' = [channels EXCEPT ![current.key] = s] /\ Send(current.create, s)
      /\ current' = [current EXCEPT !.at = "sent", !.socket = s]
      /\ UNCHANGED <<queue, generation, previous, owners, interrupting, result, ambiguous, withdrawn>>
  BY DEF SocketOpens
<1>2. /\ s \in Nat \ {0} /\ current \in Serving /\ channels \in [Credentials -> Nat] /\ sockets \subseteq Nat
      /\ owners \in [Creates -> Nat]
  BY DEF RelayInv, RelayTypeOK
<1> HIDE DEF s
<1>3. current' = ServingMoved(current, "sent", current.key, s, current.routes)
  BY <1>1, <1>2 DEF Serving, ServingMoved
<1>4. "sent" \in Stages
  BY DEF Stages
<1>5. /\ current' \in Serving /\ current'.create = current.create /\ current'.at = "sent"
      /\ current'.aborted = current.aborted /\ current'.socket = s
  BY <1>2, <1>3, <1>4, RelayShape DEF ServingMoved, Serving
<1>6. channels' \in [Credentials -> Nat] /\ sockets' \subseteq Nat /\ lastSocket' \in Nat /\ owners' \in [Creates -> Nat]
  BY <1>1, <1>2
<1> QED BY <1>1, <1>2, <1>5, <1>6, SendKeeps

\* The current create changes its stage, and nothing else that RelayInv speaks of changes.
LEMMA StageKeeps ==
  ASSUME RelayInv, NEW stage \in Stages \ {"none", "sent", "stream"}, current.at \in {"open", "sent"}, current' = [current EXCEPT !.at = stage],
         current.at = "open" => ~current.aborted,
         UNCHANGED <<queue, generation, previous, result, ambiguous, withdrawn, channels, sockets, lastSocket, owners, sends, interrupting>>
  PROVE  RelayInv'
<1>1. current' = ServingMoved(current, stage, current.key, current.socket, current.routes)
  BY DEF Serving, ServingMoved, RelayInv, RelayTypeOK
<1>2. /\ current' \in Serving /\ current'.create = current.create /\ current'.at = stage /\ current'.aborted = current.aborted
  BY <1>1, RelayShape DEF ServingMoved, Serving
<1>3. /\ channels \in [Credentials -> Nat] /\ sockets \subseteq Nat /\ lastSocket \in Nat /\ owners \in [Creates -> Nat]
      /\ sends \in [Creates -> Seq(Sent)] /\ owners[current.create] = 0
  BY RelayShape DEF RelayInv, RelayTypeOK, OwnerTrue, ServedOnce
<1> QED BY <1>2, <1>3, GoesOn

LEMMA FirstKeeps == ASSUME RelayInv, FirstEvent PROVE RelayInv'
<1>1. /\ current.at = "sent" /\ current' = [current EXCEPT !.at = "stream"]
      /\ owners' = [owners EXCEPT ![current.create] = current.socket]
      /\ UNCHANGED <<queue, generation, previous, result, ambiguous, withdrawn, channels, sockets, lastSocket, sends, interrupting>>
  BY DEF FirstEvent, relayHistory
<1>2. current' = ServingMoved(current, "stream", current.key, current.socket, current.routes)
  BY <1>1 DEF Serving, ServingMoved, RelayInv, RelayTypeOK
<1>3. "stream" \in Stages
  BY DEF Stages
<1>4. /\ current' \in Serving /\ current'.create = current.create /\ current'.at = "stream" /\ current'.aborted = current.aborted
      /\ current'.socket = current.socket
  BY <1>2, <1>3, RelayShape DEF ServingMoved, Serving
<1>5. /\ channels \in [Credentials -> Nat] /\ sockets \subseteq Nat /\ lastSocket \in Nat /\ owners \in [Creates -> Nat]
      /\ sends \in [Creates -> Seq(Sent)] /\ current.create \in Creates /\ current.socket \in Nat
  BY <1>1, RelayShape DEF RelayInv, RelayTypeOK, ServedOnce
<1>6. /\ owners' \in [Creates -> Nat] /\ owners'[current.create] = current.socket
      /\ \A c \in Creates : c # current.create => owners'[c] = owners[c]
  BY <1>1, <1>5
<1>7. sends'[current.create] # <<>> /\ (LastSent(current.create))' = current.socket
  BY <1>1, <1>4 DEF RelayInv, OwnerTrue, LastSent
<1> QED BY <1>1, <1>4, <1>5, <1>6, <1>7, GoesOn

\* Steps that end the current create without a send.
LEMMA EndsKeep ==
  ASSUME RelayInv, RouteCancelled \/ RouterGivesUp \/ \E ending \in Endings : TerminalEvent(ending)
  PROVE  RelayInv'
<1>1. /\ current.at # "none" /\ \E how \in {"cancelled", "failed", "done"} : Ended(current.create, how)
      /\ UNCHANGED <<queue, generation, previous, channels, sockets, lastSocket, owners, interrupting, ambiguous, withdrawn, sends>>
  BY DEF RouteCancelled, RouterGivesUp, TerminalEvent, relaySockets, relayHistory
<1>2. /\ channels \in [Credentials -> Nat] /\ sockets \subseteq Nat /\ lastSocket \in Nat /\ owners \in [Creates -> Nat]
  BY DEF RelayInv, RelayTypeOK
<1>3. {"cancelled", "failed", "done"} \subseteq Results \ {"new", "queued"}
  BY DEF Results
<1> QED BY <1>1, <1>2, <1>3, EndedKeeps

LEMMA HandshakeKeeps == ASSUME RelayInv, HandshakeFails \/ HttpAnswers PROVE RelayInv'
<1>1. /\ current.at \in {"open", "http"}
      /\ UNCHANGED <<queue, generation, previous, channels, sockets, lastSocket, owners, interrupting, ambiguous, withdrawn, sends>>
  BY DEF HandshakeFails, HttpAnswers, relaySockets, relayHistory
<1>2. /\ channels \in [Credentials -> Nat] /\ sockets \subseteq Nat /\ lastSocket \in Nat /\ owners \in [Creates -> Nat]
  BY DEF RelayInv, RelayTypeOK
<1>3. {"cancelled", "failed", "done"} \subseteq Results \ {"new", "queued"} /\ {"route", "http"} \subseteq Stages \ {"none", "sent", "stream"}
  BY DEF Results, Stages
<1>4. \/ \E how \in {"cancelled", "failed", "done"} : Ended(current.create, how)
      \/ /\ ~current.aborted /\ current.at = "open" /\ UNCHANGED result
         /\ \E stage \in {"route", "http"} : current' = [current EXCEPT !.at = stage]
  BY DEF HandshakeFails, HttpAnswers
<1>5. CASE \E how \in {"cancelled", "failed", "done"} : Ended(current.create, how)
  BY <1>1, <1>2, <1>3, <1>5, EndedKeeps
<1>6. ASSUME ~current.aborted, current.at = "open", UNCHANGED result, NEW stage \in {"route", "http"}, current' = [current EXCEPT !.at = stage]
      PROVE  RelayInv'
  BY <1>1, <1>3, <1>6, StageKeeps
<1> QED BY <1>4, <1>5, <1>6

LEMMA ErrorKeeps == ASSUME RelayInv, ErrorEvent PROVE RelayInv'
<1>1. "route" \in Stages \ {"none", "sent", "stream"}
  BY DEF Stages
<1>2. /\ current.at = "sent" /\ current' = [current EXCEPT !.at = "route"]
      /\ UNCHANGED <<queue, generation, previous, result, ambiguous, withdrawn, channels, sockets, lastSocket, owners, sends, interrupting>>
  BY DEF ErrorEvent, relaySockets, relayHistory
<1> QED BY <1>1, <1>2, StageKeeps

\* A sent create whose socket closes ends: it is not handed back to the router.
LEMMA CloseKeeps == ASSUME RelayInv, CurrentCloses PROVE RelayInv'
<1>1. /\ current.at \in {"sent", "stream"} /\ channels' = [channels EXCEPT ![current.key] = 0]
      /\ UNCHANGED <<queue, generation, previous, sockets, lastSocket, owners, interrupting, withdrawn, sends>>
      /\ \/ Ended(current.create, "cancelled") /\ ambiguous' = ambiguous
         \/ /\ Ended(current.create, "disconnected") /\ ~current.aborted /\ ambiguous' = ambiguous \cup {current.create}
  BY DEF CurrentCloses, CloseResult
<1>2. /\ channels \in [Credentials -> Nat] /\ sockets \subseteq Nat /\ lastSocket \in Nat /\ owners \in [Creates -> Nat]
  BY DEF RelayInv, RelayTypeOK
<1>3. channels' \in [Credentials -> Nat] BY <1>1, <1>2
<1>4. "cancelled" \in Results \ {"new", "queued"} /\ "disconnected" \in Results \ {"new", "queued"}
  BY DEF Results
<1> QED BY <1>1, <1>2, <1>3, <1>4, EndedKeeps

LEMMA SocketsKeep == ASSUME RelayInv, BackoffEnds \/ \E s \in sockets : SocketCloses(s) PROVE RelayInv'
<1>1. /\ UNCHANGED <<relayQueue, result, relayHistory, channels, lastSocket, owners, interrupting>> /\ sockets' \subseteq sockets
  BY DEF BackoffEnds, SocketCloses
<1>2. UNCHANGED <<queue, generation, current, previous, ambiguous, withdrawn, sends, interrupts, answers>>
  BY <1>1 DEF relayQueue, relayHistory, interrupting
<1>3. RelayTypeOK' /\ InterruptsTrue' BY <1>1, <1>2 DEF RelayInv, RelayTypeOK, InterruptsTrue
<1> QED BY <1>1, <1>3, SocketStep

LEMMA InterruptsKeep ==
  ASSUME RelayInv, NEW c \in Creates, ClientInterrupts(c) \/ InterruptAccepted(c) \/ InterruptFails(c) PROVE RelayInv'
<1>1. /\ UNCHANGED <<relayQueue, result, relayHistory, relaySockets>> /\ interrupts[c] \in {"none", "asked"}
      /\ \/ interrupts' = [interrupts EXCEPT ![c] = "asked"] /\ answers' = answers
         \/ \E answer \in {"accepted", "failed"} :
              interrupts' = [interrupts EXCEPT ![c] = answer] /\ answers' = [answers EXCEPT ![c] = @ + 1]
  BY DEF ClientInterrupts, InterruptAccepted, InterruptFails, Answer, InterruptPending
<1>2. UNCHANGED <<queue, generation, current, previous, ambiguous, withdrawn, sends, channels, sockets, lastSocket, owners>>
  BY <1>1 DEF relayQueue, relayHistory, relaySockets
<1>3. interrupts' \in [Creates -> InterruptStates] /\ answers' \in [Creates -> Nat]
  <2>1. /\ interrupts \in [Creates -> InterruptStates] /\ answers \in [Creates -> Nat]
        /\ "asked" \in InterruptStates /\ "accepted" \in InterruptStates /\ "failed" \in InterruptStates
    BY DEF RelayInv, RelayTypeOK, InterruptStates
  <2>2. answers[c] + 1 \in Nat BY <2>1
  <2> QED BY <1>1, <2>1, <2>2
<1>4. InterruptsTrue'
  <2>1. interrupts \in [Creates -> InterruptStates] /\ answers \in [Creates -> Nat] /\ answers[c] = 0
    BY <1>1 DEF RelayInv, RelayTypeOK, InterruptsTrue
  <2> QED BY <1>1, <2>1 DEF RelayInv, InterruptsTrue
<1>5. RelayTypeOK' BY <1>1, <1>2, <1>3 DEF RelayInv, RelayTypeOK
<1> QED BY <1>1, <1>2, <1>4, <1>5, SocketStep

LEMMA RelayInvNext == RelayInv /\ [RelayNext]_relayVars => RelayInv'
<1> SUFFICES ASSUME RelayInv, [RelayNext]_relayVars PROVE RelayInv'
  OBVIOUS
<1>1. CASE RelayNext
  BY <1>1, CreatesKeep, CancelsKeep, ClosesKeeps, QueueKeeps, RouterKeeps, OpensKeeps, FirstKeeps, EndsKeep, HandshakeKeeps,
     ErrorKeeps, CloseKeeps, SocketsKeep, InterruptsKeep DEF RelayNext
<1>2. CASE UNCHANGED relayVars
  <2>1. UNCHANGED <<relayQueue, relaySockets, interrupting, result, relayHistory>> BY <1>2 DEF relayVars
  <2>2. UNCHANGED <<queue, generation, current, previous, ambiguous, withdrawn, sends, channels, sockets, lastSocket, owners, interrupts, answers>>
    BY <2>1 DEF relayQueue, relayHistory, relaySockets, interrupting
  <2>3. RelayTypeOK' /\ InterruptsTrue' BY <2>1, <2>2 DEF RelayInv, RelayTypeOK, InterruptsTrue
  <2> QED BY <2>1, <2>2, <2>3, SocketStep
<1> QED BY <1>1, <1>2

\* Whatever sockets close and whichever credential the router picks, a delta that leans on
\* an earlier response is sent only on the socket that owns it, and an interrupt is
\* answered once (lib/runtime/responses-websocket.ts).
THEOREM RelaysStayFaithful == RelaySpec => []RelaysFaithful
<1>1. RelayInv => RelaysFaithful
  <2> SUFFICES ASSUME RelayInv PROVE DeltaStaysHome /\ InterruptAnsweredOnce
    BY DEF RelaysFaithful
  <2>1. DeltaStaysHome BY DEF RelayInv, DeltaTrue, DeltaStaysHome, LastSent
  <2>2. InterruptAnsweredOnce BY DEF RelayInv, InterruptsTrue, InterruptAnsweredOnce
  <2> QED BY <2>1, <2>2
<1> QED BY <1>1, RelayInvInit, RelayInvNext, PTL DEF RelaySpec

\* Sends are made for the create being served only, before it was sent and while it is not aborted.
LEMMA SendsCurrent ==
  ASSUME RelayInv, RelayNext, NEW c \in Creates, sends'[c] # sends[c]
  PROVE  c = current.create /\ current.at \in {"route", "open"} /\ ~current.aborted
<1>1. PICK s : Send(current.create, s) /\ current.at \in {"route", "open"} /\ ~current.aborted
  BY DEF RelayNext, ClientCreates, ClientInterrupts, InterruptAccepted, InterruptFails, Answer, RouterPicks, SocketCloses, TerminalEvent,
         ClientCancels, ClientCloses, QueueDrops, QueueServes, RouteCancelled, RouterGivesUp, SocketOpens, HandshakeFails, HttpAnswers,
         ErrorEvent, FirstEvent, CurrentCloses, BackoffEnds, relayHistory
<1>2. sends \in [Creates -> Seq(Sent)]
  BY RelayShape
<1> QED BY <1>1, <1>2 DEF Send

\* A create that may have reached the upstream when its socket closed is given up: no
\* later step sends it again or routes it anew.
THEOREM RelayNeverReplays == RelaySpec => [][NeverReplayed]_relayVars
<1>1. RelayInv /\ RelayInv' /\ [RelayNext]_relayVars => [NeverReplayed]_relayVars
  <2> SUFFICES ASSUME RelayInv, RelayInv', RelayNext, NEW c \in ambiguous
               PROVE  sends'[c] = sends[c] /\ ~(current'.create = c /\ current'.at \in {"route", "open", "http"})
    BY DEF NeverReplayed
  <2>1. c \in Creates /\ result[c] = "disconnected" /\ c # NoCreate
    BY RelayShape, RelayAssumption DEF RelayInv, WithdrawnTrue
  <2>2. current.create # c
    BY <2>1 DEF RelayInv, ServedOnce
  <2>3. sends'[c] = sends[c]
    BY <2>1, <2>2, SendsCurrent
  <2>4. c \in ambiguous'
    BY DEF RelayNext, ClientCreates, ClientInterrupts, InterruptAccepted, InterruptFails, Answer, RouterPicks, SocketCloses, TerminalEvent,
           ClientCancels, ClientCloses, QueueDrops, QueueServes, RouteCancelled, RouterGivesUp, SocketOpens, HandshakeFails, HttpAnswers,
           ErrorEvent, FirstEvent, CurrentCloses, BackoffEnds, relayHistory
  <2>5. current'.create # c
    BY <2>1, <2>4 DEF RelayInv, ServedOnce, WithdrawnTrue
  <2> QED BY <2>3, <2>5
<1> QED BY <1>1, RelayInvInit, RelayInvNext, PTL DEF RelaySpec

\* A create that the client withdrew before it was sent, in the queue, while a route was
\* sought or while a socket opened, is never sent afterwards.
THEOREM CancelIsHeard == RelaySpec => [][CancelledNotSent]_relayVars
<1>1. RelayInv /\ [RelayNext]_relayVars => [CancelledNotSent]_relayVars
  <2> SUFFICES ASSUME RelayInv, RelayNext, NEW c \in withdrawn PROVE sends'[c] = sends[c]
    BY DEF CancelledNotSent
  <2> QED BY RelayShape, SendsCurrent DEF RelayInv, WithdrawnTrue
<1> QED BY <1>1, RelayInvInit, RelayInvNext, PTL DEF RelaySpec

-----------------------------------------------------------------------------
(* The recovery of sessions. *)

StoredParts == [think : 0..2, first : BOOLEAN, stuck : BOOLEAN, open : BOOLEAN]
Recoveries == [at : {"idle", "listing", "repairing", "resuming", "done"}, kind : Kinds, msg : Messages \cup {NoMessage}, indexed : BOOLEAN]
\* Stages in which a handler holds its message, and the handlers about to resume.
Repairing == {"repairing", "resuming", "done"}
Resuming == {h \in Handlers : handling[h].at = "resuming"}

RecoveryTypeOK ==
  /\ parts \in [Messages -> StoredParts] /\ partFile \in [healthy : BOOLEAN, aside : BOOLEAN, busy : BOOLEAN]
  /\ handling \in [Handlers -> Recoveries] /\ resumed \in Nat /\ repaired \in Nat /\ overlooked \in Nat

\* A message whose recovery is under way is among those being processed, for one handler.
ProcessedOnce ==
  /\ \A h \in Handlers : handling[h].at \in Repairing => handling[h].msg \in processing
  /\ \A g, h \in Handlers :
       g # h /\ handling[g].at \in Repairing /\ handling[h].at \in Repairing => handling[g].msg # handling[h].msg

\* A resume still to come is covered by a message that was repaired for good, or that
\* passed for clean.
ResumesCovered == resumed + Cardinality(Resuming) <= repaired + overlooked

RecoveryInv == RecoveryTypeOK /\ ProcessedOnce /\ ResumesCovered /\ OnlyCorruptPutAside

LEMMA RecoveryInvInit == RecoveryInit => RecoveryInv
<1> SUFFICES ASSUME RecoveryInit PROVE RecoveryInv
  OBVIOUS
<1>1. /\ parts \in [Messages -> {Stored(0, FALSE, FALSE), Stored(2, FALSE, TRUE), Stored(1, TRUE, FALSE)}]
      /\ partFile.aside = FALSE /\ partFile \in [healthy : BOOLEAN, aside : BOOLEAN, busy : BOOLEAN]
      /\ handling = [h \in Handlers |-> NoRecovery] /\ resumed = 0 /\ repaired = 0 /\ overlooked = 0
  <2>1. PICK inUse, sound \in BOOLEAN : partFile = [healthy |-> sound, aside |-> FALSE, busy |-> inUse]
    BY DEF RecoveryInit
  <2> QED BY <2>1 DEF RecoveryInit
<1>2. {Stored(0, FALSE, FALSE), Stored(2, FALSE, TRUE), Stored(1, TRUE, FALSE)} \subseteq StoredParts
  BY DEF Stored, StoredParts
<1>3. NoRecovery \in Recoveries /\ NoRecovery.at = "idle"
  BY DEF NoRecovery, Recoveries, Kinds
<1>4. Resuming = {} BY <1>1, <1>3 DEF Resuming
<1>5. Cardinality(Resuming) = 0 BY <1>4, FS_EmptySet
<1>6. RecoveryTypeOK BY <1>1, <1>2, <1>3 DEF RecoveryTypeOK
<1>7. ProcessedOnce BY <1>1, <1>3 DEF ProcessedOnce, Repairing
<1>8. ResumesCovered BY <1>1, <1>5 DEF ResumesCovered
<1> QED BY <1>1, <1>6, <1>7, <1>8 DEF RecoveryInv, OnlyCorruptPutAside

LEMMA ResumingFinite == IsFiniteSet(Resuming) /\ Cardinality(Resuming) \in Nat
<1>1. Resuming \subseteq Handlers BY DEF Resuming
<1> QED BY <1>1, RecoveryAssumption, FS_Subset, FS_CardinalityType

\* Counting the resumes to come when one handler moves.
LEMMA ResumingMoves ==
  ASSUME NEW h \in Handlers, \A g \in Handlers \ {h} : handling'[g] = handling[g]
  PROVE  /\ Cardinality(Resuming') <= Cardinality(Resuming) + 1 /\ Cardinality(Resuming') \in Nat
         /\ handling'[h].at # "resuming" => Cardinality(Resuming') <= Cardinality(Resuming)
         /\ handling[h].at = "resuming" /\ handling'[h].at # "resuming" => Cardinality(Resuming') = Cardinality(Resuming) - 1
<1>1. IsFiniteSet(Resuming) /\ Cardinality(Resuming) \in Nat
  BY ResumingFinite
<1>2. CASE handling'[h].at = "resuming"
  <2>1. Resuming' = Resuming \cup {h} BY <1>2 DEF Resuming
  <2>2. CASE h \in Resuming
    <3>1. Resuming' = Resuming BY <2>1, <2>2
    <3> QED BY <1>1, <1>2, <3>1
  <2>3. CASE h \notin Resuming
    <3>1. Cardinality(Resuming \cup {h}) = Cardinality(Resuming) + 1 BY <1>1, <2>3, FS_AddElement
    <3> QED BY <1>1, <1>2, <2>1, <3>1
  <2> QED BY <2>2, <2>3
<1>3. CASE handling'[h].at # "resuming"
  <2>1. Resuming' = Resuming \ {h} BY <1>3 DEF Resuming
  <2>2. CASE h \in Resuming
    <3>1. Cardinality(Resuming \ {h}) = Cardinality(Resuming) - 1 BY <1>1, <2>2, FS_RemoveElement
    <3>2. IsFiniteSet(Resuming \ {h}) BY <1>1, FS_Subset
    <3>3. Cardinality(Resuming \ {h}) \in Nat BY <3>2, FS_CardinalityType
    <3> QED BY <1>1, <1>3, <2>1, <3>1, <3>3
  <2>3. CASE h \notin Resuming
    <3>1. Resuming' = Resuming BY <2>1, <2>3
    <3>2. handling[h].at # "resuming" BY <2>3 DEF Resuming
    <3> QED BY <1>1, <1>3, <3>1, <3>2
  <2> QED BY <2>2, <2>3
<1> QED BY <1>2, <1>3

\* One handler moves on and keeps its message, or is idle again.
LEMMA HandlerMoves ==
  ASSUME RecoveryTypeOK, NEW h \in Handlers,
         NEW stage \in {"repairing", "resuming", "done"}, handling' = [handling EXCEPT ![h].at = stage]
  PROVE  /\ handling' \in [Handlers -> Recoveries] /\ handling'[h].at = stage /\ handling'[h].msg = handling[h].msg
         /\ \A g \in Handlers \ {h} : handling'[g] = handling[g]
<1>1. handling \in [Handlers -> Recoveries] /\ handling[h] \in Recoveries
  BY DEF RecoveryTypeOK
<1>2. handling'[h] = [handling[h] EXCEPT !.at = stage] /\ \A g \in Handlers \ {h} : handling'[g] = handling[g]
  BY <1>1
<1>3. handling'[h] \in Recoveries /\ handling'[h].at = stage /\ handling'[h].msg = handling[h].msg
  BY <1>1, <1>2 DEF Recoveries
<1> QED BY <1>1, <1>2, <1>3

LEMMA ScanKeeps == ASSUME RecoveryInv, Scan PROVE partFile' \in [healthy : BOOLEAN, aside : BOOLEAN, busy : BOOLEAN] /\ OnlyCorruptPutAside'
BY DEF RecoveryInv, RecoveryTypeOK, Scan, Quarantines, OnlyCorruptPutAside

\* Sums of naturals, stated once because the provers miss it for primed terms.
LEMMA SumOfNat == \A x, y \in Nat : x + y \in Nat
OBVIOUS

\* A repair ends: its handler resumes the session only if a message was repaired.
LEMMA RepairEnds ==
  ASSUME RecoveryInv, NEW h \in Handlers, NEW success \in BOOLEAN, handling[h].at = "repairing", Scan, RecoveryGoesOn(h, success),
         parts' \in [Messages -> StoredParts], repaired' \in Nat, overlooked' \in Nat, repaired' + overlooked' >= repaired + overlooked,
         UNCHANGED <<processing, resumed>>,
         handling[h].kind # "tool" /\ success => repaired' + overlooked' >= repaired + overlooked + 1
  PROVE  RecoveryInv'
<1> DEFINE stage == IF success /\ AutoResume /\ handling[h].kind # "tool" THEN "resuming" ELSE "done"
<1>0. repaired' + overlooked' >= repaired + overlooked
  OBVIOUS
<1>a. repaired' \in Nat /\ overlooked' \in Nat
  OBVIOUS
<1>1. handling' = [handling EXCEPT ![h].at = stage] /\ stage \in {"resuming", "done"}
  BY DEF RecoveryGoesOn
<1>2. stage = "resuming" => repaired' + overlooked' >= repaired + overlooked + 1
  OBVIOUS
<1> HIDE DEF stage
<1>3. /\ handling' \in [Handlers -> Recoveries] /\ handling'[h].at = stage /\ handling'[h].msg = handling[h].msg
      /\ \A g \in Handlers \ {h} : handling'[g] = handling[g]
  BY <1>1, HandlerMoves DEF RecoveryInv
<1>4. RecoveryTypeOK' BY <1>3, ScanKeeps DEF RecoveryInv, RecoveryTypeOK
<1>5. ProcessedOnce' BY <1>3 DEF RecoveryInv, ProcessedOnce, Repairing
<1>6. ResumesCovered'
  <2>1. Cardinality(Resuming') <= Cardinality(Resuming) + 1 /\ Cardinality(Resuming') \in Nat
    BY <1>3, ResumingMoves
  <2>2. stage # "resuming" => Cardinality(Resuming') <= Cardinality(Resuming)
    BY <1>3, ResumingMoves
  <2>3. resumed + Cardinality(Resuming) <= repaired + overlooked /\ Cardinality(Resuming) \in Nat
    BY ResumingFinite DEF RecoveryInv, ResumesCovered
  <2>4. resumed \in Nat /\ repaired \in Nat /\ overlooked \in Nat /\ resumed' = resumed
    BY DEF RecoveryInv, RecoveryTypeOK
  <2> DEFINE c == Cardinality(Resuming)  d == Cardinality(Resuming')
  <2>5. /\ c \in Nat /\ d \in Nat /\ d <= c + 1 /\ (stage # "resuming" => d <= c) /\ resumed + c <= repaired + overlooked
    BY <2>1, <2>2, <2>3
  <2> HIDE DEF c, d
  <2> DEFINE e == repaired + overlooked  f == repaired' + overlooked'
  <2>7. e \in Nat /\ f \in Nat /\ f >= e /\ (stage = "resuming" => f >= e + 1) /\ resumed + c <= e
    <3>1. e \in Nat /\ resumed + c <= e BY ONLY <2>4, <2>5
    <3>2. f \in Nat BY ONLY <1>a, SumOfNat, Zenon
    <3>4. f >= e BY ONLY <1>0
    <3>3. stage = "resuming" => f >= e + 1 BY ONLY <1>2
    <3> QED BY <3>1, <3>2, <3>3, <3>4
  <2> HIDE DEF e, f
  <2>8. resumed + d <= f
    <3>1. CASE stage = "resuming" BY ONLY <2>4, <2>5, <2>7, <3>1
    <3>2. CASE stage # "resuming" BY ONLY <2>4, <2>5, <2>7, <3>2
    <3> QED BY <3>1, <3>2
  <2>6. resumed' + d <= repaired' + overlooked'
    BY <2>4, <2>8 DEF f
  <2> QED BY <2>6 DEF ResumesCovered, d
<1> QED BY <1>4, <1>5, <1>6, ScanKeeps DEF RecoveryInv

LEMMA ToolKeeps == ASSUME RecoveryInv, NEW h \in Handlers, recoverToolResultMissing(h) PROVE RecoveryInv'
<1> DEFINE m == handling[h].msg
<1>1. PICK sent \in BOOLEAN :
        /\ RecoveryGoesOn(h, sent /\ parts[m].open)
        /\ parts' = IF sent THEN [parts EXCEPT ![m].open = FALSE] ELSE parts
  BY DEF recoverToolResultMissing
<1>2. handling[h].at = "repairing" /\ handling[h].kind = "tool" /\ Scan /\ UNCHANGED <<processing, resumed, repaired, overlooked>>
  BY DEF recoverToolResultMissing
<1>3. parts' \in [Messages -> StoredParts]
  <2>1. parts \in [Messages -> StoredParts] BY DEF RecoveryInv, RecoveryTypeOK
  <2>2. \A n \in Messages : [parts[n] EXCEPT !.open = FALSE] \in StoredParts BY <2>1 DEF StoredParts
  <2> QED BY <1>1, <2>1, <2>2
<1>4. handling' = [handling EXCEPT ![h].at = "done"]
  BY <1>1, <1>2 DEF RecoveryGoesOn
<1>5. RecoveryGoesOn(h, FALSE)
  BY <1>4 DEF RecoveryGoesOn
<1>6. repaired' \in Nat /\ overlooked' \in Nat /\ repaired' + overlooked' >= repaired + overlooked /\ FALSE \in BOOLEAN
  BY <1>2 DEF RecoveryInv, RecoveryTypeOK
<1>7. handling[h].kind # "tool" /\ FALSE => repaired' + overlooked' >= repaired + overlooked + 1
  OBVIOUS
<1> QED BY <1>2, <1>3, <1>5, <1>6, <1>7, RepairEnds

LEMMA OrderKeeps == ASSUME RecoveryInv, NEW h \in Handlers, recoverThinkingBlockOrder(h) PROVE RecoveryInv'
<1>1. PICK written \in SUBSET OrderTargets(h) :
        /\ RecoveryGoesOn(h, written # {})
        /\ parts' = [m \in Messages |-> IF m \in written
                       THEN [parts[m] EXCEPT !.first = TRUE, !.think = IF @ < 2 THEN @ + 1 ELSE @] ELSE parts[m]]
        /\ repaired' = repaired + Cardinality(written)
  BY DEF recoverThinkingBlockOrder
<1>2. handling[h].at = "repairing" /\ handling[h].kind = "order" /\ Scan /\ UNCHANGED <<processing, resumed, overlooked>>
  BY DEF recoverThinkingBlockOrder
<1>3. handling \in [Handlers -> Recoveries] /\ parts \in [Messages -> StoredParts] /\ repaired \in Nat /\ overlooked \in Nat
  BY DEF RecoveryInv, RecoveryTypeOK
<1>4. parts' \in [Messages -> StoredParts]
  <2>1. ASSUME NEW m \in Messages PROVE [parts[m] EXCEPT !.first = TRUE, !.think = IF @ < 2 THEN @ + 1 ELSE @] \in StoredParts
    <3>1. parts[m] \in StoredParts BY <1>3
    <3>2. (IF parts[m].think < 2 THEN parts[m].think + 1 ELSE parts[m].think) \in 0..2
      BY <3>1 DEF StoredParts
    <3> QED BY <3>1, <3>2 DEF StoredParts
  <2> QED BY <1>1, <1>3, <2>1
<1>5. IsFiniteSet(written)
  <2>1. OrderTargets(h) \subseteq Messages \/ OrderTargets(h) = {handling[h].msg} BY DEF OrderTargets
  <2> QED BY <2>1, RecoveryAssumption, FS_Subset, FS_Singleton
<1>6. Cardinality(written) \in Nat /\ (written # {} => Cardinality(written) >= 1)
  BY <1>5, FS_CardinalityType, FS_EmptySet
<1> DEFINE success == written # {}
<1>7. success \in BOOLEAN /\ RecoveryGoesOn(h, success) /\ (success => Cardinality(written) >= 1)
  <2>1. RecoveryGoesOn(h, success) BY <1>1
  <2>2. success => Cardinality(written) >= 1 BY <1>6
  <2>3. success \in BOOLEAN OBVIOUS
  <2> QED BY <2>1, <2>2, <2>3
<1> HIDE DEF success
<1>8. /\ repaired' \in Nat /\ overlooked' \in Nat /\ repaired' + overlooked' >= repaired + overlooked
      /\ success => repaired' + overlooked' >= repaired + overlooked + 1
  <2>1. repaired' = repaired + Cardinality(written) BY <1>1
  <2> DEFINE n == Cardinality(written)
  <2>2. n \in Nat /\ repaired' = repaired + n /\ (success => n >= 1) BY <1>6, <1>7, <2>1
  <2> HIDE DEF n
  <2> QED BY <1>2, <1>3, <2>2
<1> QED BY <1>2, <1>4, <1>7, <1>8, RepairEnds

LEMMA DisabledKeeps == ASSUME RecoveryInv, NEW h \in Handlers, recoverThinkingDisabledViolation(h) PROVE RecoveryInv'
<1>1a. PICK found \in SUBSET {m \in Messages : parts[m].think > 0} : \E pass \in [found -> StripPasses] :
        LET clean == {m \in found : StripSucceeds(parts[m], pass[m])} IN
          /\ handling[h].at = "repairing" /\ handling[h].kind = "disabled" /\ Scan
          /\ \A m \in found : PassOf(parts[m], pass[m])
          /\ RecoveryGoesOn(h, clean # {})
          /\ parts' = [m \in Messages |-> IF m \in found THEN Stripped(parts[m], pass[m]) ELSE parts[m]]
          /\ repaired' = repaired + Cardinality({m \in found : Left(pass[m]) = 0})
          /\ overlooked' = overlooked + Cardinality({m \in clean : pass[m].skipped > 0})
          /\ UNCHANGED <<processing, resumed>>
  BY DEF recoverThinkingDisabledViolation
<1>1. PICK pass \in [found -> StripPasses] :
        LET clean == {m \in found : StripSucceeds(parts[m], pass[m])} IN
          /\ handling[h].at = "repairing" /\ handling[h].kind = "disabled" /\ Scan
          /\ \A m \in found : PassOf(parts[m], pass[m])
          /\ RecoveryGoesOn(h, clean # {})
          /\ parts' = [m \in Messages |-> IF m \in found THEN Stripped(parts[m], pass[m]) ELSE parts[m]]
          /\ repaired' = repaired + Cardinality({m \in found : Left(pass[m]) = 0})
          /\ overlooked' = overlooked + Cardinality({m \in clean : pass[m].skipped > 0})
          /\ UNCHANGED <<processing, resumed>>
  BY <1>1a
<1> DEFINE clean == {m \in found : StripSucceeds(parts[m], pass[m])}
           gone == {m \in found : Left(pass[m]) = 0}
           left == {m \in clean : pass[m].skipped > 0}
           success == clean # {}
<1>2. parts \in [Messages -> StoredParts] /\ repaired \in Nat /\ overlooked \in Nat
  BY DEF RecoveryInv, RecoveryTypeOK
<1>3. \A m \in found : /\ pass[m].skipped \in 0..2 /\ pass[m].blocked \in BOOLEAN /\ pass[m].top \in BOOLEAN
                       /\ Left(pass[m]) \in 0..2 /\ m \in Messages
  <2> SUFFICES ASSUME NEW m \in found
               PROVE  /\ pass[m].skipped \in 0..2 /\ pass[m].blocked \in BOOLEAN /\ pass[m].top \in BOOLEAN
                      /\ Left(pass[m]) \in 0..2 /\ m \in Messages
    OBVIOUS
  <2>1. pass[m] \in StripPasses /\ m \in Messages OBVIOUS
  <2>2. parts[m] \in StoredParts /\ PassOf(parts[m], pass[m]) BY <1>1, <1>2, <2>1
  <2> QED BY <2>1, <2>2 DEF StripPasses, PassOf, StoredParts, Left
<1>4. parts' \in [Messages -> StoredParts]
  <2>1. \A m \in found : Stripped(parts[m], pass[m]) \in StoredParts
    BY <1>2, <1>3 DEF Stripped, StoredParts
  <2> QED BY <1>1, <1>2, <2>1
<1>5. clean \subseteq gone \cup left
  <2> SUFFICES ASSUME NEW m \in clean, pass[m].skipped = 0 PROVE Left(pass[m]) = 0
    BY <1>3
  <2> QED BY <1>3 DEF StripSucceeds, Left
<1>6. IsFiniteSet(gone) /\ IsFiniteSet(left)
  <2>1. gone \subseteq Messages /\ left \subseteq Messages BY <1>3
  <2> QED BY <2>1, RecoveryAssumption, FS_Subset
<1> DEFINE a == Cardinality(gone)  b == Cardinality(left)
<1>7. a \in Nat /\ b \in Nat /\ (gone # {} => a >= 1) /\ (left # {} => b >= 1)
  <2> HIDE DEF gone, left
  <2>1. a \in Nat /\ (gone # {} => a >= 1) BY <1>6, FS_CardinalityType, FS_EmptySet
  <2>2. b \in Nat /\ (left # {} => b >= 1) BY <1>6, FS_CardinalityType, FS_EmptySet
  <2> QED BY <2>1, <2>2
<1>8. success \in BOOLEAN /\ (success => gone # {} \/ left # {})
  <2>1. clean # {} => gone # {} \/ left # {}
    <3> HIDE DEF clean, gone, left
    <3> QED BY <1>5
  <2> QED BY <2>1
<1>9. repaired' = repaired + a /\ overlooked' = overlooked + b /\ RecoveryGoesOn(h, success)
  BY <1>1
<1> HIDE DEF success, gone, clean, left, a, b
<1>10. /\ repaired' \in Nat /\ overlooked' \in Nat /\ repaired' + overlooked' >= repaired + overlooked
       /\ success => repaired' + overlooked' >= repaired + overlooked + 1
  BY <1>2, <1>7, <1>8, <1>9
<1> QED BY <1>1, <1>4, <1>8, <1>9, <1>10, RepairEnds

\* The other steps of a handler.
LEMMA HandlerKeeps ==
  ASSUME RecoveryInv, NEW h \in Handlers, Reported(h) \/ Listed(h) \/ NotListed(h) \/ resumeSession(h) \/ RecoveryDone(h) PROVE RecoveryInv'
<1>1. UNCHANGED <<parts, partFile, repaired, overlooked>>
  BY DEF Reported, Listed, NotListed, resumeSession, RecoveryDone
<1>2. handling \in [Handlers -> Recoveries] /\ resumed \in Nat /\ repaired \in Nat /\ overlooked \in Nat
  BY DEF RecoveryInv, RecoveryTypeOK
<1>3. NoRecovery \in Recoveries /\ NoRecovery.at = "idle"
  BY DEF NoRecovery, Recoveries, Kinds
<1>4. OnlyCorruptPutAside' BY <1>1 DEF RecoveryInv, OnlyCorruptPutAside
<1>5. CASE Reported(h) \/ NotListed(h)
  <2>1. /\ UNCHANGED <<processing, resumed>> /\ handling[h].at \in {"idle", "listing"}
        /\ \E r \in Recoveries : r.at \in {"idle", "listing"} /\ handling' = [handling EXCEPT ![h] = r]
    BY <1>3, <1>5 DEF Reported, NotListed, Drops, Recoveries
  <2>2. /\ handling' \in [Handlers -> Recoveries] /\ handling'[h].at \in {"idle", "listing"}
        /\ \A g \in Handlers \ {h} : handling'[g] = handling[g]
    BY <1>2, <2>1
  <2>3. RecoveryTypeOK' BY <1>1, <2>1, <2>2 DEF RecoveryInv, RecoveryTypeOK
  <2>4. ProcessedOnce' BY <2>1, <2>2 DEF RecoveryInv, ProcessedOnce, Repairing
  <2>5. ResumesCovered'
    <3>1. Cardinality(Resuming') <= Cardinality(Resuming) /\ Cardinality(Resuming') \in Nat BY <2>2, ResumingMoves
    <3> QED BY <1>1, <1>2, <2>1, <3>1, ResumingFinite DEF RecoveryInv, ResumesCovered
  <2> QED BY <1>4, <2>3, <2>4, <2>5 DEF RecoveryInv
<1>6. CASE Listed(h)
  <2>1. /\ handling' = [handling EXCEPT ![h].at = "repairing"] /\ processing' = processing \cup {handling[h].msg}
        /\ handling[h].msg \notin processing /\ UNCHANGED resumed
    BY <1>6 DEF Listed, Admits
  <2>2. /\ handling' \in [Handlers -> Recoveries] /\ handling'[h].at = "repairing" /\ handling'[h].msg = handling[h].msg
        /\ \A g \in Handlers \ {h} : handling'[g] = handling[g]
    BY <2>1, HandlerMoves DEF RecoveryInv
  <2>3. RecoveryTypeOK' BY <1>1, <2>1, <2>2 DEF RecoveryInv, RecoveryTypeOK
  <2>4. ProcessedOnce' BY <2>1, <2>2 DEF RecoveryInv, ProcessedOnce, Repairing
  <2>5. ResumesCovered'
    <3>1. Cardinality(Resuming') <= Cardinality(Resuming) /\ Cardinality(Resuming') \in Nat BY <2>2, ResumingMoves
    <3> QED BY <1>1, <1>2, <2>1, <3>1, ResumingFinite DEF RecoveryInv, ResumesCovered
  <2> QED BY <1>4, <2>3, <2>4, <2>5 DEF RecoveryInv
<1>7. CASE resumeSession(h)
  <2>1. /\ handling[h].at = "resuming" /\ handling' = [handling EXCEPT ![h].at = "done"]
        /\ resumed' \in {resumed, resumed + 1} /\ UNCHANGED processing
    BY <1>7 DEF resumeSession
  <2>2. /\ handling' \in [Handlers -> Recoveries] /\ handling'[h].at = "done" /\ handling'[h].msg = handling[h].msg
        /\ \A g \in Handlers \ {h} : handling'[g] = handling[g]
    BY <2>1, HandlerMoves DEF RecoveryInv
  <2>3. RecoveryTypeOK' BY <1>1, <1>2, <2>1, <2>2 DEF RecoveryInv, RecoveryTypeOK
  <2>4. ProcessedOnce' BY <2>1, <2>2 DEF RecoveryInv, ProcessedOnce, Repairing
  <2>5. ResumesCovered'
    <3>1. Cardinality(Resuming') = Cardinality(Resuming) - 1 BY <2>1, <2>2, ResumingMoves
    <3> QED BY <1>1, <1>2, <2>1, <3>1, ResumingFinite DEF RecoveryInv, ResumesCovered
  <2> QED BY <1>4, <2>3, <2>4, <2>5 DEF RecoveryInv
<1>8. CASE RecoveryDone(h)
  <2>1. /\ handling[h].at = "done" /\ handling' = [handling EXCEPT ![h] = NoRecovery]
        /\ processing' = processing \ {handling[h].msg} /\ UNCHANGED resumed
    BY <1>8 DEF RecoveryDone, Drops
  <2>2. /\ handling' \in [Handlers -> Recoveries] /\ handling'[h].at = "idle"
        /\ \A g \in Handlers \ {h} : handling'[g] = handling[g]
    BY <1>2, <1>3, <2>1
  <2>3. RecoveryTypeOK' BY <1>1, <2>1, <2>2 DEF RecoveryInv, RecoveryTypeOK
  <2>4. ProcessedOnce' BY <2>1, <2>2 DEF RecoveryInv, ProcessedOnce, Repairing
  <2>5. ResumesCovered'
    <3>1. Cardinality(Resuming') <= Cardinality(Resuming) /\ Cardinality(Resuming') \in Nat BY <2>2, ResumingMoves
    <3> QED BY <1>1, <1>2, <2>1, <3>1, ResumingFinite DEF RecoveryInv, ResumesCovered
  <2> QED BY <1>4, <2>3, <2>4, <2>5 DEF RecoveryInv
<1> QED BY <1>5, <1>6, <1>7, <1>8

LEMMA RecoveryInvNext == RecoveryInv /\ [RecoveryNext]_recoveryVars => RecoveryInv'
<1> SUFFICES ASSUME RecoveryInv, [RecoveryNext]_recoveryVars PROVE RecoveryInv'
  OBVIOUS
<1>1. CASE FileFreed
  <2>1. partFile.aside = FALSE /\ partFile' = [partFile EXCEPT !.busy = FALSE]
    BY <1>1 DEF FileFreed, RecoveryInv, RecoveryTypeOK
  <2>2. partFile' \in [healthy : BOOLEAN, aside : BOOLEAN, busy : BOOLEAN] /\ partFile'.aside = FALSE
    BY <2>1 DEF RecoveryInv, RecoveryTypeOK
  <2> QED BY <1>1, <2>2 DEF FileFreed, RecoveryInv, RecoveryTypeOK, ProcessedOnce, ResumesCovered, Resuming, OnlyCorruptPutAside
<1>2. CASE UNCHANGED recoveryVars
  BY <1>2 DEF recoveryVars, RecoveryInv, RecoveryTypeOK, ProcessedOnce, ResumesCovered, Resuming, OnlyCorruptPutAside
<1> QED BY <1>1, <1>2, ToolKeeps, OrderKeeps, DisabledKeeps, HandlerKeeps DEF RecoveryNext

\* However many events report errors at once, a session is resumed at most once for a
\* message that was repaired on disk, no message is being recovered twice, and a part file
\* that could be read is not put aside (lib/recovery.ts).
THEOREM ResumesEarned == RecoverySpec => []RecoveryEarned
<1>1. RecoveryInv => RecoveryEarned
  <2> SUFFICES ASSUME RecoveryInv PROVE RecoveryEarned
    OBVIOUS
  <2>1. ResumesAreEarned BY ResumingFinite DEF RecoveryInv, RecoveryTypeOK, ResumesCovered, ResumesAreEarned
  <2>2. OneRecoveryPerMessage BY DEF RecoveryInv, ProcessedOnce, Repairing, OneRecoveryPerMessage
  <2> QED BY <2>1, <2>2 DEF RecoveryInv, RecoveryEarned
<1> QED BY <1>1, RecoveryInvInit, RecoveryInvNext, PTL DEF RecoverySpec

-----------------------------------------------------------------------------
(* The manager cached from the accounts file. *)

Watchers == [on : BOOLEAN, known : Nat, timer : BOOLEAN, reload : {"idle", "load", "stat"}, poll : Nat]

ReloadTypeOK ==
  /\ accountsFile \in Nat /\ cached \in Nat /\ loading \in Int /\ live \in Watchers /\ watchEvent \in BOOLEAN
  /\ loader \in {"idle", "mtime", "arm", "manager", "load"}

\* Nothing from the future is remembered, and only a running watcher has a timer.  A poll
\* that began before the watcher was replaced brings no newer time than the new one's.
WatcherTrue ==
  /\ live.known <= accountsFile /\ live.poll <= accountsFile
  /\ live.timer => live.on
  /\ loader = "arm" => live.poll <= live.known
  /\ loader \in {"mtime", "arm"} => ~live.on

\* What is cached, or has been read and is about to be, is the newest file.
UpToDate == cached \in {NoManager, accountsFile} /\ (HasRead => loading = accountsFile)

\* A reload reads the newest file, its result is the newest file, and a watcher at rest
\* that knows the newest file has no older one cached.
NothingMissed ==
  missed = {} =>
    /\ live.reload = "load" /\ HasRead => loading = accountsFile
    /\ live.reload = "stat" => UpToDate
    /\ live.reload = "idle" /\ live.known = accountsFile /\ ~live.timer /\ (live.on \/ loader = "arm") => UpToDate

ReloadInv == ReloadTypeOK /\ WatcherTrue /\ NothingMissed

LEMMA ReloadInvInit == ReloadInit => ReloadInv
<1> SUFFICES ASSUME ReloadInit PROVE ReloadInv
  OBVIOUS
<1>1. Stopped \in Watchers /\ Stopped.on = FALSE /\ Stopped.known = 0 /\ Stopped.poll = 0 /\ Stopped.timer = FALSE /\ Stopped.reload = "idle"
  BY DEF Stopped, Watchers
<1>2. /\ accountsFile = 1 /\ cached = NoManager /\ loading = NotLoading /\ live = Stopped /\ watchEvent = FALSE
      /\ loader = "idle"
  BY DEF ReloadInit
<1>0. NotLoading \in Int BY DEF NotLoading
<1>3. ReloadTypeOK BY <1>0, <1>1, <1>2 DEF ReloadTypeOK, NoManager
<1>4. WatcherTrue /\ NothingMissed BY <1>1, <1>2 DEF WatcherTrue, NothingMissed
<1> QED BY <1>3, <1>4 DEF ReloadInv

LEMMA WatcherShape ==
  ASSUME ReloadInv
  PROVE  /\ accountsFile \in Nat /\ cached \in Nat /\ loading \in Int /\ live \in Watchers /\ watchEvent \in BOOLEAN
         /\ loader \in {"idle", "mtime", "arm", "manager", "load"}
         /\ live.on \in BOOLEAN /\ live.known \in Nat /\ live.timer \in BOOLEAN /\ live.poll \in Nat
         /\ live.reload \in {"idle", "load", "stat"}
<1>1. live \in Watchers
  BY DEF ReloadInv, ReloadTypeOK
<1>2. /\ live.on \in BOOLEAN /\ live.known \in Nat /\ live.timer \in BOOLEAN /\ live.poll \in Nat
      /\ live.reload \in {"idle", "load", "stat"}
  BY <1>1 DEF Watchers
<1> QED BY <1>2 DEF ReloadInv, ReloadTypeOK

LEMMA ReloadInvNext == ReloadInv /\ [ReloadNext]_reloadVars => ReloadInv'
<1> SUFFICES ASSUME ReloadInv, [ReloadNext]_reloadVars PROVE ReloadInv'
  OBVIOUS
<1> USE DEF HasRead, NotLoading, NoManager, Reading
<1>1. ASSUME NEW b \in BOOLEAN, FileWritten(b) PROVE ReloadInv'
  <2>1. /\ accountsFile' = accountsFile + 1 /\ watchEvent' \in {watchEvent, live.on}
        /\ missed' = IF live.reload = "stat" \/ (live.reload = "load" /\ HasRead) THEN missed \cup {"overtaken"} ELSE missed
        /\ UNCHANGED <<cached, loading, live, loader>>
    BY <1>1 DEF FileWritten
  <2>2. ReloadTypeOK' BY <2>1, WatcherShape DEF ReloadTypeOK
  <2>3. WatcherTrue' BY <2>1, WatcherShape DEF ReloadInv, WatcherTrue
  <2>4. live.known # accountsFile' BY <2>1, WatcherShape DEF ReloadInv, WatcherTrue
  <2>5. NothingMissed' BY <2>1, <2>4 DEF ReloadInv, NothingMissed
  <2> QED BY <2>2, <2>3, <2>5 DEF ReloadInv
<1>2. ASSUME NEW b \in BOOLEAN, LoaderEnsures(b) PROVE ReloadInv'
  <2>1. loader = "idle" /\ watchEvent' = (watchEvent /\ live'.on) /\ UNCHANGED <<accountsFile, cached, loading, missed>>
    BY <1>2 DEF LoaderEnsures
  <2>2. CASE b /\ live.on
    <3>1. loader' = "manager" /\ live' = live BY <1>2, <2>2 DEF LoaderEnsures
    <3> QED BY <2>1, <3>1, WatcherShape DEF ReloadInv, ReloadTypeOK, WatcherTrue, NothingMissed, UpToDate
  <2>3. CASE ~(b /\ live.on)
    <3>1. loader' \in {"mtime", "manager"} /\ live' = [live EXCEPT !.on = FALSE, !.timer = FALSE]
      BY <1>2, <2>3 DEF LoaderEnsures
    <3>2. /\ live' \in Watchers /\ live'.on = FALSE /\ live'.timer = FALSE /\ live'.known = live.known
          /\ live'.poll = live.poll /\ live'.reload = live.reload
      BY <3>1, WatcherShape DEF Watchers
    <3> QED BY <2>1, <3>1, <3>2, WatcherShape DEF ReloadInv, ReloadTypeOK, WatcherTrue, NothingMissed, UpToDate
  <2> QED BY <2>2, <2>3
<1>3. CASE LoginInvalidates
  <2>1. cached' = NoManager /\ UNCHANGED <<accountsFile, loading, live, watchEvent, loader, missed>>
    BY <1>3 DEF LoginInvalidates
  <2> QED BY <2>1 DEF ReloadInv, ReloadTypeOK, WatcherTrue, NothingMissed, UpToDate
<1>4. CASE LoadReads
  <2>1. loading' = accountsFile /\ UNCHANGED <<accountsFile, cached, live, watchEvent, loader, missed>>
    BY <1>4 DEF LoadReads
  <2> QED BY <2>1, WatcherShape DEF ReloadInv, ReloadTypeOK, WatcherTrue, NothingMissed, UpToDate
<1>5. CASE LoadDone
  <2>1. /\ HasRead /\ cached' = loading /\ loading' = NotLoading
        /\ live' = [live EXCEPT !.reload = IF @ = "load" THEN "stat" ELSE @]
        /\ loader' = (IF loader = "load" THEN "idle" ELSE loader) /\ UNCHANGED <<accountsFile, watchEvent, missed>>
    BY <1>5 DEF LoadDone
  <2>2. /\ live' \in Watchers /\ live'.on = live.on /\ live'.timer = live.timer /\ live'.known = live.known
        /\ live'.poll = live.poll /\ live'.reload = (IF live.reload = "load" THEN "stat" ELSE live.reload)
    BY <2>1, WatcherShape DEF Watchers
  <2>3. ReloadTypeOK' BY <2>1, <2>2, WatcherShape DEF ReloadTypeOK
  <2>4. WatcherTrue' BY <2>1, <2>2 DEF ReloadInv, WatcherTrue
  <2>5. NothingMissed' BY <2>1, <2>2 DEF ReloadInv, NothingMissed, UpToDate
  <2> QED BY <2>3, <2>4, <2>5 DEF ReloadInv
<1>6. CASE LoadFails
  <2>1. /\ loading' = NotLoading
        /\ live' = [live EXCEPT !.reload = IF @ = "load" THEN "idle" ELSE @]
        /\ loader' = (IF loader = "load" THEN "idle" ELSE loader) /\ UNCHANGED <<accountsFile, cached, watchEvent>>
        /\ missed' = IF live.reload = "load" /\ live.known = accountsFile THEN missed \cup {"failed"} ELSE missed
    BY <1>6 DEF LoadFails
  <2>2. /\ live' \in Watchers /\ live'.on = live.on /\ live'.timer = live.timer /\ live'.known = live.known
        /\ live'.poll = live.poll /\ live'.reload = (IF live.reload = "load" THEN "idle" ELSE live.reload)
    BY <2>1, WatcherShape DEF Watchers
  <2>3. ReloadTypeOK' BY <2>1, <2>2, WatcherShape DEF ReloadTypeOK
  <2>4. WatcherTrue' BY <2>1, <2>2 DEF ReloadInv, WatcherTrue
  <2>5. NothingMissed' BY <2>1, <2>2 DEF ReloadInv, NothingMissed, UpToDate
  <2> QED BY <2>3, <2>4, <2>5 DEF ReloadInv
<1>7. CASE LoaderReadsMtime
  <2>1. /\ loader = "mtime" /\ live' = [live EXCEPT !.known = accountsFile] /\ loader' = "arm"
        /\ missed' = IF cached \notin {NoManager, accountsFile} \/ (HasRead /\ loading # accountsFile)
                     THEN missed \cup {"blind"} ELSE missed
        /\ UNCHANGED <<accountsFile, cached, loading, watchEvent>>
    BY <1>7 DEF LoaderReadsMtime
  <2>2. /\ live' \in Watchers /\ live'.on = live.on /\ live'.timer = live.timer /\ live'.known = accountsFile
        /\ live'.poll = live.poll /\ live'.reload = live.reload
    BY <2>1, WatcherShape DEF Watchers
  <2>3. ReloadTypeOK' BY <2>1, <2>2, WatcherShape DEF ReloadTypeOK
  <2>4. WatcherTrue' BY <2>1, <2>2, WatcherShape DEF ReloadInv, WatcherTrue
  <2>5. NothingMissed' BY <2>1, <2>2 DEF ReloadInv, NothingMissed, UpToDate
  <2> QED BY <2>3, <2>4, <2>5 DEF ReloadInv
<1>8. CASE LoaderArms
  <2>1. loader = "arm" /\ live' = [live EXCEPT !.on = TRUE] /\ loader' = "manager" /\ UNCHANGED <<accountsFile, cached, loading, watchEvent, missed>>
    BY <1>8 DEF LoaderArms
  <2>2. /\ live' \in Watchers /\ live'.on = TRUE /\ live'.timer = live.timer /\ live'.known = live.known
        /\ live'.poll = live.poll /\ live'.reload = live.reload
    BY <2>1, WatcherShape DEF Watchers
  <2> QED BY <2>1, <2>2, WatcherShape DEF ReloadInv, ReloadTypeOK, WatcherTrue, NothingMissed, UpToDate
<1>9. CASE LoaderTakesManager
  <2>1. /\ loader = "manager" /\ loader' \in {"idle", "load"} /\ UNCHANGED <<accountsFile, cached, live, watchEvent, missed>>
        /\ loading' = loading \/ loading' = Reading
    BY <1>9 DEF LoaderTakesManager, Load
  <2> QED BY <2>1, WatcherShape DEF ReloadInv, ReloadTypeOK, WatcherTrue, NothingMissed, UpToDate
<1>10. CASE WatchFires
  <2>1. watchEvent' = FALSE /\ live' = [live EXCEPT !.timer = live.on] /\ UNCHANGED <<accountsFile, cached, loading, loader, missed>>
    BY <1>10 DEF WatchFires
  <2>2. /\ live' \in Watchers /\ live'.on = live.on /\ live'.timer = live.on /\ live'.known = live.known
        /\ live'.poll = live.poll /\ live'.reload = live.reload
    BY <2>1, WatcherShape DEF Watchers
  <2> QED BY <2>1, <2>2, WatcherShape DEF ReloadInv, ReloadTypeOK, WatcherTrue, NothingMissed, UpToDate
<1>11. CASE PollReads
  <2>1. live.on /\ live' = [live EXCEPT !.poll = accountsFile] /\ UNCHANGED <<accountsFile, cached, loading, watchEvent, loader, missed>>
    BY <1>11 DEF PollReads
  <2>2. /\ live' \in Watchers /\ live'.on = live.on /\ live'.timer = live.timer /\ live'.known = live.known
        /\ live'.poll = accountsFile /\ live'.reload = live.reload
    BY <2>1, WatcherShape DEF Watchers
  <2> QED BY <2>1, <2>2, WatcherShape DEF ReloadInv, ReloadTypeOK, WatcherTrue, NothingMissed, UpToDate
<1>12. CASE PollCompares
  <2>1. live' = Polled(live) /\ UNCHANGED <<accountsFile, cached, loading, watchEvent, loader, missed>>
    BY <1>12 DEF PollCompares
  <2>2. /\ live' \in Watchers /\ live'.on = live.on /\ live'.poll = 0 /\ live'.reload = live.reload
        /\ \/ live.poll = live.known /\ live'.known = live.known /\ live'.timer = live.timer
           \/ live.poll # live.known /\ live'.known = live.poll /\ live'.timer = (live.timer \/ live.on)
    <3> DEFINE armed == live.timer \/ live.on
    <3>1. armed \in BOOLEAN OBVIOUS
    <3>2. CASE live.poll = live.known
      <4>1. live' = [live EXCEPT !.poll = 0] BY <2>1, <3>2 DEF Polled
      <4> QED BY <3>2, <4>1, WatcherShape DEF Watchers
    <3>3. CASE live.poll # live.known
      <4>1. live' = [live EXCEPT !.poll = 0, !.known = live.poll, !.timer = armed] BY <2>1, <3>3 DEF Polled
      <4> HIDE DEF armed
      <4>2. /\ live' \in Watchers /\ live'.on = live.on /\ live'.poll = 0 /\ live'.reload = live.reload
            /\ live'.known = live.poll /\ live'.timer = armed
        BY <3>1, <4>1, WatcherShape DEF Watchers
      <4> QED BY <3>3, <4>2 DEF armed
    <3> QED BY <3>2, <3>3
  <2>3. ReloadTypeOK' BY <2>1, <2>2, WatcherShape DEF ReloadTypeOK
  <2>4. WatcherTrue' BY <2>1, <2>2, WatcherShape DEF ReloadInv, WatcherTrue
  <2>5. NothingMissed'
    <3>1. CASE live.poll = live.known
      BY <2>1, <2>2, <3>1 DEF ReloadInv, NothingMissed, UpToDate
    <3>2. CASE live.poll # live.known
      <4>1. loader = "arm" => live'.known # accountsFile
        BY <2>2, <3>2, WatcherShape DEF ReloadInv, WatcherTrue
      <4> QED BY <2>1, <2>2, <3>2, <4>1 DEF ReloadInv, NothingMissed, UpToDate
    <3> QED BY <3>1, <3>2
  <2> QED BY <2>3, <2>4, <2>5 DEF ReloadInv
<1>13. CASE DebounceFires
  <2>1. live.timer /\ live.on /\ UNCHANGED <<accountsFile, cached, watchEvent, loader>>
    BY <1>13 DEF DebounceFires, ReloadInv, WatcherTrue
  <2>2. CASE live.reload # "idle"
    <3>1. live' = [live EXCEPT !.timer = FALSE] /\ UNCHANGED <<loading, missed>>
      BY <1>13, <2>2 DEF DebounceFires
    <3>2. /\ live' \in Watchers /\ live'.on = live.on /\ live'.timer = FALSE /\ live'.known = live.known
          /\ live'.poll = live.poll /\ live'.reload = live.reload
      BY <3>1, WatcherShape DEF Watchers
    <3> QED BY <2>1, <2>2, <3>1, <3>2, WatcherShape DEF ReloadInv, ReloadTypeOK, WatcherTrue, NothingMissed, UpToDate
  <2>3. CASE live.reload = "idle"
    <3>1. /\ live' = [live EXCEPT !.timer = FALSE, !.reload = "load"] /\ Load
          /\ missed' = IF HasRead /\ loading # accountsFile THEN missed \cup {"joined"} ELSE missed
      BY <1>13, <2>1, <2>3 DEF DebounceFires
    <3>2. /\ live' \in Watchers /\ live'.on = live.on /\ live'.timer = FALSE /\ live'.known = live.known
          /\ live'.poll = live.poll /\ live'.reload = "load"
      BY <3>1, WatcherShape DEF Watchers
    <3>3. loading' = loading \/ loading' = Reading BY <3>1 DEF Load
    <3> QED BY <2>1, <3>1, <3>2, <3>3, WatcherShape DEF ReloadInv, ReloadTypeOK, WatcherTrue, NothingMissed, UpToDate
  <2> QED BY <2>2, <2>3
<1>14. CASE ReloadStats
  <2>1. /\ live.reload = "stat" /\ live' = [live EXCEPT !.known = accountsFile, !.reload = "idle"]
        /\ UNCHANGED <<accountsFile, cached, loading, watchEvent, loader, missed>>
    BY <1>14 DEF ReloadStats
  <2>2. /\ live' \in Watchers /\ live'.on = live.on /\ live'.timer = live.timer /\ live'.known = accountsFile
        /\ live'.poll = live.poll /\ live'.reload = "idle"
    BY <2>1, WatcherShape DEF Watchers
  <2> QED BY <2>1, <2>2, WatcherShape DEF ReloadInv, ReloadTypeOK, WatcherTrue, NothingMissed, UpToDate
<1>15. CASE UNCHANGED reloadVars
  BY <1>15 DEF reloadVars, ReloadInv, ReloadTypeOK, WatcherTrue, NothingMissed, UpToDate
<1> QED BY <1>1, <1>2, <1>3, <1>4, <1>5, <1>6, <1>7, <1>8, <1>9, <1>10, <1>11, <1>12, <1>13, <1>14, <1>15 DEF ReloadNext

\* Whatever writers, logins, reloads and the watcher's restarts do to each other, a manager
\* cached when everything is at rest is that of the newest file; the named windows of the
\* watcher and of failed reloads excepted (lib/live-account-sync.ts).
THEOREM CacheAlwaysCatchesUp == ReloadSpec => []CacheCatchesUp
<1>1. ReloadInv => CacheCatchesUp
  BY DEF ReloadInv, NothingMissed, UpToDate, CacheCatchesUp
<1> QED BY <1>1, ReloadInvInit, ReloadInvNext, PTL DEF ReloadSpec

-----------------------------------------------------------------------------
(* Debounced saves. *)

Savings == [at : {"idle", "wait", "save", "write", "failed"}, sees : Nat, behind : Savers \cup {NoSaver}]
Flushes == [at : {"idle", "save", "write", "wait", "done"}, goal : Nat, for : Savers \cup {NoSaver}]

SaveTypeOK ==
  /\ changes \in Nat /\ onDisk \in Nat /\ saveTimer \in BOOLEAN /\ retries \in Nat /\ gaveUp \in BOOLEAN /\ queued \in BOOLEAN
  /\ saver \in [Savers -> Savings] /\ flush \in Flushes /\ pendingSave \in Savers \cup {NoSaver}

\* One saver is under the lock, and what it writes is no older than the file.
WriterNewer ==
  /\ onDisk <= changes
  /\ \A s \in Savers : saver[s].at = "write" => onDisk <= saver[s].sees /\ saver[s].sees <= changes /\ flush.at # "write"
  /\ \A s, t \in Savers : saver[s].at = "write" /\ saver[t].at = "write" => s = t

\* The promise others wait for is that of a save that has not ended.
PendingLives == pendingSave # NoSaver => saver[pendingSave].at \in {"save", "write"}

\* Everything is on disk, and no save under way is about to write less.
Settled == onDisk = changes /\ \A s \in Savers : saver[s].at = "write" => saver[s].sees = changes

\* The save that the flush waits for will bring, or has brought, everything to the disk.
FlushTrue ==
  /\ flush.at # "idle" => flush.goal = changes
  /\ flush.at = "wait" => flush.for \in Savers
  /\ ~gaveUp /\ ~queued =>
       /\ flush.at = "done" => Settled
       /\ flush.at = "wait" => Settled \/ saver[flush.for].at = "save" \/ (saver[flush.for].at = "write" /\ saver[flush.for].sees = changes)

SaveInv == SaveTypeOK /\ WriterNewer /\ PendingLives /\ FlushTrue /\ ChangeOnItsWay

LEMMA SaveInvInit == SaveInit => SaveInv
<1> SUFFICES ASSUME SaveInit PROVE SaveInv
  OBVIOUS
<1>1. IdleSaver \in Savings /\ IdleSaver.at = "idle" BY DEF IdleSaver, Savings
<1>2. /\ changes = 0 /\ onDisk = 0 /\ saveTimer = FALSE /\ retries = 0 /\ pendingSave = NoSaver /\ gaveUp = FALSE /\ queued = FALSE
      /\ \A s \in Savers : saver[s] = IdleSaver
      /\ saver \in [Savers -> Savings] /\ flush \in Flushes /\ flush.at = "idle"
  BY <1>1 DEF SaveInit, Flushes
<1>3. SaveTypeOK BY <1>2 DEF SaveTypeOK
<1>4. \A s \in Savers : saver[s].at = "idle" BY <1>1, <1>2
<1>5. WriterNewer BY <1>2, <1>4 DEF WriterNewer
<1>6. PendingLives /\ FlushTrue /\ ChangeOnItsWay BY <1>2 DEF PendingLives, FlushTrue, ChangeOnItsWay
<1> QED BY <1>3, <1>5, <1>6 DEF SaveInv

LEMMA SaveShape ==
  ASSUME SaveInv
  PROVE  /\ changes \in Nat /\ onDisk \in Nat /\ saveTimer \in BOOLEAN /\ retries \in Nat /\ gaveUp \in BOOLEAN /\ queued \in BOOLEAN
         /\ saver \in [Savers -> Savings] /\ flush \in Flushes /\ pendingSave \in Savers \cup {NoSaver}
         /\ \A s \in Savers : saver[s] \in Savings /\ saver[s].sees \in Nat
                              /\ saver[s].at \in {"idle", "wait", "save", "write", "failed"}
         /\ flush.at \in {"idle", "save", "write", "wait", "done"} /\ flush.goal \in Nat
<1>1. saver \in [Savers -> Savings] /\ flush \in Flushes
  BY DEF SaveInv, SaveTypeOK
<1>2. \A s \in Savers : saver[s] \in Savings /\ saver[s].sees \in Nat
                        /\ saver[s].at \in {"idle", "wait", "save", "write", "failed"}
  BY <1>1 DEF Savings
<1>3. flush.at \in {"idle", "save", "write", "wait", "done"} /\ flush.goal \in Nat
  BY <1>1 DEF Flushes
<1> QED BY <1>2, <1>3 DEF SaveInv, SaveTypeOK

\* One saver moves.
LEMMA SaverMoves ==
  ASSUME SaveInv, NEW s \in Savers, NEW r \in Savings, saver' = [saver EXCEPT ![s] = r]
  PROVE  saver' \in [Savers -> Savings] /\ saver'[s] = r /\ \A t \in Savers \ {s} : saver'[t] = saver[t]
BY SaveShape

\* A save ends: who waited behind it goes on.
LEMMA WakesThem ==
  ASSUME SaveInv, NEW s \in Savers, NEW outcome \in {"ok", "failed"}, Wakes(s, outcome), saver[s].at = "write"
  PROVE  /\ saver' \in [Savers -> Savings] /\ saver'[s] = IdleSaver /\ saver'[s].at = "idle"
         /\ \A t \in Savers \ {s} : \/ saver'[t] = saver[t]
                                    \/ saver[t].at = "wait" /\ saver'[t].at \in {"save", "failed"}
         /\ pendingSave' \in Savers \cup {NoSaver}
         /\ pendingSave' # NoSaver => saver'[pendingSave'].at = "save"
<1> DEFINE woken == {t \in Savers : saver[t].at = "wait" /\ saver[t].behind = s}
           freed == [at |-> "save", sees |-> 0, behind |-> NoSaver]
           lost == [at |-> "failed", sees |-> 0, behind |-> NoSaver]
<1>1. /\ saver' = [t \in Savers |-> IF t = s THEN IdleSaver ELSE IF t \notin woken THEN saver[t]
                                    ELSE IF outcome = "ok" THEN freed ELSE lost]
      /\ IF woken # {} /\ outcome = "ok" THEN pendingSave' \in woken ELSE pendingSave' = NoSaver
  BY DEF Wakes
<1>2. freed \in Savings /\ lost \in Savings /\ IdleSaver \in Savings /\ freed.at = "save" /\ lost.at = "failed" /\ IdleSaver.at = "idle"
  BY DEF Savings, IdleSaver
<1>3. \A t \in woken : t \in Savers /\ saver[t].at = "wait" /\ t # s
  OBVIOUS
<1> HIDE DEF woken, freed, lost
<1>4. saver' \in [Savers -> Savings] BY <1>1, <1>2, SaveShape
<1>5. saver'[s] = IdleSaver BY <1>1
<1>6. \A t \in Savers \ {s} : \/ saver'[t] = saver[t]
                              \/ saver[t].at = "wait" /\ saver'[t].at \in {"save", "failed"}
  BY <1>1, <1>2, <1>3
<1>7. pendingSave' \in Savers \cup {NoSaver} /\ (pendingSave' # NoSaver => saver'[pendingSave'].at = "save")
  BY <1>1, <1>2, <1>3
<1> QED BY <1>2, <1>4, <1>5, <1>6, <1>7

\* The flush hears that a save has ended.
LEMMA FlushHears ==
  ASSUME SaveInv, NEW s \in Savers, flush' = FlushAfter(s)
  PROVE  /\ flush' \in Flushes /\ flush'.goal = flush.goal /\ flush'.for = flush.for
         /\ \/ flush'.at = "done" /\ flush.at = "wait" /\ flush.for = s
            \/ flush' = flush /\ ~(flush.at = "wait" /\ flush.for = s)
<1>1. flush \in Flushes BY SaveShape
<1> QED BY <1>1 DEF FlushAfter, Flushes

LEMMA RetryFacts ==
  ASSUME SaveInv, Retry, gaveUp' = (gaveUp \/ retries >= MaxSaveRetries \/ flush.at # "idle")
  PROVE  /\ retries' \in Nat /\ saveTimer' \in BOOLEAN /\ gaveUp' \in BOOLEAN
         /\ ~gaveUp' => ~gaveUp /\ flush.at = "idle" /\ saveTimer'
<1> DEFINE late == retries >= MaxSaveRetries
<1>1. retries \in Nat /\ gaveUp \in BOOLEAN /\ saveTimer \in BOOLEAN BY SaveShape
<1>2. late \/ Rearms BY <1>1, SaveAssumption DEF Rearms
<1>3. retries + 1 \in Nat BY <1>1
<1>4. gaveUp' = (gaveUp \/ late \/ flush.at # "idle") OBVIOUS
<1> HIDE DEF late
<1>5. gaveUp' \in BOOLEAN /\ (~gaveUp' => ~gaveUp /\ flush.at = "idle" /\ ~late) BY <1>4
<1>6. retries' \in Nat /\ saveTimer' \in BOOLEAN 
  <2>1. CASE Rearms BY <1>1, <1>3, <2>1 DEF Retry
  <2>2. CASE ~Rearms BY <1>1, <2>2 DEF Retry
  <2> QED BY <2>1, <2>2
<1>7. Rearms => saveTimer' BY DEF Retry
<1> QED BY <1>2, <1>5, <1>6, <1>7

LEMMA SaveInvNext == SaveInv /\ [SaveNext]_saveVars => SaveInv'
<1> SUFFICES ASSUME SaveInv, [SaveNext]_saveVars PROVE SaveInv'
  OBVIOUS
<1>1. CASE Change
  <2>1. changes' = changes + 1 /\ saveTimer' = TRUE /\ flush.at = "idle" /\ UNCHANGED <<onDisk, retries, saver, pendingSave, flush, gaveUp, queued>>
    BY <1>1 DEF Change
  <2> QED BY <2>1, SaveShape DEF SaveInv, SaveTypeOK, WriterNewer, PendingLives, FlushTrue, ChangeOnItsWay
<1>2. ASSUME NEW s \in Savers, TimerFires(s) PROVE SaveInv'
  <2> DEFINE r == IF pendingSave = NoSaver THEN [at |-> "save", sees |-> 0, behind |-> NoSaver]
                  ELSE [at |-> "wait", sees |-> 0, behind |-> pendingSave]
  <2>1. /\ saver[s].at = "idle" /\ saver' = [saver EXCEPT ![s] = r] /\ saveTimer' = FALSE
        /\ UNCHANGED <<changes, onDisk, retries, flush, gaveUp, queued>>
        /\ pendingSave' = IF pendingSave = NoSaver THEN s ELSE pendingSave
    BY <1>2 DEF TimerFires
  <2>2. r \in Savings /\ r.at \in {"save", "wait"} /\ (pendingSave = NoSaver => r.at = "save")
    BY SaveShape DEF Savings
  <2> HIDE DEF r
  <2>3. saver' \in [Savers -> Savings] /\ saver'[s] = r /\ \A t \in Savers \ {s} : saver'[t] = saver[t]
    BY <2>1, <2>2, SaverMoves
  <2>4. SaveTypeOK' BY <2>1, <2>3, SaveShape DEF SaveTypeOK
  <2>5. WriterNewer' BY <2>1, <2>2, <2>3, SaveShape DEF SaveInv, WriterNewer
  <2>6. PendingLives'
    <3>1. CASE pendingSave = NoSaver BY <2>1, <2>2, <2>3, <3>1 DEF PendingLives
    <3>2. CASE pendingSave # NoSaver
      <4>1. pendingSave \in Savers \ {s} BY <2>1, <3>2, SaveShape DEF SaveInv, PendingLives
      <4> QED BY <2>1, <2>3, <3>2, <4>1 DEF SaveInv, PendingLives
    <3> QED BY <3>1, <3>2
  <2>7. FlushTrue'
    <3>1. Settled => Settled' BY <2>1, <2>2, <2>3 DEF Settled
    <3>2. flush.at = "wait" => flush.for \in Savers BY DEF SaveInv, FlushTrue
    <3>3. flush.at = "wait" /\ saver[flush.for].at \in {"save", "write"} => saver'[flush.for] = saver[flush.for]
      BY <2>1, <2>3, <3>2
    <3> QED BY <2>1, <3>1, <3>2, <3>3 DEF SaveInv, FlushTrue
  <2>8. ChangeOnItsWay' BY <2>1, <2>2, <2>3 DEF ChangeOnItsWay
  <2> QED BY <2>4, <2>5, <2>6, <2>7, <2>8 DEF SaveInv
<1>3. ASSUME NEW s \in Savers, SaveReads(s) PROVE SaveInv'
  <2> DEFINE r == [saver[s] EXCEPT !.at = "write", !.sees = changes]
  <2>1. /\ saver[s].at = "save" /\ saver' = [saver EXCEPT ![s] = r] /\ ~Locked
        /\ UNCHANGED <<changes, onDisk, saveTimer, retries, pendingSave, flush, gaveUp, queued>>
    BY <1>3 DEF SaveReads
  <2>2. r \in Savings /\ r.at = "write" /\ r.sees = changes
    <3>1. saver[s] \in Savings BY SaveShape
    <3> QED BY <3>1, SaveShape DEF Savings
  <2> HIDE DEF r
  <2>3. saver' \in [Savers -> Savings] /\ saver'[s] = r /\ \A t \in Savers \ {s} : saver'[t] = saver[t]
    BY <2>1, <2>2, SaverMoves
  <2>4. SaveTypeOK' BY <2>1, <2>3, SaveShape DEF SaveTypeOK
  <2>5. \A t \in Savers : saver'[t].at = "write" => t = s
    BY <2>1, <2>3 DEF Locked
  <2>6. WriterNewer' BY <2>1, <2>2, <2>3, <2>5, SaveShape DEF SaveInv, WriterNewer, Locked
  <2>7. PendingLives' BY <2>1, <2>2, <2>3, SaveShape DEF SaveInv, PendingLives
  <2>8. FlushTrue'
    <3>1. Settled => Settled' BY <2>1, <2>2, <2>3 DEF Settled
    <3>2. flush.at = "wait" => flush.for \in Savers BY DEF SaveInv, FlushTrue
    <3>3. flush.at = "wait" /\ flush.for # s => saver'[flush.for] = saver[flush.for] BY <2>3, <3>2
    <3> QED BY <2>1, <2>2, <2>3, <3>1, <3>2, <3>3 DEF SaveInv, FlushTrue
  <2>9. ChangeOnItsWay' BY <2>1, <2>2, <2>3 DEF SaveInv, ChangeOnItsWay
  <2> QED BY <2>4, <2>6, <2>7, <2>8, <2>9 DEF SaveInv
<1>4. ASSUME NEW s \in Savers, SaveSucceeds(s) PROVE SaveInv'
  <2>1. /\ saver[s].at = "write" /\ onDisk' = saver[s].sees /\ retries' = 0 /\ Wakes(s, "ok") /\ flush' = FlushAfter(s)
        /\ UNCHANGED <<changes, saveTimer, gaveUp, queued>>
    BY <1>4 DEF SaveSucceeds
  <2>2. /\ saver' \in [Savers -> Savings] /\ saver'[s] = IdleSaver /\ saver'[s].at = "idle"
        /\ \A t \in Savers \ {s} : \/ saver'[t] = saver[t]
                                   \/ saver[t].at = "wait" /\ saver'[t].at \in {"save", "failed"}
        /\ pendingSave' \in Savers \cup {NoSaver}
        /\ pendingSave' # NoSaver => saver'[pendingSave'].at = "save"
    BY <2>1, WakesThem
  <2>3. /\ flush' \in Flushes /\ flush'.goal = flush.goal /\ flush'.for = flush.for
        /\ \/ flush'.at = "done" /\ flush.at = "wait" /\ flush.for = s
           \/ flush' = flush /\ ~(flush.at = "wait" /\ flush.for = s)
    BY <2>1, FlushHears
  <2>4. SaveTypeOK' BY <2>1, <2>2, <2>3, SaveShape DEF SaveTypeOK
  <2>5. \A t \in Savers : saver'[t].at # "write"
    BY <2>1, <2>2 DEF SaveInv, WriterNewer
  <2>6. onDisk <= saver[s].sees /\ saver[s].sees <= changes BY <2>1 DEF SaveInv, WriterNewer
  <2>7. WriterNewer' BY <2>1, <2>5, <2>6 DEF WriterNewer
  <2>8. PendingLives' BY <2>2 DEF PendingLives
  <2>9. FlushTrue'
    <3>1. saver[s].sees = changes => Settled' BY <2>1, <2>5 DEF Settled
    <3>2. Settled => Settled' BY <2>1, <3>1 DEF Settled
    <3>3. flush.at = "wait" => flush.for \in Savers BY DEF SaveInv, FlushTrue
    <3>4. flush.at = "wait" /\ flush.for # s /\ saver[flush.for].at = "save" => saver'[flush.for].at = "save"
      BY <2>2, <3>3
    <3>5. flush.at = "wait" /\ saver[flush.for].at = "write" => flush.for = s
      BY <2>1, <3>3 DEF SaveInv, WriterNewer
    <3> QED BY <2>1, <2>3, <3>1, <3>2, <3>3, <3>4, <3>5 DEF SaveInv, FlushTrue
  <2>10. ChangeOnItsWay'
    <3> SUFFICES ASSUME ~gaveUp, flush'.at = "idle", saver[s].sees < changes, ~saveTimer
                 PROVE  \E t \in Savers : saver'[t].at \in {"wait", "save", "failed"}
      BY <2>1 DEF ChangeOnItsWay
    <3>1. onDisk < changes /\ flush.at = "idle" BY <2>3, <2>6, SaveShape
    <3>2. PICK t \in Savers : saver[t].at \in {"wait", "save", "failed"} \/ (saver[t].at = "write" /\ saver[t].sees = changes)
      BY <3>1 DEF SaveInv, ChangeOnItsWay
    <3>3. t # s BY <2>1, <3>2, SaveShape
    <3>4. saver[t].at # "write" BY <2>1, <3>3 DEF SaveInv, WriterNewer
    <3>5. saver'[t].at \in {"wait", "save", "failed"} BY <2>2, <3>2, <3>3, <3>4
    <3> QED BY <3>5
  <2> QED BY <2>4, <2>7, <2>8, <2>9, <2>10 DEF SaveInv
<1>5. ASSUME NEW s \in Savers, SaveFails(s) PROVE SaveInv'
  <2>1. /\ saver[s].at = "write" /\ Wakes(s, "failed") /\ Retry /\ flush' = FlushAfter(s)
        /\ gaveUp' = (gaveUp \/ retries >= MaxSaveRetries \/ flush.at # "idle") /\ UNCHANGED <<changes, onDisk, queued>>
    BY <1>5 DEF SaveFails
  <2>2. /\ saver' \in [Savers -> Savings] /\ saver'[s] = IdleSaver /\ saver'[s].at = "idle"
        /\ \A t \in Savers \ {s} : \/ saver'[t] = saver[t]
                                   \/ saver[t].at = "wait" /\ saver'[t].at \in {"save", "failed"}
        /\ pendingSave' \in Savers \cup {NoSaver}
        /\ pendingSave' # NoSaver => saver'[pendingSave'].at = "save"
    BY <2>1, WakesThem
  <2>3. /\ flush' \in Flushes /\ flush'.goal = flush.goal /\ flush'.for = flush.for
        /\ \/ flush'.at = "done" /\ flush.at = "wait" /\ flush.for = s
           \/ flush' = flush /\ ~(flush.at = "wait" /\ flush.for = s)
    BY <2>1, FlushHears
  <2>4. /\ retries' \in Nat /\ saveTimer' \in BOOLEAN /\ gaveUp' \in BOOLEAN
        /\ ~gaveUp' => ~gaveUp /\ flush.at = "idle" /\ saveTimer'
    BY <2>1, RetryFacts
  <2>5. SaveTypeOK' BY <2>1, <2>2, <2>3, <2>4, SaveShape DEF SaveTypeOK
  <2>6. \A t \in Savers : saver'[t].at # "write"
    BY <2>1, <2>2 DEF SaveInv, WriterNewer
  <2>7. WriterNewer' BY <2>1, <2>6 DEF SaveInv, WriterNewer
  <2>8. PendingLives' BY <2>2 DEF PendingLives
  <2>9. FlushTrue' BY <2>1, <2>3, <2>4 DEF SaveInv, FlushTrue
  <2>10. ChangeOnItsWay' BY <2>4 DEF ChangeOnItsWay
  <2> QED BY <2>5, <2>7, <2>8, <2>9, <2>10 DEF SaveInv
<1>6. ASSUME NEW s \in Savers, WaiterFails(s) PROVE SaveInv'
  <2>1. /\ saver[s].at = "failed" /\ saver' = [saver EXCEPT ![s] = IdleSaver] /\ Retry
        /\ gaveUp' = (gaveUp \/ retries >= MaxSaveRetries \/ flush.at # "idle") /\ UNCHANGED <<changes, onDisk, pendingSave, flush, queued>>
    BY <1>6 DEF WaiterFails
  <2>2. IdleSaver \in Savings /\ IdleSaver.at = "idle" BY DEF IdleSaver, Savings
  <2>3. saver' \in [Savers -> Savings] /\ saver'[s] = IdleSaver /\ \A t \in Savers \ {s} : saver'[t] = saver[t]
    BY <2>1, <2>2, SaverMoves
  <2>4. /\ retries' \in Nat /\ saveTimer' \in BOOLEAN /\ gaveUp' \in BOOLEAN
        /\ ~gaveUp' => ~gaveUp /\ flush.at = "idle" /\ saveTimer'
    BY <2>1, RetryFacts
  <2>5. SaveTypeOK' BY <2>1, <2>3, <2>4, SaveShape DEF SaveTypeOK
  <2>6. \A t \in Savers : saver'[t].at = "write" => saver'[t] = saver[t] BY <2>2, <2>3
  <2>7. WriterNewer' BY <2>1, <2>6 DEF SaveInv, WriterNewer
  <2>8. PendingLives'
    <3>1. pendingSave # NoSaver => pendingSave \in Savers \ {s}
      BY <2>1, SaveShape DEF SaveInv, PendingLives
    <3> QED BY <2>1, <2>3, <3>1 DEF SaveInv, PendingLives
  <2>9. FlushTrue' BY <2>1, <2>4 DEF SaveInv, FlushTrue
  <2>10. ChangeOnItsWay' BY <2>4 DEF ChangeOnItsWay
  <2> QED BY <2>5, <2>7, <2>8, <2>9, <2>10 DEF SaveInv
<1>7. CASE FlushBegins
  <2>1. /\ flush.at = "idle" /\ saveTimer' = FALSE
        /\ queued' = \E s \in Savers : saver[s].at \in {"wait", "failed"} \/ (saver[s].at \in {"save", "write"} /\ s # pendingSave)
        /\ UNCHANGED <<changes, onDisk, retries, saver, pendingSave, gaveUp>>
    BY <1>7 DEF FlushBegins
  <2>2. flush' = IF saveTimer THEN [at |-> "save", goal |-> changes, for |-> NoSaver]
                 ELSE IF pendingSave # NoSaver THEN [at |-> "wait", goal |-> changes, for |-> pendingSave]
                 ELSE [at |-> "done", goal |-> changes, for |-> NoSaver]
    BY <1>7 DEF FlushBegins
  <2>3. /\ flush' \in Flushes /\ flush'.goal = changes /\ flush'.at \in {"save", "wait", "done"}
        /\ flush'.at = "wait" => ~saveTimer /\ pendingSave # NoSaver /\ flush'.for = pendingSave
        /\ flush'.at = "done" => ~saveTimer /\ pendingSave = NoSaver
    BY <2>2, SaveShape DEF Flushes
  <2>4. SaveTypeOK' BY <2>1, <2>3, SaveShape DEF SaveTypeOK
  <2>5. WriterNewer' /\ PendingLives' /\ ChangeOnItsWay'
    BY <2>1, <2>3 DEF SaveInv, WriterNewer, PendingLives, ChangeOnItsWay
  <2>6. FlushTrue'
    <3>1. ASSUME ~gaveUp, ~queued', ~saveTimer
          PROVE  \/ onDisk = changes
                 \/ pendingSave # NoSaver /\ (saver[pendingSave].at = "save" \/ (saver[pendingSave].at = "write" /\ saver[pendingSave].sees = changes))
      <4>1. CASE onDisk < changes
        <5>1. PICK s \in Savers : saver[s].at \in {"wait", "save", "failed"} \/ (saver[s].at = "write" /\ saver[s].sees = changes)
          BY <2>1, <3>1, <4>1 DEF SaveInv, ChangeOnItsWay
        <5>2. s = pendingSave /\ saver[s].at \in {"save", "write"}
          BY <2>1, <3>1, <5>1
        <5>3. CASE pendingSave = NoSaver
          <6>1. s = pendingSave /\ s \in Savers /\ pendingSave = NoSaver /\ saver[s].at \in {"save", "write"} BY <5>2, <5>3
          <6> QED BY <6>1, SaveAssumption
        <5> QED BY <5>1, <5>2, <5>3
      <4> QED BY <4>1, SaveShape DEF SaveInv, WriterNewer
    <3>2. ASSUME ~queued' PROVE \A s \in Savers : saver[s].at \in {"save", "write"} => s = pendingSave
      BY <2>1, <3>2
    <3>3. ASSUME ~gaveUp, ~queued', flush'.at = "done" PROVE Settled'
      <4>1. \A s \in Savers : saver[s].at # "write"
        BY <2>3, <3>2, <3>3, SaveAssumption
      <4>2. onDisk = changes
        BY <2>3, <3>1, <3>3
      <4> QED BY <2>1, <4>1, <4>2 DEF Settled
    <3>4. ASSUME ~gaveUp, ~queued', flush'.at = "wait"
          PROVE  saver[pendingSave].at = "save" \/ (saver[pendingSave].at = "write" /\ saver[pendingSave].sees = changes)
      <4>1. pendingSave \in Savers /\ saver[pendingSave].at \in {"save", "write"}
        BY <2>3, <3>4, SaveShape DEF SaveInv, PendingLives
      <4>2. saver[pendingSave].at = "write" => onDisk <= saver[pendingSave].sees /\ saver[pendingSave].sees <= changes
        BY <4>1 DEF SaveInv, WriterNewer
      <4> QED BY <2>3, <3>1, <3>4, <4>1, <4>2, SaveShape
    <3> QED BY <2>1, <2>3, <3>3, <3>4, SaveShape DEF FlushTrue
  <2> QED BY <2>4, <2>5, <2>6 DEF SaveInv
<1>8. CASE FlushReads
  <2>1. /\ flush.at = "save" /\ ~Locked /\ flush' = [flush EXCEPT !.at = "write"]
        /\ UNCHANGED <<changes, onDisk, saveTimer, retries, saver, pendingSave, gaveUp, queued>>
    BY <1>8 DEF FlushReads
  <2>2. flush' \in Flushes /\ flush'.at = "write" /\ flush'.goal = flush.goal BY <2>1, SaveShape DEF Flushes
  <2>3. SaveTypeOK' BY <2>1, <2>2, SaveShape DEF SaveTypeOK
  <2> QED BY <2>1, <2>2, <2>3 DEF SaveInv, WriterNewer, PendingLives, FlushTrue, ChangeOnItsWay, Locked
<1>9. CASE FlushWrites
  <2>1. /\ flush.at = "write" /\ UNCHANGED <<changes, saveTimer, retries, saver, pendingSave, queued>>
        /\ \/ /\ onDisk' = changes /\ UNCHANGED gaveUp
              /\ flush' = IF pendingSave # NoSaver THEN [flush EXCEPT !.at = "wait", !.for = pendingSave] ELSE [flush EXCEPT !.at = "done"]
           \/ flush' = [flush EXCEPT !.at = "done"] /\ gaveUp' = TRUE /\ UNCHANGED onDisk
    BY <1>9 DEF FlushWrites
  <2>2. /\ flush' \in Flushes /\ flush'.goal = flush.goal /\ flush'.at \in {"wait", "done"}
        /\ flush'.at = "wait" => pendingSave # NoSaver /\ flush'.for = pendingSave
    BY <2>1, SaveShape DEF Flushes
  <2>3. \A s \in Savers : saver[s].at # "write" BY <2>1 DEF SaveInv, WriterNewer
  <2>4. (onDisk' = changes /\ gaveUp' = gaveUp) \/ (onDisk' = onDisk /\ gaveUp' = TRUE)
    BY <2>1
  <2>5. SaveTypeOK' BY <2>1, <2>2, <2>4, SaveShape DEF SaveTypeOK
  <2>6. WriterNewer' BY <2>1, <2>3, <2>4, SaveShape DEF SaveInv, WriterNewer
  <2>7. PendingLives' BY <2>1 DEF SaveInv, PendingLives
  <2>8. FlushTrue'
    <3>1. ~gaveUp' => Settled' BY <2>1, <2>3, <2>4 DEF Settled
    <3> QED BY <2>1, <2>2, <3>1, SaveShape DEF SaveInv, FlushTrue
  <2>9. ChangeOnItsWay' BY <2>2 DEF ChangeOnItsWay
  <2> QED BY <2>5, <2>6, <2>7, <2>8, <2>9 DEF SaveInv
<1>10. CASE UNCHANGED saveVars
  BY <1>10 DEF saveVars, SaveInv, SaveTypeOK, WriterNewer, PendingLives, FlushTrue, Settled, ChangeOnItsWay
<1> QED BY <1>1, <1>2, <1>3, <1>4, <1>5, <1>6, <1>7, <1>8, <1>9, <1>10 DEF SaveNext

\* However debounced saves queue, fail and are retried, a change in memory has a save to
\* come, and flushPendingSave returns when it is on disk (lib/accounts.ts).
THEOREM ChangesReachTheDisk == SaveSpec => [](FlushPersistsAll /\ ChangeOnItsWay)
<1>1. SaveInv => FlushPersistsAll /\ ChangeOnItsWay
  BY SaveShape DEF SaveInv, FlushTrue, Settled, FlushPersistsAll
<1> QED BY <1>1, SaveInvInit, SaveInvNext, PTL DEF SaveSpec

-----------------------------------------------------------------------------
(* The cached view of the official CLI's files. *)

CliStates == Nat \cup {Uncached}
CliLoads == [pc : {"new", "joined", "reading", "read", "done"}, gen : Nat, forced : BOOLEAN, since : Nat, got : CliStates]

CliTypeOK ==
  /\ content \in Nat /\ cliCache \in CliStates /\ cliFresh \in BOOLEAN /\ latestLoad \in Nat
  /\ flying \in Loaders \cup {Uncached}
  /\ cliLoader \in [Loaders -> CliLoads]

\* Nobody knows more than the files hold; the latest load has its number for itself and
\* has read what is cached, or something newer; a forced call knows no less than it asked for.
LoadTrue(l) ==
  /\ cliLoader[l].gen <= latestLoad /\ cliLoader[l].since <= content
  /\ cliLoader[l].got # Uncached => cliLoader[l].got <= content
  /\ cliLoader[l].pc \in {"new", "joined", "reading"} => cliLoader[l].got = Uncached
  /\ cliLoader[l].pc \in {"new", "joined"} => ~cliLoader[l].forced
  /\ cliLoader[l].forced /\ cliLoader[l].got # Uncached => cliLoader[l].got >= cliLoader[l].since
  /\ cliLoader[l].pc = "read" /\ cliLoader[l].gen = latestLoad /\ cliLoader[l].got # Uncached /\ cliCache # Uncached
       => cliCache <= cliLoader[l].got

Loading(l) == cliLoader[l].pc \in {"reading", "read"}

CliInv ==
  /\ CliTypeOK
  /\ cliCache # Uncached => cliCache <= content
  /\ \A l \in Loaders : LoadTrue(l)
  /\ \A k, l \in Loaders : Loading(k) /\ Loading(l) /\ cliLoader[k].gen = cliLoader[l].gen => k = l
  /\ flying # Uncached => Loading(flying)

LEMMA CliInvInit == CliInit => CliInv
<1> SUFFICES ASSUME CliInit PROVE CliInv
  OBVIOUS
<1> DEFINE r == [pc |-> "new", gen |-> 0, forced |-> FALSE, since |-> 0, got |-> Uncached]
<1>1. r \in CliLoads /\ r.pc = "new" /\ r.gen = 0 /\ r.since = 0 /\ r.got = Uncached /\ r.forced = FALSE
  BY DEF CliLoads, CliStates
<1>2. /\ content = 1 /\ cliCache = Uncached /\ cliFresh = FALSE /\ latestLoad = 0 /\ flying = Uncached
      /\ cliLoader = [l \in Loaders |-> r]
  BY DEF CliInit
<1> HIDE DEF r
<1>3. CliTypeOK BY <1>1, <1>2 DEF CliTypeOK, CliStates
<1>4. \A l \in Loaders : cliLoader[l] = r BY <1>2
<1>5. \A l \in Loaders : LoadTrue(l) /\ ~Loading(l) BY <1>1, <1>2, <1>4 DEF LoadTrue, Loading
<1> QED BY <1>2, <1>3, <1>5 DEF CliInv

\* What a step has to show, state by state.
LEMMA CliInvNext == CliInv /\ [CliNext]_cliVars => CliInv'
<1> SUFFICES ASSUME CliInv, [CliNext]_cliVars PROVE CliInv'
  OBVIOUS
<1>0. /\ content \in Nat /\ cliCache \in CliStates /\ cliFresh \in BOOLEAN /\ latestLoad \in Nat
      /\ cliLoader \in [Loaders -> CliLoads] /\ flying \in Loaders \cup {Uncached}
  BY DEF CliInv, CliTypeOK
<1>1. ASSUME NEW l \in Loaders, LoadHits(l) PROVE CliInv'
  <2>1. cliLoader[l] \in CliLoads BY <1>0
  <2> DEFINE r == [cliLoader[l] EXCEPT !.pc = "done", !.got = cliCache]
  <2>2. r \in CliLoads /\ r.pc = "done" /\ r.got = cliCache /\ r.gen = cliLoader[l].gen /\ r.since = cliLoader[l].since /\ r.forced = cliLoader[l].forced
    BY <1>0, <2>1 DEF CliLoads
  <2>3. cliLoader' = [cliLoader EXCEPT ![l] = r] /\ UNCHANGED <<content, cliCache, cliFresh, latestLoad, flying>> /\ cliLoader[l].pc = "new"
    BY <1>1 DEF LoadHits, Loader
  <2> HIDE DEF r
  <2>4. cliLoader'[l] = r /\ \A k \in Loaders \ {l} : cliLoader'[k] = cliLoader[k]
    BY <1>0, <2>3
  <2>5. CliTypeOK' BY <1>0, <2>2, <2>3 DEF CliTypeOK
  <2>6. LoadTrue(l)' BY <1>0, <2>2, <2>3, <2>4 DEF CliInv, LoadTrue
  <2>7. \A k \in Loaders \ {l} : LoadTrue(k)' BY <2>3, <2>4 DEF CliInv, LoadTrue
  <2>8. \A k \in Loaders : (Loading(k))' => Loading(k) /\ cliLoader'[k] = cliLoader[k]
    BY <2>2, <2>4 DEF Loading
  <2>9. flying # Uncached => flying # l
    BY <2>3 DEF CliInv, Loading
  <2>10. flying # Uncached => (Loading(flying))'
    BY <1>0, <2>3, <2>4, <2>9 DEF CliInv, Loading
  <2> QED BY <2>3, <2>5, <2>6, <2>7, <2>8, <2>10 DEF CliInv, Loading
<1>2. ASSUME NEW l \in Loaders, CliReads(l) PROVE CliInv'
  <2>0. PICK got \in {Uncached, content} : Loader(l, "read", got)
    BY <1>2 DEF CliReads
  <2>1. cliLoader[l] \in CliLoads /\ got \in CliStates BY <1>0 DEF CliStates
  <2> DEFINE r == [cliLoader[l] EXCEPT !.pc = "read", !.got = got]
  <2>2. r \in CliLoads /\ r.pc = "read" /\ r.got = got /\ r.gen = cliLoader[l].gen /\ r.since = cliLoader[l].since /\ r.forced = cliLoader[l].forced
    BY <2>1 DEF CliLoads
  <2>3. cliLoader' = [cliLoader EXCEPT ![l] = r] /\ UNCHANGED <<content, cliCache, cliFresh, latestLoad, flying>> /\ cliLoader[l].pc = "reading"
    BY <1>2, <2>0 DEF CliReads, Loader
  <2> HIDE DEF r
  <2>4. cliLoader'[l] = r /\ \A k \in Loaders \ {l} : cliLoader'[k] = cliLoader[k]
    BY <1>0, <2>3
  <2>5. CliTypeOK' BY <1>0, <2>2, <2>3 DEF CliTypeOK
  <2>6. LoadTrue(l)' BY <1>0, <2>1, <2>2, <2>3, <2>4 DEF CliInv, LoadTrue, CliStates, CliLoads
  <2>7. \A k \in Loaders \ {l} : LoadTrue(k)' BY <2>3, <2>4 DEF CliInv, LoadTrue
  <2>8. \A k \in Loaders : ((Loading(k))' <=> Loading(k)) /\ cliLoader'[k].gen = cliLoader[k].gen
    BY <2>2, <2>3, <2>4 DEF Loading
  <2> QED BY <1>0, <2>3, <2>5, <2>6, <2>7, <2>8 DEF CliInv
<1>3. ASSUME NEW l \in Loaders, LoadEnds(l) PROVE CliInv'
  <2>1. /\ cliLoader[l].pc = "read" /\ UNCHANGED <<content, latestLoad>>
        /\ cliCache' = (IF Commits(l) THEN cliLoader[l].got ELSE cliCache)
        /\ cliFresh' \in BOOLEAN
        /\ flying' = IF flying = l THEN Uncached ELSE flying
    BY <1>0, <1>3 DEF LoadEnds
  <2>2. cliLoader[l] \in CliLoads /\ cliLoader[l].got \in CliStates /\ cliLoader[l].gen \in Nat BY <1>0 DEF CliLoads
  <2>3. \A k \in Loaders : /\ cliLoader'[k] \in CliLoads /\ cliLoader'[k].gen = cliLoader[k].gen
                           /\ cliLoader'[k].since = cliLoader[k].since /\ cliLoader'[k].forced = cliLoader[k].forced
                           /\ \/ cliLoader'[k] = cliLoader[k] /\ k # l
                              \/ k = l /\ cliLoader'[k].pc = "done" /\ cliLoader'[k].got = cliLoader[k].got
                              \/ cliLoader[k].pc = "joined" /\ cliLoader'[k].pc = "done" /\ cliLoader'[k].got = cliLoader[l].got /\ k # l
    <3> SUFFICES ASSUME NEW k \in Loaders
                 PROVE  /\ cliLoader'[k] \in CliLoads /\ cliLoader'[k].gen = cliLoader[k].gen
                        /\ cliLoader'[k].since = cliLoader[k].since /\ cliLoader'[k].forced = cliLoader[k].forced
                        /\ \/ cliLoader'[k] = cliLoader[k] /\ k # l
                           \/ k = l /\ cliLoader'[k].pc = "done" /\ cliLoader'[k].got = cliLoader[k].got
                           \/ cliLoader[k].pc = "joined" /\ cliLoader'[k].pc = "done" /\ cliLoader'[k].got = cliLoader[l].got /\ k # l
      OBVIOUS
    <3>0. cliLoader[k] \in CliLoads BY <1>0
    <3>1. CASE k = l
      <4>1. cliLoader'[k] = [cliLoader[k] EXCEPT !.pc = "done"] BY <1>3, <3>1 DEF LoadEnds
      <4> QED BY <3>0, <3>1, <4>1 DEF CliLoads
    <3>2. CASE k # l /\ cliLoader[k].pc = "joined" /\ cliLoader[k].gen = cliLoader[l].gen
      <4>1. cliLoader'[k] = [cliLoader[k] EXCEPT !.pc = "done", !.got = cliLoader[l].got] BY <1>3, <3>2 DEF LoadEnds
      <4> QED BY <2>2, <3>0, <3>2, <4>1 DEF CliLoads
    <3>3. CASE k # l /\ ~(cliLoader[k].pc = "joined" /\ cliLoader[k].gen = cliLoader[l].gen)
      <4>1. cliLoader'[k] = cliLoader[k] BY <1>3, <3>3 DEF LoadEnds
      <4> QED BY <3>0, <3>3, <4>1
    <3> QED BY <3>1, <3>2, <3>3
  <2>4. cliLoader' \in [Loaders -> CliLoads]
    <3>1. cliLoader' = [k \in Loaders |-> cliLoader'[k]] BY <1>3 DEF LoadEnds
    <3> QED BY <2>3, <3>1
  <2>5. CliTypeOK' BY <1>0, <2>1, <2>2, <2>4 DEF CliTypeOK
  <2>6. cliCache' # Uncached => cliCache' <= content
    BY <1>0, <2>1 DEF CliInv, LoadTrue
  <2>7. \A k \in Loaders : (Loading(k))' => Loading(k) /\ cliLoader'[k] = cliLoader[k] /\ k # l
    BY <2>3 DEF Loading
  <2>8. ASSUME NEW k \in Loaders PROVE LoadTrue(k)'
    <3>0. LoadTrue(k) /\ LoadTrue(l) BY DEF CliInv
    <3>1. cliLoader'[k].pc = "read" => Loading(k) /\ k # l /\ cliLoader'[k] = cliLoader[k] BY <2>7 DEF Loading
    <3>2. cliLoader'[k].pc = "read" => cliLoader[k].gen # cliLoader[l].gen BY <2>1, <3>1 DEF CliInv, Loading
    <3>3. cliLoader'[k].pc = "read" /\ cliLoader'[k].gen = latestLoad => cliCache' = cliCache
      BY <2>1, <3>1, <3>2 DEF Commits
    <3>4. cliLoader'[k].pc = "read" /\ cliLoader'[k].gen = latestLoad' /\ cliLoader'[k].got # Uncached /\ cliCache' # Uncached
             => cliCache' <= cliLoader'[k].got
      BY <2>1, <3>0, <3>1, <3>3 DEF LoadTrue
    <3>5. /\ cliLoader'[k].gen <= latestLoad' /\ cliLoader'[k].since <= content'
          /\ (cliLoader'[k].got # Uncached => cliLoader'[k].got <= content')
      BY <2>1, <2>3, <3>0 DEF LoadTrue
    <3>6. /\ cliLoader'[k].pc \in {"new", "joined", "reading"} => cliLoader'[k].got = Uncached
          /\ cliLoader'[k].pc \in {"new", "joined"} => ~cliLoader'[k].forced
          /\ cliLoader'[k].forced /\ cliLoader'[k].got # Uncached => cliLoader'[k].got >= cliLoader'[k].since
      BY <2>3, <3>0 DEF LoadTrue
    <3> QED BY <3>4, <3>5, <3>6 DEF LoadTrue
  <2>9. flying' # Uncached => (Loading(flying))'
    <3> SUFFICES ASSUME flying' # Uncached PROVE (Loading(flying))'
      OBVIOUS
    <3>1. flying' = flying /\ flying # l /\ flying \in Loaders /\ Loading(flying) BY <1>0, <2>1 DEF CliInv
    <3>2. cliLoader'[flying] = cliLoader[flying] BY <2>3, <3>1 DEF Loading
    <3> QED BY <3>1, <3>2 DEF Loading
  <2>10. \A j, k \in Loaders : Loading(j)' /\ Loading(k)' /\ cliLoader'[j].gen = cliLoader'[k].gen => j = k
    BY <2>7 DEF CliInv
  <2> QED BY <2>1, <2>5, <2>6, <2>8, <2>9, <2>10 DEF CliInv
<1>4. ASSUME NEW l \in Loaders, NEW forced \in BOOLEAN, LoadJoins(l, forced) PROVE CliInv'
  <2>1. cliLoader[l] \in CliLoads /\ flying \in Loaders /\ cliLoader[flying] \in CliLoads /\ cliLoader[flying].gen \in Nat
    BY <1>0, <1>4 DEF LoadJoins, CliLoads
  <2> DEFINE g == cliLoader[flying].gen
             r == [cliLoader[l] EXCEPT !.pc = "joined", !.gen = g, !.forced = forced, !.since = content]
  <2>2. forced = FALSE /\ g \in Nat BY <1>4, <2>1 DEF LoadJoins, MayJoin
  <2>3. r \in CliLoads /\ r.pc = "joined" /\ r.got = cliLoader[l].got /\ r.gen = g /\ r.since = content /\ r.forced = FALSE
    BY <1>0, <2>1, <2>2 DEF CliLoads
  <2>4. cliLoader' = [cliLoader EXCEPT ![l] = r] /\ UNCHANGED <<content, cliCache, cliFresh, latestLoad, flying>> /\ cliLoader[l].pc = "new"
    BY <1>4 DEF LoadJoins
  <2>5. g <= latestLoad BY <2>1 DEF CliInv, LoadTrue
  <2> HIDE DEF r, g
  <2>6. cliLoader'[l] = r /\ \A k \in Loaders \ {l} : cliLoader'[k] = cliLoader[k]
    BY <1>0, <2>4
  <2>7. CliTypeOK' BY <1>0, <2>3, <2>4 DEF CliTypeOK
  <2>8. LoadTrue(l)' BY <1>0, <2>3, <2>4, <2>5, <2>6 DEF CliInv, LoadTrue
  <2>9. \A k \in Loaders \ {l} : LoadTrue(k)' BY <2>4, <2>6 DEF CliInv, LoadTrue
  <2>10. \A k \in Loaders : (Loading(k))' => Loading(k) /\ cliLoader'[k] = cliLoader[k]
    BY <2>3, <2>6 DEF Loading
  <2>11. flying # l
    BY <1>4, <2>4 DEF LoadJoins, CliInv, Loading
  <2>12. flying # Uncached => (Loading(flying))'
    BY <1>0, <2>1, <2>4, <2>6, <2>11 DEF CliInv, Loading
  <2> QED BY <2>4, <2>7, <2>8, <2>9, <2>10, <2>12 DEF CliInv, Loading
<1>5. ASSUME NEW l \in Loaders, NEW forced \in BOOLEAN, LoadStarts(l, forced) PROVE CliInv'
  <2> DEFINE r == [pc |-> "reading", gen |-> latestLoad + 1, forced |-> forced, since |-> content, got |-> Uncached]
  <2>1. r \in CliLoads BY <1>0 DEF CliLoads, CliStates
  <2>2. cliLoader' = [cliLoader EXCEPT ![l] = r] /\ UNCHANGED <<content, cliCache, cliFresh>> /\ latestLoad' = latestLoad + 1 /\ flying' = l
    BY <1>5 DEF LoadStarts
  <2>3. cliLoader'[l] = r /\ \A k \in Loaders \ {l} : cliLoader'[k] = cliLoader[k]
    BY <1>0, <2>2
  <2>4. CliTypeOK' BY <1>0, <2>1, <2>2 DEF CliTypeOK
  <2>5. LoadTrue(l)' BY <1>0, <2>2, <2>3 DEF LoadTrue
  <2>6. \A k \in Loaders : cliLoader[k].gen \in Nat /\ cliLoader[k].gen <= latestLoad
    BY <1>0 DEF CliLoads, CliInv, LoadTrue
  <2>7. \A k \in Loaders \ {l} : LoadTrue(k)' BY <1>0, <2>2, <2>3, <2>6 DEF CliInv, LoadTrue
  <2>8. r.gen = latestLoad + 1 /\ r.pc = "reading"
    OBVIOUS
  <2> HIDE DEF r
  <2>9. \A j, k \in Loaders : Loading(j)' /\ Loading(k)' /\ cliLoader'[j].gen = cliLoader'[k].gen => j = k
    <3>1. \A k \in Loaders \ {l} : cliLoader'[k].gen # cliLoader'[l].gen /\ (Loading(k)' => Loading(k))
      BY <1>0, <2>3, <2>6, <2>8 DEF Loading
    <3> QED BY <2>3, <3>1 DEF CliInv
  <2> QED BY <2>2, <2>3, <2>4, <2>5, <2>7, <2>8, <2>9 DEF CliInv, Loading
<1>6. CASE CacheExpires
  BY <1>0, <1>6 DEF CacheExpires, CliInv, CliTypeOK, LoadTrue, Loading
<1>7. ASSUME NEW own \in BOOLEAN, ContentWritten(own) PROVE CliInv'
  <2>1. /\ content' = content + 1 /\ UNCHANGED <<latestLoad, cliLoader>> /\ cliCache' \in {cliCache, Uncached}
        /\ flying' \in {flying, Uncached} /\ cliFresh' \in BOOLEAN
    BY <1>0, <1>7 DEF ContentWritten
  <2>2. CliTypeOK' BY <1>0, <2>1 DEF CliTypeOK, CliStates
  <2>3. \A l \in Loaders : cliLoader[l].since \in Nat /\ cliLoader[l].got \in CliStates BY <1>0 DEF CliLoads
  <2>4. \A l \in Loaders : LoadTrue(l)' BY <1>0, <2>1, <2>3 DEF CliInv, LoadTrue, CliStates
  <2>5. \A l \in Loaders : Loading(l)' <=> Loading(l) BY <2>1 DEF Loading
  <2>6. cliCache' # Uncached => cliCache' <= content' BY <1>0, <2>1 DEF CliInv, CliStates
  <2>7. flying' # Uncached => Loading(flying)' BY <2>1 DEF CliInv, Loading
  <2> QED BY <2>1, <2>2, <2>4, <2>5, <2>6, <2>7 DEF CliInv
<1>8. CASE UNCHANGED cliVars
  BY <1>8 DEF cliVars, CliInv, CliTypeOK, LoadTrue, Loading
<1> QED BY <1>1, <1>2, <1>3, <1>4, <1>5, <1>6, <1>7, <1>8 DEF CliNext

\* However the loads of the official CLI's files overtake each other, a state that is
\* cached is only replaced by one read later (commitCache in lib/codex-cli/state.ts).
THEOREM CacheGoesForward == CliSpec => [][CacheNeverOlder]_cliVars
<1>1. CliInv /\ [CliNext]_cliVars => [CacheNeverOlder]_cliVars
  <2> SUFFICES ASSUME CliInv, CliNext, cliCache # Uncached, cliCache' # Uncached PROVE cliCache' >= cliCache
    BY DEF CacheNeverOlder
  <2>1. cliCache \in Nat BY DEF CliInv, CliTypeOK, CliStates
  <2>2. ASSUME NEW l \in Loaders, LoadEnds(l) PROVE cliCache' >= cliCache
    <3>1. cliCache' = cliCache \/ (cliCache' = cliLoader[l].got /\ cliLoader[l].gen = latestLoad /\ cliLoader[l].pc = "read")
      BY <2>2 DEF LoadEnds, Commits
    <3>2. cliLoader[l].got \in CliStates
      BY DEF CliInv, CliTypeOK, CliLoads
    <3>3. LoadTrue(l)
      BY DEF CliInv
    <3> QED BY <2>1, <3>1, <3>2, <3>3 DEF LoadTrue, CliStates
  <2>3. ASSUME ~ \E l \in Loaders : LoadEnds(l) PROVE cliCache' = cliCache
    BY <2>3 DEF CliNext, LoadHits, LoadJoins, LoadStarts, CliReads, CacheExpires, ContentWritten
  <2> QED BY <2>1, <2>2, <2>3
<1> QED BY <1>1, CliInvInit, CliInvNext, PTL DEF CliSpec

\* A load with forceRefresh answers with nothing older than what the files held at the call.
THEOREM ForcedAlwaysFresh == CliSpec => []ForcedIsFresh
<1>1. CliInv => ForcedIsFresh
  BY DEF CliInv, LoadTrue, ForcedIsFresh
<1> QED BY <1>1, CliInvInit, CliInvNext, PTL DEF CliSpec

-----------------------------------------------------------------------------
(* The selection read through the file's modification time. *)

\* The latest reading of the file system's clock.
FileTick == metaNow - (metaNow % Granularity)

MetaFiles == [exists : BOOLEAN, gen : Nat, mtime : Int, size : {1, 2}]
FileSnapshots == [some : {TRUE}, gen : Nat, mtime : Int, size : {1, 2}]

MetaTypeOK ==
  /\ metaNow \in Nat /\ observed \in Nat /\ sticky \in BOOLEAN /\ crowded \in BOOLEAN /\ restarted \in BOOLEAN
  /\ metaServed \in {"none", "read", "fallback"}
  /\ metaFile \in MetaFiles
  /\ metaCache \in {NoCache} \cup FileSnapshots

\* The file's time is a past reading of the clock.
TimePast == metaFile.mtime <= FileTick

\* A cached snapshot is no newer than the file, and one of another generation carries an
\* earlier time unless two writes shared a tick.
SnapshotTrue ==
  metaCache.some => /\ metaCache.gen <= metaFile.gen /\ metaCache.mtime <= metaFile.mtime
                    /\ ~crowded /\ metaCache.gen # metaFile.gen => metaCache.mtime < metaFile.mtime

\* As long as no pool has been made anew, what is cached and observed is behind the file.
Behind == SnapshotTrue /\ metaFile.gen >= 1 /\ observed <= metaFile.gen /\ SelectionNoticed

MetaInv == MetaTypeOK /\ TimePast /\ (~restarted => Behind)

LEMMA TickRises ==
  ASSUME NEW g \in Nat \ {0}, NEW n \in Nat, NEW m \in Nat, m = n + 1
  PROVE  n - (n % g) <= m - (m % g) /\ n - (n % g) \in Int /\ m - (m % g) \in Int
<1>1. /\ n = g * (n \div g) + (n % g) /\ n % g \in 0..(g - 1) /\ n \div g \in Int
      /\ m = g * (m \div g) + (m % g) /\ m % g \in 0..(g - 1) /\ m \div g \in Int
  OBVIOUS
<1> DEFINE q == n \div g
           p == m \div g
           a == n % g
           b == m % g
<1>2. /\ q \in Int /\ p \in Int /\ a \in 0..(g-1) /\ b \in 0..(g-1) /\ n = g * q + a /\ m = g * p + b
  BY <1>1
<1> HIDE DEF q, p, a, b
<1>3. q <= p
  <2>1. SUFFICES ASSUME p + 1 <= q PROVE FALSE
    BY <1>2
  <2>2. g * (p + 1) <= g * q
    BY <1>2, <2>1
  <2>3. g * (p + 1) = g * p + g
    BY <1>2
  <2>4. g * p \in Int /\ g * q \in Int
    BY <1>2
  <2> QED BY <1>2, <2>2, <2>3, <2>4
<1>4. g * q <= g * p
  BY <1>2, <1>3
<1>5. n - a <= m - b /\ n - a \in Int /\ m - b \in Int
  <2>1. g * p \in Int /\ g * q \in Int
    BY <1>2
  <2> QED BY <1>2, <1>4, <2>1
<1> QED BY <1>5 DEF a, b

LEMMA MetaInvInit == MetaInit => MetaInv
<1> SUFFICES ASSUME MetaInit PROVE MetaInv
  OBVIOUS
<1>1. /\ metaNow = 0 /\ metaFile = [exists |-> TRUE, gen |-> 1, mtime |-> 0, size |-> 1] /\ metaCache = NoCache
      /\ observed = 1 /\ sticky = FALSE /\ metaServed = "none" /\ crowded = FALSE /\ restarted = FALSE
  BY DEF MetaInit
<1>2. FileTick = 0 BY <1>1, MetaAssumption DEF FileTick
<1>3. metaFile \in MetaFiles /\ metaFile.gen = 1 /\ metaFile.mtime = 0 /\ ~metaCache.some
  BY <1>1 DEF MetaFiles, NoCache
<1>4. MetaTypeOK BY <1>1, <1>3 DEF MetaTypeOK
<1> QED BY <1>1, <1>2, <1>3, <1>4 DEF MetaInv, Behind, TimePast, SnapshotTrue, SelectionNoticed

LEMMA MetaInvNext == MetaInv /\ [MetaNext]_metaVars => MetaInv'
<1> SUFFICES ASSUME MetaInv, [MetaNext]_metaVars PROVE MetaInv'
  OBVIOUS
<1>0. /\ metaNow \in Nat /\ observed \in Nat /\ sticky \in BOOLEAN /\ crowded \in BOOLEAN /\ restarted \in BOOLEAN /\ FileTick \in Int
      /\ metaFile \in MetaFiles
      /\ metaFile.gen \in Nat /\ metaFile.mtime \in Int /\ metaFile.size \in {1, 2}
      /\ metaCache.some \in BOOLEAN /\ (metaCache.some => metaCache.gen \in Nat /\ metaCache.mtime \in Int)
  <2>1. metaNow \in Nat /\ observed \in Nat /\ sticky \in BOOLEAN /\ crowded \in BOOLEAN /\ restarted \in BOOLEAN
    BY DEF MetaInv, MetaTypeOK
  <2>2. FileTick \in Int
    <3>1. metaNow + 1 \in Nat BY <2>1
    <3> QED BY <2>1, <3>1, TickRises, MetaAssumption DEF FileTick
  <2>3. metaFile \in MetaFiles /\ metaCache \in {NoCache} \cup FileSnapshots
    BY DEF MetaInv, MetaTypeOK
  <2>4. metaFile.gen \in Nat /\ metaFile.mtime \in Int /\ metaFile.size \in {1, 2}
    BY <2>3 DEF MetaFiles
  <2>5. metaCache.some \in BOOLEAN /\ (metaCache.some => metaCache.gen \in Nat /\ metaCache.mtime \in Int)
    <3>1. metaCache \in FileSnapshots => metaCache.some = TRUE /\ metaCache.gen \in Nat /\ metaCache.mtime \in Int
      BY DEF FileSnapshots
    <3>2. metaCache = NoCache => metaCache.some = FALSE
      BY DEF NoCache
    <3> QED BY <2>3, <3>1, <3>2
  <2> QED BY <2>1, <2>2, <2>3, <2>4, <2>5
<1>1. CASE TimePasses
  <2>1. metaNow' = metaNow + 1 /\ UNCHANGED <<metaFile, metaCache, observed, sticky, metaServed, crowded, restarted>>
    BY <1>1 DEF TimePasses
  <2>2. metaNow' \in Nat BY <1>0, <2>1
  <2>3. FileTick <= FileTick' /\ FileTick' \in Int
    BY <1>0, <2>1, <2>2, TickRises, MetaAssumption DEF FileTick
  <2>4. TimePast' BY <1>0, <2>1, <2>3 DEF MetaInv, TimePast
  <2>5. MetaTypeOK' BY <2>1, <2>2 DEF MetaInv, MetaTypeOK
  <2>6. Behind' <=> Behind BY <2>1 DEF Behind, SnapshotTrue, SelectionNoticed
  <2> QED BY <2>1, <2>4, <2>5, <2>6 DEF MetaInv
<1>2. CASE SelectionPublished
  <2>1. PICK size \in {1, 2} :
          metaFile' = [exists |-> TRUE, gen |-> metaFile.gen + 1, mtime |-> FileTick, size |-> size]
    BY <1>2 DEF SelectionPublished, FileTick
  <2>2. /\ crowded' = (crowded \/ metaFile'.mtime = metaFile.mtime) /\ metaServed' = "none"
        /\ UNCHANGED <<metaNow, metaCache, observed, sticky, restarted>>
    BY <1>2 DEF SelectionPublished
  <2>3. metaFile'.mtime = FileTick /\ metaFile'.gen = metaFile.gen + 1 /\ FileTick' = FileTick /\ metaFile.mtime <= FileTick
    BY <2>1, <2>2 DEF FileTick, MetaInv, TimePast
  <2>4. MetaTypeOK'
    <3>1. metaFile' \in MetaFiles BY <1>0, <2>1 DEF MetaFiles
    <3>2. crowded' \in BOOLEAN BY <1>0, <2>2
    <3> QED BY <2>2, <3>1, <3>2 DEF MetaInv, MetaTypeOK
  <2>5. TimePast' BY <1>0, <2>3 DEF TimePast
  <2> HIDE DEF FileTick
  <2>6. ASSUME ~restarted PROVE Behind'
    <3>0. Behind BY <2>6 DEF MetaInv
    <3>1. SnapshotTrue'
      <4> SUFFICES ASSUME metaCache.some
                   PROVE  /\ metaCache.gen <= metaFile'.gen /\ metaCache.mtime <= metaFile'.mtime
                          /\ ~crowded' => metaCache.mtime < metaFile'.mtime
        BY <2>2 DEF SnapshotTrue
      <4>1. metaCache.gen <= metaFile.gen /\ metaCache.mtime <= metaFile.mtime
        BY <3>0 DEF Behind, SnapshotTrue
      <4>2. ~crowded' => metaFile'.mtime # metaFile.mtime
        BY <2>2
      <4> QED BY <1>0, <2>3, <4>1, <4>2
    <3>2. observed' <= metaFile'.gen BY <1>0, <2>2, <2>3, <3>0 DEF Behind
    <3> QED BY <1>0, <2>2, <2>3, <3>0, <3>1, <3>2 DEF Behind, SelectionNoticed
  <2> QED BY <2>2, <2>4, <2>5, <2>6 DEF MetaInv
<1>3. CASE RequestReads
  <2>1. /\ metaCache' = IF ShortCircuit THEN metaCache
                        ELSE [some |-> TRUE, gen |-> metaFile.gen, mtime |-> metaFile.mtime, size |-> metaFile.size]
        /\ observed' = (IF MetaRead > observed THEN MetaRead ELSE observed) /\ sticky' \in BOOLEAN
        /\ metaServed' = "read" /\ UNCHANGED <<metaNow, metaFile, crowded, restarted>>
    BY <1>0, <1>3 DEF RequestReads, Acts
  <2>2. MetaRead \in Nat
    BY <1>0 DEF MetaRead, ShortCircuit
  <2>3. observed' \in Nat BY <1>0, <2>1, <2>2
  <2>4. metaCache' = metaCache \/ metaCache' = [some |-> TRUE, gen |-> metaFile.gen, mtime |-> metaFile.mtime, size |-> metaFile.size]
    BY <2>1
  <2>5. MetaTypeOK'
    <3>1. [some |-> TRUE, gen |-> metaFile.gen, mtime |-> metaFile.mtime, size |-> metaFile.size] \in FileSnapshots
      BY <1>0 DEF FileSnapshots
    <3> QED BY <1>0, <2>1, <2>3, <2>4, <3>1 DEF MetaInv, MetaTypeOK
  <2>6. TimePast' BY <2>1 DEF MetaInv, TimePast, FileTick
  <2>7. ASSUME ~restarted PROVE Behind'
    <3>0. Behind BY <2>7 DEF MetaInv
    <3>1. MetaRead <= metaFile.gen /\ (~crowded => MetaRead = metaFile.gen)
      BY <1>0, <3>0 DEF MetaRead, ShortCircuit, Behind, SnapshotTrue
    <3>2. observed' <= metaFile.gen /\ (~crowded => observed' = metaFile.gen)
      BY <1>0, <2>1, <2>2, <3>0, <3>1 DEF Behind
    <3>3. SnapshotTrue'
      <4>1. CASE metaCache' = metaCache BY <2>1, <3>0, <4>1 DEF Behind, SnapshotTrue
      <4>2. CASE metaCache' = [some |-> TRUE, gen |-> metaFile.gen, mtime |-> metaFile.mtime, size |-> metaFile.size]
        <5>1. metaCache'.gen = metaFile.gen /\ metaCache'.mtime = metaFile.mtime BY <4>2
        <5> QED BY <1>0, <2>1, <5>1 DEF SnapshotTrue
      <4> QED BY <2>4, <4>1, <4>2
    <3> QED BY <2>1, <3>0, <3>2, <3>3 DEF Behind, SelectionNoticed
  <2> QED BY <2>1, <2>5, <2>6, <2>7 DEF MetaInv
<1>4. CASE ReadFails \/ MissingFileRead
  <2>1. /\ metaCache' \in {metaCache, NoCache} /\ metaServed' = "fallback"
        /\ UNCHANGED <<metaNow, metaFile, crowded, restarted>>
        /\ \E gen \in {0, metaCache.gen} : Acts(gen) /\ (gen = 0 \/ metaCache.some)
    BY <1>4 DEF ReadFails, MissingFileRead
  <2>2. PICK gen \in {0, metaCache.gen} : Acts(gen) /\ (gen = 0 \/ metaCache.some)
    BY <2>1
  <2>3. gen \in Nat /\ observed' \in Nat /\ sticky' \in BOOLEAN
    <3>1. gen \in Nat BY <1>0, <2>2
    <3> QED BY <1>0, <2>2, <3>1 DEF Acts
  <2>4. MetaTypeOK' BY <2>1, <2>3 DEF MetaInv, MetaTypeOK
  <2>5. TimePast' BY <2>1 DEF MetaInv, TimePast, FileTick
  <2>6. ASSUME ~restarted PROVE Behind'
    <3>0. Behind BY <2>6 DEF MetaInv
    <3>1. gen <= metaFile.gen BY <1>0, <2>2, <3>0 DEF Behind, SnapshotTrue
    <3>2. observed' <= metaFile.gen BY <1>0, <2>2, <2>3, <3>0, <3>1 DEF Behind, Acts
    <3>3. SnapshotTrue' BY <2>1, <3>0 DEF Behind, SnapshotTrue, NoCache
    <3> QED BY <2>1, <3>0, <3>2, <3>3 DEF Behind, SelectionNoticed
  <2> QED BY <2>1, <2>4, <2>5, <2>6 DEF MetaInv
<1>5. CASE FileVanishes \/ FileReturns
  <2>1. PICK gen \in {1, metaFile.gen} :
          /\ metaServed' = "none" /\ UNCHANGED <<metaNow, metaCache, observed, sticky, crowded>>
          /\ restarted' = (restarted \/ gen < metaFile.gen)
          /\ \/ metaFile' = [metaFile EXCEPT !.exists = FALSE] /\ gen = metaFile.gen
             \/ metaFile' = [metaFile EXCEPT !.exists = TRUE, !.gen = gen, !.mtime = FileTick]
    <3>1. CASE FileVanishes BY <1>0, <3>1 DEF FileVanishes
    <3>2. CASE FileReturns BY <3>2 DEF FileReturns, FileTick
    <3> QED BY <1>5, <3>1, <3>2
  <2>2. /\ metaFile' \in MetaFiles
        /\ metaFile'.gen = gen /\ metaFile.mtime <= metaFile'.mtime /\ metaFile'.mtime <= FileTick
    <3>1. metaFile.mtime <= FileTick BY DEF MetaInv, TimePast
    <3>2. CASE metaFile' = [metaFile EXCEPT !.exists = FALSE] /\ gen = metaFile.gen
      <4>1. metaFile' \in MetaFiles /\ metaFile'.gen = metaFile.gen /\ metaFile'.mtime = metaFile.mtime
        BY <1>0, <3>2 DEF MetaFiles
      <4> QED BY <1>0, <3>1, <3>2, <4>1
    <3>3. CASE metaFile' = [metaFile EXCEPT !.exists = TRUE, !.gen = gen, !.mtime = FileTick]
      <4> DEFINE t == FileTick
      <4>1. gen \in Nat /\ t \in Int /\ metaFile.mtime <= t /\ metaFile' = [metaFile EXCEPT !.exists = TRUE, !.gen = gen, !.mtime = t]
        BY <1>0, <2>1, <3>1, <3>3
      <4> HIDE DEF t
      <4>2. metaFile' \in MetaFiles /\ metaFile'.gen = gen /\ metaFile'.mtime = t
        BY <1>0, <4>1 DEF MetaFiles
      <4> QED BY <4>1, <4>2 DEF t
    <3> QED BY <2>1, <3>2, <3>3
  <2>3. metaFile'.mtime \in Int /\ gen \in Nat BY <2>2 DEF MetaFiles
  <2>4. restarted' \in BOOLEAN BY <1>0, <2>1
  <2>5. MetaTypeOK' BY <2>1, <2>2, <2>4 DEF MetaInv, MetaTypeOK
  <2>6. TimePast' BY <2>1, <2>2 DEF TimePast, FileTick
  <2>7. ASSUME ~restarted' PROVE Behind'
    <3>0. Behind BY <2>1, <2>7 DEF MetaInv
    <3>1. metaFile'.gen = metaFile.gen
      <4>1. ~(gen < metaFile.gen) BY <2>1, <2>7
      <4>2. CASE gen = metaFile.gen BY <2>2, <4>2
      <4>3. metaFile.gen >= 1 BY <3>0 DEF Behind
      <4> QED BY <1>0, <2>1, <2>2, <4>1, <4>2, <4>3
    <3>2. SnapshotTrue' BY <1>0, <2>1, <2>2, <2>3, <3>0, <3>1 DEF Behind, SnapshotTrue
    <3> QED BY <2>1, <3>0, <3>1, <3>2 DEF Behind, SelectionNoticed
  <2> QED BY <2>5, <2>6, <2>7 DEF MetaInv
<1>6. CASE UNCHANGED metaVars
  BY <1>6 DEF metaVars, MetaInv, MetaTypeOK, TimePast, FileTick, Behind, SnapshotTrue, SelectionNoticed
<1> QED BY <1>1, <1>2, <1>3, <1>4, <1>5, <1>6 DEF MetaNext

\* The unread file that the settled modification time vouches for is the file that was
\* cached, as long as no two writes share a tick (readStorageMetaFromDisk) and the
\* generations have not been counted from one again.
THEOREM SelectionAlwaysNoticed == MetaSpec => []SelectionNoticed
<1>1. MetaInv => SelectionNoticed
  BY DEF MetaInv, Behind, SelectionNoticed
<1> QED BY <1>1, MetaInvInit, MetaInvNext, PTL DEF MetaSpec
=============================================================================

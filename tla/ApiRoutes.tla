------------------------------ MODULE ApiRoutes ------------------------------
(***************************************************************************)
(* Requests that name an API pool ("api/", "zdr/", "psp/") and are served  *)
(* with stored API keys instead of signed-in accounts                      *)
(* (lib/runtime/api-model-runtime.ts, decisions-runtime.ts,                *)
(* api-rate-backoff.ts, model-route-policy.ts, and the branch of           *)
(* lib/runtime-rotation-proxy.ts that forwards them).                      *)
(*                                                                         *)
(* A call scans its candidates in order of priority, without waiting       *)
(* between two of them, until one is admitted and sent.  A key that was    *)
(* rate limited has an entry with a deadline; once that has passed, one    *)
(* call at a time may probe the key.  When every candidate has failed, the *)
(* credentials whose catalogue was cold are discovered, once.              *)
(***************************************************************************)
EXTENDS Naturals, FiniteSets, Sequences, FiniteSetsExt, SequencesExt

CONSTANTS Calls,         \* requests, to either endpoint: numbers
          Routes,        \* credentials, numbered by priority
          Keys,          \* API keys: two credentials may hold the same one
          MaxDelay,      \* ticks of a Retry-After
          AdmissionTime, \* ticks a call may wait for admission
          MaxEntries,    \* keys the backoff remembers
          MaxSends,      \* sends of one Decisions call with one key
          MaxLimits,     \* rate limits the server answers
          MaxLists,      \* discoveries
          NoRoute

ASSUME ApiAssumption ==
  /\ Calls \cup Routes \subseteq Nat /\ NoRoute \notin Routes
  /\ {MaxDelay, MaxSends} \subseteq Nat \ {0} /\ {AdmissionTime, MaxEntries, MaxLimits, MaxLists} \subseteq Nat

VARIABLES
  config,    \* the credentials as the requests read them: [key, pool, region]
  gate,      \* ApiRateBackoff.entries: per key NoEntry or [until, strikes, probing]
  overflow,  \* ticks left of overflowUntil
  denied,    \* credentials with a recorded capability failure
  catalog,   \* the discovery cache: per credential [listed, state]
  call,      \* the calls
  asked,     \* ghost: ticks left of what the server asked a key to wait
  grant,     \* ghost: what discovery last learned for certain about a credential
  limits,    \* ghost: rate limits answered so far
  lists      \* ghost: discoveries so far

apiVars == <<config, gate, overflow, denied, catalog, call, asked, grant, limits, lists>>

ApiPools == {"api", "zdr"}
Endpoints == {"responses", "decisions"}
NoEntry == [until |-> 0, strikes |-> 0, probing |-> FALSE]
\* "cold": nothing known, out of date, or a failure whose cooldown is over.
CatalogStates == {"cold", "busy", "fresh", "hold"}
NewCall(e) == [at |-> "new", end |-> e, cands |-> <<>>, pos |-> 1, tried |-> {}, region |-> "any",
               left |-> AdmissionTime, sleep |-> 0, deferred |-> FALSE, asked |-> FALSE, late |-> {},
               cur |-> NoRoute, probe |-> "none", sent |-> <<>>]

KeyOf(r) == config[r].key
RegionOf(r) == config[r].region

-----------------------------------------------------------------------------
(* Discovery: refreshCatalog *)

\* Nothing starts within a cooldown, and one request per credential is under way.
Discover(r) ==
  /\ catalog[r].state = "cold" /\ lists < MaxLists
  /\ catalog' = [catalog EXCEPT ![r].state = "busy"] /\ lists' = lists + 1
  /\ UNCHANGED <<config, gate, overflow, denied, call, asked, grant, limits>>

\* Bug: what was known is kept whatever the failure was.
KeptListAlways(entry, answer) == IF answer = "listed" THEN TRUE ELSE entry.listed
\* The list after an answer: a refused key keeps nothing, a transient failure everything.
KeptList(entry, answer) ==
  CASE answer = "listed" -> TRUE
    [] answer \in {"unlisted", "refused"} -> FALSE
    [] answer = "transient" -> entry.listed

Discovered(r, answer) ==
  /\ catalog[r].state = "busy"
  /\ catalog' = [catalog EXCEPT ![r] = [listed |-> KeptList(catalog[r], answer),
                                        state |-> IF answer \in {"listed", "unlisted"} THEN "fresh" ELSE "hold"]]
  /\ grant' = IF answer = "transient" THEN grant ELSE [grant EXCEPT ![r] = answer = "listed"]
  /\ UNCHANGED <<config, gate, overflow, denied, call, asked, limits, lists>>

-----------------------------------------------------------------------------
(* Admission: ApiRateBackoff *)

MustWait(k) == Max({overflow, gate[k].until, IF gate[k].probing THEN 1 ELSE 0})

\* The entry of k after a rejection that asks for d ticks.
Penalty(k, d) ==
  LET strikes == Min({2, gate[k].strikes + 1})
  IN [until |-> Max({gate[k].until, d, strikes}), strikes |-> strikes, probing |-> FALSE]

Known == {k \in Keys : gate[k].strikes > 0}
\* Entries long past their deadline make room; the others never do.
IdleKeys == {k \in Known : gate[k].until = 0 /\ ~gate[k].probing}

\* penalize: the rejection owns the entry from now on; a full table closes every gate.
Penalized(k, d) ==
  \E gone \in IF k \notin Known /\ Cardinality(Known) >= MaxEntries THEN SUBSET IdleKeys ELSE {{}} :
    LET room == k \in Known \/ Cardinality(Known \ gone) < MaxEntries
    IN /\ gate' = [j \in Keys |-> IF j = k /\ room THEN Penalty(k, d)
                                  ELSE IF j \in gone THEN NoEntry ELSE gate[j]]
       /\ overflow' = IF room THEN overflow ELSE Max({overflow, Penalty(k, d).until})

\* Bug: whoever ends a probe decides about the key's entry, even a newer one.
ReleasedAlways(c, success) ==
  IF call[c].probe = "none" THEN gate
  ELSE [gate EXCEPT ![KeyOf(call[c].cur)] = IF success THEN NoEntry ELSE [@ EXCEPT !.probing = FALSE]]
\* release: only of the entry that was acquired.
Released(c, success) ==
  IF call[c].probe # "mine" THEN gate
  ELSE [gate EXCEPT ![KeyOf(call[c].cur)] = IF success THEN NoEntry ELSE [@ EXCEPT !.probing = FALSE]]

-----------------------------------------------------------------------------
(* A call *)

\* resolveModelRoute: credentials of the pool whose catalogue lists the model.
Candidates(S) == SetToSortSeq({r \in S : config[r].pool = "api" /\ catalog[r].listed}, <)
Warm == {r \in Routes : catalog[r].state = "fresh"}
Settled(r) == catalog[r].state \in {"fresh", "hold"}

\* Fresh evidence first; without any, the whole pool is discovered.  Calls are numbered in
\* the order in which they start.
StartCall(c) ==
  /\ call[c].at = "new" /\ \A d \in Calls : d < c => call[d].at # "new"
  /\ \/ /\ Candidates(Warm) # <<>>
        /\ call' = [call EXCEPT ![c].at = "scan", ![c].cands = Candidates(Warm)]
     \/ /\ Candidates(Warm) = <<>>
        /\ \A r \in Routes : config[r].pool = "api" => Settled(r)
        /\ call' = [call EXCEPT ![c].at = "scan", ![c].cands = Candidates(Routes),
                                ![c].asked = call[c].end = "decisions"]
  /\ UNCHANGED <<config, gate, overflow, denied, catalog, asked, grant, limits, lists>>

Sends(c, k) == Cardinality({i \in DOMAIN call[c].sent : KeyOf(call[c].sent[i].route) = k})
\* Bug: what was attempted is known by credential, not by key.
UsedRoute(c, r) == \E i \in DOMAIN call[c].sent : call[c].sent[i].route = r /\ call[c].sent[i].answer # "limited"
\* attemptedKeys, or for Decisions the rejected keys and the bounded number of sends.
Used(c, r) ==
  \/ KeyOf(r) \in call[c].tried
  \/ call[c].end = "decisions" /\ Sends(c, KeyOf(r)) >= MaxSends

\* Bug: a credential is looked at whatever its region is.
RegionChosenNever(c) == "any"
\* The first candidate that could serve fixes the region of the call.
RegionChosen(c) ==
  LET open == {i \in DOMAIN call[c].cands : call[c].cands[i] \notin denied}
  IN IF call[c].region # "any" \/ open = {} THEN call[c].region ELSE RegionOf(call[c].cands[Min(open)])

\* Places in the list of candidates that are still to be looked at and could be sent.
UsablePlaces(c) ==
  {i \in call[c].pos..Len(call[c].cands) :
     LET r == call[c].cands[i]
     IN r \notin denied /\ RegionChosen(c) \in {"any", RegionOf(r)} /\ ~Used(c, r)}
WaitAt(c, i) == MustWait(KeyOf(call[c].cands[i]))
Admitted(c) == {i \in UsablePlaces(c) : WaitAt(c, i) = 0}
\* The shortest wait met so far, when the places S have to wait too.
Sooner(c, S) == {WaitAt(c, i) : i \in S} \cup IF call[c].deferred THEN {call[c].sleep} ELSE {}
Deferring(c, S) ==
  IF S = {} THEN call[c] ELSE [call[c] EXCEPT !.deferred = TRUE, !.sleep = Min(Sooner(c, S))]

\* The scan goes on to the first admitted candidate, in one step.
Send(c) ==
  /\ call[c].at = "scan" /\ Admitted(c) # {}
  /\ LET i == Min(Admitted(c))
         r == call[c].cands[i]
         k == KeyOf(r)
     IN /\ gate' = IF k \in Known THEN [gate EXCEPT ![k].probing = TRUE] ELSE gate
        /\ call' = [call EXCEPT ![c] = [Deferring(c, {j \in UsablePlaces(c) : j < i}) EXCEPT
             !.at = "sent", !.cur = r, !.tried = IF call[c].end = "responses" THEN @ \cup {k} ELSE @,
             !.pos = i + 1, !.region = RegionChosen(c), !.probe = IF k \in Known THEN "mine" ELSE "none",
             !.sent = Append(@, [route |-> r, answer |-> "none"])]]
  /\ UNCHANGED <<config, overflow, denied, catalog, asked, grant, limits, lists>>

Noted(c, answer) == [call[c].sent EXCEPT ![Len(call[c].sent)].answer = answer]
\* The call has its response; nothing of it is kept.
Over(c) == [NewCall(call[c].end) EXCEPT !.at = "over"]
Continues(c, answer) ==
  [call[c] EXCEPT !.at = "scan", !.cur = NoRoute, !.probe = "none", !.sent = Noted(c, answer)]

\* A response streams to the client and keeps its admission; a decision is read whole.
Accepted(c) ==
  /\ call[c].at = "sent"
  /\ \/ /\ call[c].end = "responses"
        /\ call' = [call EXCEPT ![c].at = "stream", ![c].sent = Noted(c, "ok")] /\ UNCHANGED gate
     \/ /\ call[c].end = "decisions"
        /\ \E whole \in BOOLEAN : gate' = Released(c, whole)
        /\ call' = [call EXCEPT ![c] = Over(c)]
  /\ UNCHANGED <<config, overflow, denied, catalog, asked, grant, limits, lists>>

\* completeRequest, after the stream's end has been recorded.
StreamEnds(c, success) ==
  /\ call[c].at = "stream"
  /\ gate' = Released(c, success)
  /\ call' = [call EXCEPT ![c] = Over(c)]
  /\ UNCHANGED <<config, overflow, denied, catalog, asked, grant, limits, lists>>

\* A rate limit, in the answer or inside a stream (recordStreamFailure).
KeyLimited(c, d) ==
  /\ call[c].at \in {"sent", "stream"} /\ limits < MaxLimits /\ limits' = limits + 1
  /\ LET k == KeyOf(call[c].cur)
         mine == call[c].end = "responses" \/ Sends(c, k) < MaxSends
     IN /\ Penalized(k, d)
        /\ asked' = [asked EXCEPT ![k] = Max({@, d})]
        /\ call' = [x \in Calls |->
             IF x = c /\ call[c].at = "stream" THEN Over(c)
             ELSE IF x = c
             THEN [Continues(c, "limited") EXCEPT !.tried = @ \ {k}, !.deferred = @ \/ mine,
                     !.sleep = IF ~mine THEN @ ELSE IF call[c].deferred THEN Min({@, Penalty(k, d).until}) ELSE Penalty(k, d).until]
             ELSE IF call[x].cur # NoRoute /\ KeyOf(call[x].cur) = k /\ call[x].probe = "mine"
             THEN [call[x] EXCEPT !.probe = "replaced"] ELSE call[x]]
  /\ UNCHANGED <<config, denied, catalog, grant, lists>>

\* A capability the key does not have, said in the answer or inside a stream: remembered
\* for the credential (Decisions: for the key).
Unsupported(c) ==
  /\ call[c].at \in {"sent", "stream"}
  /\ gate' = Released(c, FALSE)
  /\ denied' = denied \cup {r \in Routes : IF call[c].end = "responses" THEN r = call[c].cur ELSE KeyOf(r) = KeyOf(call[c].cur)}
  /\ call' = [call EXCEPT ![c] = IF call[c].at = "stream" THEN Over(c) ELSE Continues(c, "refused")]
  /\ UNCHANGED <<config, overflow, catalog, asked, grant, limits, lists>>

\* The key is refused or its quota is spent: the next key is tried.
KeyRejected(c) ==
  /\ call[c].at = "sent"
  /\ gate' = Released(c, FALSE)
  /\ call' = [call EXCEPT ![c] = [Continues(c, "refused") EXCEPT !.tried = @ \cup {KeyOf(call[c].cur)}]]
  /\ UNCHANGED <<config, overflow, denied, catalog, asked, grant, limits, lists>>

\* Bug: a decision that may have been made is asked for again with another key.
AmbiguousEndReplay(c) == Continues(c, "maybe")
\* A failure after which nobody knows whether the server acted: Decisions ends the call.
AmbiguousEnd(c) == IF call[c].end = "responses" THEN Continues(c, "maybe") ELSE Over(c)

Ambiguous(c) ==
  /\ call[c].at = "sent"
  /\ gate' = Released(c, FALSE)
  /\ call' = [call EXCEPT ![c] = AmbiguousEnd(c)]
  /\ UNCHANGED <<config, overflow, denied, catalog, asked, grant, limits, lists>>

\* An answer about the request itself ends the call, whatever the key.
Refused(c) ==
  /\ call[c].at = "sent"
  /\ gate' = Released(c, FALSE)
  /\ call' = [call EXCEPT ![c] = Over(c)]
  /\ UNCHANGED <<config, overflow, denied, catalog, asked, grant, limits, lists>>

\* Bug: a cancelled call keeps its admission.
CancelGate(c) == gate
\* The client went away, or the time of a Decisions call is up; the finally blocks return
\* the admission.
CancelledGate(c) == IF call[c].cur = NoRoute THEN gate ELSE Released(c, FALSE)

Cancel(c) ==
  /\ call[c].at \in {"sent", "wait"}
  /\ gate' = CancelledGate(c)
  /\ call' = [call EXCEPT ![c] = Over(c)]
  /\ UNCHANGED <<config, overflow, denied, catalog, asked, grant, limits, lists>>

-----------------------------------------------------------------------------
(* Between two rounds *)

Backups(c) ==
  {r \in Routes \ ToSet(call[c].cands) : config[r].pool = "api" /\ RegionChosen(c) \in {"any", RegionOf(r)}}

\* No other candidate can be used now.  Cold credentials are asked for once; then the call
\* waits, or gives up.
RoundEnds(c) ==
  /\ call[c].at = "scan" /\ Admitted(c) = {}
  /\ LET d == Deferring(c, UsablePlaces(c))
         late == IF d.asked THEN d.late ELSE Backups(c)
         soon == d.sleep < d.left \/ (d.end = "responses" /\ d.sleep = d.left)
         wait == (late # {} /\ d.left > 0) \/ (d.deferred /\ soon)
     IN call' = [call EXCEPT ![c] = IF wait THEN [d EXCEPT !.at = "wait", !.region = RegionChosen(c), !.asked = TRUE, !.late = late]
                                    ELSE Over(c)]
  /\ UNCHANGED <<config, gate, overflow, denied, catalog, asked, grant, limits, lists>>

NextRound(c, cands) ==
  [call[c] EXCEPT !.at = "scan", !.cands = cands, !.pos = 1, !.deferred = FALSE, !.sleep = 0]

\* A backup's catalogue is in: its credential joins the candidates if it lists the model.
BackupReady(c, r) ==
  /\ call[c].at = "wait" /\ r \in call[c].late /\ call[c].left > 0
  /\ Settled(r)
  /\ call' = [call EXCEPT ![c] = [NextRound(c, call[c].cands \o Candidates({r})) EXCEPT !.late = @ \ {r}]]
  /\ UNCHANGED <<config, gate, overflow, denied, catalog, asked, grant, limits, lists>>

\* The shortest cooldown is over, or the time for backups is: one more round.
Wake(c) ==
  /\ call[c].at = "wait"
  /\ (call[c].deferred /\ call[c].sleep = 0) \/ call[c].left = 0
  /\ call' = [call EXCEPT ![c] = NextRound(c, call[c].cands)]
  /\ UNCHANGED <<config, gate, overflow, denied, catalog, asked, grant, limits, lists>>

Less(n) == IF n = 0 THEN 0 ELSE n - 1
Ticking == \E k \in Keys : gate[k].until > 0 \/ asked[k] > 0

\* A Decisions call ends long before the five minutes of a record.
Lasting == \E c \in Calls : call[c].end = "decisions" /\ call[c].at \notin {"new", "over"}

\* Time passes for everyone; a recorded capability failure may expire with it.
ApiTick ==
  /\ Ticking \/ overflow > 0 \/ \E c \in Calls : call[c].at = "wait"
  /\ gate' = [k \in Keys |-> [gate[k] EXCEPT !.until = Less(@)]]
  /\ overflow' = Less(overflow)
  /\ asked' = [k \in Keys |-> Less(asked[k])]
  /\ call' = [c \in Calls |-> IF call[c].at \in {"new", "over"} THEN call[c]
                              ELSE [call[c] EXCEPT !.left = Less(@),
                                     !.sleep = IF call[c].at = "wait" \/ call[c].end = "decisions" THEN Less(@) ELSE @]]
  /\ denied' \in {denied, IF Lasting THEN denied ELSE {}}
  /\ UNCHANGED <<config, catalog, grant, limits, lists>>

-----------------------------------------------------------------------------
\* A key of the gates is an API key at its region's address.
FirstKey == CHOOSE k \in Keys : TRUE
ApiInit ==
  /\ config \in {f \in [Routes -> [key: Keys, pool: ApiPools, region: {"global", "us"}]] :
                   /\ f[1] = [key |-> FirstKey, pool |-> "api", region |-> "global"]
                   /\ \A r, s \in Routes : f[r].key = f[s].key => f[r] = f[s]
                   /\ \A r \in Routes : f[r].pool = "zdr" => f[r].region = "global"}
  /\ gate = [k \in Keys |-> NoEntry] /\ overflow = 0 /\ denied = {}
  /\ \E known \in {{}, {1}, Routes}, new \in {{1}, Routes} :
       /\ catalog = [r \in Routes |-> [listed |-> r \in known, state |-> IF r \in known \cap new THEN "fresh" ELSE "cold"]]
       /\ grant = [r \in Routes |-> r \in known]
  /\ \/ call = [c \in Calls |-> NewCall("responses")]
     \/ call = [c \in Calls |-> [NewCall("decisions") EXCEPT !.at = IF c = Min(Calls) THEN @ ELSE "over"]]
  /\ asked = [k \in Keys |-> 0] /\ limits = 0 /\ lists = 0

\* A scan does not await anything between two sends: nothing else runs meanwhile.
ApiNext ==
  \/ \E c \in Calls : Send(c) \/ RoundEnds(c)
  \/ /\ \A c \in Calls : call[c].at # "scan"
     /\ \/ \E r \in Routes : \/ Discover(r)
                             \/ \E a \in {"listed", "unlisted", "refused", "transient"} : Discovered(r, a)
        \/ \E c \in Calls :
             \/ StartCall(c) \/ Accepted(c) \/ Unsupported(c) \/ KeyRejected(c) \/ Ambiguous(c) \/ Refused(c)
             \/ Cancel(c) \/ Wake(c)
             \/ \E s \in BOOLEAN : StreamEnds(c, s)
             \/ \E d \in {0, MaxDelay} : KeyLimited(c, d)
             \/ \E r \in Routes : BackupReady(c, r)
        \/ ApiTick

ApiSpec == ApiInit /\ [][ApiNext]_apiVars

-----------------------------------------------------------------------------
(* Properties *)

\* A call never uses an API key again whose earlier answer may stand for work done or
\* refused: only a rate limit allows a second send, also when two credentials hold the
\* same key ("Accepted or ambiguous sends are never replayed").
OncePerKey ==
  \A c \in Calls : \A i, j \in DOMAIN call[c].sent :
    i < j /\ KeyOf(call[c].sent[i].route) = KeyOf(call[c].sent[j].route) => call[c].sent[i].answer = "limited"

\* A decision that may have been made is never asked for a second time, with whatever key.
DecisionOnce ==
  \A c \in Calls : call[c].end = "decisions" =>
    \A i \in 1..(Len(call[c].sent) - 1) : call[c].sent[i].answer \in {"limited", "refused"}

\* Everything a call sends stays in the pool it named and, with backups discovered on the
\* way, in one region.
PoolAndRegionKept ==
  \A c \in Calls : \A i, j \in DOMAIN call[c].sent :
    /\ config[call[c].sent[i].route].pool = "api"
    /\ RegionOf(call[c].sent[i].route) = RegionOf(call[c].sent[j].route)

\* A key that is being probed is in the hands of exactly one call that is still talking to
\* the server: no cancellation, failure or overtaken probe locks a key for good.
AdmissionsReturned ==
  \A k \in Keys : gate[k].probing =>
    Cardinality({c \in Calls : call[c].probe = "mine" /\ call[c].at \in {"sent", "stream"} /\ KeyOf(call[c].cur) = k}) = 1

\* A model is listed for a credential only while the last certain answer of discovery says
\* so: failures keep what was known, refusals do not.
CatalogHonest == \A r \in Routes : catalog[r].listed => grant[r]

\* No key is used before the time the server has asked for, whichever call was told, whoever
\* ended a probe in between and however full the table is.
DeadlineKept ==
  \A c \in Calls : Len(call'[c].sent) > Len(call[c].sent) => asked[KeyOf(call'[c].cur)] = 0

=============================================================================

---------------------------- MODULE MCRequestLoop ----------------------------
(***************************************************************************)
(* The runtime proxy for TLC: requests that are served by signed-in        *)
(* accounts, requests that are served with API keys, and the evidence      *)
(* about those keys.  A behaviour runs one of them and leaves the others   *)
(* in their initial states.                                                *)
(***************************************************************************)
EXTENDS RequestLoop, ApiRoutes, ApiEvidence, TLC

CONSTANTS r1, r2, a1, a2, w1, w2, k1, k2, m1, m2,
          Parts   \* what a run looks at

VARIABLE running

\* One workspace for each account.
MCOwnScopes == [a \in Accounts |-> IF a = a1 THEN <<w1>> ELSE <<w2>>]

\* Two accounts that share a workspace; the first has another one as well.
MCSharedScopes == [a \in Accounts |-> IF a = a1 THEN <<w1, w2>> ELSE <<w1>>]

\* Two accounts of one and the same workspace.
MCTwinScopes == [a \in Accounts |-> <<w1>>]

MCSymmetry == Permutations(Requests)

benchVars == <<running, vars, apiVars, evidenceVars, slotVars>>

BenchInit ==
  /\ running \in Parts
  /\ Init /\ ApiInit /\ EvidenceInit /\ SlotInit
  /\ running # "routes" => /\ config = [r \in Routes |-> config[1]]
                           /\ call = [c \in Calls |-> NewCall("responses")]
                           /\ \A r \in Routes : ~catalog[r].listed
  /\ running # "evidence" => stored = OldCredential /\ probes = Corrupt

BenchNext ==
  /\ UNCHANGED running
  /\ IF running = "loop" THEN Next ELSE UNCHANGED vars
  /\ IF running = "routes" THEN ApiNext ELSE UNCHANGED apiVars
  /\ IF running = "evidence" THEN EvidenceNext ELSE UNCHANGED evidenceVars
  /\ IF running = "slots" THEN SlotNext ELSE UNCHANGED slotVars

BenchSpec == BenchInit /\ [][BenchNext]_benchVars

\* An API call uses a key again only after a rate limit, never asks for a decision twice
\* and stays in its pool and region; admissions, slots and leases are returned; what is
\* known of a key is what was last learned, and what the user hid stays hidden.
KeysTrue ==
  /\ running = "routes" => OncePerKey /\ DecisionOnce /\ PoolAndRegionKept /\ AdmissionsReturned /\ CatalogHonest
  /\ running = "evidence" => NothingAfterWipe /\ HiddenStaysHidden /\ OneBill /\ LostShowsNothing
  /\ running = "slots" => SlotsKept

\* No key is used before the time its server asked for, no removed credential comes back,
\* and no check answers with evidence of another lifetime.
KeysKept == [][
  /\ running = "routes" => DeadlineKept
  /\ running = "evidence" => EvidenceCurrent /\ NoResurrection]_benchVars
=============================================================================

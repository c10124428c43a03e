---------------------------- MODULE BenchProofs ----------------------------
(***************************************************************************)
(* The bench that runs one component at a time inherits what is proved of  *)
(* each of them.                                                           *)
(***************************************************************************)
EXTENDS MCComponents, ComponentsProofs

\* A behaviour of the bench is a behaviour of each component.
LEMMA BenchRunsEach ==
  BenchSpec => ReloadSpec /\ SaveSpec /\ CliSpec /\ MetaSpec /\ RepairSpec /\ TokenSpec /\ RelaySpec
<1>1. BenchInit => ReloadInit /\ SaveInit /\ CliInit /\ MetaInit /\ RepairInit /\ TokenInit /\ RelayInit
  BY DEF BenchInit
<1>2. [BenchNext]_benchVars =>
        /\ [ReloadNext]_reloadVars /\ [SaveNext]_saveVars /\ [CliNext]_cliVars /\ [MetaNext]_metaVars
        /\ [RepairNext]_repairVars /\ [TokenNext]_tokenVars /\ [RelayNext]_relayVars
  <2>1. BenchNext =>
        /\ [ReloadNext]_reloadVars /\ [SaveNext]_saveVars /\ [CliNext]_cliVars /\ [MetaNext]_metaVars
        /\ [RepairNext]_repairVars /\ [TokenNext]_tokenVars /\ [RelayNext]_relayVars
    BY DEF BenchNext
  <2>2. UNCHANGED benchVars =>
        UNCHANGED <<reloadVars, saveVars, cliVars, metaVars, repairVars, tokenVars, relayVars>>
    BY DEF benchVars
  <2> QED BY <2>1, <2>2
<1> QED BY <1>1, <1>2, PTL DEF BenchSpec, ReloadSpec, SaveSpec, CliSpec, MetaSpec, RepairSpec, TokenSpec, RelaySpec

\* What is on its way arrives, whichever of the four kinds of copies it is on the way to:
\* cached managers, the pool file, the CLI's state and the selection.
THEOREM CopiesAlwaysCatchUp == BenchSpec => []CopiesCatchUp
<1>1. CacheCatchesUp /\ FlushPersistsAll /\ ChangeOnItsWay /\ ForcedIsFresh /\ SelectionNoticed => CopiesCatchUp
  BY DEF CopiesCatchUp
<1> QED BY <1>1, BenchRunsEach, CacheAlwaysCatchesUp, ChangesReachTheDisk, ForcedAlwaysFresh, SelectionAlwaysNoticed, PTL

\* Rotated and flagged credentials, cached CLI state, revoked client tokens, and relayed
\* requests that were cancelled or possibly sent: none of them comes back.
THEOREM NothingEverRevived == BenchSpec => NothingRevived
<1> DEFINE Holds == /\ running = "repair" => FlaggedNeverOlder
                    /\ running = "clistate" => CacheNeverOlder
                    /\ running = "tokens" => RevocationFinal
                    /\ running = "relay" => NeverReplayed /\ CancelledNotSent
<1>1. /\ [FlaggedNeverOlder]_repairVars /\ [CacheNeverOlder]_cliVars /\ [RevocationFinal]_tokenVars
      /\ [NeverReplayed]_relayVars /\ [CancelledNotSent]_relayVars /\ CliInv /\ RelayInv
      => [Holds]_benchVars
  <2>1. UNCHANGED repairVars => FlaggedNeverOlder
    BY DEF repairVars, FlaggedNeverOlder
  <2>2. CliInv /\ UNCHANGED cliVars => CacheNeverOlder
    BY DEF CliInv, CliTypeOK, CliStates, cliVars, CacheNeverOlder
  <2>3. UNCHANGED tokenVars => RevocationFinal
    BY DEF tokenVars, RevocationFinal
  <2>4. UNCHANGED relayVars => CancelledNotSent
    BY DEF relayVars, relayHistory, CancelledNotSent
  <2>5. RelayInv /\ UNCHANGED relayVars => NeverReplayed
    <3> SUFFICES ASSUME RelayInv, UNCHANGED relayVars, NEW c \in ambiguous
                 PROVE  sends'[c] = sends[c] /\ current'.create # c
      BY DEF NeverReplayed
    <3>1. c \in Creates /\ result[c] = "disconnected" /\ c # NoCreate
      BY RelayShape, RelayAssumption DEF RelayInv, WithdrawnTrue
    <3>2. current.create # c
      BY <3>1 DEF RelayInv, ServedOnce
    <3> QED BY <3>2 DEF relayVars, relayHistory, relayQueue
  <2> QED BY <2>1, <2>2, <2>3, <2>4, <2>5
<1>2. BenchSpec => [](CliInv /\ RelayInv)
  BY BenchRunsEach, CliInvInit, CliInvNext, RelayInvInit, RelayInvNext, PTL DEF CliSpec, RelaySpec
<1>3. BenchSpec => [][Holds]_benchVars
  BY <1>1, <1>2, BenchRunsEach, NeverOlder, CacheGoesForward, RevokedForGood, RelayNeverReplays, CancelIsHeard, PTL
<1> QED BY <1>3 DEF NothingRevived
=============================================================================

----------------------------- MODULE MCPools -----------------------------
(***************************************************************************)
(* A bench, like MCComponents, for the accounts file and for what moves   *)
(* accounts in and out of it: a behaviour runs one component and leaves    *)
(* the others in their initial states.  The sessions and the accounts of   *)
(* the file are interchangeable.                                           *)
(***************************************************************************)
EXTENDS AccountStorage, AccountIdentity, PoolTransfer, TLC

CONSTANTS s1, s2, x, y, ia, ib, mx, my, ta, tb

VARIABLE running

MCSymmetry == Permutations({s1, s2}) \cup Permutations({x, y})

Components == {"storage", "identity", "transfer"}
benchVars == <<running, vars, identityVars, transferVars>>

BenchInit ==
  /\ running \in Components
  /\ Init
  /\ running # "storage" => primary = None
  /\ IF running = "identity" THEN IdentityInit ELSE Reads(<<>>)
  /\ IF running = "transfer" THEN TransferInit ELSE Starts("sync", File(<<>>, 0, 0), <<>>)

BenchNext ==
  /\ UNCHANGED running
  /\ IF running = "storage" THEN Next ELSE UNCHANGED vars
  /\ IF running = "identity" THEN IdentityNext ELSE UNCHANGED identityVars
  /\ IF running = "transfer" THEN TransferNext ELSE UNCHANGED transferVars

BenchSpec ==
  /\ BenchInit /\ [][BenchNext]_benchVars

\* Accounts are told apart, and results read, as the code's own reference says.
PoolsTrue ==
  /\ running = "identity" => IndexAgrees /\ DedupSettled /\ SelectionFollows
  /\ running = "transfer" => SyncSettles

\* A step that moves accounts or results from one place to another loses none of them.
PoolsKept == [][
  /\ running = "transfer" => ImportKeepsAll /\ LegacyStored /\ BackupsKept /\ SyncKeepsTarget]_benchVars
=============================================================================

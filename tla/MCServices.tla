----------------------------- MODULE MCServices -----------------------------
(***************************************************************************)
(* A bench, like MCComponents, for the credentials of a running proxy and  *)
(* for the services around it: a behaviour runs one of them and leaves the *)
(* others in their initial states.                                         *)
(***************************************************************************)
EXTENDS CredentialSwap, SettingsHub, QuotaCache, AutoChecks, PluginTools,
        ResetCredits

CONSTANTS r1, s1, lf1, lf2, th1, th2

VARIABLE running


Components == {"swap", "hub", "quota", "auto", "tools", "credits",
               "receipts"}
benchVars == <<running, vars, hubVars, quotaVars, checkVars, toolVars, resetVars,
             receiptVars>>

BenchInit ==
  /\ running \in Components
  /\ Init
  /\ running # "swap" => disk.enabled
  /\ HubInit
  /\ QuotaInit
  /\ running # "quota" => \A r \in DOMAIN pool : pool[r] = CHOOSE acct \in NewAccount : TRUE
  /\ CheckInit
  /\ running # "auto" => kind = "api"
  /\ ToolInit
  /\ running # "tools" => Len(accountsFile.rows) = 1
  /\ ResetInit
  /\ running # "credits" => resetFile.policy = "manual"
  /\ ReceiptInit
  /\ running # "receipts" => permitted

BenchNext ==
  /\ UNCHANGED running
  /\ IF running = "swap" THEN Next ELSE UNCHANGED vars
  /\ IF running = "hub" THEN HubNext ELSE UNCHANGED hubVars
  /\ IF running = "quota" THEN QuotaNext ELSE UNCHANGED quotaVars
  /\ IF running = "auto" THEN CheckNext ELSE UNCHANGED checkVars
  /\ IF running = "tools" THEN ToolNext ELSE UNCHANGED toolVars
  /\ IF running = "credits" THEN ResetNext ELSE UNCHANGED resetVars
  /\ IF running = "receipts" THEN ReceiptNext ELSE UNCHANGED receiptVars

BenchSpec ==
  /\ BenchInit /\ [][BenchNext]_benchVars

\* What is stored is what was chosen or observed, and is found again by whom it is about.
StoresTrue ==
  /\ running = "hub" => PanelsKeepToTheirKeys /\ OnlyAskedConfig /\ ThemeIsCurrent
  /\ running = "quota" => OwnUsageOnly
  /\ running = "tools" => OnlyAskedRowsLeave /\ SuccessorsStored /\ PoolWithinLimit
  /\ running = "credits" => SpentIsOnRecord /\ LastResortOnly
  /\ running = "swap" => NoSpentActive

\* A step that others see loses nothing they stored or asked for meanwhile.
UpdatesKept == [][
  /\ running = "quota" => EvidenceKept /\ NothingDropped
  /\ running = "auto" => ConsentHonoured
  /\ running = "tools" => RemovalKeepsSelection
  /\ running = "credits" => ReceiptsOrdered
  /\ running = "receipts" => LiftedByNewerReset]_benchVars
=============================================================================

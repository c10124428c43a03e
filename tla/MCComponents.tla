---------------------------- MODULE MCComponents ----------------------------
(***************************************************************************)
(* A bench for the components that are checked on their own: a behaviour   *)
(* runs one of them and leaves the others in their initial states.  The    *)
(* parts of a property are stated of the component that runs: nothing      *)
(* disturbs the others.                                                    *)
(***************************************************************************)
EXTENDS CircuitBreaker, WrapperHomes, MemoryCopies, Relays,
        RepairPool, AccountCommands, StorageMeta, SettingsStore, RateLimits,
        SessionRecovery, ClientTokens

CONSTANTS r1, r2, r3, p1, p2, w1, w2, s1, s2, s3, c1, c2, o1, a1, q1, q2, ld1,
          ld2, id1, id2, cmd1, sv1, sv2, lu1, lu2, rh1, rh2, rm1, rm2, bc1,
          bc2, bt1, bt2, vs1, vc1, vc2

VARIABLE running

MCRepairKinds == [p \in Repairs |-> IF p = q1 THEN {"fix", "doctor", "verify", "verifyKeep"}
                                   ELSE {"runtimeVerify", "deepCheck"}]

Components == {"breaker", "bind", "homes", "helper", "sweep", "reload",
               "save", "relay", "repair", "clistate", "selection", "meta",
               "login", "settings", "marks", "gates", "quota", "backoff",
               "recovery", "tokens", "voice", "forward"}
benchVars == <<running, vars, appBindVars, homeVars, helperVars, sweepVars,
             reloadVars, saveVars, relayVars, repairVars, cliVars,
             selectionVars, metaVars, loginVars, settingsVars, markVars,
             gateVars, schedulerVars, backoffVars, recoveryVars, tokenVars,
             voiceVars, forwardVars>>

BenchInit ==
  /\ running \in Components
  /\ Init
  /\ AppBindInit
  /\ ShadowInit
  /\ HelperInit
  /\ SweepInit
  /\ ReloadInit
  /\ SaveInit
  /\ RelayInit
  /\ RepairInit
  /\ flaggedFile[2] = 0
  /\ running # "repair" => flaggedFile[1] = 0
  /\ CliInit
  /\ SelectionInit
  /\ MetaInit
  /\ LoginInit
  /\ saved[p2].tok <= saved[p1].tok
  /\ running # "login" => mode = "dashboard" /\ activeNow = Nobody
  /\ SettingsInit
  /\ envSet \/ primary = Full => legacy = Absent /\ oldDash = 0
  /\ oldDash = 0 \/ legacy = Absent
  /\ envSet \/ running # "settings" => primary = Full
  /\ running # "settings" => ~envSet
  /\ MarksInit
  /\ GatesInit
  /\ SchedulerInit
  /\ BackoffInit
  /\ RecoveryInit
  /\ running # "recovery" => partFile.healthy /\ ~partFile.busy /\ \A m \in Messages : parts[m].think = 0
  /\ TokenInit
  /\ running # "tokens" => bridge.auth /\ bridge.key
  /\ VoiceInit
  /\ ForwardInit
  /\ running # "forward" => launch = PlainLaunch
  /\ running # "helper" => identity.known

BenchNext ==
  /\ UNCHANGED running
  /\ IF running = "breaker" THEN Next ELSE UNCHANGED vars
  /\ IF running = "bind" THEN AppBindNext ELSE UNCHANGED appBindVars
  /\ IF running = "homes" THEN ShadowNext ELSE UNCHANGED homeVars
  /\ IF running = "helper" THEN HelperNext ELSE UNCHANGED helperVars
  /\ IF running = "sweep" THEN SweepNext ELSE UNCHANGED sweepVars
  /\ IF running = "reload" THEN ReloadNext ELSE UNCHANGED reloadVars
  /\ IF running = "save" THEN SaveNext ELSE UNCHANGED saveVars
  /\ IF running = "relay" THEN RelayNext ELSE UNCHANGED relayVars
  /\ IF running = "repair" THEN RepairNext ELSE UNCHANGED repairVars
  /\ IF running = "clistate" THEN CliNext ELSE UNCHANGED cliVars
  /\ IF running = "selection" THEN SelectionNext ELSE UNCHANGED selectionVars
  /\ IF running = "meta" THEN MetaNext ELSE UNCHANGED metaVars
  /\ IF running = "login" THEN LoginNext ELSE UNCHANGED loginVars
  /\ IF running = "settings" THEN SettingsNext ELSE UNCHANGED settingsVars
  /\ IF running = "marks" THEN MarksNext ELSE UNCHANGED markVars
  /\ IF running = "gates" THEN GatesNext ELSE UNCHANGED gateVars
  /\ IF running = "quota" THEN SchedulerNext ELSE UNCHANGED schedulerVars
  /\ IF running = "backoff" THEN BackoffNext ELSE UNCHANGED backoffVars
  /\ IF running = "recovery" THEN RecoveryNext ELSE UNCHANGED recoveryVars
  /\ IF running = "tokens" THEN TokenNext ELSE UNCHANGED tokenVars
  /\ IF running = "voice" THEN VoiceNext ELSE UNCHANGED voiceVars
  /\ IF running = "forward" THEN ForwardNext ELSE UNCHANGED forwardVars

BenchSpec ==
  /\ BenchInit /\ [][BenchNext]_benchVars

\* What was limited stays limited: a breaker that counts too many failures is not closed,
\* no switch erases a later limit, waits are long enough, nobody starves, deferrals and
\* backoffs answer for what was asked, once; speech is relayed through bounded queues that
\* always drain, complete and in order.
LimitsRespected ==
  /\ running = "breaker" => ClosedMeansFewFailures
  /\ running = "marks" => LaterLimitKept
  /\ running = "gates" => WaitIsEnough /\ NobodyStarves
  /\ running = "quota" => DeferralWasAsked
  /\ running = "backoff" => AttemptsArePaced /\ ExponentialOnce
  /\ running = "voice" => FramesComplete /\ PausedIsResumed /\ QueueBounded /\ StaysJoinable /\ ClosedRelaysNothing

\* The wrapper releases what it took, honours upstream, account and signals, and tries
\* every replacement of a refused model once; no home, helper or owner file disappears
\* under a process that lives, no edit in a shadow home is lost, what is stranded is reaped.
LaunchKept ==
  /\ running = "homes" => EditNotLost /\ LiveHomeKept
  /\ running = "helper" => ReapedOnlyStranded /\ IdleMeansIdle /\ StrandedBounded
  /\ running = "sweep" => LiveMetadataKept
  /\ running = "forward" => ReleasedAtEnd /\ UpstreamHonoured /\ ForcedHonoured /\ ChildKeepsHome /\ FirstSignalReported /\ NoModelTwice /\ StaircaseExhausted

\* A cached copy comes up to its file, and a change in memory comes to its file.
CopiesCatchUp ==
  /\ running = "reload" => CacheCatchesUp
  /\ running = "save" => FlushPersistsAll /\ ChangeOnItsWay
  /\ running = "clistate" => ForcedIsFresh
  /\ running = "meta" => SelectionNoticed

\* Selections, sign-ins, settings and unbinding act on what the user meant: the CLI gets
\* the account and workspace that was chosen, settings stay readable through a crash and
\* are explained as they are in force, unbinding gives the user's configuration back, and
\* router and configuration agree.
SelectionMeant ==
  /\ running = "selection" => PinIsChosen /\ HitsWhatItAimedAt
  /\ running = "login" => RefreshDrained /\ SkipNotStale /\ CliHasActive /\ CliGetsAuthorised
  /\ running = "settings" => ExplainIsTrue /\ OneCopyReadable
  /\ running = "bind" => UnbindRestoresUser /\ ModeAgrees

\* What was replaced, revoked, cancelled or possibly sent never comes back.
NothingRevived == [][
  /\ running = "repair" => FlaggedNeverOlder
  /\ running = "clistate" => CacheNeverOlder
  /\ running = "tokens" => RevocationFinal
  /\ running = "relay" => NeverReplayed /\ CancelledNotSent]_benchVars

\* A breaker trips on its threshold only, and holds; so does a limit.  A save changes
\* what it was made for, and rows that move are announced.
LimitsAndWrites == [][
  /\ running = "breaker" => TripsOnlyOnThreshold /\ TripHolds
  /\ running = "quota" => LimitIsHonoured
  /\ running = "selection" => MovesAnnounced
  /\ running = "settings" => SaveChangesItsKey]_benchVars
=============================================================================

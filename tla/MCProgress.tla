------------------------------ MODULE MCProgress -----------------------------
(***************************************************************************)
(* A bench for what must come to an end: a behaviour runs one component    *)
(* and leaves the others in their initial states.                          *)
(***************************************************************************)
EXTENDS RequestLoop, ActiveMirror, PluginFetch, SignIn, UsageBudget

CONSTANTS r1, a1, a2, w1, w2, mem1, mem2, sw1, f1, k1, h1, h2, fa, fb, Failed,
          login1, login2, uc1, uc2

VARIABLES running,
          rqLeased, rqPc, rqTok, rqLock, rqResult, rqPolls, rqValue, rqUnread, rqFaults,
          rqPending, rqStage, rqOverdue, rqRotated, rqJoined, rqInflight,
          rqAnswer, rqSpent, rqIssued

\* Two accounts that share a workspace; the first has another one as well.
MCSharedScopes == [a \in Accounts |-> IF a = a1 THEN <<w1, w2>> ELSE <<w1>>]

MCPool == <<h1, h2>>
MCWorkspaces == [a \in {h1, h2} |-> IF a = h1 THEN 2 ELSE 0]

\* Refresh queues: two flights of two processes, or of the same one.
MCApart == [f \in {fa, fb} |-> f]
MCTogether == [f \in {fa, fb} |-> fa]
RQ(procOf) == INSTANCE RefreshQueue WITH
  Flights <- {fa, fb}, Procs <- {fa, fb}, ProcOf <- procOf, MaxToken <- 1, LeaseModes <- {TRUE},
  MaxPolls <- 1, MaxFaults <- 0,
  leased <- rqLeased, pc <- rqPc, tok <- rqTok, lock <- rqLock, result <- rqResult,
  polls <- rqPolls, value <- rqValue, unread <- rqUnread, faults <- rqFaults, pending <- rqPending,
  stage <- rqStage, overdue <- rqOverdue, rotated <- rqRotated, joined <- rqJoined,
  inflight <- rqInflight, answer <- rqAnswer, spent <- rqSpent, issued <- rqIssued
refreshVars == <<rqLeased, rqPc, rqTok, rqLock, rqResult, rqPolls, rqValue, rqUnread, rqFaults, rqPending,
                rqStage, rqOverdue, rqRotated, rqJoined, rqInflight, rqAnswer, rqSpent, rqIssued>>
RefreshInit == RQ(MCApart)!Init
RefreshNext == \/ running = "refresh" /\ RQ(MCApart)!Next
               \/ running = "refreshTwice" /\ RQ(MCTogether)!Next
RefreshStep(f) == \/ running = "refresh" /\ RQ(MCApart)!FlightStep(f)
                  \/ running = "refreshTwice" /\ RQ(MCTogether)!FlightStep(f)

MCLimitOf == [v \in 0..2 |-> v]

Components == {"request", "mirror", "fetch", "refresh", "signin", "usage",
               "refreshTwice"}
benchVars == <<running, vars, mirrorVars, fetchVars, refreshVars, signVars, usageVars>>

BenchInit ==
  /\ running \in Components
  /\ Init
  /\ MirrorInit
  /\ selAccounts # Missing
  /\ running # "mirror" => selAuth # Missing
  /\ FetchInit
  /\ running # "fetch" => failoverMode = "balanced"
  /\ RefreshInit
  /\ SignInit
  /\ running # "signin" => port = [f \in Families |-> Free]
  /\ UsageInit

BenchNext ==
  /\ UNCHANGED running
  /\ IF running = "request" THEN Next ELSE UNCHANGED vars
  /\ IF running = "mirror" THEN MirrorNext ELSE UNCHANGED mirrorVars
  /\ IF running = "fetch" THEN FetchNext ELSE UNCHANGED fetchVars
  /\ IF running \in {"refresh", "refreshTwice"} THEN RefreshNext ELSE UNCHANGED refreshVars
  /\ IF running = "signin" THEN SignNext ELSE UNCHANGED signVars
  /\ IF running = "usage" THEN UsageNext ELSE UNCHANGED usageVars

BenchSpec ==
  /\ BenchInit /\ [][BenchNext]_benchVars
  /\ \A r \in Requests : WF_vars(running = "request" /\ Work(r))
  /\ WF_mirrorVars(running = "mirror" /\ PassStep)
  /\ \A s \in Switches : WF_mirrorVars(running = "mirror" /\ WriteStep(s))
  /\ \A f \in Fetches : WF_fetchVars(running = "fetch" /\ FetchStep(f))
  /\ \A f \in {fa, fb} : WF_refreshVars(RefreshStep(f))
  /\ \A l \in Logins : WF_signVars(running = "signin" /\ OwnStep(l))
  /\ \A c \in Calls : WF_usageVars(running = "usage" /\ CallStep(c))
  /\ WF_usageVars(running = "usage" /\ LockGoesStale)

\* EveryRequestAnswered, where the proxy's request loop is what runs.
BenchRequestAnswered == running = "request" => EveryRequestAnswered

\* MirrorConverges, where the mirror is what runs.
BenchMirrorConverges == running = "mirror" => MirrorConverges

\* EveryFetchEnds, where the plugin's fetch is what runs.
BenchFetchEnds == running = "fetch" => EveryFetchEnds

\* EveryRefreshResolves, where refreshes are what runs.
BenchRefreshResolves == running \in {"refresh", "refreshTwice"} => RQ(MCApart)!EveryRefreshResolves

\* SignInWaitsEnd, where sign-ins are what runs.
BenchSignInWaitsEnd == running = "signin" => SignInWaitsEnd

\* EveryCallRecorded, where the budgets are what runs.
BenchCallRecorded == running = "usage" => EveryCallRecorded

\* Whatever was started comes to its end: requests and fetches are answered, refreshes
\* resolve, passes converge, sign-ins stop waiting and rows get written.
EverythingEnds ==
  /\ BenchRequestAnswered
  /\ BenchMirrorConverges
  /\ BenchFetchEnds
  /\ BenchRefreshResolves
  /\ BenchSignInWaitsEnd
  /\ BenchCallRecorded
=============================================================================

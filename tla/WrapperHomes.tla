---------------------------- MODULE WrapperHomes ----------------------------
(***************************************************************************)
(* Shadow homes of forwarded codex sessions (scripts/codex.js).  A wrapper *)
(* copies the user's Codex home into a private directory, runs the real    *)
(* CLI against it and, at the end, writes the auth files back under a      *)
(* directory lock, unless the original was changed by someone else.  The   *)
(* next launch sweeps homes whose processes are gone.  Wrappers may be     *)
(* killed at any step.  A launch may nest two homes: a compatibility home,  *)
(* and under it the rotation home the child runs in.  A file is the version *)
(* of its content; every version remembers the versions it was made from.   *)
(***************************************************************************)
EXTENDS Integers, Sequences, FiniteSets, SequencesExt

CONSTANTS
  Wrappers,      \* wrapper processes
  Nested,        \* those whose launch also rewrites the configuration: two homes
  MaxVersions,   \* bound on versions of the auth file
  NoLock

VARIABLES
  original,      \* version in the user's home
  versions,      \* versions written so far
  ancestors,     \* version |-> the versions it descends from, itself included
  lastEdit,      \* version last written from outside any shadow home
  syncState,     \* the remembered sync: base and synced version
  syncLock,      \* the lock directory: its owner, if it is written, and whether it is old
  wrapper,       \* the wrappers
  raced          \* history: the original changed between a check and its rename

homeVars == <<original, versions, ancestors, lastEdit, syncState, syncLock, wrapper, raced>>
homeFiles == <<original, versions, ancestors, lastEdit, syncState>>

Unsynced == [base |-> 0, synced |-> 0]

\* home is the child's CODEX_HOME, compat the compatibility home around it,
\* marker the owner file of home, swept the homes a sweep took under a child.
NewWrapper == [step |-> "new", alive |-> TRUE, home |-> FALSE, compat |-> FALSE, child |-> FALSE, marker |-> "none",
               base |-> 0, shadow |-> 0, known |-> Unsynced, expected |-> 0, swept |-> {}]

ShadowInit ==
  /\ original = 1 /\ versions = 1 /\ ancestors = [v \in 1..1 |-> {1}] /\ lastEdit = 1
  /\ syncState = [base |-> 0, synced |-> 0] /\ syncLock = NoLock /\ raced = FALSE
  /\ wrapper = [w \in Wrappers |-> NewWrapper]

At(w, s) == wrapper[w].alive /\ wrapper[w].step = s
Moves(w, r) == wrapper' = [wrapper EXCEPT ![w] = r]
StepTo(w, s) == Moves(w, [wrapper[w] EXCEPT !.step = s])
Wrote(parents) == versions' = versions + 1 /\ ancestors' = [v \in 1..(versions + 1) |->
                    IF v <= versions THEN ancestors[v] ELSE parents \cup {v}]

-----------------------------------------------------------------------------
(* Launch and run. *)

\* The directory, then its owner marker; with both a rewritten configuration and
\* rotation, createRuntimeRotationShadowHome works under the compatibility home.
MakeHome(w) ==
  /\ At(w, "new")
  /\ Moves(w, [wrapper[w] EXCEPT !.step = "made", !.home = TRUE, !.compat = (w \in Nested)])
  /\ UNCHANGED <<homeFiles, syncLock, raced>>

\* The marker, then createShadowHomeMirror: snapshot and copy of the auth files.
MirrorHome(w) ==
  /\ At(w, "made")
  /\ Moves(w, [wrapper[w] EXCEPT !.step = "mirrored", !.marker = "wrapper", !.base = original, !.shadow = original])
  /\ UNCHANGED <<homeFiles, syncLock, raced>>

SpawnChild(w) ==
  /\ At(w, "mirrored") /\ Moves(w, [wrapper[w] EXCEPT !.step = "spawned", !.child = TRUE])
  /\ UNCHANGED <<homeFiles, syncLock, raced>>

\* Best effort, and only in the marker of the child's own CODEX_HOME.
RecordChild(w) ==
  /\ At(w, "spawned")
  /\ \E mark \in {"wrapper", "child"} : Moves(w, [wrapper[w] EXCEPT !.step = "running", !.marker = mark])
  /\ UNCHANGED <<homeFiles, syncLock, raced>>

\* The child refreshes its credential in the shadow home, if the path to it is whole.
ChildWrites(w) ==
  /\ wrapper[w].child /\ wrapper[w].home /\ wrapper[w].swept = {} /\ versions < MaxVersions /\ Wrote(ancestors[wrapper[w].shadow])
  /\ Moves(w, [wrapper[w] EXCEPT !.shadow = versions + 1])
  /\ UNCHANGED <<original, lastEdit, syncState, syncLock, raced>>

ChildExits(w) ==
  /\ wrapper[w].child
  /\ Moves(w, [wrapper[w] EXCEPT !.child = FALSE,
                !.step = IF @ # "running" THEN @ ELSE IF wrapper[w].compat THEN "inner" ELSE "acquire"])
  /\ UNCHANGED <<homeFiles, syncLock, raced>>

\* The rotation home is synced back to the compatibility home, which no one else
\* writes, or is not, and goes first.
CloseInner(w) ==
  /\ At(w, "inner")
  /\ \E kept \in {wrapper[w].shadow, wrapper[w].base} :
       Moves(w, [wrapper[w] EXCEPT !.step = "acquire", !.home = FALSE, !.shadow = kept])
  /\ UNCHANGED <<homeFiles, syncLock, raced>>

\* What the wrapper remembered goes with it.
WrapperKilled(w) ==
  /\ wrapper[w].alive /\ wrapper[w].step \notin {"new", "done"}
  /\ Moves(w, [wrapper[w] EXCEPT !.alive = FALSE, !.step = "killed", !.base = 0, !.known = Unsynced, !.expected = 0])
  /\ UNCHANGED <<homeFiles, syncLock, raced>>

\* A login, or another program, writes the user's home.
OutsideEdit ==
  /\ versions < MaxVersions /\ Wrote({}) /\ original' = versions + 1 /\ lastEdit' = versions + 1
  /\ UNCHANGED <<syncState, syncLock, wrapper, raced>>

-----------------------------------------------------------------------------
(* acquireShadowHomeSyncLock *)

TakeLock(w) ==
  /\ At(w, "acquire") /\ syncLock = NoLock /\ syncLock' = [owner |-> NoLock, old |-> FALSE] /\ StepTo(w, "taken")
  /\ UNCHANGED <<homeFiles, raced>>

SignLock(w) ==
  /\ At(w, "taken") /\ StepTo(w, "read")
  /\ syncLock' = IF syncLock = NoLock THEN NoLock ELSE [syncLock EXCEPT !.owner = w]
  /\ UNCHANGED <<homeFiles, raced>>

LockAges ==
  /\ syncLock # NoLock /\ ~syncLock.old /\ syncLock' = [syncLock EXCEPT !.old = TRUE]
  /\ UNCHANGED <<homeFiles, wrapper, raced>>

\* removeStaleShadowHomeSyncLock: the owner is looked up, then the directory
\* is removed, whoever made it meanwhile.
FindStale(w) ==
  /\ At(w, "acquire") /\ syncLock # NoLock
  /\ IF syncLock.owner = NoLock THEN syncLock.old ELSE ~wrapper[syncLock.owner].alive
  /\ StepTo(w, "steal") /\ UNCHANGED <<homeFiles, syncLock, raced>>

StealLock(w) ==
  /\ At(w, "steal") /\ syncLock' = NoLock /\ StepTo(w, "acquire") /\ UNCHANGED <<homeFiles, raced>>

\* The wait for a live owner ends without a sync.
LockTimesOut(w) ==
  /\ At(w, "acquire") /\ syncLock # NoLock /\ StepTo(w, "remove") /\ UNCHANGED <<homeFiles, syncLock, raced>>

-----------------------------------------------------------------------------
(* syncShadowHomeAuthBundle, for one file *)

ReadSyncState(w) ==
  /\ At(w, "read") /\ Moves(w, [wrapper[w] EXCEPT !.step = "compare", !.known = syncState])
  /\ UNCHANGED <<homeFiles, syncLock, raced>>

\* Mutant of CanRebase: any original may be overwritten once a sync from the same snapshot was remembered.
CanRebaseLoose(known, base, current) == known.base = base

\* canRebaseShadowHomeSyncState: the original still is what an earlier session
\* with the same snapshot wrote.
CanRebase(known, base, current) == known.base = base /\ known.synced = current

CompareFiles(w) ==
  LET r == wrapper[w] IN
  /\ At(w, "compare")
  /\ IF (original = r.base \/ CanRebase(r.known, r.base, original)) /\ r.shadow # original
     THEN Moves(w, [r EXCEPT !.step = "check", !.expected = original]) ELSE StepTo(w, "release")
  /\ UNCHANGED <<homeFiles, syncLock, raced>>

\* renameFileWithRetry compares once more, then renames.
CheckAgain(w) ==
  /\ At(w, "check") /\ StepTo(w, IF original = wrapper[w].expected THEN "rename" ELSE "release")
  /\ UNCHANGED <<homeFiles, syncLock, raced>>

RenameBack(w) ==
  /\ At(w, "rename") /\ original' = wrapper[w].shadow /\ StepTo(w, "remember")
  /\ raced' = (raced \/ original # wrapper[w].expected)
  /\ UNCHANGED <<versions, ancestors, lastEdit, syncState, syncLock>>

\* Best effort.
RememberSync(w) ==
  /\ At(w, "remember") /\ StepTo(w, "release")
  /\ syncState' \in {syncState, [base |-> wrapper[w].base, synced |-> wrapper[w].shadow]}
  /\ UNCHANGED <<original, versions, ancestors, lastEdit, syncLock, raced>>

ReleaseLock(w) ==
  /\ At(w, "release") /\ syncLock' = NoLock /\ StepTo(w, "remove") /\ UNCHANGED <<homeFiles, raced>>

RemoveHome(w) ==
  /\ At(w, "remove") /\ Moves(w, [NewWrapper EXCEPT !.step = "done"])
  /\ UNCHANGED <<homeFiles, syncLock, raced>>

-----------------------------------------------------------------------------
(* sweepStaleShadowHomes *)

\* Mutant of HomeStale: the forwarded child is not looked at.
HomeStaleWrapperOnly(w) == wrapper[w].marker # "none" /\ ~wrapper[w].alive

\* isShadowHomeStale: no recorded process is alive; a home without a marker is
\* only swept when it is old, which a home being made is not.
HomeStale(w) ==
  /\ ~wrapper[w].alive
  /\ wrapper[w].marker = "child" => ~wrapper[w].child

SweepHome(w) ==
  /\ wrapper[w].home /\ HomeStale(w)
  /\ Moves(w, [wrapper[w] EXCEPT !.home = FALSE, !.swept = @ \cup IF wrapper[w].child THEN {"own"} ELSE {}])
  /\ UNCHANGED <<homeFiles, syncLock, raced>>

\* The second root: the compatibility home's marker never names a child.  The
\* rotation home goes with it where its directory was copied, not linked.
SweepCompat(w) ==
  /\ wrapper[w].compat /\ ~wrapper[w].alive
  /\ \E left \in {wrapper[w].home, FALSE} :
       Moves(w, [wrapper[w] EXCEPT !.compat = FALSE, !.home = left,
                 !.swept = @ \cup IF wrapper[w].child THEN {"compat"} ELSE {}])
  /\ UNCHANGED <<homeFiles, syncLock, raced>>

WrapperStep(w) ==
  \/ MakeHome(w) \/ MirrorHome(w) \/ SpawnChild(w) \/ RecordChild(w) \/ ChildWrites(w) \/ ChildExits(w) \/ WrapperKilled(w)
  \/ TakeLock(w) \/ SignLock(w) \/ FindStale(w) \/ StealLock(w) \/ LockTimesOut(w) \/ ReadSyncState(w) \/ CompareFiles(w)
  \/ CheckAgain(w) \/ RenameBack(w) \/ RememberSync(w) \/ ReleaseLock(w) \/ RemoveHome(w) \/ SweepHome(w)
  \/ CloseInner(w) \/ SweepCompat(w)
ShadowNext == OutsideEdit \/ LockAges \/ \E w \in Wrappers : WrapperStep(w)
ShadowSpec == ShadowInit /\ [][ShadowNext]_homeVars

-----------------------------------------------------------------------------
(* Properties. *)

\* The last login made outside the shadow homes is never undone by a session
\* that started before it, even when two wrappers recover the same stale lock
\* and sync back together; only an edit between the last comparison and the
\* rename can be lost.
EditNotLost == ~raced => lastEdit \in ancestors[original]

\* A sweep never takes the home a running child was started in, once the child
\* is recorded and although its wrapper was killed; only the compatibility home
\* around it, which does not name the child, is taken from under it.
LiveHomeKept == \A w \in Wrappers :
  /\ wrapper[w].marker = "child" => wrapper[w].swept \subseteq {"compat"}
  /\ wrapper[w].alive => wrapper[w].swept = {}

-----------------------------------------------------------------------------
(***************************************************************************)
(* The detached helper that carries the rotation proxy for the app or a    *)
(* terminal session (scripts/codex.js): it is launched by an owner, may be *)
(* handed off or stopped by it, and otherwise ends itself from a timer,    *)
(* which knows its owner only by a process id that may be recycled and a   *)
(* start time that an asynchronous probe reads.  Time is counted in ticks  *)
(* of that timer.                                                          *)
(***************************************************************************)

CONSTANTS
  IdleTimeout,    \* idleTimeoutMs
  DetachedIdle,   \* detachedIdleMs, 0 when disabled
  MaxLifetime,    \* maxLifetimeMs, 0 when disabled
  Recheck,        \* owner identity recheck interval
  ProbeTimeout,   \* limit of the identity probe
  LaunchTime,     \* bound on the time the start-up takes
  MaxServed,      \* bound on requests
  MaxClock        \* bound on time

ASSUME HelperAssumption ==
  /\ {IdleTimeout, Recheck, ProbeTimeout, MaxClock} \subseteq Nat \ {0} /\ {DetachedIdle, MaxLifetime, MaxServed, LaunchTime} \subseteq Nat

VARIABLES
  clock, owner,
  helper,      \* phase, and the reason it ended for
  served,      \* requests the proxy has counted
  connected,     \* a connection is open
  seen,        \* lastRequestCount
  active,      \* lastActivityAt
  goneSince,   \* ownerGoneSince, -1 for null
  identity,    \* the identity probe: known start time, verdict, last check, in flight since
  goneAt,      \* history: when the owner really died, -1 while it lives
  takenAt,     \* history: when another process took the owner's id
  lastServed,  \* history: time of the last request or open connection
  unread       \* history: a probe failed since the owner died

proxied == <<served, connected, lastServed>>
reaper == <<seen, active, goneSince, identity>>
helperVars == <<clock, owner, helper, proxied, reaper, goneAt, takenAt, unread>>

HelperInit ==
  /\ clock = 0 /\ owner = "alive" /\ helper = [phase |-> "starting", why |-> "none"]
  /\ served = 0 /\ connected = FALSE /\ seen = 0 /\ active = 0 /\ goneSince = -1
  /\ identity \in [known : BOOLEAN, same : {TRUE}, checked : {-Recheck}, probing : {-1}]
  /\ goneAt = -1 /\ takenAt = -1 /\ lastServed = 0 /\ unread = FALSE

Up == helper.phase \in {"starting", "running"}
Exits(why) == helper' = [phase |-> "closing", why |-> why]

-----------------------------------------------------------------------------
(* The launcher. *)

\* startRuntimeRotationAppHelper waits for the ready line.
HelperReady ==
  /\ helper.phase = "starting" /\ helper' = [helper EXCEPT !.phase = "running"]
  /\ UNCHANGED <<clock, owner, proxied, reaper, goneAt, takenAt, unread>>

\* A launch that times out, and a context cleanup that does not hand the helper
\* off, stop it.
LauncherStops ==
  /\ owner = "alive" /\ Up /\ Exits("stopped")
  /\ UNCHANGED <<clock, owner, proxied, reaper, goneAt, takenAt, unread>>

\* The launcher detaches and exits, or is killed; its process id is free.
OwnerDies ==
  /\ Up /\ owner = "alive" /\ owner' = "dead" /\ goneAt' = clock
  /\ UNCHANGED <<clock, helper, proxied, reaper, takenAt, unread>>

PidRecycled ==
  /\ Up /\ owner = "dead" /\ owner' = "recycled" /\ takenAt' = clock
  /\ UNCHANGED <<clock, helper, proxied, reaper, goneAt, unread>>

\* The helper is killed; its own shutdown closes the proxy, publishes the
\* terminal status and exits, or is forced to by SIGKILL.
HelperGone ==
  /\ helper.phase \in {"running", "closing"} /\ helper' = [helper EXCEPT !.phase = "gone"] /\ connected' = FALSE
  /\ UNCHANGED <<clock, owner, served, lastServed, reaper, goneAt, takenAt, unread>>

-----------------------------------------------------------------------------
(* The proxy it carries. *)

Connect ==
  /\ helper.phase = "running" /\ ~connected /\ connected' = TRUE /\ lastServed' = clock
  /\ UNCHANGED <<clock, owner, helper, served, reaper, goneAt, takenAt, unread>>
Disconnect ==
  /\ Up /\ connected /\ connected' = FALSE /\ lastServed' = clock
  /\ UNCHANGED <<clock, owner, helper, served, reaper, goneAt, takenAt, unread>>
Serve ==
  /\ helper.phase = "running" /\ connected /\ served < MaxServed /\ served' = served + 1 /\ lastServed' = clock
  /\ UNCHANGED <<clock, owner, helper, connected, reaper, goneAt, takenAt, unread>>

-----------------------------------------------------------------------------
(* createRuntimeRotationAppHelperOwnerLivenessCheck *)

\* Mutant of Verdict: any process with the owner's id is the owner.
VerdictBare(id) == IF owner = "dead" THEN "dead" ELSE "alive"

Verdict(id) ==
  IF owner = "dead" THEN "dead" ELSE IF ~id.known \/ id.same THEN "alive" ELSE "dead"

\* One probe at a time, once per recheck interval, and only while some process
\* holds the owner's id.
ProbeStarted(at) ==
  IF owner # "dead" /\ identity.known /\ identity.probing = -1 /\ at - identity.checked >= Recheck
  THEN [identity EXCEPT !.checked = at, !.probing = at] ELSE identity

\* Mutant of ProbeFails: a failed read counts as a dead owner.
ProbeFailsDead ==
  /\ Up /\ identity.probing >= 0 /\ identity' = [identity EXCEPT !.probing = -1, !.same = FALSE]
  /\ unread' = (unread \/ goneAt >= 0)
  /\ UNCHANGED <<clock, owner, helper, proxied, seen, active, goneSince, goneAt, takenAt>>

\* A failed read, or one of a process that is gone, keeps the verdict.
ProbeFails ==
  /\ Up /\ identity.probing >= 0 /\ identity' = [identity EXCEPT !.probing = -1]
  /\ unread' = (unread \/ goneAt >= 0)
  /\ UNCHANGED <<clock, owner, helper, proxied, seen, active, goneSince, goneAt, takenAt>>

ProbeReads ==
  /\ Up /\ identity.probing >= 0 /\ owner # "dead"
  /\ identity' = [identity EXCEPT !.probing = -1, !.same = (owner = "alive")]
  /\ UNCHANGED <<clock, owner, helper, proxied, seen, active, goneSince, goneAt, takenAt, unread>>

-----------------------------------------------------------------------------
(* The status timer. *)

\* Mutant of NeverServed: the gate on served requests is missing.
NeverServedAlways(requests) == ~connected

\* Nothing was ever proxied and nothing is connected.
NeverServed(requests) == requests = 0 /\ ~connected

Later(a, b) == IF a > b THEN a ELSE b

\* resolveIdleDeadline, with the owner gone.
DetachedDue(at, act, gone) == DetachedIdle > 0 /\ gone >= 0 /\ at >= Later(act, gone) + DetachedIdle

\* Time passes and the timer fires: accounting first, then the three ways to end.
StatusTick ==
  /\ Up /\ clock < MaxClock
  /\ helper.phase = "starting" => clock < LaunchTime
  /\ identity.probing >= 0 => clock - identity.probing < ProbeTimeout
  /\ clock' = clock + 1
  /\ IF helper.phase # "running" THEN UNCHANGED <<helper, reaper>>
     ELSE LET verdict == Verdict(identity) IN
          /\ seen' = served /\ identity' = ProbeStarted(clock')
          /\ active' = IF served # seen \/ verdict = "alive" THEN clock' ELSE active
          /\ goneSince' = IF verdict = "alive" THEN -1 ELSE IF goneSince < 0 THEN clock' ELSE goneSince
          /\ \/ clock' - active' >= IdleTimeout /\ Exits("idle-timeout")
             \/ /\ clock' - active' < IdleTimeout /\ DetachedDue(clock', active', goneSince') /\ NeverServed(served)
                /\ Exits("owner-gone")
             \/ /\ clock' - active' < IdleTimeout /\ ~(DetachedDue(clock', active', goneSince') /\ NeverServed(served))
                /\ IF MaxLifetime > 0 /\ clock' >= MaxLifetime THEN Exits("max-lifetime") ELSE UNCHANGED helper
  /\ UNCHANGED <<owner, proxied, goneAt, takenAt, unread>>

HelperNext ==
  \/ HelperReady \/ LauncherStops \/ OwnerDies \/ PidRecycled \/ HelperGone \/ Connect \/ Disconnect \/ Serve
  \/ ProbeFails \/ ProbeReads \/ StatusTick

HelperSpec == HelperInit /\ [][HelperNext]_helperVars

-----------------------------------------------------------------------------
(* Properties. *)

\* A helper ends as owner-gone only when its owner really is gone, for at least
\* the detached window, and no client ever used it: a failed probe, a revived
\* verdict and a hand-off to the app never end a helper in use.
ReapedOnlyStranded ==
  helper.why = "owner-gone" /\ helper.phase = "closing" =>
    /\ goneAt >= 0 /\ served = 0 /\ clock - goneAt >= DetachedIdle

\* A helper ends for idleness only after a whole idle window in which its owner
\* was gone and no request came; a live owner that never talks keeps it alive.
IdleMeansIdle ==
  helper.why = "idle-timeout" /\ helper.phase = "closing" => goneAt >= 0 /\ clock - goneAt >= IdleTimeout - 1 - LaunchTime

\* A stranded helper ends within the idle window plus one recheck after its
\* owner died, its last use, or the moment another process took the owner's
\* id, whichever came last: while the identity can be read, a recycled id
\* moves the deadline once and does not keep moving it.
StrandedBounded ==
  /\ helper.phase = "running" /\ goneAt >= 0 /\ identity.known /\ ~unread /\ ~connected =>
       clock - Later(Later(goneAt, takenAt), lastServed) <= IdleTimeout + Recheck + ProbeTimeout + 1
  /\ helper.phase = "running" /\ MaxLifetime > 0 => clock <= MaxLifetime

-----------------------------------------------------------------------------
(***************************************************************************)
(* The metadata files of app helpers (scripts/codex.js): every helper      *)
(* publishes a status file named by its process id; the launcher of the    *)
(* next helper sweeps the files of helpers that are gone.  Helpers are     *)
(* killed without cleaning up and their ids are given to new processes,    *)
(* while a sweep looks at a file, decides, and removes it.  The number of  *)
(* a write stands for the file's modification time.                        *)
(***************************************************************************)

CONSTANTS
  HelperIds,      \* process ids
  Generations,    \* processes that may hold them, a set of numbers: later ones start later
  MaxWrites,      \* bound on publications
  Nothing

VARIABLES
  holder,      \* process id |-> the process that has it
  isHelper,    \* processes that are helpers
  meta,        \* process id |-> its status file: who wrote it and when
  writes,      \* publications so far
  sweep,       \* what the sweep is looking at
  overwritten  \* history: a file changed between the last look and its removal

sweepVars == <<holder, isHelper, meta, writes, sweep, overwritten>>

Lookup == [at |-> "idle", id |-> Nothing, mtime |-> 0]

SweepInit ==
  /\ holder = [i \in HelperIds |-> Nothing] /\ isHelper = {} /\ meta = [i \in HelperIds |-> Nothing]
  /\ writes = 0 /\ sweep = Lookup /\ overwritten = FALSE


-----------------------------------------------------------------------------
(* Processes. *)

\* A process starts, later than all that started before; it may be a helper.
ProcessStarts(i, g, helps) ==
  /\ holder[i] = Nothing /\ \A j \in HelperIds : holder[j] # Nothing => holder[j] < g
  /\ \A j \in HelperIds : meta[j] # Nothing => meta[j].by < g
  /\ holder' = [holder EXCEPT ![i] = g] /\ isHelper' = IF helps THEN isHelper \cup {g} ELSE isHelper \ {g}
  /\ UNCHANGED <<meta, writes, sweep, overwritten>>

\* publishStatus, also the heartbeat.
Publish(i) ==
  /\ holder[i] # Nothing /\ holder[i] \in isHelper /\ writes < MaxWrites /\ writes' = writes + 1
  /\ meta' = [meta EXCEPT ![i] = [by |-> holder[i], mtime |-> writes + 1]]
  /\ overwritten' = (overwritten \/ (sweep.at = "remove" /\ sweep.id = i))
  /\ UNCHANGED <<holder, isHelper, sweep>>

\* Killed, or exited leaving its terminal status behind.
ProcessEnds(i) ==
  /\ holder[i] # Nothing /\ holder' = [holder EXCEPT ![i] = Nothing]
  /\ UNCHANGED <<isHelper, meta, writes, sweep, overwritten>>

-----------------------------------------------------------------------------
(* sweepStaleRuntimeRotationAppHelperMetadata, one file at a time. *)

SweepStats(i) ==
  /\ sweep.at = "idle" /\ meta[i] # Nothing
  /\ sweep' = [at |-> "alive", id |-> i, mtime |-> meta[i].mtime]
  /\ UNCHANGED <<holder, isHelper, meta, writes, overwritten>>

\* isProcessAlive
SweepAsksAlive ==
  /\ sweep.at = "alive"
  /\ sweep' = [sweep EXCEPT !.at = IF holder[sweep.id] = Nothing THEN "compare" ELSE "identify"]
  /\ UNCHANGED <<holder, isHelper, meta, writes, overwritten>>

\* isSweepCandidateDead: the recorded start against the start of the process
\* that has the id now.  The probe may fail, and starts close together are not
\* told apart.
SweepIdentifies ==
  /\ sweep.at = "identify"
  /\ \/ sweep' = Lookup
     \/ /\ meta[sweep.id] # Nothing /\ holder[sweep.id] # Nothing /\ holder[sweep.id] > meta[sweep.id].by
        /\ sweep' = [sweep EXCEPT !.at = "compare"]
  /\ UNCHANGED <<holder, isHelper, meta, writes, overwritten>>

\* Mutant of Unchanged: the file is removed as it was classified.
UnchangedAlways(i) == TRUE

\* removeIfUnchanged
Unchanged(i) == meta[i] # Nothing /\ meta[i].mtime = sweep.mtime

SweepCompares ==
  /\ sweep.at = "compare"
  /\ sweep' = IF Unchanged(sweep.id) THEN [sweep EXCEPT !.at = "remove"] ELSE Lookup
  /\ UNCHANGED <<holder, isHelper, meta, writes, overwritten>>

SweepRemoves ==
  /\ sweep.at = "remove" /\ meta' = [meta EXCEPT ![sweep.id] = Nothing] /\ sweep' = Lookup
  /\ UNCHANGED <<holder, isHelper, writes, overwritten>>

SweepNext ==
  \/ \E i \in HelperIds :
       \/ \E g \in Generations : \E helps \in BOOLEAN : ProcessStarts(i, g, helps)
       \/ Publish(i) \/ ProcessEnds(i) \/ SweepStats(i)
  \/ SweepAsksAlive \/ SweepIdentifies \/ SweepCompares \/ SweepRemoves

SweepSpec == SweepInit /\ [][SweepNext]_sweepVars

-----------------------------------------------------------------------------
(* Properties. *)

\* A sweep that is about to remove a status file never removes the one a live
\* helper published, although the helper's id was free, or another process's,
\* when the file was judged; only a publication between the last look at the
\* modification time and the removal is lost.
LiveMetadataKept ==
  sweep.at = "remove" /\ ~overwritten /\ meta[sweep.id] # Nothing => holder[sweep.id] # meta[sweep.id].by

-----------------------------------------------------------------------------
(***************************************************************************)
(* The binding of the packaged app to a persistent local router            *)
(* (lib/runtime/app-bind.ts): bind and unbind rewrite the user's           *)
(* config.toml around a backup, a state file, a router status file and the *)
(* login service's job.  Commands are serialised by a lock but may die     *)
(* between any two file operations; routers die, are restarted by launchd, *)
(* and their pids are reused.  A configuration is the version of the       *)
(* user's own settings plus the provider the bind wrote into it.           *)
(***************************************************************************)

CONSTANTS
  Pids,          \* process ids of routers
  MaxEdits,      \* bound on the user's edits of config.toml
  MaxCommands,   \* bound on bind and unbind commands
  NoFile

VARIABLES
  config,    \* config.toml: version of the user's settings, provider mode and port
  backup,    \* backup file
  record,    \* app bind state file
  status,    \* router status file: pid and port
  routers,   \* live routers: pid |-> mode and port
  reused,    \* pids that now belong to another process
  job,       \* launchd job loaded
  spawned,   \* a router was started and has not read the state file yet
  command,   \* the running command
  edits,     \* the user's latest version
  commands,  \* commands started
  excuses    \* history: why the latest settings or the mode may be wrong

bindFiles == <<config, backup, record>>
bindProcs == <<status, routers, reused, job, spawned>>
bindHistory == <<edits, commands>>
appBindVars == <<bindFiles, bindProcs, command, bindHistory, excuses>>

Ports == 1..Cardinality(Pids)
BindModes == {"custom", "native"}
Idle == [op |-> "none", step |-> "idle"]
Plain(v) == [user |-> v, mode |-> "none", port |-> 0]

AppBindInit ==
  /\ config = Plain(0) /\ backup = NoFile /\ record = NoFile /\ status = NoFile
  /\ routers = << >> /\ reused = {} /\ job = FALSE /\ spawned = FALSE
  /\ command = Idle /\ edits = 0 /\ commands = 0 /\ excuses = {}

PidAlive(p) == p \in DOMAIN routers \cup reused
RouterIsRunning == status # NoFile /\ PidAlive(status.pid)
Listening(port) == \E p \in DOMAIN routers : routers[p].port = port
Without(p) == [q \in DOMAIN routers \ {p} |-> routers[q]]
Goes(step) == command' = [command EXCEPT !.step = step]
CommandEnds(result) == command' = [op |-> result, step |-> "idle"]

-----------------------------------------------------------------------------
(* The world: the user, launchd, the processes. *)

UserEdits ==
  /\ edits < MaxEdits /\ edits' = edits + 1 /\ config' = [config EXCEPT !.user = edits + 1]
  /\ excuses' = IF command.step = "idle" THEN excuses ELSE excuses \cup {"raced"}
  /\ UNCHANGED <<backup, record, bindProcs, command, commands>>

RouterDies ==
  /\ \E p \in DOMAIN routers : routers' = Without(p) /\ reused' \in {reused, reused \cup {p}}
  /\ UNCHANGED <<bindFiles, status, job, spawned, command, bindHistory, excuses>>

\* A router reads the state file and publishes its status; launchd restarts
\* the router of a loaded job.
RouterStarts ==
  /\ spawned \/ (job /\ routers = << >>)
  /\ record # NoFile
  /\ \E p \in Pids \ (DOMAIN routers \cup reused) :
       \/ \E port \in IF record.port > 0 THEN {record.port} ELSE Ports :
            /\ ~Listening(port) /\ status' = [pid |-> p, port |-> port]
            /\ routers' = [q \in DOMAIN routers \cup {p} |->
                             IF q = p THEN [mode |-> record.mode, port |-> port] ELSE routers[q]]
       \/ Listening(record.port) /\ UNCHANGED <<routers, status>>   \* the address is taken
  /\ spawned' = FALSE /\ UNCHANGED <<bindFiles, reused, job, command, bindHistory, excuses>>

\* The command's process dies; its lock is recovered by the next command.
CommandDies ==
  /\ command.step # "idle" /\ command' = Idle
  /\ UNCHANGED <<bindFiles, bindProcs, bindHistory, excuses>>

\* State and backup files are lost while the configuration stays bound.
BindFilesLost ==
  /\ command.step = "idle" /\ record # NoFile /\ backup # NoFile /\ record' = NoFile /\ backup' = NoFile
  /\ UNCHANGED <<config, bindProcs, command, bindHistory, excuses>>

-----------------------------------------------------------------------------
(* bindCodexAppRuntimeRotationLocked *)

BindBegins ==
  /\ command.step = "idle" /\ commands < MaxCommands /\ commands' = commands + 1
  /\ \E m \in BindModes : command' = [op |-> "bind", step |-> "mode", mode |-> m]
  /\ excuses' = IF spawned THEN excuses \cup {"late router"} ELSE excuses
  /\ UNCHANGED <<bindFiles, bindProcs, edits>>

\* bootoutLaunchAgent: a failure is only a warning.
Bootout ==
  \/ job' = FALSE /\ UNCHANGED excuses
  \/ job /\ job' = TRUE /\ excuses' = excuses \cup {"job kept"}

\* stopRouter: the recorded process is verified to be the router before it is killed.
StopRouter == status # NoFile /\ status.pid \in DOMAIN routers

\* Mutant of BindStops: the router of the old mode keeps running.
BindStopsNever ==
  /\ command.step = "mode" /\ command.op = "bind" /\ Goes("read")
  /\ UNCHANGED <<bindFiles, bindProcs, bindHistory, excuses>>

\* A mode change stops the old router first and refuses to continue while
\* something may still answer at its address.
BindStops ==
  /\ command.step = "mode" /\ command.op = "bind"
  /\ IF record = NoFile \/ record.mode = command.mode
     THEN /\ Goes("read") /\ UNCHANGED <<status, routers, job>>
          /\ excuses' = IF record = NoFile /\ RouterIsRunning THEN excuses \cup {"unknown router"} ELSE excuses
     ELSE /\ Bootout
          /\ \/ StopRouter /\ routers' = Without(status.pid) /\ Goes("read") /\ UNCHANGED status
             \/ StopRouter /\ CommandEnds("failed") /\ UNCHANGED <<status, routers>>   \* survived, or not verified
             \/ ~StopRouter /\ ~RouterIsRunning /\ Goes("read") /\ UNCHANGED <<status, routers>>
             \/ ~StopRouter /\ RouterIsRunning /\ Listening(status.port) /\ CommandEnds("failed") /\ UNCHANGED <<status, routers>>
             \/ ~StopRouter /\ RouterIsRunning /\ ~Listening(status.port) /\ status' = NoFile /\ Goes("read") /\ UNCHANGED routers
  /\ UNCHANGED <<bindFiles, reused, spawned, bindHistory>>

\* The configuration is read once; a backup on disk is never replaced.
BindBacksUp ==
  /\ command.step = "read"
  /\ backup' = IF backup = NoFile THEN config ELSE backup
  /\ command' = [op |-> "bind", step |-> "record", mode |-> command.mode, read |-> config.user]
  /\ excuses' = excuses \cup (IF backup # NoFile /\ backup.user # config.user THEN {"older backup"} ELSE {})
                        \cup (IF backup = NoFile /\ config.mode # "none" THEN {"orphan"} ELSE {})
  /\ UNCHANGED <<config, record, bindProcs, bindHistory>>

Bound(port) == [user |-> command.read, mode |-> command.mode, port |-> port]

\* Bootstrap state, for the router to read; then the router is started unless
\* the recorded one runs.
BindRecords ==
  /\ command.step = "record"
  /\ LET port == IF record = NoFile THEN 0 ELSE record.port IN
     record' = [mode |-> command.mode, port |-> port, hash |-> Bound(port)]
  /\ Goes("start") /\ UNCHANGED <<config, backup, bindProcs, bindHistory, excuses>>

BindStarts ==
  /\ command.step = "start"
  /\ IF RouterIsRunning THEN Goes("port") /\ UNCHANGED <<job, spawned>>
     ELSE /\ Goes("wait") /\ spawned' = TRUE
          /\ job' \in BOOLEAN     \* bootstrapped, or spawned directly
  /\ UNCHANGED <<bindFiles, status, routers, reused, bindHistory, excuses>>

\* waitForRouterStatus; on a time-out the job is unloaded and the bind fails.
BindWaits ==
  /\ command.step = "wait"
  /\ \/ RouterIsRunning /\ Goes("port") /\ UNCHANGED job
     \/ CommandEnds("failed") /\ job' = FALSE
  /\ UNCHANGED <<bindFiles, status, routers, reused, spawned, bindHistory, excuses>>

BindWritesConfig ==
  /\ command.step = "port"
  /\ IF RouterIsRunning THEN config' = Bound(status.port) /\ Goes("rerecord")
     ELSE IF record.port > 0 THEN config' = Bound(record.port) /\ Goes("rerecord")
     ELSE UNCHANGED config /\ CommandEnds("failed")      \* no port
  /\ UNCHANGED <<backup, record, bindProcs, bindHistory, excuses>>

BindRerecords ==
  /\ command.step = "rerecord"
  /\ record' = [record EXCEPT !.port = config.port, !.hash = Bound(config.port)] /\ CommandEnds("bound")
  /\ UNCHANGED <<config, backup, bindProcs, bindHistory, excuses>>

-----------------------------------------------------------------------------
(* unbindCodexAppRuntimeRotationLocked *)

\* The job is unloaded before the router is stopped; neither failure stops the clean-up.
UnbindStops ==
  /\ command.step = "idle" /\ commands < MaxCommands /\ commands' = commands + 1 /\ Bootout
  /\ \/ StopRouter /\ routers' = Without(status.pid)
     \/ UNCHANGED routers
  /\ command' = [op |-> "unbind", step |-> "restore"]
  /\ UNCHANGED <<bindFiles, status, reused, spawned, edits>>

\* Mutant of Restored: the backup is always copied over the configuration.
RestoredFromBackup == IF backup # NoFile THEN backup ELSE Plain(config.user)

\* An untouched configuration is replaced by the backup; an edited one, or one
\* without a backup, only loses the provider.
Restored == IF backup # NoFile /\ (record = NoFile \/ record.hash = config) THEN backup ELSE Plain(config.user)

UnbindRestores ==
  /\ command.step = "restore" /\ config' = Restored /\ Goes("clean state")
  /\ excuses' = IF record = NoFile /\ backup # NoFile /\ backup.user # config.user
                THEN excuses \cup {"older backup"} ELSE excuses
  /\ UNCHANGED <<backup, record, bindProcs, bindHistory>>

UnbindRemovesState ==
  /\ command.step = "clean state" /\ record' = NoFile /\ Goes("clean backup")
  /\ UNCHANGED <<config, backup, bindProcs, bindHistory, excuses>>

UnbindRemovesBackup ==
  /\ command.step = "clean backup" /\ backup' = NoFile /\ status' = NoFile /\ CommandEnds("unbound")
  /\ UNCHANGED <<config, record, routers, reused, job, spawned, bindHistory, excuses>>

AppBindNext ==
  \/ UserEdits \/ RouterDies \/ RouterStarts \/ CommandDies \/ BindFilesLost
  \/ BindBegins \/ BindStops \/ BindBacksUp \/ BindRecords \/ BindStarts \/ BindWaits \/ BindWritesConfig \/ BindRerecords
  \/ UnbindStops \/ UnbindRestores \/ UnbindRemovesState \/ UnbindRemovesBackup

AppBindSpec == AppBindInit /\ [][AppBindNext]_appBindVars

-----------------------------------------------------------------------------
(* Properties. *)

\* A completed unbind leaves the user's latest settings and no trace of the
\* bind, whatever edits and crashes of earlier commands came before; except
\* for an edit made under a running command, a backup older than the settings
\* that a bind kept or an unbind found without its state file, and a backup
\* taken of a bound configuration.
UnbindRestoresUser ==
  command.op = "unbound" /\ excuses \subseteq {"job kept", "late router", "unknown router"} => config = Plain(edits)

\* After a completed bind every router at the configured port serves the
\* configured mode: no router of the mode before is reused, unless launchd
\* kept its job, the bind met a running router without a state file, or a router of an earlier, failed bind is only starting now.
ModeAgrees ==
  command.op = "bound" /\ excuses \cap {"job kept", "late router", "unknown router"} = {} =>
    \A p \in DOMAIN routers : routers[p].port = config.port => routers[p].mode = config.mode

-----------------------------------------------------------------------------
(***************************************************************************)
(* scripts/codex.js, the part that runs the official CLI: preflight of a   *)
(* forced account, the homes, proxy or helper one attempt needs, the child *)
(* with the signals relayed to it, the clean-up, and the retry with        *)
(* another model when the child was refused its model.                     *)
(***************************************************************************)
CONSTANTS MaxSignals

VARIABLES launch,    \* what the user asked for and the installation offers
          step,      \* where the wrapper is
          via,       \* how the child reaches the backend
          held,      \* what the attempt must release
          child, relayed,   \* the child, and the first signal relayed to it
          signals,
          exitCode, refused,  \* of the attempt: its code, and whether its model was refused
          tried,     \* the models of the attempts so far
          cut,       \* a signal ended the wrapper in its clean-up
          degraded   \* the attempt goes on without rotation, with a warning

forwardVars == <<launch, step, via, held, child, relayed, signals, exitCode, refused, tried, cut, degraded>>

\* WRAPPER_UNSUPPORTED_MODEL_FALLBACK_CHAIN, along its longest staircase.
FallbackOf(m) ==
  CASE m = "gpt-6.1-sol" -> "gpt-6-sol"   [] m = "gpt-6-sol" -> "gpt-5.6-sol"
    [] m = "gpt-5.6-sol" -> "gpt-6-luna"  [] m = "gpt-6-luna" -> "gpt-5.6-luna"
    [] m = "gpt-5.6-luna" -> "gpt-5.6-sol"
MaxForwardsLess == 4
MaxForwards == 5

CodeOf(signal) == IF signal = "SIGINT" THEN 130 ELSE 143

PlainLaunch == [upstream |-> "none", routed |-> TRUE, enabled |-> TRUE, kind |-> "exec", forced |-> "none",
          native |-> FALSE, modules |-> TRUE, compat |-> TRUE, capture |-> TRUE, model |-> "gpt-6.1-sol"]
Launches ==
  {[PlainLaunch EXCEPT !.upstream = u, !.enabled = e, !.modules = m] :
      u \in {"none", "set", "invalid"}, e \in BOOLEAN, m \in BOOLEAN}
  \cup {[PlainLaunch EXCEPT !.upstream = "set", !.routed = FALSE, !.enabled = FALSE]}
  \cup {[PlainLaunch EXCEPT !.kind = k, !.capture = FALSE] : k \in {"app-server", "app", "tui"}}
  \cup {[PlainLaunch EXCEPT !.forced = f, !.enabled = e, !.native = n] :
          f \in {"known", "unknown"}, e \in BOOLEAN, n \in BOOLEAN}
  \cup {[PlainLaunch EXCEPT !.native = TRUE, !.compat = FALSE], [PlainLaunch EXCEPT !.model = "gpt-5.6-sol"]}

ForwardInit ==
  /\ launch \in Launches
  /\ step = "preflight" /\ via = "none" /\ held = {} /\ child = "none" /\ relayed = "none"
  /\ signals = 0 /\ exitCode = 0 /\ refused = FALSE /\ tried = <<>> /\ cut = FALSE /\ degraded = FALSE

-----------------------------------------------------------------------------
(* main: forced accounts. *)

\* applyForcedAccountSelection: what cannot be honoured is refused before the launch.
ForcedRefusedUnknownOnly == launch.forced = "unknown"
ForcedRefused ==
  /\ launch.forced # "none"
  /\ launch.native \/ ~launch.enabled \/ launch.forced = "unknown"
Preflight ==
  /\ step = "preflight"
  /\ CASE ForcedRefused -> step' = "ended" /\ exitCode' = 1 /\ UNCHANGED via
       [] ~ForcedRefused /\ launch.native -> step' = "spawn" /\ via' = "native" /\ UNCHANGED exitCode
       [] OTHER -> step' = "home" /\ UNCHANGED <<via, exitCode>>
  /\ UNCHANGED <<launch, held, child, relayed, signals, refused, tried, cut, degraded>>

-----------------------------------------------------------------------------
(* forwardToRealCodex: one attempt. *)

\* createCompatibilityCodexHome, when the model needs another reasoning effort.
createCompatibilityCodexHome ==
  /\ step = "home"
  /\ tried' = Append(tried, IF tried = <<>> THEN launch.model ELSE FallbackOf(Last(tried)))
  /\ held' = IF launch.compat THEN {"compat"} ELSE {}
  /\ step' = "route" /\ via' = "none" /\ child' = "none" /\ relayed' = "none" /\ refused' = FALSE
  /\ UNCHANGED <<launch, signals, exitCode, cut, degraded>>

\* An upstream that the user configured must carry whatever reaches the backend.
MustProxyNever == FALSE
MustProxy == launch.upstream = "set" /\ launch.routed

\* The attempt cannot start: the home goes and the wrapper ends with 1.
StartupFails ==
  /\ step' = "ended" /\ exitCode' = 1 /\ held' = {}
  /\ UNCHANGED <<launch, via, child, relayed, signals, refused, tried, cut, degraded>>
GoesDirect(warned) ==
  /\ step' = "spawn" /\ via' = "direct" /\ degraded' = warned
  /\ UNCHANGED <<launch, held, child, relayed, signals, exitCode, refused, tried, cut>>

UpstreamInvalid ==
  /\ step = "route" /\ launch.upstream = "invalid"
  /\ StartupFails
\* Rotation is off, or its modules are missing.
NotRotating ==
  /\ step = "route" /\ launch.upstream # "invalid" /\ ~(launch.enabled /\ launch.modules)
  /\ IF MustProxy THEN StartupFails ELSE GoesDirect(launch.enabled)

\* The app, its server and the terminal sessions get a helper process, or nothing.
Helped == launch.kind \in {"app-server", "app", "tui"}
StartHelper ==
  /\ step = "route" /\ launch.upstream # "invalid" /\ launch.enabled /\ launch.modules /\ Helped
  /\ \/ /\ step' = "spawn" /\ via' = "helper" /\ held' = held \cup {"helper"}
        /\ UNCHANGED <<launch, child, relayed, signals, exitCode, refused, tried, cut, degraded>>
     \/ StartupFails

\* Anything else gets a proxy in this process and a shadow home.
StartProxy ==
  /\ step = "route" /\ launch.upstream # "invalid" /\ launch.enabled /\ launch.modules /\ ~Helped
  /\ \/ /\ step' = "spawn" /\ via' = "proxy" /\ held' = held \cup {"proxy", "shadow"}
        /\ UNCHANGED <<launch, child, relayed, signals, exitCode, refused, tried, cut, degraded>>
     \/ IF MustProxy THEN StartupFails ELSE GoesDirect(TRUE)

-----------------------------------------------------------------------------
(* forwardToRealCodexOnce. *)

Spawn ==
  /\ step = "spawn"
  /\ \/ child' = "alive" /\ step' = "running" /\ UNCHANGED exitCode
     \/ child' = "none" /\ step' = "cleanup" /\ exitCode' = 1
  /\ UNCHANGED <<launch, via, held, relayed, signals, refused, tried, cut, degraded>>

\* A signal is relayed; the first one decides the result.
RelaySignal(s) ==
  /\ step = "running" /\ signals < MaxSignals
  /\ signals' = signals + 1
  /\ relayed' = IF relayed = "none" THEN s ELSE relayed
  /\ UNCHANGED <<launch, step, via, held, child, exitCode, refused, tried, cut, degraded>>

\* A child that ignores the signal is killed after a second; its end is awaited.
ForceKillFinalizes == child' = child /\ step' = "cleanup" /\ exitCode' = CodeOf(relayed)
ForceKillWaits == child' = "killed" /\ UNCHANGED <<step, exitCode>>
ForceKill ==
  /\ step = "running" /\ child = "alive" /\ relayed # "none"
  /\ ForceKillWaits
  /\ UNCHANGED <<launch, via, held, relayed, signals, refused, tried, cut, degraded>>

\* The child's close event: its signal, the relayed one before it, or its code.
SignalReportedLast(signal) == signal
SignalReported(signal) == IF relayed # "none" THEN relayed ELSE signal
ExitOf(signal, code) == IF SignalReported(signal) # "none" THEN (IF SignalReported(signal) = "SIGKILL" THEN 137 ELSE CodeOf(SignalReported(signal))) ELSE code
ChildCloses == \E code \in {0, 1}, says \in BOOLEAN, own \in {"none", "SIGTERM"} :
  LET signal == IF child = "killed" THEN "SIGKILL" ELSE own IN
    /\ step = "running" /\ child \in {"alive", "killed"}
    /\ child' = "ended" /\ step' = "cleanup"
    /\ exitCode' = ExitOf(signal, code)
    /\ refused' = (says /\ launch.capture)
    /\ UNCHANGED <<launch, via, held, relayed, signals, tried, cut, degraded>>

\* A helper outlives a terminal session or a handed-over app that ended well.
DetachesOnExit(grace) == exitCode = 0 /\ (launch.kind = "tui" \/ (launch.kind = "app" /\ grace))
\* finalize: each part is released whether or not another one throws.
ReleasesFirst(grace) == held \ {"proxy"}
Releases(grace) == IF DetachesOnExit(grace) THEN held \cap {"helper"} ELSE {}
Cleanup == \E grace \in BOOLEAN :
  /\ step = "cleanup"
  /\ held' = Releases(grace)
  /\ step' = "after"
  /\ UNCHANGED <<launch, via, child, relayed, signals, exitCode, refused, tried, cut, degraded>>
\* A signal during the clean-up exits at once, with the code that was decided.
CleanupCut ==
  /\ step = "cleanup" /\ signals < MaxSignals
  /\ signals' = signals + 1 /\ cut' = TRUE
  /\ \E left \in SUBSET held : held' = left \ {"proxy"}
  /\ step' = "ended"
  /\ UNCHANGED <<launch, via, child, relayed, exitCode, refused, tried, degraded>>

\* resolveUnsupportedModelRetryTarget: a model that was not tried, in the budget.
AnyFallback == refused /\ Len(tried) < MaxForwards
HasFallback == refused /\ Len(tried) < MaxForwards /\ FallbackOf(Last(tried)) \notin ToSet(tried)
AttemptEnds ==
  /\ step = "after"
  /\ step' = IF launch.native \/ exitCode = 0 \/ ~HasFallback THEN "ended" ELSE "home"
  /\ UNCHANGED <<launch, via, held, child, relayed, signals, exitCode, refused, tried, cut, degraded>>

ForwardNext ==
  \/ Preflight \/ createCompatibilityCodexHome \/ UpstreamInvalid \/ NotRotating \/ StartHelper \/ StartProxy
  \/ Spawn \/ (\E s \in {"SIGINT", "SIGTERM"} : RelaySignal(s)) \/ ForceKill \/ ChildCloses
  \/ Cleanup \/ CleanupCut \/ AttemptEnds

ForwardSpec == ForwardInit /\ [][ForwardNext]_forwardVars

-----------------------------------------------------------------------------
\* However the wrapper ends, homes and proxy are gone, and a helper stays only for a
\* session that ended well; except when a signal cut the clean-up short.
ReleasedAtEnd ==
  step = "ended" /\ ~cut =>
    held \subseteq IF exitCode = 0 /\ launch.kind \in {"tui", "app"} THEN {"helper"} ELSE {}

\* A run that reaches the backend never bypasses the upstream the user configured.
UpstreamHonoured ==
  child # "none" /\ launch.upstream # "none" /\ launch.routed /\ ~launch.native => via \in {"proxy", "helper"}

\* A forced account is never ignored without a warning.
ForcedHonoured == child # "none" /\ launch.forced # "none" => launch.forced = "known" /\ (via # "direct" \/ degraded)

\* The homes and the proxy of a child stay for as long as it lives, even when it
\* ignores its signals.
ChildKeepsHome ==
  child \in {"alive", "killed"} =>
    /\ via = "proxy" => {"proxy", "shadow"} \subseteq held
    /\ launch.compat /\ ~launch.native => "compat" \in held

\* The caller sees the first signal it sent, not the kill that followed.
FirstSignalReported == step \in {"cleanup", "after"} /\ relayed # "none" => exitCode = CodeOf(relayed)

\* No model is tried twice, although the chain of replacements has a cycle.
NoModelTwice == IsInjective(tried)

\* The wrapper gives up on a refused model only when every replacement was tried.
StaircaseExhausted ==
  step = "ended" /\ ~cut /\ refused /\ exitCode # 0 /\ tried # <<>> => FallbackOf(Last(tried)) \in ToSet(tried)
=============================================================================

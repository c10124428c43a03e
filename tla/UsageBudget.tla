---------------------------- MODULE UsageBudget ----------------------------
(***************************************************************************)
(* Budgets: a request is admitted by a limit, read through a cache of the  *)
(* limits file, and by the rows of the usage ledger; when it is over it    *)
(* appends its own row, for a stream only once upstream has reported the   *)
(* token counts or a time-out has passed.  The ledger is appended to under *)
(* a lock file that goes stale, is rotated into archives, and is read      *)
(* without that lock, file by file.                                        *)
(***************************************************************************)
EXTENDS Integers, FiniteSets

CONSTANTS Calls,
          LimitOf,      \* the request limit of each version of the limits file, 0 for none
          NoHolder, NoLimits,
          MaxLoads,     \* STORE_LOAD_MAX_ATTEMPTS
          MaxLedgerFaults

ASSUME UsageAssumption == 0 \in DOMAIN LimitOf /\ LimitOf[0] = 0

VARIABLES limits,     \* the version of budget-guards.json
          print,      \* its fingerprint: the first version written with it
          cache,      \* what the runtime holds of it: version and fingerprint
          ledger,     \* rows of the current file, row sets of the archives
          tail,       \* "clean", or "torn": the file ends in half a row
          ledgerLock, \* who holds the lock file
          calls,      \* the requests
          ledgerFaults

usageVars == <<limits, print, cache, ledger, tail, ledgerLock, calls, ledgerFaults>>

NewCall == [pc |-> "new", loads |-> 0, before |-> 0, limit |-> 0, sinceLimit |-> 0,
            seen |-> {}, follows |-> FALSE, due |-> {}, blind |-> FALSE, missed |-> {},
            usage |-> "none", row |-> "none", tokens |-> FALSE, gaveUp |-> FALSE, spliced |-> FALSE]

UsageInit ==
  /\ limits = 0
  /\ print = 0
  /\ cache = NoLimits
  /\ ledger = [current |-> {}, archived |-> {}]
  /\ tail = "clean"
  /\ ledgerLock = NoHolder
  /\ calls = [c \in Calls |-> NewCall]
  /\ ledgerFaults = 0

Versions == DOMAIN LimitOf
\* Rows whose append has returned and that a reader can parse.
Parsed(rows) == {d \in rows : ~calls[d].spliced}
Appended == Parsed({c \in Calls : calls[c].row = "written"})
CurrentExists == ledger.current # {} \/ tail = "torn"

-----------------------------------------------------------------------------
(***************************************************************************)
(* Admission.                                                              *)
(***************************************************************************)

\* `budget limit` rewrites the file under the store's lock.  A write of the same
\* size within one tick of the file's times leaves its fingerprint as it was.
LimitSet == \E ticked \in BOOLEAN :
  /\ limits + 1 \in Versions
  /\ limits' = limits + 1
  /\ print' = IF ticked THEN limits + 1 ELSE print
  /\ UNCHANGED <<cache, ledger, tail, ledgerLock, calls, ledgerFaults>>

\* A cache entry whose fingerprint is the file's is used as it is, once the file's
\* time has settled and until the entry has lived its time.
CallBegins(c) == \E trusted \in BOOLEAN :
  LET hit == trusted /\ cache # NoLimits /\ cache.print = print
  IN /\ calls[c].pc = "new"
     /\ calls' = [calls EXCEPT ![c] = [@ EXCEPT !.pc = IF hit THEN "count" ELSE "load",
                                                !.limit = IF hit THEN cache.version ELSE calls[c].limit,
                                                !.before = print,
                                                !.sinceLimit = IF hit THEN print ELSE limits]]
     /\ UNCHANGED <<limits, print, cache, ledger, tail, ledgerLock, ledgerFaults>>

\* The load between two fingerprints.  A file that cannot be read has no limits.
LimitLoads(c) == \E readable \in BOOLEAN :
  /\ calls[c].pc = "load"
  /\ ~readable => ledgerFaults < MaxLedgerFaults
  /\ ledgerFaults' = IF readable THEN ledgerFaults ELSE ledgerFaults + 1
  /\ calls' = [calls EXCEPT ![c].pc = "loaded", ![c].limit = IF readable THEN limits ELSE 0,
                            ![c].sinceLimit = IF readable THEN @ ELSE 0]
  /\ UNCHANGED <<limits, print, cache, ledger, tail, ledgerLock>>
StableAlways(c) == TRUE
Stable(c) == calls[c].before = print
LoadChecks(c) ==
  LET v == calls[c]
  IN /\ v.pc = "loaded"
     /\ IF ~Stable(c) /\ v.loads + 1 < MaxLoads
        THEN /\ calls' = [calls EXCEPT ![c].pc = "load", ![c].loads = @ + 1, ![c].before = print]
             /\ UNCHANGED cache
        ELSE /\ calls' = [calls EXCEPT ![c].pc = "count"]
             /\ cache' = IF Stable(c) /\ LimitOf[v.limit] # 0
                         THEN [version |-> v.limit, print |-> print] ELSE cache
     /\ UNCHANGED <<limits, print, ledger, tail, ledgerLock, ledgerFaults>>

\* Without a readable policy the request is refused; either way it leaves a row.
PolicyFails(c) ==
  /\ calls[c].pc \in {"load", "count"}
  /\ calls' = [calls EXCEPT ![c] = [NewCall EXCEPT !.pc = "over", !.row = "queued", !.gaveUp = TRUE]]
  /\ UNCHANGED <<limits, print, cache, ledger, tail, ledgerLock, ledgerFaults>>

\* The ledger is listed, and its archives read: they never change, but one that
\* cannot be read is passed over.
ArchivesNone == {}
Archives == ledger.archived
ListsLedger(c) == \E read \in SUBSET Archives :
  /\ calls[c].pc = "count"
  /\ read # Archives => ledgerFaults < MaxLedgerFaults
  /\ ledgerFaults' = IF read = Archives THEN ledgerFaults ELSE ledgerFaults + 1
  /\ calls' = [calls EXCEPT ![c] = [@ EXCEPT !.pc = "current", !.seen = UNION read,
                                             !.follows = CurrentExists, !.due = Appended,
                                             !.blind = read # Archives, !.sinceLimit = 0, !.loads = 0, !.before = 0]]
  /\ UNCHANGED <<limits, print, cache, ledger, tail, ledgerLock>>

\* The current file is read last, if it was listed: by then it may have been renamed
\* away.  The rows of the window stand against the limit.
Allowed(c, rows) == LimitOf[calls[c].limit] = 0 \/ Cardinality(rows) < LimitOf[calls[c].limit]
CountsRows(c) == \E readable \in BOOLEAN :
  LET v == calls[c]
      rows == Parsed(v.seen \cup (IF v.follows /\ readable THEN ledger.current ELSE {}))
  IN /\ v.pc = "current"
     /\ ~readable => v.follows /\ ledgerFaults < MaxLedgerFaults
     /\ ledgerFaults' = IF readable THEN ledgerFaults ELSE ledgerFaults + 1
     /\ calls' = [calls EXCEPT ![c] =
          [@ EXCEPT !.pc = IF Allowed(c, rows) THEN "serving" ELSE "over",
                    !.row = IF Allowed(c, rows) THEN "none" ELSE "queued",
                    !.gaveUp = ~Allowed(c, rows),
                    !.missed = IF v.blind \/ ~readable THEN {} ELSE v.due \ rows,
                    !.limit = 0, !.seen = {}, !.follows = FALSE, !.due = {}, !.blind = FALSE]]
     /\ UNCHANGED <<limits, print, cache, ledger, tail, ledgerLock>>

-----------------------------------------------------------------------------
(***************************************************************************)
(* The end of a request, and what upstream reports of it.                  *)
(***************************************************************************)

\* Upstream's counts may come before the response is handed over or after it; once
\* the row has been given up on they change nothing.
UsageArrives(c) ==
  /\ calls[c].pc \in {"serving", "over"} /\ calls[c].usage = "none" /\ ~calls[c].gaveUp
  /\ calls' = [calls EXCEPT ![c].usage = "intime",
                            ![c].row = IF @ = "deferred" THEN "queued" ELSE @,
                            ![c].tokens = @ \/ calls[c].row = "deferred"]
  /\ UNCHANGED <<limits, print, cache, ledger, tail, ledgerLock, ledgerFaults>>

\* A completed stream defers its row until the counts are there; a response that
\* has them writes it with them.
DefersNever(c) == FALSE
Defers(c) == calls[c].usage = "none"
CallCompletes(c) ==
  /\ calls[c].pc = "serving"
  /\ calls' = [calls EXCEPT ![c].pc = "over", ![c].row = IF Defers(c) THEN "deferred" ELSE "queued",
                            ![c].tokens = calls[c].usage = "intime"]
  /\ UNCHANGED <<limits, print, cache, ledger, tail, ledgerLock, ledgerFaults>>
CallFails(c) ==
  /\ calls[c].pc = "serving"
  /\ calls' = [calls EXCEPT ![c].pc = "over", ![c].row = "queued", ![c].gaveUp = TRUE, ![c].tokens = calls[c].usage = "intime"]
  /\ UNCHANGED <<limits, print, cache, ledger, tail, ledgerLock, ledgerFaults>>
FallbackNever(c) == FALSE /\ UNCHANGED usageVars
FallbackFires(c) ==
  /\ calls[c].row = "deferred"
  /\ calls' = [calls EXCEPT ![c].row = "queued", ![c].gaveUp = TRUE]
  /\ UNCHANGED <<limits, print, cache, ledger, tail, ledgerLock, ledgerFaults>>

-----------------------------------------------------------------------------
(***************************************************************************)
(* The ledger.                                                             *)
(***************************************************************************)

\* A row is appended under the lock file.
AppendLocks(c) ==
  /\ calls[c].row = "queued" /\ ledgerLock = NoHolder
  /\ ledgerLock' = c
  /\ calls' = [calls EXCEPT ![c].row = "appending"]
  /\ UNCHANGED <<limits, print, cache, ledger, tail, ledgerFaults>>
LedgerUnlocked(c) == IF ledgerLock = c THEN NoHolder ELSE ledgerLock
Appends(c) ==
  /\ calls[c].row = "appending"
  /\ ledger' = [ledger EXCEPT !.current = @ \cup {c}]
  /\ calls' = [calls EXCEPT ![c].row = "written", ![c].spliced = tail = "torn"]
  /\ tail' = "clean"
  /\ ledgerLock' = LedgerUnlocked(c)
  /\ UNCHANGED <<limits, print, cache, ledgerFaults>>
\* A failed append, or a wait for the lock that ran out, is swallowed.
AppendFails(c) ==
  /\ calls[c].row \in {"queued", "appending"} /\ ledgerFaults < MaxLedgerFaults
  /\ calls' = [calls EXCEPT ![c].row = "lost"]
  /\ ledgerFaults' = ledgerFaults + 1
  /\ ledgerLock' = LedgerUnlocked(c)
  /\ UNCHANGED <<limits, print, cache, ledger, tail>>
\* The process dies in its append: half a row, and the lock file, stay behind.
AppendKilled(c) ==
  /\ calls[c].row = "appending" /\ ledgerFaults < MaxLedgerFaults
  /\ tail' = "torn"
  /\ calls' = [calls EXCEPT ![c].row = "lost"]
  /\ ledgerFaults' = ledgerFaults + 1
  /\ UNCHANGED <<limits, print, cache, ledger, ledgerLock>>

\* A lock older than its limit is removed, whoever holds it.
LockGoesStale ==
  /\ ledgerLock # NoHolder
  /\ ledgerLock' = NoHolder
  /\ UNCHANGED <<limits, print, cache, ledger, tail, calls, ledgerFaults>>

\* A rotation takes the current file away from the calls that have listed it.
Rotates ==
  /\ ledgerLock = NoHolder /\ CurrentExists
  /\ ledger' = [current |-> {}, archived |-> ledger.archived \cup {ledger.current}]
  /\ calls' = [c \in Calls |-> [calls[c] EXCEPT !.blind = @ \/ calls[c].follows]]
  /\ tail' = "clean"
  /\ UNCHANGED <<limits, print, cache, ledgerLock, ledgerFaults>>

CallStep(c) ==
  \/ CallBegins(c) \/ LimitLoads(c) \/ LoadChecks(c) \/ ListsLedger(c) \/ CountsRows(c)
  \/ CallCompletes(c) \/ FallbackFires(c) \/ AppendLocks(c) \/ Appends(c)
UsageNext ==
  \/ \E c \in Calls : CallStep(c) \/ PolicyFails(c) \/ UsageArrives(c) \/ CallFails(c) \/ AppendFails(c) \/ AppendKilled(c)
  \/ LimitSet \/ LockGoesStale \/ Rotates

UsageSpec == UsageInit /\ [][UsageNext]_usageVars

-----------------------------------------------------------------------------
\* Every row appended before a request listed the ledger counts against it, through
\* rotations before the listing, stolen locks and lost rows of others, except the
\* one row that was appended to what a killed process left of its own.  A request
\* that could not read a file of the ledger, or whose listed current file was
\* rotated away before it was read, may overlook rows.
RowsAreCounted == \A c \in Calls : calls[c].missed = {}

\* A request is judged by the limit in force when it began or by a newer one.  A
\* limits file that could not be read admits it without a limit, and a limit from
\* the cache may be as old as the first version with the file's fingerprint.
LimitIsCurrent == \A c \in Calls : calls[c].pc = "count" => calls[c].limit >= calls[c].sinceLimit

\* Counts that upstream reported before the row was given up on are in the row.
UsageNotDropped == \A c \in Calls : calls[c].row = "written" /\ calls[c].usage = "intime" => calls[c].tokens

\* A budget counts every row that was written, unless its files changed under the
\* reading or could not be read, against a limit the file's fingerprint stands for,
\* with the tokens that were reported in time.
BudgetKept == RowsAreCounted /\ LimitIsCurrent /\ UsageNotDropped

\* Every request that is over leaves its row in the ledger, or its append failed.
EveryCallRecorded == \A c \in Calls : calls[c].pc = "over" ~> calls[c].row \in {"written", "lost"}
=============================================================================

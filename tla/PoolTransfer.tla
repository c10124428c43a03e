---------------------------- MODULE PoolTransfer ----------------------------
(***************************************************************************)
(* Accounts that move between files: an import into the pool               *)
(* (lib/storage/import-export.ts, account-port.ts), an export and a named  *)
(* backup out of it (lib/named-backup-export.ts), the migration of the     *)
(* files older releases kept per project (lib/storage.ts,                  *)
(* project-migration.ts), and the synchronisation with the accounts of the *)
(* sibling plugin (lib/oc-chatgpt-*.ts, driven by                          *)
(* lib/codex-manager/experimental-settings-prompt.ts).                     *)
(*                                                                         *)
(* One task runs at a time; other processes edit the files between its     *)
(* steps, and the process of the task may die between any two.             *)
(***************************************************************************)
EXTENDS AccountIdentity

CONSTANTS MaxPool,      \* the most accounts a pool may have
          Exporters,    \* calls of exportNamedBackup in one process
          MaxTransferEdits

ASSUME TransferAssumption ==
  /\ MaxPool \in Nat \ {0} /\ MaxTransferEdits \in Nat

VARIABLES
  task,       \* what runs: "import", "migrate", "export" or "sync"
  home,       \* the accounts file: [rows, active, pin]
  other,      \* the other files of the task: a function from names to row sequences, or Absent
  step,       \* where the task stands, per call
  seen,       \* what it read: [rows, active, pin] of the pool and rows of the other file
  inFlight,   \* inFlightNamedBackupExports
  transferEdits

transferVars == <<task, home, other, step, seen, inFlight, transferEdits>>

\* The files older releases kept, in the order they are tried.
Legacy == <<"worktree", "project">>
Names == Range(Legacy) \cup {"import", "target", "global", "backup"}
Nothing == [pool |-> Absent, file |-> Absent]
File(rows, a, pin) == [rows |-> rows, active |-> a, pin |-> pin]

-----------------------------------------------------------------------------
(* Import *)

\* readImportFile: another process may edit the pool before the transaction starts.
ReadImport ==
  /\ task = "import" /\ step[1] = "idle"
  /\ \/ /\ other["import"] # Absent
        /\ seen' = [seen EXCEPT !.file = Deduplicated(other["import"])]
        /\ step' = [step EXCEPT ![1] = "read"]
     \/ /\ other["import"] = Absent
        /\ step' = [step EXCEPT ![1] = "failed"] /\ UNCHANGED seen
  /\ UNCHANGED <<task, home, other, inFlight, transferEdits>>

\* Bug: the pin is a position that only has to exist.
PinAfterRange(file, rows) == IF file.pin \in DOMAIN rows THEN file.pin ELSE 0
\* The pinned account is looked for again; a pin that finds nobody is dropped.
PinAfter(file, rows) == IF file.pin = 0 THEN 0 ELSE FindMatching(rows, file.rows[file.pin], FALSE)

\* mergeImportedAccounts, inside the transaction that loaded the pool.
MergeImport ==
  LET rows == Deduplicated(home.rows \o seen.file)
  IN /\ task = "import" /\ step[1] = "read"
     /\ \/ /\ Len(rows) > MaxPool
           /\ step' = [step EXCEPT ![1] = "failed"] /\ UNCHANGED home
        \/ /\ Len(rows) <= MaxPool
           /\ home' = File(rows, home.active, PinAfter(home, rows))
           /\ step' = [step EXCEPT ![1] = "done"]
     /\ UNCHANGED <<task, other, seen, inFlight, transferEdits>>

-----------------------------------------------------------------------------
(* Migration of legacy project files *)

\* Which legacy files exist is looked at first, the pool is read after that.  A pool
\* without accounts stands for a file that is not there.
Remaining(files) == SelectSeq(Legacy, LAMBDA f : files[f] # Absent)

MigrateStart ==
  /\ task = "migrate" /\ step[1] = "idle" /\ Remaining(other) # <<>>
  /\ seen' = [pool |-> IF home.rows = <<>> THEN Absent ELSE home, file |-> Remaining(other)]
  /\ step' = [step EXCEPT ![1] = "merge"]
  /\ UNCHANGED <<task, home, other, inFlight, transferEdits>>

\* mergeStorageForMigration of what was read and one legacy file.
Migrated(pool, rows) ==
  IF pool = Absent THEN Normalized(File(rows, 1, 0))
  ELSE LET joined == Normalized([pool EXCEPT !.rows = @ \o Deduplicated(rows)])
       IN [joined EXCEPT !.pin = IF pool.pin = 0 THEN @ ELSE PinAfter(pool, joined.rows)]

\* Bug: the legacy file is removed before its accounts are stored.
MigratePersistUnlinkFirst ==
  /\ task = "migrate" /\ step[1] = "merge" /\ seen.file # <<>> /\ other[Head(seen.file)] # Absent
  /\ other' = [other EXCEPT ![Head(seen.file)] = Absent]
  /\ seen' = [pool |-> Migrated(seen.pool, other[Head(seen.file)]), file |-> seen.file]
  /\ step' = [step EXCEPT ![1] = "unlink"] /\ UNCHANGED <<task, home, inFlight, transferEdits>>

\* The next legacy file is merged and stored without a baseline, so over whatever is there;
\* one that is gone is passed over, and so is one whose merge cannot be stored (where there
\* was no pool, its accounts are the pool the next file is merged into).
MigratePersist ==
  LET f == Head(seen.file)
  IN /\ task = "migrate" /\ step[1] = "merge" /\ seen.file # <<>>
     /\ \/ /\ other[f] = Absent \/ transferEdits < MaxTransferEdits
           /\ transferEdits' = IF other[f] = Absent THEN transferEdits ELSE transferEdits + 1
           /\ seen' = [file |-> Tail(seen.file),
                       pool |-> IF seen.pool # Absent \/ other[f] = Absent THEN seen.pool
                                ELSE Migrated(Absent, other[f])]
           /\ UNCHANGED <<home, step>>
        \/ /\ other[f] # Absent
           /\ home' = Migrated(seen.pool, other[f])
           /\ seen' = [seen EXCEPT !.pool = home']
           /\ step' = [step EXCEPT ![1] = "unlink"] /\ UNCHANGED transferEdits
     /\ UNCHANGED <<task, other, inFlight>>

\* The file that was merged is removed, if that works.
MigrateUnlink ==
  LET f == Head(seen.file)
  IN /\ task = "migrate" /\ step[1] = "unlink"
     /\ \/ other' = [other EXCEPT ![f] = Absent] /\ UNCHANGED transferEdits
        \/ transferEdits < MaxTransferEdits /\ transferEdits' = transferEdits + 1 /\ UNCHANGED other
     /\ seen' = [seen EXCEPT !.file = Tail(@)]
     /\ step' = [step EXCEPT ![1] = "merge"]
     /\ UNCHANGED <<task, home, inFlight>>

MigrateEnd ==
  /\ task = "migrate" /\ step[1] = "merge" /\ seen.file = <<>>
  /\ step' = [step EXCEPT ![1] = "done"] /\ seen' = Nothing
  /\ UNCHANGED <<task, home, other, inFlight, transferEdits>>

-----------------------------------------------------------------------------
(* Named backups *)

\* Bug: calls that are under way are not looked at.
ExportClaimAlways(e) == TRUE
\* exportNamedBackupFile refuses a name another call of this process is writing.
ExportClaim(e) == inFlight = {}

\* The call is refused, or looks for the file a first time.
ExportStart(e) ==
  /\ task = "export" /\ step[e] = "idle"
  /\ \/ /\ ~ExportClaim(e)
        /\ step' = [step EXCEPT ![e] = "failed"] /\ UNCHANGED inFlight
     \/ /\ ExportClaim(e) /\ inFlight' = inFlight \cup {e}
        /\ step' = [step EXCEPT ![e] = "made"]
  /\ UNCHANGED <<task, home, other, seen, transferEdits>>

\* The pool is read; a file that exists, or a pool without accounts, ends the call.
ExportLook(e) ==
  /\ task = "export" /\ step[e] = "made"
  /\ seen' = [seen EXCEPT !.pool = [x \in Exporters |-> IF x = e \/ @ = Absent THEN home ELSE @[x]]]
  /\ \/ /\ other["backup"] # Absent \/ home.rows = <<>>
        /\ step' = [step EXCEPT ![e] = "failed"] /\ inFlight' = inFlight \ {e}
     \/ /\ other["backup"] = Absent /\ home.rows # <<>>
        /\ step' = [step EXCEPT ![e] = "looked"] /\ UNCHANGED inFlight
  /\ UNCHANGED <<task, home, other, transferEdits>>

\* exportAccountsToFile looks for the file again once its directory is there.
ExportLookAgain(e) ==
  /\ task = "export" /\ step[e] = "looked"
  /\ \/ /\ other["backup"] # Absent
        /\ step' = [step EXCEPT ![e] = "failed"] /\ inFlight' = inFlight \ {e}
     \/ /\ other["backup"] = Absent
        /\ step' = [step EXCEPT ![e] = "write"] /\ UNCHANGED inFlight
  /\ UNCHANGED <<task, home, other, seen, transferEdits>>

\* The temporary file takes the name.
ExportRename(e) ==
  /\ task = "export" /\ step[e] = "write"
  /\ other' = [other EXCEPT !["backup"] = seen.pool[e].rows]
  /\ step' = [step EXCEPT ![e] = "done"] /\ inFlight' = inFlight \ {e}
  /\ UNCHANGED <<task, home, seen, transferEdits>>

-----------------------------------------------------------------------------
(* Synchronisation with the sibling plugin *)

\* normalizeAccountsForTarget keys a row by id and e-mail, by e-mail, or by its token.
Class(r) == IF r.mail = Absent THEN "token" ELSE IF r.id = Absent THEN "mail" ELSE "both"
Key(r) == CASE Class(r) = "both" -> <<r.id, r.mail>> [] Class(r) = "mail" -> <<r.mail>> [] OTHER -> <<r.token>>
SameKey(q, r) == Class(q) = Class(r) /\ Key(q) = Key(r)

\* pickNewest keeps the earlier row of a tie.
FirstNewest(rows, i) ==
  LET same == {j \in DOMAIN rows : SameKey(rows[j], rows[i])}
  IN CHOOSE j \in same : \A k \in same : rows[k].used < rows[j].used \/ (rows[k].used = rows[j].used /\ j <= k)

TargetRows(rows) ==
  LET firsts(c) == SelectSeq([i \in DOMAIN rows |-> i],
                             LAMBDA i : Class(rows[i]) = c /\ ~\E j \in 1..(i - 1) : SameKey(rows[j], rows[i]))
      order == firsts("both") \o firsts("mail") \o firsts("token")
  IN FoldLeft(LAMBDA acc, i : Append(acc, rows[FirstNewest(rows, i)]), <<>>, order)

Least(S) == CHOOSE i \in S : \A j \in S : i <= j

\* matchDestination: the row of the destination for source row c that is not yet used, or 0.
MatchDestination(rows, c, used) ==
  LET free  == DOMAIN rows \ used
      pair  == {i \in free : Class(c) = "both" /\ Class(rows[i]) = "both" /\ Key(rows[i]) = Key(c)}
      same  == {i \in free : c.id # Absent /\ rows[i].id = c.id}
      only  == IF Cardinality(same) # 1 \/ \E i \in same : Conflict(rows[i].mail, c.mail) THEN {} ELSE same
      mail  == {i \in free : c.mail # Absent /\ rows[i].id = Absent /\ rows[i].mail = c.mail}
      token == {i \in free : rows[i].id = Absent /\ rows[i].mail = Absent /\ rows[i].token = c.token}
      tiers == <<pair, only, mail, token>>
      hit   == {n \in 1..4 : tiers[n] # {}}
  IN IF hit = {} THEN 0 ELSE Least(tiers[Least(hit)])

\* previewOcChatgptImportMerge: rows the destination lacks are appended, newer ones replace.
MergeOne(acc, c) ==
  LET i == MatchDestination(acc.dest, c, acc.used)
  IN IF i = 0 THEN [rows |-> Append(acc.rows, c), dest |-> acc.dest, used |-> acc.used]
     ELSE [rows |-> IF c.used > acc.rows[i].used THEN ReplaceAt(acc.rows, i, c) ELSE acc.rows,
           dest |-> acc.dest, used |-> acc.used \cup {i}]

\* Bug: a row found in the destination is replaced whatever its age.
MergeOneSourceWins(acc, c) ==
  LET i == MatchDestination(acc.dest, c, acc.used)
  IN IF i = 0 THEN [rows |-> Append(acc.rows, c), dest |-> acc.dest, used |-> acc.used]
     ELSE [rows |-> ReplaceAt(acc.rows, i, c), dest |-> acc.dest, used |-> acc.used \cup {i}]
MergeForTargetSourceWins(source, rows) ==
  LET dest == TargetRows(rows)
  IN FoldLeft(MergeOneSourceWins, [rows |-> dest, dest |-> dest, used |-> {}], TargetRows(source)).rows
MergeForTarget(source, rows) ==
  LET dest == TargetRows(rows)
  IN FoldLeft(MergeOne, [rows |-> dest, dest |-> dest, used |-> {}], TargetRows(source)).rows

\* detectOcChatgptMultiAuthTarget: the root that holds accounts, unless two do; where none
\* does, directories may single one out.
Roots == {"target", "global"}
Detected(files) ==
  LET holds == {f \in Roots : files[f] # Absent}
  IN CASE Cardinality(holds) = 1 -> holds
       [] Cardinality(holds) > 1 -> {Absent}
       [] OTHER                  -> {Absent, "target"}

\* The menu reads the pool and then the target; a target that is not clear or cannot be
\* read ends it.
SyncRead ==
  /\ task = "sync" /\ step[1] = "idle"
  /\ \E root \in Detected(other) :
       \/ /\ root # Absent
          /\ seen' = [pool |-> home, root |-> root,
                      file |-> IF other[root] = Absent THEN <<>> ELSE Deduplicated(other[root])]
          /\ step' = [step EXCEPT ![1] = "review"]
       \/ step' = [step EXCEPT ![1] = "failed"] /\ UNCHANGED seen
  /\ UNCHANGED <<task, home, other, inFlight, transferEdits>>

\* The user is shown what would change, and agrees or declines.
SyncAnswer ==
  /\ task = "sync" /\ step[1] = "review"
  /\ \E answer \in {"apply", "idle"} : step' = [step EXCEPT ![1] = answer]
  /\ UNCHANGED <<task, home, other, seen, inFlight, transferEdits>>

\* What was read before the preview is merged and stored, if that works.
SyncApply ==
  /\ task = "sync" /\ step[1] = "apply"
  /\ \/ /\ other' = [other EXCEPT ![seen.root] = MergeForTarget(seen.pool.rows, seen.file)]
        /\ step' = [step EXCEPT ![1] = "done"]
     \/ step' = [step EXCEPT ![1] = "failed"] /\ UNCHANGED other
  /\ UNCHANGED <<task, home, seen, inFlight, transferEdits>>

-----------------------------------------------------------------------------
(* The others *)

\* Another process adds an account to the pool and pins it, or removes the first one (not
\* during a migration, whose property is about accounts nobody removed).
EditHome ==
  /\ transferEdits < MaxTransferEdits /\ transferEdits' = transferEdits + 1
  /\ \/ \E r \in FirstRow : home' = LET rows == Deduplicated(Append(home.rows, r))
                                    IN File(rows, home.active, Len(rows))
     \/ home.rows # <<>> /\ task # "migrate" /\ home' = File(Tail(home.rows), 1, 0)
  /\ UNCHANGED <<task, other, step, seen, inFlight>>

\* The process of the task dies; the next one starts it over.
TransferCrash ==
  /\ transferEdits < MaxTransferEdits /\ transferEdits' = transferEdits + 1
  /\ step' = [e \in DOMAIN step |-> "idle"] /\ seen' = Nothing /\ inFlight' = {}
  /\ UNCHANGED <<task, home, other>>

\* A pool of up to n rows as it is stored, with the account in use and the pin.
StoredPools(n) ==
  LET settled == {s \in Pools(n) : Deduplicated(s) = s /\ \A i \in DOMAIN s : s[i].used = 1}
  IN UNION {{File(rows, IF rows = <<>> THEN 0 ELSE 1, p) : p \in 0..Len(rows)} : rows \in settled}

Starts(t, pool, files) ==
  /\ task = t /\ home = pool
  /\ other = [f \in Names |-> IF f \in DOMAIN files THEN files[f] ELSE Absent]
  /\ step = [e \in Exporters |-> "idle"] /\ seen = Nothing /\ inFlight = {} /\ transferEdits = 0

TransferInit ==
  \/ \E pool \in StoredPools(2), r \in Row : Starts("import", pool, [f \in {"import"} |-> <<r>>])
  \/ \E pool \in StoredPools(3), r \in Row :
       pool.pin = 2 /\ Class(r) = "both" /\ Starts("import", pool, [f \in {"import"} |-> <<r>>])
  \/ \E pool \in StoredPools(1) :
       \/ Starts("import", pool, [f \in {} |-> <<>>])
       \/ Starts("export", pool, [f \in {} |-> <<>>])
       \/ \E r \in Row, q \in FirstRow :
            Starts("migrate", pool, [f \in Range(Legacy) |-> IF f = Legacy[1] THEN <<r>> ELSE <<q>>])
       \/ \E s \in Pools(2) : Starts("sync", pool, [f \in {"target"} |-> s])
       \/ \E files \in SUBSET Roots : Starts("sync", pool, [f \in files |-> <<>>])
  \/ \E pool \in StoredPools(2), r \in FirstRow : pool.pin = 0 /\ Starts("sync", pool, [f \in {"target"} |-> <<r>>])

TransferNext ==
  \/ ReadImport \/ MergeImport
  \/ MigrateStart \/ MigratePersist \/ MigrateUnlink \/ MigrateEnd
  \/ SyncRead \/ SyncAnswer \/ SyncApply
  \/ \E e \in Exporters : ExportStart(e) \/ ExportLook(e) \/ ExportLookAgain(e) \/ ExportRename(e)
  \/ EditHome \/ TransferCrash

-----------------------------------------------------------------------------
(* Properties *)

\* Two rows that may be taken for one account.
Shares(q, r) ==
  \/ q.id # Absent /\ q.id = r.id
  \/ q.mail # Absent /\ q.mail = r.mail
  \/ q.token = r.token

\* Row r is in rows, or gave way to one that is as recent, directly or through another of all.
Represented(r, rows, all) ==
  \E i \in DOMAIN rows : \/ rows[i] = r
                         \/ rows[i].used >= r.used
                            /\ (Shares(rows[i], r) \/ \E q \in all : Shares(rows[i], q) /\ Shares(q, r))

\* An import loses no account of the pool or of the file, and a pin it keeps is on the
\* account that was pinned or the one that took its place (mergeImportedAccounts).
ImportKeepsAll ==
  task = "import" /\ step[1] = "read" /\ step'[1] = "done" =>
    LET all == Range(home.rows) \cup Range(seen.file)
    IN /\ \A r \in all : Represented(r, home'.rows, all)
       /\ home'.pin # 0 => Represented(home.rows[home.pin], <<home'.rows[home'.pin]>>, all)

\* A legacy file is removed only when the pool holds its accounts, whatever was stored or
\* failed in between (migrateLegacyProjectStorageIfNeeded).
LegacyStored ==
  \A f \in Range(Legacy) : other[f] # Absent /\ other'[f] = Absent =>
    \A i \in DOMAIN other[f] : Represented(other[f][i], home'.rows, FirstRow \cup Range(home.rows))

\* A backup that exists is not replaced by another export that was not forced
\* (exportNamedBackupFile: calls in one process are told apart by the name they write).
BackupsKept == other["backup"] # Absent => other'["backup"] = other["backup"]

\* The accounts the target had when it was read are all there afterwards, as recent as they
\* were (previewOcChatgptImportMerge).
SyncKeepsTarget ==
  task = "sync" /\ step[1] = "apply" /\ step'[1] = "done" =>
    \A i \in DOMAIN seen.file :
      Represented(seen.file[i], other'[seen.root], Range(seen.file) \cup Range(seen.pool.rows))

\* Between accounts that all have an id and an e-mail, synchronising again right away
\* changes nothing: what the first synchronisation appended is recognised by the second.
SyncSettles ==
  task = "sync" /\ step[1] = "done" =>
    LET now == Deduplicated(other[seen.root])
    IN (\A r \in Range(seen.file) \cup Range(seen.pool.rows) : Class(r) = "both") =>
         Range(MergeForTarget(seen.pool.rows, now)) = Range(now)
=============================================================================

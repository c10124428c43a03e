--------------------------- MODULE AccountStorage ---------------------------
(***************************************************************************)
(* lib/storage.ts with lib/storage/account-save.ts, account-clear.ts and   *)
(* snapshot-merge.ts: the account pool on disk.  A session is a process    *)
(* with one object returned by loadAccounts and its merge baseline.  One   *)
(* action is one file system call, except where the transaction lock       *)
(* (FileLock, here a mutex freed by its holder's death) keeps every other  *)
(* writer out.  Writes inside a live process are not reordered; a process  *)
(* may die anywhere, power loss is not modelled.                           *)
(*                                                                         *)
(* An inventory is the set of account records in a file; fields of a       *)
(* record, pending credentials and migrations are left out.                *)
(***************************************************************************)
EXTENDS Naturals, FiniteSets

CONSTANTS
  Sessions,
  Accounts,
  None,       \* a missing file, an absent object
  Torn,       \* a file that does not parse
  Depth,      \* ACCOUNTS_BACKUP_HISTORY_DEPTH
  MaxOps,     \* bound on loads, saves and clears
  MaxFaults,  \* bound on file system calls whose retries all fail
  MaxDamage   \* bound on damage done to the primary from outside

Inventories == SUBSET Accounts
Files == {None, Torn} \cup Inventories
Readable(f) == f \notin {None, Torn}

ASSUME StorageAssumption ==
  /\ None # Torn /\ None \notin Sessions
  /\ \A v \in Inventories : v # None /\ v # Torn
  /\ Depth \in Nat \ {0} /\ MaxOps \in Nat /\ MaxFaults \in Nat /\ MaxDamage \in Nat

VARIABLES
  primary, wal, baks,   \* openai-codex-accounts.json, .wal, .bak .bak.1 ...
  marker,               \* .reset-intent exists
  lock,                 \* holder of withStorageLock
  pc, job,              \* where a session is, and in which call
  copy, base,           \* its object, and that object's baseline
  fresh,                \* sessions whose load found no primary, and whose
                        \* baseline then says "missing-storage"
  snap,                 \* what a session is about to write, or has recovered
  ops, faults, damage,
  truths,               \* inventories the pool may rightly have
  shadows,              \* inventories it may have because a save was acknowledged whose
                        \* clean-up of the reset marker failed: the marker hides that save
  reset                 \* the last acknowledged writer was clearAccounts

disk == <<primary, wal, baks, marker>>
objects == <<copy, base, fresh>>
bounds == <<ops, faults, damage>>
ghosts == <<truths, shadows, reset>>
vars == <<disk, lock, pc, job, objects, snap, bounds, ghosts>>

Loading == {"primaryOk", "primaryBad", "journal", "journalMarker", "backup", "recover"}
Saving == {"merge", "rotate", "truncate", "wal", "rename", "unmark", "unwal"}
Clearing == {"mark", "clearPrimary", "clearWal", "clearBaks"}

TypeOK ==
  /\ {primary, wal} \subseteq Files
  /\ baks \in [1..Depth -> Files]
  /\ marker \in BOOLEAN
  /\ lock \in Sessions \cup {None}
  /\ pc \in [Sessions -> {"idle"} \cup Loading \cup Saving \cup Clearing]
  /\ job \in [Sessions -> {"none", "load", "save", "clear"}]
  /\ {copy, base, snap} \subseteq [Sessions -> Inventories \cup {None}]
  /\ fresh \subseteq Sessions
  /\ ops \in 0..MaxOps /\ faults \in 0..MaxFaults /\ damage \in 0..MaxDamage
  /\ truths \subseteq Inventories /\ truths # {} /\ shadows \subseteq Inventories
  /\ reset \in BOOLEAN

\* A fresh installation, or a pool of one account.
Init ==
  /\ primary \in {None} \cup {{a} : a \in Accounts}
  /\ wal = None /\ baks = [i \in 1..Depth |-> None] /\ marker = FALSE
  /\ lock = None
  /\ pc = [s \in Sessions |-> "idle"] /\ job = [s \in Sessions |-> "none"]
  /\ copy = [s \in Sessions |-> None] /\ base = [s \in Sessions |-> None]
  /\ fresh = {}
  /\ snap = [s \in Sessions |-> None]
  /\ ops = 0 /\ faults = 0 /\ damage = 0
  /\ truths = {IF primary = None THEN {} ELSE primary}
  /\ shadows = {} /\ reset = FALSE

-----------------------------------------------------------------------------
Goto(s, label) == pc' = [pc EXCEPT ![s] = label]
Keep(s, v) == snap' = [snap EXCEPT ![s] = v]

Begin(s, name, label) ==
  /\ pc[s] = "idle" /\ ops < MaxOps
  /\ ops' = ops + 1
  /\ job' = [job EXCEPT ![s] = name]
  /\ Goto(s, label)

\* Back to the caller, without the lock.
Leave(s) ==
  /\ Goto(s, "idle")
  /\ job' = [job EXCEPT ![s] = "none"]
  /\ snap' = [snap EXCEPT ![s] = None]
  /\ lock' = IF lock = s THEN None ELSE lock

\* loadAccounts returns v and registers it as its own baseline, or null.
Register(s, v, isMissing) ==
  /\ copy' = [copy EXCEPT ![s] = v]
  /\ base' = [base EXCEPT ![s] = v]
  /\ fresh' = IF isMissing THEN fresh \cup {s} ELSE fresh \ {s}

Fault == faults < MaxFaults /\ faults' = faults + 1 /\ UNCHANGED <<ops, damage>>

-----------------------------------------------------------------------------
(* loadAccountsInternal(saveAccounts): no lock is held. *)

LoadPrimary(s) ==
  /\ Begin(s, "load", IF Readable(primary) THEN "primaryOk" ELSE "primaryBad")
  /\ Keep(s, IF Readable(primary) THEN primary ELSE None)
  /\ fresh' = IF primary = None THEN fresh \cup {s} ELSE fresh \ {s}
  /\ UNCHANGED <<disk, lock, copy, base, faults, damage, ghosts>>

\* The primary parsed: the reset marker hides it, or it is the answer.
LoadReturn(s) ==
  /\ pc[s] = "primaryOk"
  /\ Register(s, IF marker THEN {} ELSE snap[s], FALSE)
  /\ Leave(s)
  /\ UNCHANGED <<disk, bounds, ghosts>>

\* The primary is missing or torn and the marker exists: "intentional-reset".
LoadReset(s) ==
  /\ pc[s] \in {"primaryBad", "journalMarker"} /\ marker
  /\ Register(s, {}, FALSE)
  /\ Leave(s)
  /\ UNCHANGED <<disk, bounds, ghosts>>

TryJournal(s) ==
  /\ pc[s] = "primaryBad" /\ ~marker
  /\ Goto(s, "journal")
  /\ UNCHANGED <<disk, lock, job, objects, snap, bounds, ghosts>>

\* loadAccountsFromJournal reads the journal, then looks for the marker.
ReadJournal(s) ==
  /\ pc[s] = "journal"
  /\ Keep(s, IF Readable(wal) THEN wal ELSE None)
  /\ Goto(s, "journalMarker")
  /\ UNCHANGED <<disk, lock, job, objects, bounds, ghosts>>

UseJournal(s) ==
  /\ pc[s] = "journalMarker" /\ ~marker
  /\ Goto(s, IF snap[s] = None THEN "backup" ELSE "recover")
  /\ UNCHANGED <<disk, lock, job, objects, snap, bounds, ghosts>>

\* The newest backup that parses, without another look at the marker; the reads
\* of the candidates are one action.
ReadBackup(s) ==
  /\ pc[s] = "backup"
  /\ \/ \E i \in 1..Depth :
          /\ Readable(baks[i])
          /\ \A j \in 1..(i - 1) : ~Readable(baks[j])
          /\ Keep(s, baks[i])
          /\ Goto(s, "recover")
          /\ UNCHANGED <<lock, job, objects>>
     \/ /\ \A i \in 1..Depth : ~Readable(baks[i])
        \* "missing-storage" if the primary was missing, null if it was torn
        /\ Register(s, IF s \in fresh THEN {} ELSE None, s \in fresh)
        /\ Leave(s)
  /\ UNCHANGED <<disk, bounds, ghosts>>

\* persistMigration(recovered): saveAccounts of an object without a baseline.
Recover(s) ==
  /\ pc[s] = "recover" /\ lock = None
  /\ lock' = s
  /\ Goto(s, "rotate")
  /\ UNCHANGED <<disk, job, objects, snap, bounds, ghosts>>

-----------------------------------------------------------------------------
(* saveAccounts, under the lock. *)

\* The session changes its object.
Edit(s) ==
  /\ pc[s] = "idle" /\ copy[s] # None /\ copy[s] = base[s]
  /\ \E a \in Accounts :
       copy' = [copy EXCEPT ![s] = IF a \in @ THEN @ \ {a} ELSE @ \cup {a}]
  /\ UNCHANGED <<disk, lock, pc, job, base, fresh, snap, bounds, ghosts>>

Save(s) ==
  /\ copy[s] # None /\ lock = None
  /\ Begin(s, "save", "merge")
  /\ lock' = s
  /\ UNCHANGED <<disk, objects, snap, faults, damage, ghosts>>

\* Mutant of mergeAccountSnapshot: last writer wins.
mergeLastWriter(old, current, local) == local

\* mergeAccountSnapshot on inventories: local removals of known records,
\* local additions, everything else as on disk.
mergeAccountSnapshot(old, current, local) == (current \ (old \ local)) \cup (local \ old)

\* loadPrimaryAccountsForMerge: the marker, the primary, or the journal beside
\* a missing primary; Torn stands for EACCOUNTSUNREADABLE.
loadPrimaryAccountsForMerge ==
  IF marker THEN {}
  ELSE IF primary # None THEN primary
  ELSE IF Readable(wal) THEN wal ELSE None

MergeBase(s) ==
  IF loadPrimaryAccountsForMerge = None /\ s \in fresh /\ base[s] = {}
  THEN {} ELSE loadPrimaryAccountsForMerge

\* The merge, or ESTALE / EACCOUNTSUNREADABLE with nothing written.
Merge(s) ==
  /\ pc[s] = "merge"
  /\ \/ /\ Readable(MergeBase(s))
        /\ Keep(s, mergeAccountSnapshot(base[s], MergeBase(s), copy[s]))
        /\ Goto(s, "rotate")
        /\ UNCHANGED <<job, lock>>
     \/ ~Readable(MergeBase(s)) /\ Leave(s)
  /\ UNCHANGED <<disk, objects, bounds, ghosts>>

\* Mutant of Rotate: one backup more than the depth is kept.
RotateDeeper(s) ==
  /\ pc[s] = "rotate"
  /\ \E k \in 1..(Depth + 1) :
       baks' = [i \in 1..(Depth + 1) |->
                  IF primary = None \/ i < k THEN baks[IF i > Depth THEN Depth ELSE i]
                  ELSE IF i = 1 THEN primary
                  ELSE IF baks[i - 1] = None THEN baks[IF i > Depth THEN Depth ELSE i] ELSE baks[i - 1]]
  /\ Goto(s, "truncate")
  /\ UNCHANGED <<primary, wal, marker, lock, job, objects, snap, bounds, ghosts>>

\* rotateAccountsBackupIfDue: throttled, failed (logged), or the slots from k
\* on renamed, oldest first; only when there is a primary.
Rotate(s) ==
  /\ pc[s] = "rotate"
  /\ \E k \in 1..(Depth + 1) :
       baks' = [i \in 1..Depth |->
                  IF primary = None \/ i < k THEN baks[i]
                  ELSE IF i = 1 THEN primary
                  ELSE IF baks[i - 1] = None THEN baks[i] ELSE baks[i - 1]]
  /\ Goto(s, "truncate")
  /\ UNCHANGED <<primary, wal, marker, lock, job, objects, snap, bounds, ghosts>>

\* Mutant of TruncateJournal: a journal that is already there is kept.
KeepJournal(s) ==
  /\ pc[s] = "truncate"
  /\ wal' = IF wal = None THEN Torn ELSE wal
  /\ Goto(s, IF wal = None THEN "wal" ELSE "rename")
  /\ UNCHANGED <<primary, baks, marker, lock, job, objects, snap, bounds, ghosts>>

\* writeJournal: writeFile truncates the journal, then fills it.
TruncateJournal(s) ==
  /\ pc[s] = "truncate"
  /\ wal' = Torn
  /\ Goto(s, "wal")
  /\ UNCHANGED <<primary, baks, marker, lock, job, objects, snap, bounds, ghosts>>

WriteJournal(s) ==
  /\ pc[s] = "wal"
  /\ wal' = snap[s]
  /\ Goto(s, "rename")
  /\ UNCHANGED <<primary, baks, marker, lock, job, objects, snap, bounds, ghosts>>

\* The temp file is complete; rename makes it the primary.
RenameTemp(s) ==
  /\ pc[s] = "rename"
  /\ primary' = snap[s]
  /\ reset' = (reset /\ job[s] = "load")
  /\ Goto(s, "unmark")
  /\ UNCHANGED <<wal, baks, marker, lock, job, objects, snap, bounds, truths, shadows>>

\* cleanupResetMarker, best effort.
CleanupResetMarker(s) ==
  /\ pc[s] = "unmark"
  /\ Goto(s, "unwal")
  /\ \/ marker' = FALSE /\ UNCHANGED bounds
     \/ marker /\ Fault /\ UNCHANGED marker
  /\ UNCHANGED <<primary, wal, baks, lock, job, objects, snap, ghosts>>

\* A pool with what session s changed in its object since its baseline.
Edited(s, pool) == {a \in Accounts : IF a \in copy[s] THEN a \in pool \/ a \notin base[s]
                                      ELSE a \in pool /\ a \notin base[s]}

\* What each of these pools becomes once the lock holder's call has taken effect.
Effect(s, pools) ==
  IF pc[s] \in Saving \ {"merge", "rotate", "truncate"} THEN
    {IF job[s] = "load" THEN snap[s] ELSE Edited(s, t) : t \in pools}
  ELSE IF pc[s] \in Clearing \ {"mark"} THEN {{} : t \in pools} ELSE {}

\* The call may have taken effect or not.
MayTakeEffect(s) ==
  /\ truths' = truths \cup Effect(s, truths)
  /\ shadows' = shadows \cup Effect(s, shadows)

\* cleanupWal, best effort; the save is acknowledged and what was written is
\* the session's object and baseline from now on.  A marker still there hides it.
CleanupWal(s) ==
  /\ pc[s] = "unwal"
  /\ \/ wal' = None /\ UNCHANGED bounds
     \/ Fault /\ UNCHANGED wal
  /\ Register(s, snap[s], FALSE)
  /\ truths' = Effect(s, truths)
  /\ shadows' = Effect(s, shadows) \cup (IF marker THEN {{}} ELSE {})
  /\ Leave(s)
  /\ UNCHANGED <<primary, baks, marker, reset>>

\* A call before the rename fails for good: the caller gets an error, or the
\* recovered object when it was a recovery.
SaveFails(s) ==
  /\ pc[s] \in {"truncate", "wal", "rename"} /\ Fault
  /\ MayTakeEffect(s)
  /\ IF job[s] = "load" THEN Register(s, snap[s], FALSE) ELSE UNCHANGED objects
  /\ Leave(s)
  /\ UNCHANGED <<disk, reset>>

-----------------------------------------------------------------------------
(* clearAccounts, under the lock. *)

Clear(s) ==
  /\ lock = None
  /\ Begin(s, "clear", "mark")
  /\ lock' = s
  /\ UNCHANGED <<disk, objects, snap, faults, damage, ghosts>>

\* The marker comes first.
WriteMarker(s) ==
  /\ pc[s] = "mark"
  /\ marker' = TRUE
  /\ Goto(s, "clearPrimary")
  /\ UNCHANGED <<primary, wal, baks, lock, job, objects, snap, bounds, ghosts>>

ClearPrimary(s) ==
  /\ pc[s] = "clearPrimary"
  /\ primary' = None
  /\ Goto(s, "clearWal")
  /\ UNCHANGED <<wal, baks, marker, lock, job, objects, snap, bounds, ghosts>>

ClearWal(s) ==
  /\ pc[s] = "clearWal"
  /\ wal' = None
  /\ Goto(s, "clearBaks")
  /\ UNCHANGED <<primary, baks, marker, lock, job, objects, snap, bounds, ghosts>>

\* Backups are removed best effort; the clear is acknowledged.
ClearBackups(s) ==
  /\ pc[s] = "clearBaks"
  /\ \/ baks' = [i \in 1..Depth |-> None] /\ UNCHANGED bounds
     \/ /\ Fault
        /\ \E i \in 1..Depth : baks' = [j \in 1..Depth |-> IF j = i THEN baks[j] ELSE None]
  /\ truths' = Effect(s, truths) /\ shadows' = {}
  /\ reset' = TRUE
  /\ Leave(s)
  /\ UNCHANGED <<primary, wal, marker, objects>>

\* The marker or a required unlink fails: clearAccounts throws.
ClearFails(s) ==
  /\ pc[s] \in {"mark", "clearPrimary", "clearWal"} /\ Fault
  /\ MayTakeEffect(s)
  /\ Leave(s)
  /\ UNCHANGED <<disk, objects, reset>>

-----------------------------------------------------------------------------
\* The process dies; its lock is recovered, its object is gone.
Crash(s) ==
  /\ pc[s] # "idle" \/ copy[s] # None
  /\ MayTakeEffect(s)
  /\ Register(s, None, FALSE)
  /\ Leave(s)
  /\ UNCHANGED <<disk, bounds, reset>>

\* Something outside deletes or garbles the primary while nobody writes: every
\* copy left on disk is an acceptable outcome from then on.
DamagePrimary ==
  /\ damage < MaxDamage /\ Readable(primary) /\ lock = None
  /\ damage' = damage + 1
  /\ primary' \in {None, Torn}
  /\ truths' = truths \cup (({wal, {}} \cup {baks[i] : i \in 1..Depth}) \ {None, Torn})
  /\ reset' = FALSE
  /\ UNCHANGED <<wal, baks, marker, lock, pc, job, objects, snap, ops, faults, shadows>>

LoadStep(s) ==
  \/ LoadPrimary(s) \/ LoadReturn(s) \/ LoadReset(s) \/ TryJournal(s)
  \/ ReadJournal(s) \/ UseJournal(s) \/ ReadBackup(s) \/ Recover(s)

SaveStep(s) ==
  \/ Edit(s) \/ Save(s) \/ Merge(s) \/ Rotate(s) \/ TruncateJournal(s)
  \/ WriteJournal(s) \/ RenameTemp(s) \/ CleanupResetMarker(s) \/ CleanupWal(s)
  \/ SaveFails(s)

ClearStep(s) ==
  \/ Clear(s) \/ WriteMarker(s) \/ ClearPrimary(s) \/ ClearWal(s)
  \/ ClearBackups(s) \/ ClearFails(s)

Next ==
  \/ \E s \in Sessions : LoadStep(s) \/ SaveStep(s) \/ ClearStep(s) \/ Crash(s)
  \/ DamagePrimary

Spec == Init /\ [][Next]_vars

-----------------------------------------------------------------------------
(* Properties. *)

\* What a load that nobody disturbs would find.
Loadable ==
  IF marker THEN {}
  ELSE IF Readable(primary) THEN primary
  ELSE IF Readable(wal) THEN wal
  ELSE LET ok == {i \in 1..Depth : Readable(baks[i])}
       IN  IF ok = {} THEN {} ELSE baks[CHOOSE i \in ok : \A j \in ok : i <= j]

\* Whatever crashes, failing calls and concurrent sessions do, the pool a load
\* finds is the last acknowledged one with exactly the edits of the saves since
\* then that completed or may have taken effect: another session's additions
\* and removals are never lost to a stale copy, a reset is never half done, and
\* a dying writer leaves the old pool or the new one.  (A load that recovered a
\* pool writes it without a baseline, last writer wins, as the code warns.)
\* One failing call defeats this: cleanupResetMarker swallows the error of its
\* unlink, the save is acknowledged, and the marker hides the pool it wrote;
\* from there on the pool is the empty one with the later edits.
Durable ==
  LET Found(pools) == Loadable \in pools \cup UNION {Effect(s, pools) : s \in Sessions}
  IN  Found(truths) \/ (faults > 0 /\ Found(shadows))

\* A journal that nobody is writing and no marker hides is never older than the
\* pool, so a recovery from it never goes back behind an acknowledged save (but
\* for one that a marker left behind has hidden).
JournalNotStale ==
  lock = None /\ Readable(wal) /\ ~marker => wal \in truths \cup shadows

\* test/storage-recovery-paths.test.ts, "does not revive WAL contents after
\* reset": once clearAccounts returned, no account comes back without a save.
NoRevival ==
  reset /\ lock = None => Loadable = {}

=============================================================================

--------------------------- MODULE SettingsStore ---------------------------
(***************************************************************************)
(* settings.json: the plugin configuration and the dashboard's settings,   *)
(* two sections of one file that several processes rewrite, with its       *)
(* backup, the file an environment variable puts in its place, and the     *)
(* older files both sections migrate from.  A save is a read, a merge and  *)
(* a rename under the store's lock, guarded by the file's modification     *)
(* time against writers that take no lock.                                 *)
(***************************************************************************)
EXTENDS Integers, FiniteSets

CONSTANTS SettingSavers, Absent, Corrupt, NoSettingSaver,
          MaxValue,    \* values the user saves
          MaxHandEdits,    \* edits by hand
          MaxLosses,   \* power failures and kills
          MaxTries     \* attempts at a save whose file moved

VARIABLES primary,   \* settings.json
          stamp,     \* the modification times of the files that are saved to
          settingsBackup,    \* settings.json.bak
          envSet,    \* CODEX_MULTI_AUTH_CONFIG_PATH is set
          envFile,   \* the file it names
          legacy,    \* config.json, from before settings.json
          oldDash,   \* dashboard-settings.json, likewise
          savers, lock,
          counts,    \* values, edits and losses so far
          unsynced,  \* a rename that a power failure may still tear
          fellBack,  \* history: a save took a file, or a backup, that it could not open for lost
          bare       \* history: the backup failed to be copied, or the power failure tore it

settingsVars == <<primary, stamp, settingsBackup, envSet, envFile, legacy, oldDash, savers, lock,
                  counts, unsynced, fellBack, bare>>

PluginKeys == {"k1", "k2"}
Keys == PluginKeys \cup {"dash"}
Blank == [k \in Keys |-> 0]
Full == [k \in Keys |-> 1]
Parses(f) == f \notin {Absent, Corrupt}
HasPlugin(r) == \E k \in PluginKeys : r[k] # 0

Resting == [pc |-> "idle"]
Targets == {"settings", "env"}

SettingsInit ==
  /\ primary \in {Absent, Full, [Blank EXCEPT !["dash"] = 1]}
  /\ stamp = [t \in Targets |-> IF primary = Absent THEN 0 ELSE 1]
  /\ settingsBackup = Absent
  /\ envSet \in BOOLEAN
  /\ envFile \in IF envSet THEN {Absent, Corrupt, [Full EXCEPT !["dash"] = 0]} ELSE {Absent}
  /\ legacy \in {Absent, [Blank EXCEPT !["k2"] = 1]}
  /\ oldDash \in {0, 1}
  /\ savers = [s \in SettingSavers |-> Resting]
  /\ lock = [t \in Targets |-> NoSettingSaver]
  /\ counts = [value |-> 1, edits |-> 0, losses |-> 0]
  /\ unsynced = FALSE
  /\ fellBack = FALSE
  /\ bare = FALSE

-----------------------------------------------------------------------------
(***************************************************************************)
(* Reading.                                                                *)
(***************************************************************************)

\* The file, or its backup where it does not parse; a missing file is missing.
Unified == CASE Parses(primary) -> primary
             [] primary = Corrupt /\ Parses(settingsBackup) -> settingsBackup
             [] OTHER -> Absent

\* resolvePluginConfigPath: the variable's file when it exists, then the older ones.
Resolved == IF envSet /\ envFile # Absent THEN envFile ELSE legacy
UnifiedPlugin == IF Parses(Unified) /\ HasPlugin(Unified) THEN Unified ELSE Absent

\* loadPluginConfig: one source, and defaults when it does not parse.
Loaded ==
  LET first == IF envSet /\ envFile # Absent THEN envFile ELSE UnifiedPlugin
      source == IF first = Absent THEN Resolved ELSE first
  IN IF Parses(source) THEN source ELSE Blank

\* What `config explain` names as the source, and what it finds there.
ExplainedUnifiedFirst ==
  IF UnifiedPlugin # Absent THEN [kind |-> "unified", record |-> UnifiedPlugin]
  ELSE [kind |-> CASE Resolved = Absent -> "none" [] Parses(Resolved) -> "file" [] OTHER -> "unreadable",
        record |-> Resolved]
Explained ==
  CASE envSet /\ envFile # Absent ->
         [kind |-> IF Parses(envFile) THEN "file" ELSE "unreadable", record |-> envFile]
    [] UnifiedPlugin # Absent -> [kind |-> "unified", record |-> UnifiedPlugin]
    [] OTHER -> [kind |-> CASE Resolved = Absent -> "none" [] Parses(Resolved) -> "file" [] OTHER -> "unreadable",
                 record |-> Resolved]

\* The dashboard shows its section, or what its older file held.
Dash == IF Parses(Unified) /\ Unified["dash"] # 0 THEN Unified["dash"] ELSE oldDash

-----------------------------------------------------------------------------
(***************************************************************************)
(* Saving.                                                                 *)
(***************************************************************************)

\* A save of one plugin key or of the dashboard's section.  A dashboard whose
\* section was missing when it was read saves what its older file holds.
SaveBegins(s) == \E key \in Keys :
  /\ savers[s].pc = "idle" /\ counts.value < MaxValue
  /\ savers' = [savers EXCEPT ![s] = [pc |-> "queued", key |-> key, value |-> counts.value + 1,
                     target |-> IF key # "dash" /\ envSet THEN "env" ELSE "settings",
                     section |-> Blank, record |-> Blank, used |-> FALSE, seen |-> 0, tries |-> 0, late |-> FALSE]]
  /\ counts' = [counts EXCEPT !.value = @ + 1]
  /\ UNCHANGED <<primary, stamp, settingsBackup, envSet, envFile, legacy, oldDash, lock, unsynced, fellBack, bare>>
Migrates(s) ==
  /\ savers[s].pc = "idle" /\ oldDash # 0 /\ ~(Parses(Unified) /\ Unified["dash"] # 0)
  /\ savers' = [savers EXCEPT ![s] = [pc |-> "queued", key |-> "dash", value |-> oldDash, target |-> "settings",
                     section |-> Blank, record |-> Blank, used |-> FALSE, seen |-> 0, tries |-> 0, late |-> FALSE]]
  /\ UNCHANGED <<primary, stamp, settingsBackup, envSet, envFile, legacy, oldDash, lock, counts, unsynced, fellBack, bare>>

\* The write queue of the process and the lock file; one that waits too long fails.
Locks(s) ==
  /\ savers[s].pc = "queued" /\ lock[savers[s].target] = NoSettingSaver
  /\ lock' = [lock EXCEPT ![savers[s].target] = s]
  /\ savers' = [savers EXCEPT ![s].pc = IF @ = "queued" /\ savers[s].target = "settings" /\ savers[s].key # "dash"
                                        THEN "merge" ELSE "stat"]
  /\ UNCHANGED <<primary, stamp, settingsBackup, envSet, envFile, legacy, oldDash, counts, unsynced, fellBack, bare>>
SaveEnds(s) ==
  /\ savers' = [savers EXCEPT ![s] = Resting]
  /\ lock' = [t \in Targets |-> IF lock[t] = s THEN NoSettingSaver ELSE lock[t]]
Fails(s) ==
  /\ savers[s].pc \in {"queued", "merge", "stat", "read", "rename"}
  /\ SaveEnds(s)
  /\ UNCHANGED <<primary, stamp, settingsBackup, envSet, envFile, legacy, oldDash, counts, unsynced, fellBack, bare>>

\* savePluginConfig merges its keys into the section, or into the older file's
\* when the section is missing: or when the file does not parse and its backup
\* cannot be opened, which loadUnifiedPluginConfigSync catches.
SectionMerged(s, denied) == [(IF UnifiedPlugin # Absent /\ ~denied THEN UnifiedPlugin
               ELSE IF Parses(Resolved) THEN Resolved ELSE Blank) EXCEPT ![savers[s].key] = savers[s].value]
Merges(s) == \E denied \in BOOLEAN :
  /\ savers[s].pc = "merge"
  /\ denied => primary = Corrupt /\ Parses(settingsBackup)
  /\ savers' = [savers EXCEPT ![s].pc = "stat", ![s].section = SectionMerged(s, denied)]
  /\ fellBack' = (fellBack \/ denied)
  /\ UNCHANGED <<primary, stamp, settingsBackup, envSet, envFile, legacy, oldDash, lock, counts, unsynced, bare>>

\* The time is taken before the contents it vouches for.
Stats(s) ==
  /\ savers[s].pc = "stat"
  /\ savers' = [savers EXCEPT ![s].pc = "read", ![s].seen = stamp[savers[s].target]]
  /\ UNCHANGED <<primary, stamp, settingsBackup, envSet, envFile, legacy, oldDash, lock, counts, unsynced, fellBack, bare>>

\* The read before the write.  A file that cannot be opened is replaced by its
\* backup as one that does not parse is; without a backup the save fails.
Source(s, denied) ==
  CASE savers[s].target = "env" -> envFile
    [] denied -> settingsBackup
    [] OTHER -> Unified
Reads(s) == \E denied \in BOOLEAN :
  LET from == Source(s, denied)
      used == savers[s].target = "settings" /\ (denied \/ (primary = Corrupt /\ Parses(settingsBackup)))
  IN /\ savers[s].pc = "read"
     /\ denied => savers[s].target = "settings" /\ Parses(primary) /\ Parses(settingsBackup)
     /\ savers' = [savers EXCEPT ![s].pc = IF @ = "read" /\ savers[s].target = "env" THEN "compare" ELSE "copy",
                                 ![s].record = IF Parses(from) THEN from ELSE Blank,
                                 ![s].used = used]
     /\ fellBack' = (fellBack \/ denied)
     /\ UNCHANGED <<primary, stamp, settingsBackup, envSet, envFile, legacy, oldDash, lock, counts, unsynced, bare>>

\* The file as it is becomes the backup, unless the save rests on the backup.  A
\* copy that fails (before the last loss, as a bound) leaves the backup as it was, or
\* none, and the save goes on.
SnapshotsAlways(s) == primary # Absent
Snapshots(s) == primary # Absent /\ ~savers[s].used
Copies(s) ==
  /\ savers[s].pc = "copy"
  /\ savers' = [savers EXCEPT ![s].pc = "compare"]
  /\ \/ /\ Snapshots(s) /\ settingsBackup' = primary /\ bare' = (bare /\ ~Parses(primary))
     \/ /\ Snapshots(s) /\ counts.losses < MaxLosses /\ settingsBackup' \in {settingsBackup, Absent}
        /\ bare' = (bare \/ ~Parses(settingsBackup'))
     \/ ~Snapshots(s) /\ UNCHANGED <<settingsBackup, bare>>
  /\ UNCHANGED <<primary, stamp, envSet, envFile, legacy, oldDash, lock, counts, unsynced, fellBack>>

\* A file that moved since its time was taken is read again, a few times.
MovedNever(s) == FALSE
Moved(s) == stamp[savers[s].target] # savers[s].seen
Compares(s) ==
  /\ savers[s].pc = "compare"
  /\ IF ~Moved(s)
     THEN savers' = [savers EXCEPT ![s].pc = "rename"] /\ UNCHANGED lock
     ELSE IF savers[s].tries + 1 < MaxTries
     THEN savers' = [savers EXCEPT ![s].pc = "stat", ![s].tries = @ + 1] /\ UNCHANGED lock
     ELSE SaveEnds(s)
  /\ UNCHANGED <<primary, stamp, settingsBackup, envSet, envFile, legacy, oldDash, counts, unsynced, fellBack, bare>>

\* What is written: the record read, with the section, or with the key.
Written(s) ==
  LET v == savers[s]
  IN IF v.target = "settings" /\ v.key # "dash"
     THEN [k \in Keys |-> IF k \in PluginKeys THEN v.section[k] ELSE v.record[k]]
     ELSE [v.record EXCEPT ![v.key] = v.value]
Renames(s) ==
  /\ savers[s].pc = "rename"
  /\ IF savers[s].target = "env" THEN envFile' = Written(s) /\ UNCHANGED <<primary, unsynced>>
     ELSE primary' = Written(s) /\ unsynced' = TRUE /\ UNCHANGED envFile
  /\ stamp' = [stamp EXCEPT ![savers[s].target] = @ + 1]
  /\ SaveEnds(s)
  /\ UNCHANGED <<settingsBackup, envSet, legacy, oldDash, counts, fellBack, bare>>

SaverStep(s) ==
  \/ SaveBegins(s) \/ Migrates(s) \/ Locks(s) \/ Fails(s) \/ Merges(s) \/ Stats(s) \/ Reads(s)
  \/ Copies(s) \/ Compares(s) \/ Renames(s)

-----------------------------------------------------------------------------
(***************************************************************************)
(* What else happens to the files.                                         *)
(***************************************************************************)

\* An editor takes no lock.  The window between the comparison and the rename is
\* not given to it; an edit after a plugin save has merged its section is marked,
\* since no later attempt of that save merges again.
Unmerged(s) == savers[s].pc \in {"idle", "queued", "merge"}
HandEdit == \E k \in Keys :
  /\ Parses(primary) /\ counts.edits < MaxHandEdits /\ counts.value < MaxValue
  /\ \A s \in SettingSavers : savers[s].pc # "rename"
  /\ primary' = [primary EXCEPT ![k] = counts.value + 1]
  /\ stamp' = [stamp EXCEPT !["settings"] = @ + 1]
  /\ counts' = [counts EXCEPT !.value = @ + 1, !.edits = @ + 1]
  /\ unsynced' = FALSE
  /\ savers' = [s \in SettingSavers |-> IF Unmerged(s) THEN savers[s]
                                 ELSE [savers[s] EXCEPT !.late = @ \/ k \in PluginKeys]]
  /\ UNCHANGED <<settingsBackup, envSet, envFile, legacy, oldDash, lock, fellBack, bare>>

\* A saver is killed; a copy that was under way is cut short.  Its lock is
\* recovered by whoever waits for it.
Killed(s) ==
  /\ savers[s].pc \notin {"idle", "queued"} /\ counts.losses < MaxLosses
  /\ settingsBackup' = IF savers[s].pc = "copy" /\ Snapshots(s) THEN Corrupt ELSE settingsBackup
  /\ counts' = [counts EXCEPT !.losses = @ + 1]
  /\ SaveEnds(s)
  /\ UNCHANGED <<primary, stamp, envSet, envFile, legacy, oldDash, unsynced, fellBack, bare>>

\* A power failure ends every process; the last rename was never synced, and the copy
\* to the backup may not have reached the disk either.
PowerFails == \E torn \in BOOLEAN :
  /\ unsynced /\ counts.losses < MaxLosses
  /\ primary' = Corrupt
  /\ settingsBackup' = IF torn /\ settingsBackup # Absent THEN Corrupt ELSE settingsBackup
  /\ bare' = (bare \/ torn)
  /\ savers' = [s \in SettingSavers |-> Resting]
  /\ lock' = [t \in Targets |-> NoSettingSaver]
  /\ counts' = [counts EXCEPT !.losses = @ + 1]
  /\ unsynced' = FALSE
  /\ UNCHANGED <<stamp, envSet, envFile, legacy, oldDash, fellBack>>

SettingsNext == (\E s \in SettingSavers : SaverStep(s) \/ Killed(s)) \/ HandEdit \/ PowerFails

-----------------------------------------------------------------------------
\* `config explain` describes the file the configuration was loaded from.
ExplainIsTrue ==
  Loaded = IF Explained.kind \in {"unified", "file"} THEN Explained.record ELSE Blank

\* A save changes, of what the program reads, only the key it is about: not what a
\* concurrent save or an edit of another key, of the other section or of the older
\* file left there.  A save to a file that did not exist yet is excepted, since the
\* new file hides the settings in force until then; so is one that took a file, or
\* the backup of a broken one, that it could not open for lost, and a hand edit of
\* the plugin section made after a plugin save had merged it.
SaveChangesItsKey ==
  \A s \in SettingSavers :
    /\ savers[s].pc = "rename" /\ savers'[s].pc = "idle" /\ stamp' # stamp
    /\ ~fellBack /\ ~(savers[s].target = "env" /\ ~Parses(envFile))
    => /\ savers[s].late \/ \A k \in PluginKeys \ {savers[s].key} : Loaded'[k] = Loaded[k]
       /\ savers[s].key # "dash" => Dash' = Dash

\* A save that recovers from the backup never puts the broken file in its place: after
\* one kill or power failure the file or its backup can be read, once the file had a
\* second version, unless the copy to the backup failed or the same power failure
\* tore that too.
OneCopyReadable ==
  primary = Corrupt /\ counts.losses <= 1 /\ stamp["settings"] > 1 => Parses(settingsBackup) \/ bare
=============================================================================

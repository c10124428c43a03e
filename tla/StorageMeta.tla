---------------------------- MODULE StorageMeta ----------------------------
(***************************************************************************)
(* How a running proxy notices `switch`, `best` and `unpin`: every request *)
(* reads the pin and the affinity generation from the accounts file,       *)
(* through a cache keyed by the file's modification time and size.  Files  *)
(* are replaced by rename and modification times are coarse, so two writes *)
(* may carry the same time and size.  A new generation drops the sessions  *)
(* bound to account positions and applies the manual selection.            *)
(***************************************************************************)
EXTENDS Integers

CONSTANTS Granularity,    \* of the file system's modification times
          Settle,         \* MTIME_SHORTCIRCUIT_SETTLE_MS
          MaxNow, MaxMetaWrites

ASSUME MetaAssumption == Granularity \in Nat \ {0} /\ Settle \in Nat /\ Settle >= Granularity

VARIABLES metaNow,
          metaFile,   \* the accounts file: generation, modification time, size
          metaCache,  \* the last snapshot read, or none
          observed,   \* the generation the proxy acted on last
          sticky,     \* sessions are bound to positions of that generation
          metaServed,     \* how the last request read the file
          crowded,    \* two writes have fallen into one tick of the file's clock
          restarted   \* a new pool has counted its generations from one again

metaVars == <<metaNow, metaFile, metaCache, observed, sticky, metaServed, crowded, restarted>>

NoCache == [some |-> FALSE]

MetaInit ==
  /\ metaNow = 0
  /\ metaFile = [exists |-> TRUE, gen |-> 1, mtime |-> 0, size |-> 1]
  /\ metaCache = NoCache
  /\ observed = 1 /\ sticky = FALSE
  /\ metaServed = "none" /\ crowded = FALSE /\ restarted = FALSE

TimePasses ==
  /\ metaNow < MaxNow /\ metaNow' = metaNow + 1
  /\ UNCHANGED <<metaFile, metaCache, observed, sticky, metaServed, crowded, restarted>>

\* A command publishes a new selection; its size may be what it was.
SelectionPublished == \E size \in {1, 2} :
  /\ metaFile.exists /\ metaFile.gen < MaxMetaWrites
  /\ metaFile' = [exists |-> TRUE, gen |-> metaFile.gen + 1, mtime |-> metaNow - (metaNow % Granularity), size |-> size]
  /\ crowded' = (crowded \/ metaFile'.mtime = metaFile.mtime)
  /\ metaServed' = "none"
  /\ UNCHANGED <<metaNow, metaCache, observed, sticky, restarted>>

\* The file is trusted unread when its time and size are the cached ones and the
\* time is settled: no later write can share it.
ShortCircuitBySize ==
  metaCache.some /\ metaCache.size = metaFile.size /\ metaNow - metaFile.mtime > Settle
ShortCircuit ==
  /\ metaCache.some /\ metaCache.mtime = metaFile.mtime /\ metaCache.size = metaFile.size
  /\ metaNow - metaFile.mtime > Settle

\* What readStorageMetaFromDisk returns, given what it reads.
MetaRead ==
  IF ShortCircuit THEN metaCache.gen ELSE metaFile.gen

\* The generation is acted on once: affinity is cleared and the selection applied.
Acts(gen) ==
  /\ observed' = IF gen > observed THEN gen ELSE observed
  /\ sticky' = IF gen > observed THEN FALSE ELSE sticky

\* A request reads the selection; it may bind its session to a position.
RequestReads == \E binds \in BOOLEAN :
  /\ metaFile.exists
  /\ metaCache' = IF ShortCircuit THEN metaCache
                  ELSE [some |-> TRUE, gen |-> metaFile.gen, mtime |-> metaFile.mtime, size |-> metaFile.size]
  /\ IF binds THEN sticky' = TRUE /\ observed' = (IF MetaRead > observed THEN MetaRead ELSE observed)
              ELSE Acts(MetaRead)
  /\ metaServed' = "read"
  /\ UNCHANGED <<metaNow, metaFile, crowded, restarted>>

\* The read fails (locked or half-written file): the last snapshot stands in.
ReadFails ==
  /\ metaFile.exists
  /\ Acts(IF metaCache.some THEN metaCache.gen ELSE 0)
  /\ metaServed' = "fallback"
  /\ UNCHANGED <<metaNow, metaFile, metaCache, crowded, restarted>>

\* Without a file the cache is forgotten and the selection is empty.
FileVanishes ==
  /\ metaFile.exists
  /\ metaFile' = [metaFile EXCEPT !.exists = FALSE]
  /\ metaServed' = "none"
  /\ UNCHANGED <<metaNow, metaCache, observed, sticky, crowded, restarted>>
MissingFileRead ==
  /\ ~metaFile.exists
  /\ metaCache' = NoCache
  /\ Acts(0)
  /\ metaServed' = "fallback"
  /\ UNCHANGED <<metaNow, metaFile, crowded, restarted>>

\* The file comes back as it was, or a command writes a new pool, which counts its
\* generations from one: the proxy acts only on a generation above the one it observed.
FileReturns == \E gen \in {1, metaFile.gen} :
  /\ ~metaFile.exists
  /\ metaFile' = [metaFile EXCEPT !.exists = TRUE, !.gen = gen, !.mtime = metaNow - (metaNow % Granularity)]
  /\ restarted' = (restarted \/ gen < metaFile.gen)
  /\ metaServed' = "none"
  /\ UNCHANGED <<metaNow, metaCache, observed, sticky, crowded>>

MetaNext ==
  \/ TimePasses \/ SelectionPublished
  \/ RequestReads \/ ReadFails
  \/ FileVanishes \/ MissingFileRead \/ FileReturns

MetaSpec == MetaInit /\ [][MetaNext]_metaVars

-----------------------------------------------------------------------------
\* A request that read the file without an error acts on the selection that is in
\* it, as long as no two writes share a tick of the file's clock and no pool was deleted
\* and made anew.
SelectionNoticed == metaServed = "read" /\ ~crowded /\ ~restarted => observed = metaFile.gen

\* The comment on MTIME_SHORTCIRCUIT_SETTLE_MS claims it of writes in one tick as
\* well: once settled, an equal modification time means an unchanged file.
SettledMeansUnchanged == metaServed = "read" /\ ~restarted => observed = metaFile.gen
=============================================================================

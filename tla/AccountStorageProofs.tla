------------------------ MODULE AccountStorageProofs ------------------------
(***************************************************************************)
(* Proofs about AccountStorage, for every number of sessions, accounts,    *)
(* backups, operations, faults and damages.  The inductive invariant says, *)
(* file by file, why what a load would find there is a pool the history    *)
(* allows: the primary and the journal because the call that wrote them    *)
(* was acknowledged or is still under way, the backups because they count  *)
(* only once the primary was damaged, everything under the reset marker    *)
(* because it is hidden.                                                   *)
(***************************************************************************)
EXTENDS AccountStorage, WellFoundedInduction, TLAPS

\* One session at most is in saveAccounts or clearAccounts.
Exclusive == \A s \in Sessions : pc[s] \in Saving \cup Clearing <=> lock = s

\* What a call relies on: a recovery has something to save, a save an object with
\* its baseline, a clear its marker.
Calls ==
  \A s \in Sessions :
    /\ copy[s] = None <=> base[s] = None
    /\ pc[s] = "merge" => job[s] = "save"
    /\ pc[s] \in Saving => job[s] \in {"load", "save"}
    /\ pc[s] \in Saving /\ job[s] = "save" => copy[s] # None
    /\ pc[s] = "recover" => snap[s] # None
    /\ pc[s] \in Loading => job[s] = "load"
    /\ pc[s] \in Clearing \ {"mark"} => marker

\* The pools that a rightful save or one hidden by the marker leads to.
Allowed == truths \cup shadows
USE DEF Allowed

\* What a save is about to write: a recovered pool, or a rightful one with the
\* session's own edits.
Written == Saving \ {"merge"}
Snapshots ==
  \A s \in Sessions : pc[s] \in Written =>
    /\ snap[s] # None
    /\ job[s] = "save" => \E t \in Allowed : snap[s] = Edited(s, t)

\* How far the holder's files are.
Progress ==
  \A s \in Sessions :
    /\ pc[s] = "wal" => wal = Torn
    /\ pc[s] \in {"rename", "unmark", "unwal"} => wal = snap[s]
    /\ pc[s] \in {"unmark", "unwal"} => primary = snap[s]

\* Why each file is right to be loaded.
MarkerTrue == marker => {} \in Allowed \/ \E s \in Sessions : pc[s] \in Clearing \ {"mark"}
PrimaryTrue ==
  ~marker /\ Readable(primary) =>
    primary \in Allowed \/ \E s \in Sessions : pc[s] \in {"unmark", "unwal"}
JournalTrue ==
  ~marker /\ Readable(wal) =>
    wal \in Allowed \/ \E s \in Sessions : pc[s] \in {"rename", "unmark", "unwal"}
FallbackTrue ==
  ~marker /\ ~Readable(primary) =>
    /\ {} \in Allowed
    /\ \A i \in 1..Depth : Readable(baks[i]) => baks[i] \in Allowed

IInv ==
  /\ TypeOK /\ Exclusive /\ Calls /\ Snapshots /\ Progress
  /\ MarkerTrue /\ PrimaryTrue /\ JournalTrue /\ FallbackTrue

-----------------------------------------------------------------------------
(* Facts the steps below rest on. *)

\* What can be read is an inventory.
LEMMA ReadableIsInventory ==
  ASSUME TypeOK
  PROVE  /\ Readable(primary) => primary \in Inventories
         /\ Readable(wal) => wal \in Inventories
         /\ \A i \in 1..Depth : Readable(baks[i]) => baks[i] \in Inventories
         /\ \A v \in Inventories : Readable(v)
         /\ ~Readable(None) /\ ~Readable(Torn)
BY StorageAssumption DEF TypeOK, Readable, Files

\* Nobody is in a call under the lock but its holder.
LEMMA HolderOnly ==
  ASSUME Exclusive, NEW s \in Sessions, pc[s] \in Saving \cup Clearing
  PROVE  \A r \in Sessions : pc[r] \in Saving \cup Clearing <=> r = s
BY StorageAssumption DEF Exclusive

\* The merge applies the session's edits to what is on disk.
LEMMA MergeIsEdit ==
  ASSUME NEW s \in Sessions, TypeOK, copy[s] # None, base[s] # None, NEW pool \in Inventories
  PROVE  /\ mergeAccountSnapshot(base[s], pool, copy[s]) = Edited(s, pool)
         /\ Edited(s, pool) \in Inventories
<1>1. copy[s] \in Inventories /\ base[s] \in Inventories BY DEF TypeOK
<1>2. copy[s] \subseteq Accounts /\ base[s] \subseteq Accounts /\ pool \subseteq Accounts BY <1>1 DEF Inventories
<1> QED BY <1>2 DEF mergeAccountSnapshot, Edited, Inventories

LEMMA EffectType ==
  ASSUME NEW s \in Sessions, IInv, NEW pools \in SUBSET Inventories
  PROVE  Effect(s, pools) \subseteq Inventories
<1>1. \A t \in pools : Edited(s, t) \in Inventories BY DEF Edited, Inventories
<1>2. pc[s] \in Saving \ {"merge", "rotate", "truncate"} => snap[s] \in Inventories
  BY DEF IInv, TypeOK, Snapshots, Written, Saving
<1>3. {} \in Inventories BY DEF Inventories
<1> QED BY <1>1, <1>2, <1>3 DEF Effect

\* The effect on a set of pools is that on each of them.
LEMMA EffectUnion ==
  ASSUME NEW s \in Sessions
  PROVE  Effect(s, Allowed) = Effect(s, truths) \cup Effect(s, shadows)
<1>1. CASE pc[s] \in Saving \ {"merge", "rotate", "truncate"} BY <1>1 DEF Effect
<1>2. CASE pc[s] \notin Saving \ {"merge", "rotate", "truncate"} /\ pc[s] \in Clearing \ {"mark"}
  BY <1>2 DEF Effect
<1>3. CASE pc[s] \notin Saving \ {"merge", "rotate", "truncate"} /\ pc[s] \notin Clearing \ {"mark"}
  BY <1>3 DEF Effect
<1> QED BY <1>1, <1>2, <1>3

\* What is written is among the effects.
LEMMA SnapIsEffect ==
  ASSUME NEW s \in Sessions, IInv, pc[s] \in {"wal", "rename", "unmark", "unwal"}
  PROVE  snap[s] \in Effect(s, Allowed)
BY DEF IInv, TypeOK, Snapshots, Written, Saving, Effect, Calls

-----------------------------------------------------------------------------
(* Initially. *)

LEMMA InitIInv == Init => IInv
<1> SUFFICES ASSUME Init PROVE IInv OBVIOUS
<1> USE StorageAssumption DEF Init
<1>1. TypeOK
  <2>1. \A a \in Accounts : {a} \in Inventories BY DEF Inventories
  <2>2. {} \in Inventories BY DEF Inventories
  <2>3. primary \in Files /\ wal \in Files /\ baks \in [1..Depth -> Files] BY <2>1 DEF Files
  <2>4. truths \subseteq Inventories /\ truths # {} /\ shadows \subseteq Inventories BY <2>1, <2>2
  <2>5. {copy, base, snap} \subseteq [Sessions -> Inventories \cup {None}] OBVIOUS
  <2>6. ops \in 0..MaxOps /\ faults \in 0..MaxFaults /\ damage \in 0..MaxDamage OBVIOUS
  <2> QED BY <2>3, <2>4, <2>5, <2>6 DEF TypeOK
<1>2. Exclusive /\ Calls /\ Snapshots /\ Progress
  BY DEF Exclusive, Calls, Snapshots, Progress, Loading, Saving, Clearing, Written
<1>3. MarkerTrue /\ JournalTrue BY DEF MarkerTrue, JournalTrue, Readable
<1>4. PrimaryTrue /\ FallbackTrue
  <2>1. \A i \in 1..Depth : ~Readable(baks[i]) BY DEF Readable
  <2>2. \A a \in Accounts : {a} # None /\ {a} # Torn BY DEF Inventories
  <2> QED BY <2>1, <2>2 DEF PrimaryTrue, FallbackTrue, Readable
<1> QED BY <1>1, <1>2, <1>3, <1>4 DEF IInv

-----------------------------------------------------------------------------
(* Steps that touch neither the disk nor the lock. *)

LEMMA OutsideIInv ==
  ASSUME IInv, TypeOK', NEW s \in Sessions, NEW label, label \notin Saving \cup Clearing,
         pc[s] \notin Saving \cup Clearing, pc' = [pc EXCEPT ![s] = label],
         UNCHANGED <<disk, lock, truths, shadows>>,
         \A r \in Sessions \ {s} : /\ job'[r] = job[r] /\ copy'[r] = copy[r]
                                   /\ base'[r] = base[r] /\ snap'[r] = snap[r],
         copy'[s] = None <=> base'[s] = None,
         label = "recover" => snap'[s] # None,
         label \in Loading => job'[s] = "load"
  PROVE  IInv'
<1> USE DEF IInv, disk
<1>1. pc'[s] = label /\ \A r \in Sessions \ {s} : pc'[r] = pc[r] BY DEF TypeOK
<1>3. Exclusive' BY <1>1 DEF Exclusive
<1>4. Calls' BY <1>1 DEF Calls, Loading, Saving, Clearing
<1>5. Snapshots'
  <2> SUFFICES ASSUME NEW r \in Sessions, pc'[r] \in Written
               PROVE  snap'[r] # None /\ (job'[r] = "save" => \E t \in Allowed : snap'[r] = Edited(r, t)')
    BY DEF Snapshots
  <2>1. r # s /\ pc[r] \in Written BY <1>1 DEF Written
  <2>2. \A t \in Allowed : Edited(r, t)' = Edited(r, t) BY <2>1 DEF Edited
  <2> QED BY <2>1, <2>2 DEF Snapshots
<1>6. Progress' BY <1>1 DEF Progress, Saving
<1>7. \A X \in SUBSET (Saving \cup Clearing) : (\E r \in Sessions : pc[r] \in X) => \E r \in Sessions : pc'[r] \in X
  BY <1>1
<1>8. MarkerTrue' /\ PrimaryTrue' /\ JournalTrue' /\ FallbackTrue'
  <2>1. (\E r \in Sessions : pc[r] \in Clearing \ {"mark"}) => \E r \in Sessions : pc'[r] \in Clearing \ {"mark"}
    BY <1>7
  <2>2. (\E r \in Sessions : pc[r] \in {"unmark", "unwal"}) => \E r \in Sessions : pc'[r] \in {"unmark", "unwal"}
    BY <1>7 DEF Saving
  <2>3. (\E r \in Sessions : pc[r] \in {"rename", "unmark", "unwal"})
        => \E r \in Sessions : pc'[r] \in {"rename", "unmark", "unwal"}
    BY <1>7 DEF Saving
  <2> QED BY <2>1, <2>2, <2>3 DEF MarkerTrue, PrimaryTrue, JournalTrue, FallbackTrue, Readable
<1> QED BY <1>3, <1>4, <1>5, <1>6, <1>8

\* A call that ends without another write: an error, a death.
LEMMA AbandonIInv ==
  ASSUME IInv, TypeOK', NEW s \in Sessions, Leave(s), UNCHANGED disk, MayTakeEffect(s),
         \A r \in Sessions \ {s} : copy'[r] = copy[r] /\ base'[r] = base[r],
         copy'[s] = None <=> base'[s] = None
  PROVE  IInv'
<1> USE StorageAssumption DEF IInv, disk
<1>1. /\ pc'[s] = "idle" /\ \A r \in Sessions \ {s} : pc'[r] = pc[r]
      /\ \A r \in Sessions \ {s} : job'[r] = job[r] /\ snap'[r] = snap[r]
      /\ lock' = IF lock = s THEN None ELSE lock
  BY DEF Leave, Goto, TypeOK
<1>2. Allowed' = Allowed \cup Effect(s, Allowed) BY EffectUnion DEF MayTakeEffect
<1>3. Exclusive' BY <1>1 DEF Exclusive, Saving, Clearing
<1>4. Calls' BY <1>1 DEF Calls, Loading, Saving, Clearing
<1>5. Snapshots'
  <2> SUFFICES ASSUME NEW r \in Sessions, pc'[r] \in Written
               PROVE  snap'[r] # None /\ (job'[r] = "save" => \E t \in Allowed' : snap'[r] = Edited(r, t)')
    BY DEF Snapshots
  <2>1. r # s /\ pc[r] \in Written BY <1>1 DEF Written, Saving
  <2>2. \A t \in Allowed : Edited(r, t)' = Edited(r, t) BY <2>1 DEF Edited
  <2> QED BY <1>1, <1>2, <2>1, <2>2 DEF Snapshots
<1>6. Progress' BY <1>1 DEF Progress
<1>7. ASSUME NEW r \in Sessions, pc[r] \in Clearing \ {"mark"}
      PROVE  {} \in Allowed' \/ pc'[r] \in Clearing \ {"mark"}
  <2>1. CASE r = s
    <3>1. Effect(s, Allowed) = {{}} BY <1>7, <2>1 DEF Effect, Saving, Clearing, TypeOK
    <3> QED BY <1>2, <3>1
  <2>2. CASE r # s BY <1>1, <1>7, <2>2
  <2> QED BY <2>1, <2>2
<1>8. ASSUME NEW r \in Sessions, pc[r] \in {"rename", "unmark", "unwal"}
      PROVE  snap[r] \in Allowed' \/ pc'[r] = pc[r]
  <2>1. CASE r = s BY <1>2, <1>8, <2>1, SnapIsEffect
  <2>2. CASE r # s BY <1>1, <2>2
  <2> QED BY <2>1, <2>2
<1>9. MarkerTrue' BY <1>1, <1>2, <1>7 DEF MarkerTrue
<1>10. PrimaryTrue' BY <1>2, <1>8 DEF PrimaryTrue, Progress, Readable
<1>11. JournalTrue' BY <1>2, <1>8 DEF JournalTrue, Progress, Readable
<1>12. FallbackTrue' BY <1>2 DEF FallbackTrue, Readable
<1> QED BY <1>3, <1>4, <1>5, <1>6, <1>9, <1>10, <1>11, <1>12

\* What Leave does to the types.
LEMMA LeaveType ==
  ASSUME TypeOK, NEW s \in Sessions, Leave(s)
  PROVE  /\ pc' \in [Sessions -> {"idle"} \cup Loading \cup Saving \cup Clearing]
         /\ job' \in [Sessions -> {"none", "load", "save", "clear"}]
         /\ snap' \in [Sessions -> Inventories \cup {None}]
         /\ lock' \in Sessions \cup {None}
         /\ pc' = [pc EXCEPT ![s] = "idle"]
         /\ \A r \in Sessions \ {s} : job'[r] = job[r] /\ snap'[r] = snap[r]
BY DEF Leave, Goto, TypeOK

LEMMA RegisterType ==
  ASSUME TypeOK, NEW s \in Sessions, NEW v \in Inventories \cup {None}, NEW b, Register(s, v, b)
  PROVE  /\ copy' \in [Sessions -> Inventories \cup {None}]
         /\ base' \in [Sessions -> Inventories \cup {None}]
         /\ fresh' \subseteq Sessions
         /\ copy'[s] = v /\ base'[s] = v
         /\ \A r \in Sessions \ {s} : copy'[r] = copy[r] /\ base'[r] = base[r]
BY DEF Register, TypeOK

-----------------------------------------------------------------------------
(* loadAccounts and Edit. *)

LEMMA LoadPrimaryIInv == ASSUME NEW s \in Sessions, IInv, LoadPrimary(s) PROVE IInv'
<1> USE StorageAssumption
<1> DEFINE label == IF Readable(primary) THEN "primaryOk" ELSE "primaryBad"
           v == IF Readable(primary) THEN primary ELSE None
<1>1. /\ pc[s] = "idle" /\ pc' = [pc EXCEPT ![s] = label] /\ ops < MaxOps /\ ops' = ops + 1
      /\ job' = [job EXCEPT ![s] = "load"] /\ snap' = [snap EXCEPT ![s] = v]
      /\ fresh' \subseteq fresh \cup {s}
      /\ UNCHANGED <<disk, lock, copy, base, faults, damage, ghosts>>
  BY DEF LoadPrimary, Begin, Goto, Keep
<1>2. v \in Inventories \cup {None} BY ReadableIsInventory DEF IInv
<1>3. label \in {"primaryOk", "primaryBad"} OBVIOUS
<1> HIDE DEF label, v
<1>4. TypeOK'
  <2>1. pc' \in [Sessions -> {"idle"} \cup Loading \cup Saving \cup Clearing]
    BY <1>1, <1>3 DEF IInv, TypeOK, Loading
  <2>2. ops' \in 0..MaxOps BY <1>1 DEF IInv, TypeOK
  <2>3. snap' \in [Sessions -> Inventories \cup {None}] /\ job' \in [Sessions -> {"none", "load", "save", "clear"}]
    BY <1>1, <1>2 DEF IInv, TypeOK
  <2> QED BY <1>1, <2>1, <2>2, <2>3 DEF IInv, TypeOK, disk, ghosts
<1>5. label \notin Saving \cup Clearing /\ label # "recover" /\ pc[s] \notin Saving \cup Clearing
  BY <1>1, <1>3 DEF Saving, Clearing
<1>6. \A r \in Sessions \ {s} : job'[r] = job[r] /\ copy'[r] = copy[r] /\ base'[r] = base[r] /\ snap'[r] = snap[r]
  BY <1>1 DEF IInv, TypeOK
<1>7. (copy'[s] = None <=> base'[s] = None) /\ job'[s] = "load" BY <1>1 DEF IInv, TypeOK, Calls
<1> QED BY <1>1, <1>4, <1>5, <1>6, <1>7, OutsideIInv DEF ghosts

\* A load that returns v, without the lock.
LEMMA LoadedIInv ==
  ASSUME NEW s \in Sessions, IInv, NEW v \in Inventories \cup {None}, NEW b, Register(s, v, b), Leave(s),
         pc[s] \in Loading, UNCHANGED <<disk, bounds, ghosts>>
  PROVE  IInv'
<1> USE StorageAssumption DEF IInv
<1>1. lock' = lock /\ pc[s] \notin Saving \cup Clearing
  BY DEF Leave, Exclusive, Loading, Saving, Clearing
<1>2. TypeOK' BY LeaveType, RegisterType DEF TypeOK, disk, bounds, ghosts
<1>3. "idle" \notin Loading \cup Saving \cup Clearing BY DEF Loading, Saving, Clearing
<1> QED BY <1>1, <1>2, <1>3, LeaveType, RegisterType, OutsideIInv DEF ghosts

LEMMA LoadIInv ==
  ASSUME NEW s \in Sessions, IInv,
         LoadReturn(s) \/ LoadReset(s) \/ TryJournal(s) \/ ReadJournal(s) \/ UseJournal(s) \/ ReadBackup(s)
  PROVE  IInv'
<1> USE StorageAssumption
<1>0. {} \in Inventories BY DEF Inventories
<1>1. CASE LoadReturn(s)
  <2>1. (IF marker THEN {} ELSE snap[s]) \in Inventories \cup {None} BY <1>0 DEF IInv, TypeOK
  <2> QED BY <1>1, <2>1, LoadedIInv DEF LoadReturn, Loading
<1>2. CASE LoadReset(s) BY <1>0, <1>2, LoadedIInv DEF LoadReset, Loading
<1>3. ASSUME NEW label \in {"journal", "journalMarker", "backup", "recover"}, pc[s] \in Loading,
             NEW v \in Inventories \cup {None}, pc' = [pc EXCEPT ![s] = label],
             snap' = [snap EXCEPT ![s] = v] \/ (snap' = snap /\ v = snap[s]),
             label = "recover" => v # None,
             UNCHANGED <<disk, lock, job, objects, bounds, ghosts>>
      PROVE  IInv'
  <2>1. TypeOK'
    <3>1. pc' \in [Sessions -> {"idle"} \cup Loading \cup Saving \cup Clearing]
      BY <1>3 DEF IInv, TypeOK, Loading
    <3>2. snap' \in [Sessions -> Inventories \cup {None}] BY <1>3 DEF IInv, TypeOK
    <3> QED BY <1>3, <3>1, <3>2 DEF IInv, TypeOK, disk, objects, bounds, ghosts
  <2>2. label \notin Saving \cup Clearing /\ pc[s] \notin Saving \cup Clearing
    BY <1>3 DEF Loading, Saving, Clearing
  <2>3. \A r \in Sessions \ {s} : job'[r] = job[r] /\ copy'[r] = copy[r] /\ base'[r] = base[r] /\ snap'[r] = snap[r]
    BY <1>3 DEF IInv, TypeOK, objects
  <2>4. copy'[s] = None <=> base'[s] = None BY <1>3 DEF IInv, Calls, objects
  <2>5. snap'[s] = v /\ job'[s] = "load" BY <1>3 DEF IInv, TypeOK, Calls
  <2>6. UNCHANGED <<disk, lock, truths, shadows>> BY <1>3 DEF ghosts
  <2> QED BY <1>3, <2>1, <2>2, <2>3, <2>4, <2>5, <2>6, OutsideIInv
<1>a. snap[s] \in Inventories \cup {None} BY DEF IInv, TypeOK
<1>4. CASE TryJournal(s) BY <1>3, <1>4, <1>a DEF TryJournal, Goto, Loading
<1>5. CASE ReadJournal(s)
  <2>1. (IF Readable(wal) THEN wal ELSE None) \in Inventories \cup {None} BY ReadableIsInventory DEF IInv
  <2> QED BY <1>3, <1>5, <2>1 DEF ReadJournal, Goto, Keep, Loading
<1>6. CASE UseJournal(s) BY <1>3, <1>6, <1>a DEF UseJournal, Goto, Loading
<1>7. CASE ReadBackup(s)
  <2>1. CASE \A i \in 1..Depth : ~Readable(baks[i])
    BY <1>0, <1>7, <2>1, LoadedIInv DEF ReadBackup, Loading
  <2>2. CASE ~(\A i \in 1..Depth : ~Readable(baks[i]))
    <3>1. PICK i \in 1..Depth : Readable(baks[i]) /\ Keep(s, baks[i]) /\ Goto(s, "recover")
                                /\ UNCHANGED <<lock, job, objects>>
      BY <1>7, <2>2 DEF ReadBackup
    <3>2. baks[i] \in Inventories /\ baks[i] # None BY <3>1, ReadableIsInventory DEF IInv
    <3> QED BY <1>3, <1>7, <3>1, <3>2 DEF ReadBackup, Goto, Keep, Loading
  <2> QED BY <2>1, <2>2
<1> QED BY <1>1, <1>2, <1>4, <1>5, <1>6, <1>7

LEMMA EditIInv == ASSUME NEW s \in Sessions, IInv, Edit(s) PROVE IInv'
<1> USE StorageAssumption DEF IInv
<1>1. PICK a \in Accounts :
        copy' = [copy EXCEPT ![s] = IF a \in copy[s] THEN copy[s] \ {a} ELSE copy[s] \cup {a}]
  BY DEF Edit, TypeOK
<1>2. /\ pc[s] = "idle" /\ copy[s] # None /\ copy[s] = base[s]
      /\ UNCHANGED <<disk, lock, pc, job, base, fresh, snap, bounds, ghosts>>
  BY DEF Edit
<1>3. (IF a \in copy[s] THEN copy[s] \ {a} ELSE copy[s] \cup {a}) \in Inventories
  BY <1>2 DEF TypeOK, Inventories
<1>4. copy' \in [Sessions -> Inventories \cup {None}] /\ copy'[s] # None BY <1>1, <1>3 DEF TypeOK
<1>5. TypeOK' BY <1>2, <1>4 DEF TypeOK, disk, bounds, ghosts
<1>6. pc' = [pc EXCEPT ![s] = "idle"] /\ "idle" \notin Loading \cup Saving \cup Clearing
  BY <1>2 DEF TypeOK, Loading, Saving, Clearing
<1>7. \A r \in Sessions \ {s} : copy'[r] = copy[r] BY <1>1 DEF TypeOK
<1>8. base'[s] # None BY <1>2
<1> QED BY <1>2, <1>4, <1>5, <1>6, <1>7, <1>8, OutsideIInv DEF ghosts

-----------------------------------------------------------------------------
(* Taking the lock, and the holder's steps. *)

LEMMA AcquireIInv ==
  ASSUME IInv, TypeOK', NEW s \in Sessions, NEW label \in {"rotate", "merge", "mark"},
         lock = None, lock' = s, pc' = [pc EXCEPT ![s] = label],
         UNCHANGED <<disk, objects, snap, truths, shadows>>,
         \A r \in Sessions \ {s} : job'[r] = job[r],
         label = "merge" => job'[s] = "save" /\ copy[s] # None,
         label = "rotate" => job'[s] = "load" /\ snap[s] # None
  PROVE  IInv'
<1> USE StorageAssumption DEF IInv, disk, objects
<1>1. pc'[s] = label /\ \A r \in Sessions \ {s} : pc'[r] = pc[r] BY DEF TypeOK
<1>2. \A r \in Sessions : pc[r] \notin Saving \cup Clearing BY DEF Exclusive
<1>3. \A r \in Sessions : r # s => pc'[r] \notin Saving \cup Clearing BY <1>1, <1>2
<1>4. Exclusive' BY <1>1, <1>3 DEF Exclusive, Saving, Clearing
<1>5. Calls' BY <1>1, <1>3 DEF Calls, Loading, Saving, Clearing
<1>6. Snapshots' BY <1>1, <1>3 DEF Snapshots, Written, Saving
<1>7. Progress' BY <1>1, <1>3 DEF Progress, Saving
<1>8. MarkerTrue' /\ PrimaryTrue' /\ JournalTrue' /\ FallbackTrue'
  BY <1>2 DEF MarkerTrue, PrimaryTrue, JournalTrue, FallbackTrue, Readable, Saving, Clearing
<1> QED BY <1>4, <1>5, <1>6, <1>7, <1>8

LEMMA TakeIInv == ASSUME NEW s \in Sessions, IInv, Recover(s) \/ Save(s) \/ Clear(s) PROVE IInv'
<1> USE StorageAssumption
<1>1. CASE Recover(s)
  <2>1. /\ pc[s] = "recover" /\ lock = None /\ lock' = s /\ pc' = [pc EXCEPT ![s] = "rotate"]
        /\ UNCHANGED <<disk, job, objects, snap, bounds, ghosts>>
    BY <1>1 DEF Recover, Goto
  <2>2. TypeOK'
    <3>1. pc' \in [Sessions -> {"idle"} \cup Loading \cup Saving \cup Clearing]
      BY <2>1 DEF IInv, TypeOK, Saving
    <3> QED BY <2>1, <3>1 DEF IInv, TypeOK, disk, objects, bounds, ghosts
  <2>3. job'[s] = "load" /\ snap[s] # None BY <2>1 DEF IInv, Calls, Loading
  <2> QED BY <2>1, <2>2, <2>3, AcquireIInv DEF ghosts
<1>2. ASSUME NEW name \in {"save", "clear"}, NEW label \in {"merge", "mark"}, Begin(s, name, label),
             lock = None, lock' = s, UNCHANGED <<disk, objects, snap, faults, damage, ghosts>>,
             label = "merge" => name = "save" /\ copy[s] # None
      PROVE  IInv'
  <2>1. /\ pc' = [pc EXCEPT ![s] = label] /\ job' = [job EXCEPT ![s] = name]
        /\ ops < MaxOps /\ ops' = ops + 1
    BY <1>2 DEF Begin, Goto
  <2>2. TypeOK'
    <3>1. pc' \in [Sessions -> {"idle"} \cup Loading \cup Saving \cup Clearing]
      BY <2>1 DEF IInv, TypeOK, Saving, Clearing
    <3>2. ops' \in 0..MaxOps BY <2>1 DEF IInv, TypeOK
    <3>3. job' \in [Sessions -> {"none", "load", "save", "clear"}] BY <2>1 DEF IInv, TypeOK
    <3> QED BY <1>2, <3>1, <3>2, <3>3 DEF IInv, TypeOK, disk, objects, ghosts
  <2>3. job'[s] = name /\ \A r \in Sessions \ {s} : job'[r] = job[r] BY <2>1 DEF IInv, TypeOK
  <2> QED BY <1>2, <2>1, <2>2, <2>3, AcquireIInv DEF ghosts
<1>3. CASE Save(s) BY <1>2, <1>3 DEF Save
<1>4. CASE Clear(s) BY <1>2, <1>4 DEF Clear
<1> QED BY <1>1, <1>3, <1>4

\* The holder goes on: its locals stay as they are.
LEMMA HoldFrame ==
  ASSUME IInv, NEW s \in Sessions, NEW label, pc' = [pc EXCEPT ![s] = label],
         \/ pc[s] \in Written /\ label \in Written
         \/ pc[s] \in Clearing /\ label \in Clearing,
         UNCHANGED <<lock, job, objects, snap, truths, shadows>>,
         label \in Clearing \ {"mark"} => marker'
  PROVE  /\ Exclusive' /\ Calls' /\ Snapshots'
         /\ pc'[s] = label /\ \A r \in Sessions \ {s} : pc'[r] = pc[r] /\ pc'[r] \notin Saving \cup Clearing
         /\ pc' \in [Sessions -> {"idle"} \cup Loading \cup Saving \cup Clearing]
<1> USE StorageAssumption DEF IInv, objects
<1>1. pc'[s] = label /\ \A r \in Sessions \ {s} : pc'[r] = pc[r] /\ pc'[r] \notin Saving \cup Clearing
  BY HolderOnly DEF TypeOK, Written
<1>2. Exclusive' BY <1>1 DEF Exclusive, Written
<1>3. Calls' BY <1>1 DEF Calls, Written, Loading, Saving, Clearing
<1>4. Snapshots'
  <2>1. \A t \in Allowed : Edited(s, t)' = Edited(s, t) BY DEF Edited
  <2>2. \A r \in Sessions : pc'[r] \in Written => r = s /\ pc[s] \in Written
    BY <1>1 DEF Written, Saving, Clearing
  <2> QED BY <2>1, <2>2 DEF Snapshots
<1>5. pc' \in [Sessions -> {"idle"} \cup Loading \cup Saving \cup Clearing] BY DEF TypeOK, Written
<1> QED BY <1>1, <1>2, <1>3, <1>4, <1>5

LEMMA MergeIInv == ASSUME NEW s \in Sessions, IInv, Merge(s) PROVE IInv'
<1> USE StorageAssumption
<1>0. pc[s] = "merge" /\ UNCHANGED <<disk, objects, bounds, ghosts>> BY DEF Merge
<1>1. CASE ~Readable(MergeBase(s))
  <2>1. Leave(s) BY <1>1 DEF Merge
  <2>2. TypeOK' BY <1>0, <2>1, LeaveType DEF IInv, TypeOK, disk, objects, bounds, ghosts
  <2>3. MayTakeEffect(s)
    <3>1. Effect(s, truths) = {} /\ Effect(s, shadows) = {} BY <1>0 DEF Effect, Saving, Clearing
    <3> QED BY <1>0, <3>1 DEF MayTakeEffect, ghosts
  <2> QED BY <1>0, <2>1, <2>2, <2>3, AbandonIInv DEF objects, ghosts, IInv, Calls
<1>2. CASE Readable(MergeBase(s))
  <2> DEFINE pool == MergeBase(s)
  <2>1. /\ snap' = [snap EXCEPT ![s] = mergeAccountSnapshot(base[s], pool, copy[s])]
        /\ pc' = [pc EXCEPT ![s] = "rotate"] /\ UNCHANGED <<job, lock>>
    BY <1>2 DEF Merge, Keep, Goto
  <2>2. \A r \in Sessions : pc[r] \in Saving \cup Clearing <=> r = s
    BY <1>0, HolderOnly DEF IInv, Saving
  <2>3. pool \in Allowed
    <3>1. CASE marker
      <4>1. {} \in Allowed BY <1>0, <2>2, <3>1 DEF IInv, MarkerTrue, Clearing
      <4>2. pool \in {{}, None} BY <3>1 DEF MergeBase, loadPrimaryAccountsForMerge
      <4> QED BY <1>2, <4>1, <4>2 DEF Readable
    <3>2. CASE ~marker /\ primary # None
      <4>1. pool = primary BY <3>2 DEF MergeBase, loadPrimaryAccountsForMerge
      <4> QED BY <1>0, <1>2, <2>2, <3>2, <4>1 DEF IInv, PrimaryTrue, Saving
    <3>3. CASE ~marker /\ primary = None /\ Readable(wal)
      <4>1. wal # None BY <3>3 DEF Readable
      <4>2. pool = wal BY <3>3, <4>1 DEF MergeBase, loadPrimaryAccountsForMerge
      <4> QED BY <1>0, <2>2, <3>3, <4>2 DEF IInv, JournalTrue, Saving
    <3>4. CASE ~marker /\ primary = None /\ ~Readable(wal)
      <4>1. pool \in {{}, None} BY <3>4 DEF MergeBase, loadPrimaryAccountsForMerge
      <4>2. {} \in Allowed BY <3>4 DEF IInv, FallbackTrue, Readable
      <4> QED BY <1>2, <4>1, <4>2 DEF Readable
    <3> QED BY <3>1, <3>2, <3>3, <3>4
  <2>4. pool \in Inventories
    <3>1. truths \subseteq Inventories /\ shadows \subseteq Inventories BY DEF IInv, TypeOK
    <3> QED BY <2>3, <3>1
  <2> HIDE DEF pool
  <2>5. copy[s] # None /\ base[s] # None BY <1>0 DEF IInv, Calls, Saving
  <2>6. mergeAccountSnapshot(base[s], pool, copy[s]) = Edited(s, pool) /\ Edited(s, pool) \in Inventories
    BY <2>4, <2>5, MergeIsEdit DEF IInv
  <2>7. /\ snap'[s] = Edited(s, pool) /\ snap' \in [Sessions -> Inventories \cup {None}]
        /\ \A r \in Sessions \ {s} : snap'[r] = snap[r]
    BY <2>1, <2>6 DEF IInv, TypeOK
  <2>8. pc'[s] = "rotate" /\ \A r \in Sessions \ {s} : pc'[r] = pc[r] /\ pc[r] \notin Saving \cup Clearing
    BY <2>1, <2>2 DEF IInv, TypeOK
  <2>9. TypeOK'
    <3>1. pc' \in [Sessions -> {"idle"} \cup Loading \cup Saving \cup Clearing] BY <2>1 DEF IInv, TypeOK, Saving
    <3> QED BY <1>0, <2>1, <2>7, <3>1 DEF IInv, TypeOK, disk, objects, bounds, ghosts
  <2>10. Exclusive' BY <1>0, <2>1, <2>8 DEF IInv, Exclusive, Saving
  <2>11. Calls' BY <1>0, <2>1, <2>7, <2>8 DEF IInv, Calls, objects, disk, Loading, Saving, Clearing
  <2>12. Snapshots'
    <3>1. Edited(s, pool)' = Edited(s, pool) BY <1>0 DEF Edited, objects, pool, MergeBase,
          loadPrimaryAccountsForMerge, disk
    <3>2. snap'[s] # None BY <2>6, <2>7
    <3>3. pool' = pool BY <1>0 DEF pool, MergeBase, loadPrimaryAccountsForMerge, disk, objects
    <3> QED BY <1>0, <2>3, <2>7, <2>8, <3>1, <3>2, <3>3 DEF Snapshots, Written, ghosts
  <2>13. Progress' BY <1>0, <2>8 DEF IInv, Progress, Saving, disk
  <2>14. MarkerTrue' /\ PrimaryTrue' /\ JournalTrue' /\ FallbackTrue'
    BY <1>0, <2>2 DEF IInv, MarkerTrue, PrimaryTrue, JournalTrue, FallbackTrue, Readable, Saving, Clearing,
       disk, ghosts
  <2> QED BY <2>9, <2>10, <2>11, <2>12, <2>13, <2>14 DEF IInv
<1> QED BY <1>1, <1>2

\* A step that counts a fault, or none.
LEMMA BoundsType ==
  ASSUME TypeOK, Fault \/ UNCHANGED bounds
  PROVE  ops' = ops /\ damage' = damage /\ faults' \in 0..MaxFaults
<1>1. CASE Fault BY <1>1, StorageAssumption DEF Fault, TypeOK
<1>2. CASE UNCHANGED bounds BY <1>2 DEF bounds, TypeOK
<1> QED BY <1>1, <1>2

LEMMA RotateIInv == ASSUME NEW s \in Sessions, IInv, Rotate(s) PROVE IInv'
<1> USE StorageAssumption
<1>1. PICK k \in 1..(Depth + 1) :
        baks' = [i \in 1..Depth |->
                   IF primary = None \/ i < k THEN baks[i]
                   ELSE IF i = 1 THEN primary
                   ELSE IF baks[i - 1] = None THEN baks[i] ELSE baks[i - 1]]
  BY DEF Rotate
<1>2. /\ pc[s] = "rotate" /\ pc' = [pc EXCEPT ![s] = "truncate"]
      /\ UNCHANGED <<primary, wal, marker, lock, job, objects, snap, bounds, ghosts>>
  BY DEF Rotate, Goto
<1>3. \A i \in 1..Depth : i # 1 => i - 1 \in 1..Depth OBVIOUS
<1>4. \A i \in 1..Depth : baks'[i] = primary \/ \E j \in 1..Depth : baks'[i] = baks[j] BY <1>1, <1>3
<1>5. baks' \in [1..Depth -> Files]
  <2>1. \A i \in 1..Depth : baks'[i] \in Files BY <1>4 DEF IInv, TypeOK
  <2> QED BY <1>1, <2>1
<1>6. /\ Exclusive' /\ Calls' /\ Snapshots' /\ pc'[s] = "truncate"
      /\ \A r \in Sessions \ {s} : pc'[r] = pc[r] /\ pc'[r] \notin Saving \cup Clearing
      /\ pc' \in [Sessions -> {"idle"} \cup Loading \cup Saving \cup Clearing]
  BY <1>2, HoldFrame DEF Written, Saving, Clearing, ghosts
<1>7. TypeOK' BY <1>2, <1>5, <1>6 DEF IInv, TypeOK, objects, bounds, ghosts
<1>8. Progress' BY <1>2, <1>6 DEF IInv, Progress, Saving
<1>9. MarkerTrue' /\ PrimaryTrue' /\ JournalTrue'
  BY <1>2, <1>6 DEF IInv, MarkerTrue, PrimaryTrue, JournalTrue, Readable, Clearing, ghosts
<1>10. FallbackTrue' BY <1>2, <1>4 DEF IInv, FallbackTrue, Readable, ghosts
<1> QED BY <1>6, <1>7, <1>8, <1>9, <1>10 DEF IInv

LEMMA JournalIInv == ASSUME NEW s \in Sessions, IInv, TruncateJournal(s) \/ WriteJournal(s) PROVE IInv'
<1> USE StorageAssumption
<1> DEFINE label == IF pc[s] = "truncate" THEN "wal" ELSE "rename"
           v == IF pc[s] = "truncate" THEN Torn ELSE snap[s]
<1>1. /\ pc[s] \in {"truncate", "wal"} /\ pc' = [pc EXCEPT ![s] = label] /\ wal' = v
      /\ UNCHANGED <<primary, baks, marker, lock, job, objects, snap, bounds, ghosts>>
  BY DEF TruncateJournal, WriteJournal, Goto
<1>2. /\ pc[s] = "truncate" => label = "wal" /\ v = Torn
      /\ pc[s] = "wal" => label = "rename" /\ v = snap[s] /\ snap[s] # None
  BY DEF IInv, Snapshots, Written, Saving
<1> HIDE DEF label, v
<1>3. /\ Exclusive' /\ Calls' /\ Snapshots' /\ pc'[s] = label
      /\ \A r \in Sessions \ {s} : pc'[r] = pc[r] /\ pc'[r] \notin Saving \cup Clearing
      /\ pc' \in [Sessions -> {"idle"} \cup Loading \cup Saving \cup Clearing]
  BY <1>1, <1>2, HoldFrame DEF Written, Saving, Clearing, ghosts
<1>4. wal' \in Files BY <1>1, <1>2 DEF IInv, TypeOK, Files
<1>5. TypeOK' BY <1>1, <1>3, <1>4 DEF IInv, TypeOK, objects, bounds, ghosts
<1>6. Progress' BY <1>1, <1>2, <1>3 DEF IInv, Progress, Saving
<1>7. MarkerTrue' /\ PrimaryTrue' /\ FallbackTrue'
  BY <1>1, <1>2, <1>3 DEF IInv, MarkerTrue, PrimaryTrue, FallbackTrue, Readable, Clearing, ghosts
<1>8. JournalTrue' BY <1>1, <1>2, <1>3 DEF JournalTrue, Readable
<1> QED BY <1>3, <1>5, <1>6, <1>7, <1>8 DEF IInv

LEMMA RenameTempIInv == ASSUME NEW s \in Sessions, IInv, RenameTemp(s) PROVE IInv'
<1> USE StorageAssumption
<1>1. /\ pc[s] = "rename" /\ pc' = [pc EXCEPT ![s] = "unmark"] /\ primary' = snap[s] /\ reset' \in BOOLEAN
      /\ UNCHANGED <<wal, baks, marker, lock, job, objects, snap, bounds, truths, shadows>>
  BY DEF RenameTemp, Goto
<1>2. /\ Exclusive' /\ Calls' /\ Snapshots' /\ pc'[s] = "unmark"
      /\ \A r \in Sessions \ {s} : pc'[r] = pc[r] /\ pc'[r] \notin Saving \cup Clearing
      /\ pc' \in [Sessions -> {"idle"} \cup Loading \cup Saving \cup Clearing]
  BY <1>1, HoldFrame DEF Written, Saving, Clearing
<1>3. snap[s] \in Inventories BY <1>1 DEF IInv, TypeOK, Snapshots, Written, Saving
<1>4. TypeOK' BY <1>1, <1>2, <1>3 DEF IInv, TypeOK, Files, objects, bounds
<1>5. Progress' BY <1>1, <1>2 DEF IInv, Progress, Saving
<1>6. MarkerTrue' BY <1>1, <1>2 DEF IInv, MarkerTrue, Clearing
<1>7. PrimaryTrue' /\ JournalTrue' BY <1>2 DEF PrimaryTrue, JournalTrue
<1>8. FallbackTrue' BY <1>1, <1>3 DEF FallbackTrue, Readable
<1> QED BY <1>2, <1>4, <1>5, <1>6, <1>7, <1>8 DEF IInv

LEMMA CleanupResetMarkerIInv == ASSUME NEW s \in Sessions, IInv, CleanupResetMarker(s) PROVE IInv'
<1> USE StorageAssumption
<1>1. /\ pc[s] = "unmark" /\ pc' = [pc EXCEPT ![s] = "unwal"] /\ marker' \in {FALSE, marker}
      /\ ops' = ops /\ damage' = damage /\ faults' \in 0..MaxFaults
      /\ UNCHANGED <<primary, wal, baks, lock, job, objects, snap, ghosts>>
  <2>1. Fault \/ UNCHANGED bounds BY DEF CleanupResetMarker
  <2>2. ops' = ops /\ damage' = damage /\ faults' \in 0..MaxFaults BY <2>1, BoundsType DEF IInv
  <2>3. marker' \in {FALSE, marker} BY DEF CleanupResetMarker
  <2> QED BY <2>2, <2>3 DEF CleanupResetMarker, Goto
<1>2. /\ Exclusive' /\ Calls' /\ Snapshots' /\ pc'[s] = "unwal"
      /\ \A r \in Sessions \ {s} : pc'[r] = pc[r] /\ pc'[r] \notin Saving \cup Clearing
      /\ pc' \in [Sessions -> {"idle"} \cup Loading \cup Saving \cup Clearing]
  BY <1>1, HoldFrame DEF Written, Saving, Clearing, ghosts
<1>3. primary = snap[s] /\ snap[s] \in Inventories
  BY <1>1 DEF IInv, TypeOK, Snapshots, Written, Saving, Progress
<1>4. TypeOK' BY <1>1, <1>2 DEF IInv, TypeOK, objects, ghosts
<1>5. Progress' BY <1>1, <1>2 DEF IInv, Progress, Saving
<1>6. MarkerTrue'
  <2>1. \A r \in Sessions : pc[r] \in Saving \cup Clearing <=> r = s
    BY <1>1, HolderOnly DEF IInv, Saving
  <2> QED BY <1>1, <2>1 DEF IInv, MarkerTrue, Clearing, ghosts
<1>7. PrimaryTrue' /\ JournalTrue' BY <1>2 DEF PrimaryTrue, JournalTrue
<1>8. FallbackTrue' BY <1>1, <1>3 DEF FallbackTrue, Readable
<1> QED BY <1>2, <1>4, <1>5, <1>6, <1>7, <1>8 DEF IInv

LEMMA ClearHoldIInv ==
  ASSUME NEW s \in Sessions, IInv, WriteMarker(s) \/ ClearPrimary(s) \/ ClearWal(s)
  PROVE  IInv'
<1> USE StorageAssumption
<1> DEFINE label == CASE pc[s] = "mark" -> "clearPrimary" [] pc[s] = "clearPrimary" -> "clearWal"
                      [] pc[s] = "clearWal" -> "clearBaks"
<1>0. /\ pc[s] \in {"mark", "clearPrimary", "clearWal"} /\ pc' = [pc EXCEPT ![s] = label]
      /\ marker' = TRUE /\ primary' \in {primary, None} /\ wal' \in {wal, None}
      /\ UNCHANGED <<baks, lock, job, objects, snap, bounds, ghosts>>
  BY DEF WriteMarker, ClearPrimary, ClearWal, Goto, IInv, Calls, Clearing, TypeOK
<1>1. label \in {"clearPrimary", "clearWal", "clearBaks"} BY <1>0
<1> HIDE DEF label
<1>2. /\ Exclusive' /\ Calls' /\ Snapshots' /\ pc'[s] = label
      /\ \A r \in Sessions \ {s} : pc'[r] = pc[r] /\ pc'[r] \notin Saving \cup Clearing
      /\ pc' \in [Sessions -> {"idle"} \cup Loading \cup Saving \cup Clearing]
  BY <1>0, <1>1, HoldFrame DEF Clearing, ghosts
<1>3. TypeOK' BY <1>0, <1>2 DEF IInv, TypeOK, Files, objects, bounds, ghosts
<1>4. Progress' BY <1>1, <1>2 DEF Progress, Saving
<1>5. MarkerTrue' BY <1>1, <1>2 DEF MarkerTrue, Clearing
<1>6. PrimaryTrue' /\ JournalTrue' /\ FallbackTrue' BY <1>0 DEF PrimaryTrue, JournalTrue, FallbackTrue
<1> QED BY <1>2, <1>3, <1>4, <1>5, <1>6 DEF IInv

-----------------------------------------------------------------------------
(* The ends of a call. *)

\* A call that is acknowledged: its effects are the only rightful pools from now on.
LEMMA AckFrame ==
  ASSUME IInv, NEW s \in Sessions, pc[s] \in Saving \cup Clearing, Leave(s),
         \A r \in Sessions \ {s} : copy'[r] = copy[r] /\ base'[r] = base[r],
         copy'[s] = None <=> base'[s] = None
  PROVE  /\ Exclusive' /\ Calls' /\ Snapshots' /\ Progress'
         /\ \A r \in Sessions : pc'[r] \notin Saving \cup Clearing
<1> USE StorageAssumption DEF IInv
<1>1. /\ pc'[s] = "idle" /\ lock' = None
      /\ \A r \in Sessions \ {s} : /\ pc'[r] = pc[r] /\ pc'[r] \notin Saving \cup Clearing
                                   /\ job'[r] = job[r] /\ snap'[r] = snap[r]
  BY HolderOnly DEF Leave, Goto, TypeOK, Exclusive
<1>2. \A r \in Sessions : pc'[r] \notin Saving \cup Clearing BY <1>1 DEF Saving, Clearing
<1>3. Exclusive' BY <1>1, <1>2 DEF Exclusive
<1>4. Calls' BY <1>1, <1>2 DEF Calls, Loading, Saving, Clearing
<1>5. Snapshots' /\ Progress' BY <1>2 DEF Snapshots, Progress, Written, Saving
<1> QED BY <1>2, <1>3, <1>4, <1>5

LEMMA CleanupWalIInv == ASSUME NEW s \in Sessions, IInv, CleanupWal(s) PROVE IInv'
<1> USE StorageAssumption
<1>1. /\ pc[s] = "unwal" /\ wal' \in {None, wal} /\ Register(s, snap[s], FALSE) /\ truths' = Effect(s, truths)
      /\ shadows' = Effect(s, shadows) \cup (IF marker THEN {{}} ELSE {}) /\ Leave(s)
      /\ ops' = ops /\ damage' = damage /\ faults' \in 0..MaxFaults
      /\ UNCHANGED <<primary, baks, marker, reset>>
  <2>1. Fault \/ UNCHANGED bounds BY DEF CleanupWal
  <2>2. ops' = ops /\ damage' = damage /\ faults' \in 0..MaxFaults BY <2>1, BoundsType DEF IInv
  <2> QED BY <2>2 DEF CleanupWal
<1>2. /\ primary = snap[s] /\ wal = snap[s] /\ snap[s] \in Inventories
      /\ snap[s] \in Allowed' /\ (marker => {} \in Allowed')
  <2>1. /\ primary = snap[s] /\ wal = snap[s] /\ snap[s] \in Inventories
    BY <1>1 DEF IInv, TypeOK, Snapshots, Written, Saving, Progress
  <2>2. snap[s] \in Effect(s, Allowed) BY <1>1, SnapIsEffect
  <2>3. Effect(s, Allowed) = Effect(s, truths) \cup Effect(s, shadows) BY EffectUnion
  <2>4. Effect(s, Allowed) \subseteq Allowed' BY <1>1, <2>3
  <2> QED BY <1>1, <2>1, <2>2, <2>4
<1>3. truths' \subseteq Inventories /\ truths' # {} /\ shadows' \subseteq Inventories
  <2>1. truths \in SUBSET Inventories /\ shadows \in SUBSET Inventories /\ truths # {} BY DEF IInv, TypeOK
  <2>2. Effect(s, truths) \subseteq Inventories /\ Effect(s, shadows) \subseteq Inventories BY <2>1, EffectType
  <2>3. Effect(s, truths) # {} BY <1>1, <2>1 DEF Effect, Saving
  <2>4. {} \in Inventories BY DEF Inventories
  <2> QED BY <1>1, <2>2, <2>3, <2>4
<1>4. TypeOK'
  <2>1. wal' \in Files BY <1>1 DEF IInv, TypeOK, Files
  <2> QED BY <1>1, <1>2, <1>3, <2>1, LeaveType, RegisterType DEF IInv, TypeOK
<1>5. /\ Exclusive' /\ Calls' /\ Snapshots' /\ Progress'
  BY <1>1, <1>2, AckFrame, RegisterType DEF IInv, Saving
<1>6. MarkerTrue' /\ PrimaryTrue' /\ JournalTrue' /\ FallbackTrue'
  BY <1>1, <1>2 DEF MarkerTrue, PrimaryTrue, JournalTrue, FallbackTrue, Readable
<1> QED BY <1>4, <1>5, <1>6 DEF IInv

LEMMA ClearBackupsIInv == ASSUME NEW s \in Sessions, IInv, ClearBackups(s) PROVE IInv'
<1> USE StorageAssumption
<1>1. /\ pc[s] = "clearBaks" /\ truths' = Effect(s, truths) /\ shadows' = {} /\ Leave(s) /\ reset' = TRUE
      /\ ops' = ops /\ damage' = damage /\ faults' \in 0..MaxFaults
      /\ UNCHANGED <<primary, wal, marker, objects>>
  <2>1. Fault \/ UNCHANGED bounds BY DEF ClearBackups
  <2>2. ops' = ops /\ damage' = damage /\ faults' \in 0..MaxFaults BY <2>1, BoundsType DEF IInv
  <2> QED BY <2>2 DEF ClearBackups
<1>2. baks' \in [1..Depth -> Files]
  <2>1. None \in Files BY DEF Files
  <2>2. CASE baks' = [i \in 1..Depth |-> None] BY <2>1, <2>2
  <2>3. ASSUME NEW i \in 1..Depth, baks' = [j \in 1..Depth |-> IF j = i THEN baks[j] ELSE None]
        PROVE  baks' \in [1..Depth -> Files]
    BY <2>1, <2>3 DEF IInv, TypeOK
  <2> QED BY <2>2, <2>3 DEF ClearBackups
<1>3. marker /\ truths' = {{}} /\ shadows' = {} BY <1>1 DEF IInv, TypeOK, Calls, Effect, Saving, Clearing
<1>4. TypeOK'
  <2>1. truths' \subseteq Inventories /\ truths' # {} /\ shadows' \subseteq Inventories BY <1>3 DEF Inventories
  <2> QED BY <1>1, <1>2, <2>1, LeaveType DEF IInv, TypeOK, objects
<1>5. Exclusive' /\ Calls' /\ Snapshots' /\ Progress'
  BY <1>1, AckFrame DEF IInv, Calls, Clearing, objects
<1>6. MarkerTrue' /\ PrimaryTrue' /\ JournalTrue' /\ FallbackTrue'
  BY <1>1, <1>3 DEF MarkerTrue, PrimaryTrue, JournalTrue, FallbackTrue
<1> QED BY <1>4, <1>5, <1>6 DEF IInv

LEMMA EndIInv ==
  ASSUME NEW s \in Sessions, IInv, SaveFails(s) \/ ClearFails(s) \/ Crash(s)
  PROVE  IInv'
<1> USE StorageAssumption
<1>1. /\ Leave(s) /\ UNCHANGED <<disk, reset>> /\ MayTakeEffect(s)
      /\ ops' = ops /\ damage' = damage /\ faults' \in 0..MaxFaults
  <2>1. Fault \/ UNCHANGED bounds BY DEF SaveFails, ClearFails, Crash
  <2>2. ops' = ops /\ damage' = damage /\ faults' \in 0..MaxFaults BY <2>1, BoundsType DEF IInv
  <2> QED BY <2>2 DEF SaveFails, ClearFails, Crash
<1>2. /\ {copy, base}' \subseteq [Sessions -> Inventories \cup {None}] /\ fresh' \subseteq Sessions
      /\ \A r \in Sessions \ {s} : copy'[r] = copy[r] /\ base'[r] = base[r]
      /\ copy'[s] = None <=> base'[s] = None
  <2>1. CASE UNCHANGED objects BY <2>1 DEF objects, IInv, TypeOK, Calls
  <2>2. ASSUME NEW v \in Inventories \cup {None}, Register(s, v, FALSE)
        PROVE  /\ {copy, base}' \subseteq [Sessions -> Inventories \cup {None}] /\ fresh' \subseteq Sessions
               /\ \A r \in Sessions \ {s} : copy'[r] = copy[r] /\ base'[r] = base[r]
               /\ copy'[s] = None <=> base'[s] = None
    BY <2>2, RegisterType DEF IInv
  <2>3. snap[s] \in Inventories \cup {None} BY DEF IInv, TypeOK
  <2> QED BY <2>1, <2>2, <2>3 DEF SaveFails, ClearFails, Crash
<1>3. truths' \subseteq Inventories /\ truths' # {} /\ shadows' \subseteq Inventories
  <2>1. truths \in SUBSET Inventories /\ shadows \in SUBSET Inventories /\ truths # {} BY DEF IInv, TypeOK
  <2>2. Effect(s, truths) \subseteq Inventories /\ Effect(s, shadows) \subseteq Inventories BY <2>1, EffectType
  <2> QED BY <1>1, <2>1, <2>2 DEF MayTakeEffect
<1>4. TypeOK' BY <1>1, <1>2, <1>3, LeaveType DEF IInv, TypeOK, disk
<1> QED BY <1>1, <1>2, <1>4, AbandonIInv

LEMMA DamageIInv == ASSUME IInv, DamagePrimary PROVE IInv'
<1> USE StorageAssumption DEF IInv
<1> DEFINE left == ({wal, {}} \cup {baks[i] : i \in 1..Depth}) \ {None, Torn}
<1>1. /\ lock = None /\ primary' \in {None, Torn} /\ truths' = truths \cup left
      /\ damage < MaxDamage /\ damage' = damage + 1 /\ reset' = FALSE
      /\ UNCHANGED <<wal, baks, marker, lock, pc, job, objects, snap, ops, faults, shadows>>
  BY DEF DamagePrimary
<1>2. {} \in Inventories BY DEF Inventories
<1>3. left \subseteq Inventories
  <2>1. wal \in Files /\ \A i \in 1..Depth : baks[i] \in Files BY DEF TypeOK
  <2> HIDE DEF IInv
  <2>2. \A v \in left : (v \in Files /\ v \notin {None, Torn}) \/ v = {} BY <2>1
  <2> QED BY <1>2, <2>2 DEF Files
<1>4. {} \in left /\ \A i \in 1..Depth : Readable(baks[i]) => baks[i] \in left BY <1>2 DEF Readable
<1> HIDE DEF left
<1>5. TypeOK'
  <2>1. damage' \in 0..MaxDamage BY <1>1 DEF TypeOK
  <2> QED BY <1>1, <1>3, <2>1 DEF TypeOK, Files, objects
<1>6. \A s \in Sessions : pc[s] \notin Saving \cup Clearing BY <1>1 DEF Exclusive
<1>7. Exclusive' /\ Calls' BY <1>1 DEF Exclusive, Calls, objects
<1>8. Snapshots' /\ Progress' BY <1>1, <1>6 DEF Snapshots, Progress, Written, Saving
<1>9. MarkerTrue' /\ PrimaryTrue' /\ JournalTrue' /\ FallbackTrue'
  BY <1>1, <1>4 DEF MarkerTrue, PrimaryTrue, JournalTrue, FallbackTrue, Readable
<1> QED BY <1>5, <1>7, <1>8, <1>9

-----------------------------------------------------------------------------
(* The theorems. *)

LEMMA NextIInv == IInv /\ [Next]_vars => IInv'
<1> SUFFICES ASSUME IInv, [Next]_vars PROVE IInv' OBVIOUS
<1>1. CASE UNCHANGED vars
  BY <1>1 DEF vars, disk, objects, bounds, ghosts, IInv, TypeOK, Exclusive, Calls, Snapshots, Progress, MarkerTrue,
     PrimaryTrue, JournalTrue, FallbackTrue, Readable, Edited
<1>2. ASSUME NEW s \in Sessions, LoadStep(s) PROVE IInv'
  BY <1>2, LoadPrimaryIInv, LoadIInv, TakeIInv DEF LoadStep
<1>3. ASSUME NEW s \in Sessions, SaveStep(s) PROVE IInv'
  BY <1>3, EditIInv, TakeIInv, MergeIInv, RotateIInv, JournalIInv, RenameTempIInv, CleanupResetMarkerIInv,
     CleanupWalIInv, EndIInv DEF SaveStep
<1>4. ASSUME NEW s \in Sessions, ClearStep(s) PROVE IInv'
  BY <1>4, TakeIInv, ClearHoldIInv, ClearBackupsIInv, EndIInv DEF ClearStep
<1> QED BY <1>1, <1>2, <1>3, <1>4, EndIInv, DamageIInv DEF Next

\* The invariant holds for ever.
LEMMA Inductive == Spec => []IInv
<1> QED BY InitIInv, NextIInv, PTL DEF Spec

\* No file, object or counter ever has a value outside of its type.
THEOREM TypeCorrect == Spec => []TypeOK
<1>1. IInv => TypeOK BY DEF IInv
<1> QED BY <1>1, Inductive, PTL

\* Among the slots that can be read there is a newest one.
LEMMA NewestSlot ==
  ASSUME NEW S \in SUBSET Nat, S # {}
  PROVE  \E i \in S : \A j \in S : i <= j
<1> DEFINE R == OpToRel(<, Nat)
<1>1. IsWellFoundedOn(R, Nat) BY NatLessThanWellFounded
<1>2. \A i, j \in Nat : i < j => <<i, j>> \in R BY DEF OpToRel
<1> HIDE DEF R
<1>3. PICK i \in S : \A j \in S : ~(<<j, i>> \in R) BY <1>1, WFMin
<1>4. ASSUME NEW j \in S PROVE i <= j
  <2>1. i \in Nat /\ j \in Nat /\ ~(j < i) BY <1>2, <1>3
  <2> QED BY <2>1
<1> QED BY <1>4

\* Pools are hidden only after a failing call.
Shadowed ==
  /\ shadows # {} => faults > 0
  /\ \A s \in Sessions : pc[s] = "unwal" /\ marker => faults > 0

LEMMA NextShadowed == IInv /\ Shadowed /\ [Next]_vars => Shadowed'
<1> SUFFICES ASSUME IInv, Shadowed, [Next]_vars PROVE Shadowed' OBVIOUS
<1> USE StorageAssumption
<1>0. faults \in Nat BY DEF IInv, TypeOK
<1>1. ASSUME faults' \in {faults, faults + 1}, shadows' # {} => shadows # {},
             \A s \in Sessions : pc'[s] = "unwal" /\ marker' => pc[s] = "unwal" /\ marker
      PROVE  Shadowed'
  BY <1>0, <1>1 DEF Shadowed
<1>2. CASE UNCHANGED vars BY <1>1, <1>2 DEF vars, disk, bounds, ghosts
<1>3. ASSUME NEW s \in Sessions, LoadStep(s) \/ Edit(s) \/ Save(s) \/ Merge(s) \/ Rotate(s) \/ Clear(s)
                \/ TruncateJournal(s) \/ WriteJournal(s) \/ RenameTemp(s) \/ ClearPrimary(s) \/ ClearWal(s)
      PROVE  Shadowed'
  <2>1. /\ faults' = faults /\ shadows' = shadows /\ marker' = marker
    BY <1>3 DEF LoadStep, LoadPrimary, LoadReturn, LoadReset, TryJournal, ReadJournal, UseJournal, ReadBackup,
       Recover, Edit, Save, Merge, Rotate, Clear, TruncateJournal, WriteJournal, RenameTemp, ClearPrimary,
       ClearWal, disk, bounds, ghosts
  <2>2. pc' = pc \/ \E label \in {"idle"} \cup Loading \cup Clearing \cup (Saving \ {"unwal"}) : pc' = [pc EXCEPT ![s] = label]
    BY <1>3 DEF LoadStep, LoadPrimary, LoadReturn, LoadReset, TryJournal, ReadJournal, UseJournal, ReadBackup,
       Recover, Edit, Save, Merge, Rotate, Clear, TruncateJournal, WriteJournal, RenameTemp, ClearPrimary,
       ClearWal, Begin, Goto, Leave, Loading, Saving, Clearing
  <2>3. \A r \in Sessions : pc'[r] = "unwal" => pc[r] = "unwal"
    BY <2>2 DEF IInv, TypeOK, Loading, Saving, Clearing
  <2> QED BY <1>1, <2>1, <2>3
<1>4. ASSUME NEW s \in Sessions, WriteMarker(s) PROVE Shadowed'
  <2>1. pc[s] = "mark" /\ pc' = [pc EXCEPT ![s] = "clearPrimary"] /\ faults' = faults /\ shadows' = shadows
    BY <1>4 DEF WriteMarker, Goto, bounds, ghosts
  <2>2. \A r \in Sessions : pc[r] # "unwal" BY <2>1, HolderOnly DEF IInv, Saving, Clearing
  <2> QED BY <1>1, <2>1, <2>2 DEF IInv, TypeOK
<1>5. ASSUME NEW s \in Sessions, CleanupResetMarker(s) PROVE Shadowed'
  <2>1. shadows' = shadows BY <1>5 DEF CleanupResetMarker, ghosts
  <2>2. CASE Fault BY <1>0, <2>1, <2>2 DEF Fault, Shadowed
  <2>3. CASE ~Fault
    <3>1. marker' = FALSE /\ faults' = faults BY <1>5, <2>3 DEF CleanupResetMarker, bounds
    <3> QED BY <1>1, <2>1, <3>1
  <2> QED BY <2>2, <2>3
<1>6. ASSUME NEW s \in Sessions, CleanupWal(s) PROVE Shadowed'
  <2>1. pc[s] = "unwal" /\ shadows' = Effect(s, shadows) \cup (IF marker THEN {{}} ELSE {}) /\ Leave(s)
    BY <1>6 DEF CleanupWal
  <2>2. faults' \in {faults, faults + 1} BY <1>6 DEF CleanupWal, Fault, bounds
  <2>3. shadows' # {} => faults > 0 BY <2>1 DEF Effect, Shadowed
  <2>4. \A r \in Sessions : pc'[r] # "unwal"
    <3>1. pc' = [pc EXCEPT ![s] = "idle"] BY <2>1, LeaveType DEF IInv
    <3>2. \A r \in Sessions : r # s => pc[r] # "unwal" BY <2>1, HolderOnly DEF IInv, Saving
    <3> QED BY <3>1, <3>2 DEF IInv, TypeOK
  <2> QED BY <1>0, <2>2, <2>3, <2>4 DEF Shadowed
<1>7. ASSUME NEW s \in Sessions, SaveFails(s) \/ ClearFails(s) \/ Crash(s) \/ ClearBackups(s) PROVE Shadowed'
  <2>1. faults' \in {faults, faults + 1} /\ marker' = marker /\ Leave(s)
    BY <1>7 DEF SaveFails, ClearFails, Crash, ClearBackups, Fault, bounds, disk
  <2>2. shadows' # {} => shadows # {} BY <1>7 DEF SaveFails, ClearFails, Crash, ClearBackups, MayTakeEffect, Effect
  <2>3. \A r \in Sessions : pc'[r] = "unwal" => pc[r] = "unwal" BY <2>1, LeaveType DEF IInv, TypeOK
  <2> QED BY <1>1, <2>1, <2>2, <2>3
<1>8. CASE DamagePrimary BY <1>1, <1>8 DEF DamagePrimary
<1> QED BY <1>2, <1>3, <1>4, <1>5, <1>6, <1>7, <1>8 DEF Next, SaveStep, ClearStep

LEMMA ShadowedAlways == Spec => []Shadowed
<1>1. Init => Shadowed BY DEF Init, Shadowed
<1>2. Init => IInv BY InitIInv
<1>3. IInv /\ [Next]_vars => IInv' BY NextIInv
<1> QED BY <1>1, <1>2, <1>3, NextShadowed, PTL DEF Spec

\* Whatever crashes, failing calls, concurrent sessions and damage do, the pool that a load finds is
\* a rightful one: the acknowledged pool with the edits of the saves since then (saveAccounts merges
\* into what is on disk), or what the call under way makes of it.  Where it is not, the clean-up of
\* the reset marker failed and hides an acknowledged save (cleanupResetMarker swallows the error).
THEOREM DurableAlways == Spec => []Durable
<1>1. ASSUME IInv PROVE Loadable \in Allowed \cup UNION {Effect(s, Allowed) : s \in Sessions}
  <2> USE StorageAssumption, <1>1
  <2> DEFINE ok == {i \in 1..Depth : Readable(baks[i])}
  <2>1. CASE marker
    <3>1. \A s \in Sessions : pc[s] \in Clearing \ {"mark"} => Effect(s, Allowed) = {{}}
      BY DEF Effect, Saving, Clearing, IInv, TypeOK
    <3>2. Loadable = {} BY <2>1 DEF Loadable
    <3> QED BY <2>1, <3>1, <3>2 DEF IInv, MarkerTrue
  <2>2. CASE ~marker /\ Readable(primary)
    <3>1. Loadable = primary BY <2>2 DEF Loadable
    <3>2. ASSUME NEW s \in Sessions, pc[s] \in {"unmark", "unwal"} PROVE primary \in Effect(s, Allowed)
      BY <3>2, SnapIsEffect DEF IInv, Progress
    <3> QED BY <2>2, <3>1, <3>2 DEF IInv, PrimaryTrue
  <2>3. CASE ~marker /\ ~Readable(primary) /\ Readable(wal)
    <3>1. Loadable = wal BY <2>3 DEF Loadable
    <3>2. ASSUME NEW s \in Sessions, pc[s] \in {"rename", "unmark", "unwal"} PROVE wal \in Effect(s, Allowed)
      BY <3>2, SnapIsEffect DEF IInv, Progress
    <3> QED BY <2>3, <3>1, <3>2 DEF IInv, JournalTrue
  <2>4. CASE ~marker /\ ~Readable(primary) /\ ~Readable(wal) /\ ok = {}
    <3>1. Loadable = {} BY <2>4 DEF Loadable
    <3> QED BY <2>4, <3>1 DEF IInv, FallbackTrue
  <2>5. CASE ~marker /\ ~Readable(primary) /\ ~Readable(wal) /\ ok # {}
    <3> DEFINE newest == CHOOSE i \in ok : \A j \in ok : i <= j
    <3>1. ok \in SUBSET Nat OBVIOUS
    <3> HIDE DEF ok
    <3>2. \E i \in ok : \A j \in ok : i <= j BY <2>5, <3>1, NewestSlot
    <3>3. newest \in ok BY <3>2
    <3> USE DEF ok
    <3>4. Loadable = baks[newest] BY <2>5 DEF Loadable
    <3> HIDE DEF newest
    <3> QED BY <2>5, <3>3, <3>4 DEF IInv, FallbackTrue
  <2> QED BY <2>1, <2>2, <2>3, <2>4, <2>5
<1>2. ASSUME IInv, Shadowed PROVE Durable
  <2>1. Loadable \in Allowed \cup UNION {Effect(s, Allowed) : s \in Sessions} BY <1>1, <1>2
  <2>2. \A s \in Sessions : Effect(s, Allowed) = Effect(s, truths) \cup Effect(s, shadows) BY EffectUnion
  <2>3. \A s \in Sessions : Effect(s, shadows) # {} => shadows # {} BY DEF Effect
  <2> QED BY <1>2, <2>1, <2>2, <2>3 DEF Durable, Shadowed
<1> QED BY <1>2, Inductive, ShadowedAlways, PTL

\* A journal left behind by a save (cleanupWal is best effort) is never behind the acknowledged pool
\* unless a reset marker hides it, so loadAccountsFromJournal never undoes a save.
THEOREM JournalCurrent == Spec => []JournalNotStale
<1>1. IInv => JournalNotStale
  BY StorageAssumption DEF IInv, JournalNotStale, JournalTrue, Exclusive, Saving, Readable
<1> QED BY <1>1, Inductive, PTL

=============================================================================

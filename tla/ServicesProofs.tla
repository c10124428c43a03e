--------------------------- MODULE ServicesProofs ---------------------------
(***************************************************************************)
(* Safety of services that MCServices runs, for all values of their        *)
(* constants: the reset credits and their receipts, the automatic checks   *)
(* of routers, and the managers that a running proxy replaces.  Each has   *)
(* an inductive invariant of its own.                                      *)
(***************************************************************************)
EXTENDS AutoChecks, ResetCredits, CredentialSwap, WellFoundedInduction, TLAPS

-----------------------------------------------------------------------------
(* Reset credits. *)

Positions == {"idle", "look", "want", "in", "read", "pend", "consume", "reread", "set", "fetch", "store", "confirm"}
Inside == {"in", "read", "pend", "consume", "reread", "confirm"}
Keys == Scopes \cup {"none"}
Answers == {"unread", "failed", "exhausted", "allowed"}

FileType == [policy : {"manual", "last-resort"}, pending : [key : Keys, idem : Nat], redeemedAgo : Nat,
             checkedAgo : Nat, generation : Nat, receipts : [Scopes -> Nat], allowed : SUBSET Scopes]
CallerType == [pc : Positions, key : Keys, seen : [Scopes -> Answers], evidence : SUBSET Scopes,
               grew : BOOLEAN, pass : Nat]

ResetTypeOK ==
  /\ resetFile \in FileType
  /\ backend \in [credits : [Scopes -> Int], exhausted : SUBSET Scopes, redeemed : SUBSET Nat]
  /\ resetLock \in SUBSET Redeemers
  /\ caller \in [Redeemers -> CallerType]
  /\ watched \in [attempts : Nat, finished : SUBSET Nat, faults : Nat, changes : Nat]

\* Whoever works on the file holds the lock alone.
LockHeld == \A a \in Redeemers : caller[a].pc \in Inside => resetLock = {a}

\* Keys are numbered upwards from 1; the attempt under way, and what was redeemed
\* without a receipt, is the pending one.
AttemptKnown ==
  /\ resetFile.pending = Nothing \/ resetFile.pending.idem \in 1..watched.attempts
  /\ backend.redeemed \subseteq 1..watched.attempts
  /\ SpentIsOnRecord
  /\ \A a \in Redeemers : caller[a].pc \in {"consume", "reread"} => resetFile.pending # Nothing

\* A proxy that reads, and then spends, does so under the policy it found under
\* the lock, with no other attempt open.
AloneChecked ==
  \A p \in Proxies :
    /\ caller[p].pc \in {"read", "pend"} => resetFile.pending = Nothing
    /\ caller[p].pc \in {"read", "pend", "consume"} => resetFile.policy = "last-resort"
    /\ caller[p].pc \in {"pend", "consume"} => AllSpent(caller[p].seen)
    /\ caller[p].pc = "consume" => backend.redeemed \subseteq watched.finished
    /\ caller[p].pc # "confirm"

ReceiptsNumbered == \A k \in Scopes : resetFile.receipts[k] <= resetFile.generation

ResetInv == ResetTypeOK /\ LockHeld /\ AttemptKnown /\ AloneChecked /\ ReceiptsNumbered

LEMMA ResetInitInv == ResetInit => ResetInv
<1> SUFFICES ASSUME ResetInit PROVE ResetInv
  OBVIOUS
<1> USE DEF Redeemers, Nothing, Idle
<1>1. ResetTypeOK
  BY ResetAssumption DEF ResetInit, ResetTypeOK, FileType, CallerType, Keys, Answers, Positions
<1>2. LockHeld /\ AloneChecked
  BY DEF ResetInit, LockHeld, AloneChecked, Inside
<1>3. AttemptKnown /\ ReceiptsNumbered
  BY DEF ResetInit, AttemptKnown, SpentIsOnRecord, ReceiptsNumbered
<1> QED BY <1>1, <1>2, <1>3 DEF ResetInv

\* A step that changes only what its caller knows and where it is outside the file.
LEMMA Outside ==
  ASSUME ResetInv, NEW a \in Redeemers, NEW new \in CallerType,
         caller' = [caller EXCEPT ![a] = new], new.pc \notin Inside,
         resetLock' = resetLock \ {a} \/ UNCHANGED resetLock,
         UNCHANGED <<resetFile, backend>>, watched' \in [attempts : {watched.attempts}, finished : {watched.finished}, faults : Nat, changes : Nat]
  PROVE  ResetInv'
<1> USE DEF ResetInv, ResetTypeOK
<1>0. watched'.attempts = watched.attempts /\ watched'.finished = watched.finished
  OBVIOUS
<1>1. ResetTypeOK'
  OBVIOUS
<1>2. LockHeld'
  <2> SUFFICES ASSUME NEW b \in Redeemers, caller'[b].pc \in Inside PROVE resetLock' = {b}
    BY DEF LockHeld
  <2>1. b # a /\ caller'[b] = caller[b]
    OBVIOUS
  <2>2. resetLock = {b}
    BY <2>1 DEF LockHeld
  <2> QED BY <2>1, <2>2
<1>3. AttemptKnown'
  BY <1>0 DEF AttemptKnown, SpentIsOnRecord, Inside
<1>4. AloneChecked'
  BY <1>0 DEF AloneChecked, Inside, Redeemers, AllSpent
<1>5. ReceiptsNumbered'
  BY DEF ReceiptsNumbered
<1> QED BY <1>1, <1>2, <1>3, <1>4, <1>5

\* A step of the only caller that works on the file, or begins to.
LEMMA Working ==
  ASSUME ResetInv, NEW a \in Redeemers,
         \A b \in Redeemers : b # a => caller[b].pc \notin Inside,
         caller' \in [Redeemers -> CallerType],
         \A b \in Redeemers : b # a => caller'[b].pc = caller[b].pc,
         resetFile' \in FileType, UNCHANGED backend,
         caller'[a].pc \in Inside => resetLock' = {a},
         resetLock' \in SUBSET Redeemers,
         watched' \in [attempts : Nat, finished : SUBSET Nat, faults : Nat, changes : Nat],
         watched.attempts <= watched'.attempts,
         resetFile'.pending = Nothing \/ resetFile'.pending.idem \in 1..watched'.attempts,
         SpentIsOnRecord',
         caller'[a].pc \in {"consume", "reread"} => resetFile'.pending # Nothing,
         a \in Proxies =>
           /\ caller'[a].pc \in {"read", "pend"} => resetFile'.pending = Nothing
           /\ caller'[a].pc \in {"read", "pend", "consume"} => resetFile'.policy = "last-resort"
           /\ caller'[a].pc \in {"pend", "consume"} => AllSpent(caller'[a].seen)
           /\ caller'[a].pc = "consume" => backend.redeemed \subseteq watched'.finished
           /\ caller'[a].pc # "confirm",
         ReceiptsNumbered'
  PROVE  ResetInv'
<1> USE DEF ResetInv, ResetTypeOK
<1>1. ResetTypeOK'
  OBVIOUS
<1>2. LockHeld'
  BY DEF LockHeld
<1>3. AttemptKnown'
  <2>1. backend'.redeemed \subseteq 1..watched'.attempts
    BY DEF AttemptKnown
  <2>2. \A b \in Redeemers : caller'[b].pc \in {"consume", "reread"} => resetFile'.pending # Nothing
    BY DEF Inside
  <2> QED BY <2>1, <2>2 DEF AttemptKnown
<1>4. AloneChecked'
  <2> SUFFICES ASSUME NEW p \in Proxies, p # a
      PROVE /\ caller'[p].pc \notin {"read", "pend", "consume", "confirm"}
    BY DEF AloneChecked
  <2> QED BY DEF AloneChecked, Inside, Redeemers
<1> QED BY <1>1, <1>2, <1>3, <1>4

LEMMA AloneInside ==
  ASSUME ResetInv, NEW a \in Redeemers, resetLock = {} \/ caller[a].pc \in Inside
  PROVE  \A b \in Redeemers : b # a => caller[b].pc \notin Inside
BY DEF ResetInv, LockHeld

LEMMA ReadingsKnown == ASSUME NEW k PROVE Reading(k) \subseteq Answers
BY DEF Reading, Answers

LEMMA ResetProxySteps ==
  ASSUME ResetInv, NEW p \in Proxies,
         BeginCheck(p) \/ JoinCheck(p) \/ LookPolicy(p) \/ StartReads(p) \/ ReadScope(p) \/ Decide(p)
  PROVE  ResetInv'
<1>0. p \in Redeemers /\ p \notin Users
  BY ResetAssumption DEF Redeemers
<1> USE <1>0
<1>i. ResetTypeOK /\ Idle \in CallerType /\ watched \in [attempts : {watched.attempts}, finished : {watched.finished}, faults : Nat, changes : Nat]
  BY DEF ResetInv, ResetTypeOK, Idle, CallerType, Keys, Answers, Positions
<1>1. CASE BeginCheck(p)
  <2>1. PICK found \in SUBSET resetFile.allowed :
          caller' = [caller EXCEPT ![p] = [Idle EXCEPT !.pc = "look", !.evidence = found, !.pass = 1]]
    BY <1>1 DEF BeginCheck
  <2>2. [Idle EXCEPT !.pc = "look", !.evidence = found, !.pass = 1] \in CallerType
    BY <1>i DEF Idle, CallerType, Positions, ResetTypeOK, FileType
  <2> QED BY <1>1, <1>i, <2>1, <2>2, Outside DEF BeginCheck, Inside, Idle
<1>2. CASE JoinCheck(p)
  <2>1. PICK k \in resetFile.allowed \ caller[p].evidence :
          caller' = [caller EXCEPT ![p].evidence = @ \cup {k}, ![p].grew = TRUE]
    BY <1>2 DEF JoinCheck
  <2>2. k \in Scopes
    BY <1>i DEF ResetTypeOK, FileType
  <2>3. caller' \in [Redeemers -> CallerType]
    BY <2>1, <2>2, <1>i DEF ResetTypeOK, CallerType
  <2>4. \A b \in Redeemers : caller'[b].pc = caller[b].pc /\ caller'[b].seen = caller[b].seen
    BY <2>1, <1>i DEF ResetTypeOK, CallerType
  <2>5. UNCHANGED <<resetFile, backend, resetLock, watched>>
    BY <1>2 DEF JoinCheck
  <2>6. LockHeld' /\ AttemptKnown' /\ ReceiptsNumbered'
    BY <2>4, <2>5 DEF ResetInv, LockHeld, AttemptKnown, SpentIsOnRecord, ReceiptsNumbered
  <2>7. AloneChecked'
    BY <2>4, <2>5 DEF ResetInv, AloneChecked, AllSpent, Redeemers
  <2> QED BY <2>3, <2>5, <2>6, <2>7 DEF ResetInv, ResetTypeOK
<1> DEFINE again == [Idle EXCEPT !.pc = "look", !.evidence = caller[p].evidence, !.pass = caller[p].pass + 1]
           new == IF caller[p].grew /\ caller[p].pass < MaxPasses THEN again ELSE Idle
<1>a. new \in CallerType /\ new.pc \in {"look", "idle"}
  <2>1. again \in CallerType /\ again.pc = "look"
    <3>1. caller[p].evidence \in SUBSET Scopes /\ caller[p].pass + 1 \in Nat
      BY <1>i DEF CallerType, ResetTypeOK
    <3> QED BY <3>1, <1>i DEF Idle, CallerType, Positions
  <2>2. Idle.pc = "idle"
    BY DEF Idle
  <2> QED BY <2>1, <2>2, <1>i
<1>b. EndsPass(p) => caller' = [caller EXCEPT ![p] = new] /\ resetLock' = resetLock \ {p}
  BY DEF EndsPass
<1> HIDE DEF new, again
<1>3. CASE LookPolicy(p)
  <2>1. CASE resetFile.policy = "last-resort"
    <3>1. caller' = [caller EXCEPT ![p] = [caller[p] EXCEPT !.pc = "want"]]
      BY <1>3, <2>1 DEF LookPolicy, Goes
    <3>2. [caller[p] EXCEPT !.pc = "want"] \in CallerType /\ [caller[p] EXCEPT !.pc = "want"].pc = "want"
      BY <1>i DEF ResetTypeOK, CallerType, Positions
    <3> QED BY <1>3, <2>1, <1>i, <3>1, <3>2, Outside DEF LookPolicy, Inside
  <2>2. CASE resetFile.policy # "last-resort"
    BY <1>3, <2>2, <1>i, <1>a, <1>b, Outside DEF LookPolicy, Inside
  <2> QED BY <2>1, <2>2
<1>4. CASE StartReads(p)
  <2>0. At(p, "in") /\ UNCHANGED <<backend, watched>>
    BY <1>4 DEF StartReads
  <2>1. CASE MaySpendAlone(p)
    <3>1. /\ resetFile' = [resetFile EXCEPT !.checkedAgo = 0]
          /\ caller' = [a \in Redeemers |-> [caller[a] EXCEPT !.evidence = {}, !.pc = IF a = p THEN "read" ELSE @]]
          /\ UNCHANGED resetLock
      BY <1>4, <2>1 DEF StartReads
    <3>2. caller' \in [Redeemers -> CallerType]
      BY <3>1, <1>i DEF ResetTypeOK, CallerType, Positions
    <3>3. caller'[p].pc = "read" /\ \A b \in Redeemers : b # p => caller'[b].pc = caller[b].pc
      BY <3>1, <1>i DEF ResetTypeOK, CallerType
    <3>4. resetFile' \in FileType /\ resetFile'.pending = resetFile.pending /\ resetFile'.policy = resetFile.policy
          /\ resetFile'.receipts = resetFile.receipts /\ resetFile'.generation = resetFile.generation
      BY <3>1, <1>i DEF ResetTypeOK, FileType
    <3>5. resetFile.policy = "last-resort" /\ resetFile.pending = Nothing
      BY <2>1 DEF MaySpendAlone
    <3>6. resetLock' = {p}
      BY <2>0, <3>1 DEF ResetInv, LockHeld, Inside, At
    <3>7. SpentIsOnRecord' /\ ReceiptsNumbered'
      BY <2>0, <3>4 DEF ResetInv, AttemptKnown, SpentIsOnRecord, ReceiptsNumbered
    <3>8. \A b \in Redeemers : b # p => caller[b].pc \notin Inside
      BY <2>0, AloneInside DEF At, Inside
    <3>9. watched' \in [attempts : Nat, finished : SUBSET Nat, faults : Nat, changes : Nat] /\ watched.attempts <= watched'.attempts
      BY <2>0, <1>i DEF ResetTypeOK
    <3> QED BY <2>0, <3>2, <3>3, <3>4, <3>5, <3>6, <3>7, <3>8, <3>9, Working
  <2>2. CASE ~MaySpendAlone(p)
    BY <1>4, <2>2, <1>i, <1>a, <1>b, Outside DEF StartReads, Inside
  <2> QED BY <2>1, <2>2
<1>5. CASE ReadScope(p)
  <2>1. PICK k \in Scopes : \E r \in Reading(k) : caller' = [caller EXCEPT ![p].seen[k] = r]
    BY <1>5 DEF ReadScope
  <2>2. caller' \in [Redeemers -> CallerType]
    <3>1. PICK r \in Answers : caller' = [caller EXCEPT ![p].seen[k] = r]
      BY <2>1, ReadingsKnown
    <3>2. [caller[p].seen EXCEPT ![k] = r] \in [Scopes -> Answers]
      BY <1>i DEF ResetTypeOK, CallerType
    <3> QED BY <3>1, <3>2, <1>i DEF ResetTypeOK, CallerType
  <2>3. \A b \in Redeemers : caller'[b].pc = caller[b].pc /\ (b # p => caller'[b] = caller[b])
    BY <2>1, <1>i DEF ResetTypeOK, CallerType
  <2>4. At(p, "read") /\ UNCHANGED <<resetFile, backend, resetLock, watched>>
    BY <1>5 DEF ReadScope
  <2>5. LockHeld' /\ AttemptKnown' /\ ReceiptsNumbered'
    BY <2>3, <2>4 DEF ResetInv, LockHeld, AttemptKnown, SpentIsOnRecord, ReceiptsNumbered
  <2>6. AloneChecked'
    BY <2>3, <2>4 DEF ResetInv, AloneChecked, AllSpent, Redeemers, At
  <2> QED BY <2>2, <2>4, <2>5, <2>6 DEF ResetInv, ResetTypeOK
<1>6. CASE Decide(p)
  <2> DEFINE seen == caller[p].seen
  <2>0. At(p, "read") /\ UNCHANGED <<backend, watched>> /\ resetFile' = WithReads(seen)
    BY <1>6 DEF Decide
  <2>1. resetFile' \in FileType /\ resetFile'.pending = resetFile.pending /\ resetFile'.policy = resetFile.policy
        /\ resetFile'.receipts = resetFile.receipts /\ resetFile'.generation = resetFile.generation
    BY <2>0, <1>i DEF ResetTypeOK, FileType, WithReads
  <2>2. resetFile.policy = "last-resort" /\ resetFile.pending = Nothing /\ resetLock = {p}
    BY <2>0 DEF ResetInv, LockHeld, AloneChecked, At, Inside
  <2>3. SpentIsOnRecord' /\ ReceiptsNumbered'
    BY <2>0, <2>1 DEF ResetInv, AttemptKnown, SpentIsOnRecord, ReceiptsNumbered
  <2>4. \A b \in Redeemers : b # p => caller[b].pc \notin Inside
    BY <2>0, AloneInside DEF At, Inside
  <2>5. watched' \in [attempts : Nat, finished : SUBSET Nat, faults : Nat, changes : Nat] /\ watched.attempts <= watched'.attempts
    BY <2>0, <1>i DEF ResetTypeOK
  <2>6. CASE EndsPass(p)
    <3>1. caller' \in [Redeemers -> CallerType] /\ caller'[p].pc \in {"look", "idle"}
          /\ \A b \in Redeemers : b # p => caller'[b].pc = caller[b].pc
      BY <2>6, <1>a, <1>b, <1>i DEF ResetTypeOK
    <3>2. resetLock' \in SUBSET Redeemers
      BY <2>6, <1>b, <1>i DEF ResetTypeOK
    <3> QED BY <2>0, <2>1, <2>2, <2>3, <2>4, <2>5, <3>1, <3>2, Working DEF Inside
  <2>7. CASE AllSpent(seen) /\ UNCHANGED resetLock /\ \E k \in Scopes : caller' = [caller EXCEPT ![p].pc = "pend", ![p].key = k]
    <3>1. caller' \in [Redeemers -> CallerType] /\ caller'[p].pc = "pend" /\ caller'[p].seen = seen
          /\ \A b \in Redeemers : b # p => caller'[b].pc = caller[b].pc
      <4>1. PICK k \in Scopes : caller' = [caller EXCEPT ![p].pc = "pend", ![p].key = k]
        BY <2>7
      <4>2. k \in Keys /\ "pend" \in Positions
        BY DEF Keys, Positions
      <4> QED BY <4>1, <4>2, <1>i DEF ResetTypeOK, CallerType
    <3> QED BY <2>0, <2>1, <2>2, <2>3, <2>4, <2>5, <2>7, <3>1, Working
  <2> QED BY <1>6, <2>6, <2>7 DEF Decide
<1> QED BY <1>1, <1>2, <1>3, <1>4, <1>5, <1>6

LEMMA ResetUserSteps ==
  ASSUME ResetInv, NEW u \in Users,
         Command(u) \/ SetPolicy(u) \/ FetchUsage(u) \/ StoreUsage(u) \/ AdmitsCommand(u) \/ Confirm(u)
  PROVE  ResetInv'
<1>0. u \in Redeemers /\ u \notin Proxies
  BY ResetAssumption DEF Redeemers
<1> USE <1>0
<1>i. ResetTypeOK /\ Idle \in CallerType /\ Idle.pc = "idle" /\ watched \in [attempts : {watched.attempts}, finished : {watched.finished}, faults : Nat, changes : Nat]
  BY DEF ResetInv, ResetTypeOK, Idle, CallerType, Keys, Answers, Positions
<1>w. watched \in [attempts : Nat, finished : SUBSET Nat, faults : Nat, changes : Nat] /\ watched.attempts <= watched.attempts
  BY <1>i DEF ResetTypeOK
<1>g. ASSUME NEW pc \in Positions
      PROVE  [caller[u] EXCEPT !.pc = pc] \in CallerType /\ [caller[u] EXCEPT !.pc = pc].pc = pc
  BY <1>i DEF ResetTypeOK, CallerType
<1>1. CASE Command(u)
  <2>0. UNCHANGED <<resetFile, backend, resetLock, watched>>
    BY <1>1 DEF Command
  <2>1. CASE Goes(u, "set")
    BY <1>1, <1>i, <1>g, <2>0, <2>1, Outside DEF Goes, Inside, Positions
  <2>2. CASE \E k \in Scopes, what \in {"want", "fetch"} :
               caller' = [caller EXCEPT ![u] = [Idle EXCEPT !.pc = what, !.key = k]]
    <3>1. PICK k \in Scopes, what \in {"want", "fetch"} :
               caller' = [caller EXCEPT ![u] = [Idle EXCEPT !.pc = what, !.key = k]]
      BY <2>2
    <3>2. [Idle EXCEPT !.pc = what, !.key = k] \in CallerType /\ [Idle EXCEPT !.pc = what, !.key = k].pc = what
      BY <1>i DEF Idle, CallerType, Positions, Keys
    <3> QED BY <1>i, <2>0, <3>1, <3>2, Outside DEF Inside
  <2> QED BY <1>1, <2>1, <2>2 DEF Command
<1>2. ASSUME resetLock = {}, UNCHANGED <<backend, resetLock, watched>>, caller' = [caller EXCEPT ![u] = Idle],
             resetFile' \in FileType, resetFile'.pending = resetFile.pending,
             resetFile'.receipts = resetFile.receipts, resetFile'.generation = resetFile.generation
      PROVE  ResetInv'
  <2>1. caller' \in [Redeemers -> CallerType] /\ caller'[u].pc = "idle" /\ \A b \in Redeemers : b # u => caller'[b].pc = caller[b].pc
    BY <1>2, <1>i DEF ResetTypeOK
  <2>2. SpentIsOnRecord' /\ ReceiptsNumbered' /\ (resetFile'.pending = Nothing \/ resetFile'.pending.idem \in 1..watched'.attempts)
    BY <1>2 DEF ResetInv, AttemptKnown, SpentIsOnRecord, ReceiptsNumbered
  <2>3. \A b \in Redeemers : b # u => caller[b].pc \notin Inside
    BY <1>2, AloneInside
  <2> QED BY <1>2, <1>w, <2>1, <2>2, <2>3, Working DEF Inside
<1>3. CASE SetPolicy(u)
  <2>1. PICK policy \in {"manual", "last-resort"} : resetFile' = [resetFile EXCEPT !.policy = policy]
    BY <1>3 DEF SetPolicy
  <2>2. resetFile' \in FileType /\ resetFile'.pending = resetFile.pending
        /\ resetFile'.receipts = resetFile.receipts /\ resetFile'.generation = resetFile.generation
    BY <2>1, <1>i DEF ResetTypeOK, FileType
  <2> QED BY <1>2, <1>3, <2>2 DEF SetPolicy
<1>r. ASSUME NEW seen
      PROVE  /\ WithReads(seen) \in FileType /\ WithReads(seen).pending = resetFile.pending
             /\ WithReads(seen).receipts = resetFile.receipts /\ WithReads(seen).generation = resetFile.generation
             /\ WithReads(seen).policy = resetFile.policy
  BY <1>i DEF ResetTypeOK, FileType, WithReads
<1>4. CASE FetchUsage(u)
  <2>1. PICK r \in Reading(caller[u].key) :
          caller' = [caller EXCEPT ![u].seen[caller[u].key] = r, ![u].pc = "store"]
    BY <1>4 DEF FetchUsage
  <2> DEFINE fetched == [caller[u] EXCEPT !.seen[caller[u].key] = r, !.pc = "store"]
  <2>2. caller' = [caller EXCEPT ![u] = fetched]
    BY <2>1, <1>i DEF ResetTypeOK, CallerType
  <2>3. fetched \in CallerType /\ fetched.pc = "store"
    <3>1. r \in Answers
      BY <2>1, ReadingsKnown
    <3>2. [caller[u].seen EXCEPT ![caller[u].key] = r] \in [Scopes -> Answers]
      BY <3>1, <1>i DEF ResetTypeOK, CallerType
    <3> QED BY <3>2, <1>i DEF ResetTypeOK, CallerType, Positions
  <2> HIDE DEF fetched
  <2> QED BY <1>4, <1>i, <2>2, <2>3, Outside DEF FetchUsage, Inside
<1>5. CASE StoreUsage(u)
  <2>1. resetFile' \in FileType /\ resetFile'.pending = resetFile.pending
        /\ resetFile'.receipts = resetFile.receipts /\ resetFile'.generation = resetFile.generation
    BY <1>5, <1>r, <1>i DEF StoreUsage, ResetTypeOK
  <2> QED BY <1>2, <1>5, <2>1 DEF StoreUsage
<1>6. ASSUME caller[u].pc \in Inside, LeavesFile(u), UNCHANGED <<backend, watched>>
      PROVE  ResetInv'
  BY <1>6, <1>i, Outside DEF LeavesFile, Inside
<1>7. ASSUME caller[u].pc \in Inside, NEW pc \in Inside \ {"consume", "reread"}, Goes(u, pc),
             UNCHANGED <<backend, watched, resetLock>>,
             resetFile' \in FileType, resetFile'.pending = resetFile.pending,
             resetFile'.receipts = resetFile.receipts, resetFile'.generation = resetFile.generation
      PROVE  ResetInv'
  <2>0. pc \in Positions
    BY DEF Inside, Positions
  <2>1. caller' = [caller EXCEPT ![u] = [caller[u] EXCEPT !.pc = pc]]
    BY <1>7 DEF Goes
  <2>2. caller' \in [Redeemers -> CallerType] /\ caller'[u].pc = pc /\ \A b \in Redeemers : b # u => caller'[b].pc = caller[b].pc
    BY <1>g, <2>0, <2>1, <1>i DEF ResetTypeOK
  <2>3. SpentIsOnRecord' /\ ReceiptsNumbered' /\ (resetFile'.pending = Nothing \/ resetFile'.pending.idem \in 1..watched'.attempts)
    BY <1>7 DEF ResetInv, AttemptKnown, SpentIsOnRecord, ReceiptsNumbered
  <2>4. (\A b \in Redeemers : b # u => caller[b].pc \notin Inside) /\ resetLock' = {u}
    BY <1>7, AloneInside DEF ResetInv, LockHeld
  <2> QED BY <1>7, <1>w, <2>2, <2>3, <2>4, Working
<1>8. CASE AdmitsCommand(u)
  <2>1. UNCHANGED <<resetFile, backend, watched>> /\ caller[u].pc = "in"
    BY <1>8 DEF AdmitsCommand, LeavesFile, At
  <2>2. CASE Goes(u, "confirm") /\ UNCHANGED resetLock
    BY <1>7, <1>i, <2>1, <2>2 DEF Inside, ResetTypeOK
  <2>3. CASE Goes(u, "pend") /\ UNCHANGED resetLock
    BY <1>7, <1>i, <2>1, <2>3 DEF Inside, ResetTypeOK
  <2>4. CASE LeavesFile(u)
    BY <1>6, <2>1, <2>4 DEF Inside
  <2> QED BY <1>8, <2>2, <2>3, <2>4 DEF AdmitsCommand
<1>9. CASE Confirm(u)
  <2>1. caller[u].pc = "confirm" /\ UNCHANGED <<backend, watched>>
    BY <1>9 DEF Confirm, At
  <2>2. CASE LeavesFile(u)
    BY <1>6, <2>1, <2>2 DEF Inside
  <2>3. CASE \E r \in Reading(caller[u].key) :
               /\ resetFile' = WithReads([j \in Scopes |-> IF j = caller[u].key THEN r ELSE "unread"])
               /\ Goes(u, "pend") /\ UNCHANGED resetLock
    BY <1>7, <1>r, <2>1, <2>3 DEF Inside
  <2> QED BY <1>9, <2>2, <2>3 DEF Confirm
<1> QED BY <1>1, <1>3, <1>4, <1>5, <1>8, <1>9

LEMMA ResetSharedSteps ==
  ASSUME ResetInv, NEW a \in Redeemers,
         TakeLock(a) \/ GiveUp(a) \/ SavePending(a) \/ Consume(a) \/ SaveReceipt(a) \/ Fails(a)
  PROVE  ResetInv'
<1>i. ResetTypeOK /\ Idle \in CallerType /\ Idle.pc = "idle" /\ watched \in [attempts : {watched.attempts}, finished : {watched.finished}, faults : Nat, changes : Nat]
  BY DEF ResetInv, ResetTypeOK, Idle, CallerType, Keys, Answers, Positions
<1>w. watched \in [attempts : Nat, finished : SUBSET Nat, faults : Nat, changes : Nat] /\ watched.attempts <= watched.attempts
  BY <1>i DEF ResetTypeOK
<1>g. ASSUME NEW pc \in Positions, Goes(a, pc)
      PROVE  /\ caller' \in [Redeemers -> CallerType] /\ caller'[a].pc = pc /\ caller'[a].seen = caller[a].seen
             /\ \A b \in Redeemers : b # a => caller'[b] = caller[b]
  BY <1>g, <1>i DEF Goes, ResetTypeOK, CallerType
<1>z. ASSUME caller' = [caller EXCEPT ![a] = Idle]
      PROVE  /\ caller' \in [Redeemers -> CallerType] /\ caller'[a].pc = "idle"
             /\ \A b \in Redeemers : b # a => caller'[b] = caller[b]
  BY <1>z, <1>i DEF ResetTypeOK
<1>o. (resetLock = {} \/ caller[a].pc \in Inside) => \A b \in Redeemers : b # a => caller[b].pc \notin Inside
  BY AloneInside
<1>1. CASE TakeLock(a)
  <2>1. resetLock = {} /\ resetLock' = {a} /\ UNCHANGED <<resetFile, backend, watched>>
    BY <1>1 DEF TakeLock
  <2>2. caller' \in [Redeemers -> CallerType] /\ caller'[a].pc = "in" /\ \A b \in Redeemers : b # a => caller'[b] = caller[b]
    BY <1>1, <1>g DEF TakeLock, Positions
  <2>3. SpentIsOnRecord' /\ ReceiptsNumbered' /\ (resetFile'.pending = Nothing \/ resetFile'.pending.idem \in 1..watched'.attempts)
    BY <2>1 DEF ResetInv, AttemptKnown, SpentIsOnRecord, ReceiptsNumbered
  <2>4. resetFile' \in FileType
    BY <2>1, <1>i DEF ResetTypeOK
  <2> QED BY <1>o, <1>w, <2>1, <2>2, <2>3, <2>4, Working
<1>2. CASE GiveUp(a)
  BY <1>2, <1>i, Outside DEF GiveUp, Inside
<1>3. CASE Fails(a)
  <2>1. watched' \in [attempts : {watched.attempts}, finished : {watched.finished}, faults : Nat, changes : Nat]
    BY <1>3, <1>i DEF Fails, ResetTypeOK
  <2> QED BY <1>3, <1>i, <2>1, Outside DEF Fails, LeavesFile, Inside
<1>4. CASE SavePending(a)
  <2> DEFINE k == caller[a].key
             att == AttemptFor(k)
  <2>0. caller[a].pc = "pend" /\ UNCHANGED backend
    BY <1>4 DEF SavePending, At
  <2>1. CASE LeavesFile(a) /\ UNCHANGED watched
    BY <2>0, <2>1, <1>i, Outside DEF LeavesFile, Inside
  <2>2. CASE /\ resetFile' = [resetFile EXCEPT !.pending = att, !.redeemedAgo = 0]
             /\ watched' = [watched EXCEPT !.attempts = IF att.idem > @ THEN att.idem ELSE @]
             /\ Goes(a, "consume") /\ UNCHANGED resetLock
    <3>1. att \in [key : Keys, idem : Nat] /\ att.idem \in 1..(watched.attempts + 1) /\ att # Nothing
          /\ (att = resetFile.pending \/ (resetFile.pending = Nothing /\ att.idem = watched.attempts + 1))
      <4>1. CASE resetFile.pending = Nothing
        <5>1. att = [key |-> k, idem |-> watched.attempts + 1]
          BY <4>1 DEF AttemptFor
        <5>2. k \in Keys /\ watched.attempts \in Nat
          BY <1>i DEF ResetTypeOK, CallerType
        <5> HIDE DEF att, k
        <5> QED BY <4>1, <5>1, <5>2 DEF Nothing
      <4>2. CASE resetFile.pending # Nothing
        <5>1. att = resetFile.pending
          BY <4>2 DEF AttemptFor
        <5>2. resetFile.pending \in [key : Keys, idem : Nat] /\ watched.attempts \in Nat
          BY <1>i DEF ResetTypeOK, FileType
        <5>3. resetFile.pending.idem \in 1..watched.attempts
          BY <4>2 DEF ResetInv, AttemptKnown
        <5> HIDE DEF att
        <5> QED BY <4>2, <5>1, <5>2, <5>3
      <4> QED BY <4>1, <4>2
    <3> HIDE DEF att, k
    <3>2. resetFile' \in FileType /\ resetFile'.pending = att /\ resetFile'.policy = resetFile.policy
          /\ resetFile'.receipts = resetFile.receipts /\ resetFile'.generation = resetFile.generation
      BY <2>2, <3>1, <1>i DEF ResetTypeOK, FileType
    <3>3. watched' \in [attempts : Nat, finished : SUBSET Nat, faults : Nat, changes : Nat]
          /\ watched.attempts <= watched'.attempts /\ watched'.finished = watched.finished /\ att.idem \in 1..watched'.attempts
      BY <2>2, <3>1, <1>w
    <3>4. caller' \in [Redeemers -> CallerType] /\ caller'[a].pc = "consume" /\ caller'[a].seen = caller[a].seen
          /\ \A b \in Redeemers : b # a => caller'[b] = caller[b]
      BY <2>2, <1>g DEF Positions
    <3>5. resetFile.pending = Nothing => backend.redeemed \subseteq watched.finished
      BY DEF ResetInv, AttemptKnown, SpentIsOnRecord, Nothing
    <3>6. SpentIsOnRecord' /\ ReceiptsNumbered'
      BY <2>0, <3>1, <3>2, <3>3, <3>5 DEF ResetInv, AttemptKnown, SpentIsOnRecord, ReceiptsNumbered
    <3>7. a \in Proxies => /\ resetFile'.policy = "last-resort" /\ AllSpent(caller'[a].seen)
                           /\ backend.redeemed \subseteq watched'.finished
      BY <2>0, <3>2, <3>3, <3>4, <3>5 DEF ResetInv, AloneChecked
    <3>8. resetLock' = {a} /\ \A b \in Redeemers : b # a => caller[b].pc \notin Inside
      BY <2>0, <2>2, <1>o DEF Inside, ResetInv, LockHeld
    <3> QED BY <2>0, <3>1, <3>2, <3>3, <3>4, <3>6, <3>7, <3>8, Working
  <2> QED BY <1>4, <2>1, <2>2 DEF SavePending
<1>5. CASE Consume(a)
  <2>0. caller[a].pc = "consume" /\ UNCHANGED <<resetFile, resetLock, watched>> /\ backend' = Redeems(resetFile.pending.idem, caller[a].key)
    BY <1>5 DEF Consume, At
  <2>1. caller' \in [Redeemers -> CallerType] /\ caller'[a].pc = "reread" /\ \A b \in Redeemers : b # a => caller'[b] = caller[b]
    BY <1>5, <1>g DEF Consume, Positions
  <2>2. resetLock = {a} /\ resetFile.pending # Nothing /\ \A b \in Redeemers : b # a => caller[b].pc \notin Inside
    BY <2>0, <1>o DEF Inside, ResetInv, LockHeld, AttemptKnown
  <2>3. backend' \in [credits : [Scopes -> Int], exhausted : SUBSET Scopes, redeemed : SUBSET Nat]
        /\ backend'.redeemed \in {backend.redeemed, backend.redeemed \cup {resetFile.pending.idem}}
    <3>0. resetFile.pending.idem \in Nat
      BY <1>i DEF ResetTypeOK, FileType
    <3>1. CASE backend' = backend
      BY <3>1, <1>i DEF ResetTypeOK
    <3>2. CASE backend' = [credits |-> [backend.credits EXCEPT ![caller[a].key] = @ - 1], exhausted |-> backend.exhausted \ {caller[a].key},
                           redeemed |-> backend.redeemed \cup {resetFile.pending.idem}]
      <4>1. [backend.credits EXCEPT ![caller[a].key] = @ - 1] \in [Scopes -> Int] /\ backend.exhausted \ {caller[a].key} \in SUBSET Scopes
        <5>1. backend.credits \in [Scopes -> Int] /\ backend.exhausted \in SUBSET Scopes
          BY <1>i DEF ResetTypeOK
        <5>2. CASE caller[a].key \in Scopes
          BY <5>1, <5>2
        <5>3. CASE caller[a].key \notin Scopes
          BY <5>1, <5>3
        <5> QED BY <5>2, <5>3
      <4>2. backend.redeemed \cup {resetFile.pending.idem} \in SUBSET Nat
        BY <3>0, <1>i DEF ResetTypeOK
      <4> QED BY <3>2, <4>1, <4>2
    <3> QED BY <2>0, <3>1, <3>2 DEF Redeems
  <2>4. ResetTypeOK'
    BY <2>0, <2>1, <2>3, <1>i DEF ResetTypeOK
  <2>5. LockHeld' /\ ReceiptsNumbered'
    BY <2>0, <2>1, <2>2 DEF ResetInv, LockHeld, ReceiptsNumbered
  <2>6. AttemptKnown'
    <3>1. backend'.redeemed \subseteq 1..watched'.attempts /\ SpentIsOnRecord'
      BY <2>0, <2>2, <2>3 DEF ResetInv, AttemptKnown, SpentIsOnRecord
    <3> QED BY <2>0, <2>1, <2>2, <3>1 DEF ResetInv, AttemptKnown
  <2>7. AloneChecked'
    BY <2>0, <2>1, <2>2 DEF ResetInv, AloneChecked, Inside, Redeemers
  <2> QED BY <2>4, <2>5, <2>6, <2>7 DEF ResetInv
<1>6. CASE SaveReceipt(a)
  <2> DEFINE k == caller[a].key
             gen == NextGeneration(k)
             effective == resetFile.pending.idem \in backend.redeemed
             read(r) == WithReads([j \in Scopes |-> IF j = k THEN r ELSE "unread"])
  <2>0. /\ caller[a].pc = "reread" /\ resetLock' = {} /\ caller' = [caller EXCEPT ![a] = Idle] /\ UNCHANGED backend
        /\ watched' = [watched EXCEPT !.finished = @ \cup {resetFile.pending.idem}]
    BY <1>6 DEF SaveReceipt, At
  <2>1. PICK r \in Reading(k) \ {"failed"} :
          resetFile' = [read(r) EXCEPT !.pending = Nothing, !.generation = gen, !.receipts[k] = IF effective THEN gen ELSE @]
    BY <1>6 DEF SaveReceipt
  <2>2. read(r) \in FileType /\ read(r).receipts = resetFile.receipts
    BY <1>i DEF ResetTypeOK, FileType, WithReads
  <2>3. gen = resetFile.generation + 1 /\ gen \in Nat /\ resetFile.receipts \in [Scopes -> Nat]
    BY <1>i DEF ResetTypeOK, FileType, NextGeneration
  <2>n. Nothing \in [key : Keys, idem : Nat] /\ Nothing.idem = 0
    BY DEF Nothing, Keys
  <2> HIDE DEF gen, read, effective
  <2> DEFINE rc == [resetFile.receipts EXCEPT ![k] = IF effective THEN gen ELSE @]
  <2>4. rc \in [Scopes -> Nat] /\ \A j \in Scopes : rc[j] \in {resetFile.receipts[j], gen}
    BY <2>3
  <2>5. resetFile' \in FileType /\ resetFile'.pending = Nothing /\ resetFile'.generation = gen /\ resetFile'.receipts = rc
    <3>1. resetFile' = [read(r) EXCEPT !.pending = Nothing, !.generation = gen, !.receipts = rc]
      BY <2>1, <2>2 DEF FileType
    <3> HIDE DEF rc
    <3> QED BY <3>1, <2>2, <2>3, <2>4, <2>n DEF FileType
  <2> HIDE DEF rc
  <2>6. ReceiptsNumbered'
    <3> SUFFICES ASSUME NEW j \in Scopes PROVE rc[j] <= gen
      BY <2>5 DEF ReceiptsNumbered
    <3>1. resetFile.receipts[j] <= resetFile.generation
      BY DEF ResetInv, ReceiptsNumbered
    <3>2. resetFile.receipts[j] \in Nat /\ resetFile.generation \in Nat
      BY <2>3, <1>i DEF ResetTypeOK, FileType
    <3> QED BY <3>1, <3>2, <2>3, <2>4
  <2>7. watched' \in [attempts : Nat, finished : SUBSET Nat, faults : Nat, changes : Nat]
        /\ watched.attempts <= watched'.attempts /\ watched'.finished = watched.finished \cup {resetFile.pending.idem}
    <3>0. resetFile.pending.idem \in Nat
      BY <1>i DEF ResetTypeOK, FileType
    <3> QED BY <2>0, <3>0, <1>w
  <2>8. SpentIsOnRecord'
    BY <2>0, <2>5, <2>7 DEF ResetInv, AttemptKnown, SpentIsOnRecord
  <2>9. \A b \in Redeemers : b # a => caller[b].pc \notin Inside
    BY <2>0, <1>o DEF Inside
  <2>a. /\ caller' \in [Redeemers -> CallerType] /\ caller'[a].pc = "idle" /\ \A b \in Redeemers : b # a => caller'[b] = caller[b]
    BY <2>0, <1>z
  <2> QED BY <2>0, <2>5, <2>6, <2>7, <2>8, <2>9, <2>a, Working DEF Inside
<1> QED BY <1>1, <1>2, <1>3, <1>4, <1>5, <1>6

LEMMA ResetNextInv == ResetInv /\ [ResetNext]_resetVars => ResetInv'
<1> SUFFICES ASSUME ResetInv, [ResetNext]_resetVars PROVE ResetInv'
  OBVIOUS
<1>i. ResetTypeOK
  BY DEF ResetInv
<1>1. CASE UNCHANGED resetVars
  BY <1>1 DEF resetVars, ResetInv, ResetTypeOK, LockHeld, AttemptKnown, SpentIsOnRecord, AloneChecked, AllSpent, ReceiptsNumbered
<1>2. CASE Later
  <2>1. UNCHANGED <<backend, resetLock, caller, watched>>
        /\ resetFile' = [resetFile EXCEPT !.redeemedAgo = IF @ < AutoGap THEN @ + 1 ELSE @,
                                          !.checkedAgo = IF @ < CheckGap THEN @ + 1 ELSE @]
    BY <1>2 DEF Later
  <2>2. resetFile' \in FileType /\ resetFile'.pending = resetFile.pending /\ resetFile'.policy = resetFile.policy
        /\ resetFile'.receipts = resetFile.receipts /\ resetFile'.generation = resetFile.generation
    <3> DEFINE ra == IF resetFile.redeemedAgo < AutoGap THEN resetFile.redeemedAgo + 1 ELSE resetFile.redeemedAgo
               ca == IF resetFile.checkedAgo < CheckGap THEN resetFile.checkedAgo + 1 ELSE resetFile.checkedAgo
    <3>1. resetFile' = [resetFile EXCEPT !.redeemedAgo = ra, !.checkedAgo = ca]
      BY <2>1
    <3>2. ra \in Nat /\ ca \in Nat
      BY <1>i DEF ResetTypeOK, FileType
    <3> HIDE DEF ra, ca
    <3> QED BY <3>1, <3>2, <1>i DEF ResetTypeOK, FileType
  <2>3. ResetTypeOK' /\ LockHeld' /\ ReceiptsNumbered'
    BY <2>1, <2>2 DEF ResetInv, ResetTypeOK, LockHeld, ReceiptsNumbered
  <2> QED BY <2>1, <2>2, <2>3 DEF ResetInv, AttemptKnown, SpentIsOnRecord, AloneChecked, AllSpent
<1>3. CASE UsageChanges
  <2>1. UNCHANGED <<resetFile, resetLock, caller>> /\ watched' = [watched EXCEPT !.changes = @ + 1]
    BY <1>3 DEF UsageChanges
  <2>2. backend' \in [credits : [Scopes -> Int], exhausted : SUBSET Scopes, redeemed : SUBSET Nat] /\ backend'.redeemed = backend.redeemed
    BY <1>3, <1>i DEF UsageChanges, ResetTypeOK
  <2>3. watched' \in [attempts : Nat, finished : SUBSET Nat, faults : Nat, changes : Nat]
        /\ watched'.attempts = watched.attempts /\ watched'.finished = watched.finished
    BY <2>1, <1>i DEF ResetTypeOK
  <2>4. ResetTypeOK' /\ LockHeld' /\ ReceiptsNumbered'
    BY <2>1, <2>2, <2>3 DEF ResetInv, ResetTypeOK, LockHeld, ReceiptsNumbered
  <2> QED BY <2>1, <2>2, <2>3, <2>4 DEF ResetInv, AttemptKnown, SpentIsOnRecord, AloneChecked, AllSpent
<1> QED BY <1>1, <1>2, <1>3, ResetProxySteps, ResetUserSteps, ResetSharedSteps DEF ResetNext

LEMMA ResetInvariant == ResetSpec => []ResetInv
BY ResetInitInv, ResetNextInv, PTL DEF ResetSpec

\* For any number of proxies and users, a reset that the backend gave out is never
\* forgotten: its key stays pending until its receipt is saved (consumeLocked).
THEOREM NoResetForgotten == ResetSpec => []SpentIsOnRecord
<1>1. ResetInv => SpentIsOnRecord
  BY DEF ResetInv, AttemptKnown
<1> QED BY <1>1, ResetInvariant, PTL

\* A proxy's own redemption is made only under the policy, after all accounts were
\* read and found exhausted, and with no other attempt open (automaticLocked).
THEOREM SpentAsLastResort == ResetSpec => []LastResortOnly
<1>1. ResetInv => LastResortOnly
  BY DEF ResetInv, AloneChecked, AllSpent, LastResortOnly, At
<1> QED BY <1>1, ResetInvariant, PTL

\* Receipts are numbered in the order in which redemptions end (resetGeneration).
THEOREM ReceiptsInOrder == ResetSpec => [][ReceiptsOrdered]_resetVars
<1>1. ResetInv /\ [ResetNext]_resetVars => [ReceiptsOrdered]_resetVars
  <2> SUFFICES ASSUME ResetInv, ResetNext PROVE ReceiptsOrdered
    BY DEF ReceiptsOrdered, resetVars
  <2>i. ResetTypeOK /\ resetFile \in FileType
    BY DEF ResetInv, ResetTypeOK
  <2>1. CASE UNCHANGED resetFile
    BY <2>1 DEF ReceiptsOrdered
  <2>2. CASE resetFile'.receipts = resetFile.receipts
    BY <2>2 DEF ReceiptsOrdered
  <2>3. ASSUME NEW seen PROVE WithReads(seen).receipts = resetFile.receipts /\ WithReads(seen) \in FileType
    BY <2>i DEF FileType, WithReads
  <2>4. ASSUME NEW a \in Redeemers, SaveReceipt(a) PROVE ReceiptsOrdered
    <3> DEFINE k == caller[a].key
               gen == NextGeneration(k)
    <3>1. PICK seen :
            resetFile' = [WithReads(seen) EXCEPT !.pending = Nothing, !.generation = gen,
                          !.receipts[k] = IF resetFile.pending.idem \in backend.redeemed THEN gen ELSE @]
      BY <2>4 DEF SaveReceipt
    <3>2. WithReads(seen).receipts = resetFile.receipts /\ WithReads(seen) \in FileType
      BY <2>3
    <3>3. gen = resetFile.generation + 1 /\ resetFile.generation \in Nat /\ resetFile.receipts \in [Scopes -> Nat]
      BY <2>i DEF FileType, NextGeneration
    <3> HIDE DEF k, gen
    <3>4. \A j \in Scopes : resetFile'.receipts[j] \in {resetFile.receipts[j], gen}
      BY <3>1, <3>2, <3>3 DEF FileType
    <3> QED BY <3>3, <3>4 DEF ResetInv, ReceiptsNumbered, ReceiptsOrdered
  <2>5. ASSUME NEW p \in Proxies,
               BeginCheck(p) \/ JoinCheck(p) \/ LookPolicy(p) \/ StartReads(p) \/ ReadScope(p) \/ Decide(p)
        PROVE  resetFile'.receipts = resetFile.receipts
    BY <2>3, <2>5, <2>i DEF BeginCheck, JoinCheck, LookPolicy, StartReads, ReadScope, Decide, FileType
  <2>6. ASSUME NEW u \in Users,
               Command(u) \/ SetPolicy(u) \/ FetchUsage(u) \/ StoreUsage(u) \/ AdmitsCommand(u) \/ Confirm(u)
        PROVE  resetFile'.receipts = resetFile.receipts
    BY <2>3, <2>6, <2>i DEF Command, SetPolicy, FetchUsage, StoreUsage, AdmitsCommand, Confirm, LeavesFile, FileType
  <2>7. ASSUME NEW a \in Redeemers, TakeLock(a) \/ GiveUp(a) \/ SavePending(a) \/ Consume(a) \/ Fails(a)
        PROVE  resetFile'.receipts = resetFile.receipts
    BY <2>7, <2>i DEF TakeLock, GiveUp, SavePending, Consume, Fails, LeavesFile, FileType
  <2>8. CASE Later \/ UsageChanges
    BY <2>1, <2>2, <2>8, <2>i DEF Later, UsageChanges, FileType
  <2> QED BY <2>2, <2>4, <2>5, <2>6, <2>7, <2>8 DEF ResetNext
<1> QED BY <1>1, ResetInvariant, PTL DEF ResetSpec

-----------------------------------------------------------------------------
(* Receipts. *)

ReadType == [generation : Nat, sequence : Nat, ok : BOOLEAN]
RequestType == [pc : {"idle", "ready", "sent", "settle", "permit", "decide"}, read : ReadType, sent : Nat,
                blind : BOOLEAN, revision : Nat, allowed : BOOLEAN]
RejectionType == [revision : Nat, generation : Nat, blind : BOOLEAN]
OperationType == [generation : Nat, state : {"none", "reading", "judged", "failed"}, revision : Nat,
                  by : Inflight \cup {0}]

ReceiptTypeOK ==
  /\ redeemed \in Nat /\ knownGen \in Nat /\ bound \in Nat
  /\ blocked \in BOOLEAN /\ permitted \in BOOLEAN
  /\ sharedRead \in ReadType
  /\ rejection \in RejectionType
  /\ operation \in OperationType
  /\ request \in [Inflight -> RequestType]

\* A read knows no receipt that is not on file; one that began after the last
\* rejection bounds everything that rejections may be older than.
ReadTrue(read) ==
  /\ read.generation <= redeemed
  /\ read.sequence <= rejection.revision
  /\ read.ok /\ read.sequence = rejection.revision =>
       bound <= rejection.generation \/ bound <= read.generation

\* Nobody knows of more than there is.
KnownOnFile ==
  /\ knownGen <= redeemed /\ bound <= redeemed
  /\ \A r \in Inflight : request[r].sent <= redeemed

\* What is remembered of rejections bounds them, unless one of them was blind.
RejectionBounds == ~rejection.blind => bound <= rejection.generation

\* An operation that no rejection has overtaken is for a newer receipt.
OperationNewer ==
  /\ operation.revision <= rejection.revision
  /\ operation.revision > 0 /\ operation.revision = rejection.revision => operation.generation > bound

ReceiptInv ==
  /\ ReceiptTypeOK
  /\ ReadTrue(sharedRead) /\ \A r \in Inflight : ReadTrue(request[r].read)
  /\ KnownOnFile /\ RejectionBounds /\ OperationNewer
  /\ blocked => rejection.revision > 0

LEMMA MaxOfTwo ==
  ASSUME NEW a \in Nat, NEW b \in Nat
  PROVE  Max({a, b}) \in {a, b} /\ Max({a, b}) >= a /\ Max({a, b}) >= b
<1>1. \E x \in {a, b} : \A y \in {a, b} : x >= y
  <2>1. CASE a >= b
    BY <2>1
  <2>2. CASE b >= a
    BY <2>2
  <2> QED BY <2>1, <2>2
<1> QED BY <1>1 DEF Max

LEMMA ReceiptInitInv == ReceiptInit => ReceiptInv
<1> SUFFICES ASSUME ReceiptInit PROVE ReceiptInv
  OBVIOUS
<1>1. NoRead \in ReadType /\ Waiting \in RequestType /\ Waiting.read = NoRead /\ Waiting.sent = 0
  BY DEF NoRead, ReadType, Waiting, RequestType
<1>2. NoOperation \in OperationType
  BY DEF NoOperation, OperationType
<1>3. ReceiptTypeOK
  BY <1>1, <1>2 DEF ReceiptInit, ReceiptTypeOK, RejectionType
<1>4. ReadTrue(NoRead) /\ NoRead.generation = 0
  BY DEF ReceiptInit, ReadTrue, NoRead
<1>5. \A r \in Inflight : request[r].read = NoRead /\ request[r].sent = 0
  BY <1>1 DEF ReceiptInit
<1>6. KnownOnFile /\ RejectionBounds /\ OperationNewer
  BY <1>5 DEF ReceiptInit, KnownOnFile, RejectionBounds, OperationNewer, NoOperation
<1> QED BY <1>3, <1>4, <1>5, <1>6 DEF ReceiptInv, ReceiptInit

\* Settling keeps everything that is known of rejections.
LEMMA SettlesKeeps ==
  ASSUME ReceiptInv, NEW read \in ReadType, ReadTrue(read)
  PROVE  /\ Settles(read) \in RejectionType
         /\ Settles(read).revision = rejection.revision
         /\ Settles(read).generation >= rejection.generation
         /\ ~Settles(read).blind => bound <= Settles(read).generation
<1>1. CASE read.ok /\ rejection.blind /\ rejection.revision <= read.sequence
  <2> DEFINE m == Max({rejection.generation, read.generation})
  <2>1. m \in Nat /\ m >= rejection.generation /\ m >= read.generation
    BY MaxOfTwo DEF ReceiptInv, ReceiptTypeOK, RejectionType, ReadType
  <2>2. Settles(read) = [rejection EXCEPT !.generation = m, !.blind = FALSE]
    BY <1>1 DEF Settles
  <2>3. bound <= rejection.generation \/ bound <= read.generation
    BY <1>1 DEF ReadTrue, ReceiptInv, ReceiptTypeOK, RejectionType, ReadType
  <2>4. rejection \in RejectionType /\ read.generation \in Nat /\ bound \in Nat
    BY DEF ReceiptInv, ReceiptTypeOK, ReadType
  <2> HIDE DEF m
  <2>5. Settles(read) \in RejectionType /\ Settles(read).revision = rejection.revision /\ Settles(read).generation = m
    BY <2>1, <2>2, <2>4 DEF RejectionType
  <2>6. rejection.generation \in Nat
    BY <2>4 DEF RejectionType
  <2> QED BY <2>1, <2>3, <2>4, <2>5, <2>6
<1>2. CASE ~(read.ok /\ rejection.blind /\ rejection.revision <= read.sequence)
  <2>1. Settles(read) = rejection
    BY <1>2 DEF Settles
  <2> QED BY <2>1 DEF ReceiptInv, ReceiptTypeOK, RejectionType, RejectionBounds
<1> QED BY <1>1, <1>2

LEMMA FreshIsTrue == ReceiptInv => FreshRead \in ReadType /\ ReadTrue(FreshRead)
BY DEF ReceiptInv, ReceiptTypeOK, ReadType, RejectionType, ReadTrue, FreshRead, KnownOnFile

LEMMA NoReadIsTrue == ReceiptInv => NoRead \in ReadType /\ ReadTrue(NoRead)
BY DEF ReceiptInv, ReceiptTypeOK, ReadType, RejectionType, ReadTrue, NoRead

\* A step of a request that rejects nothing: its knowledge may grow, what is
\* remembered of rejections may be settled.
LEMMA Quietly ==
  ASSUME ReceiptInv, NEW r \in Inflight, NEW new \in RequestType,
         request' = [request EXCEPT ![r] = new],
         ReadTrue(new.read), new.sent <= redeemed,
         UNCHANGED <<redeemed, bound>>,
         rejection' \in RejectionType, rejection'.revision = rejection.revision,
         rejection'.generation >= rejection.generation, RejectionBounds',
         NEW shared \in ReadType, sharedRead' = shared, ReadTrue(shared),
         knownGen' \in Nat, knownGen' <= redeemed,
         blocked' \in BOOLEAN, blocked' => blocked, UNCHANGED permitted,
         operation' \in OperationType,
         \/ operation'.revision = operation.revision /\ operation'.generation = operation.generation
         \/ operation'.revision = rejection.revision /\ operation'.generation > bound
  PROVE  ReceiptInv'
<1> USE DEF ReceiptInv
<1>1. ReceiptTypeOK'
  BY DEF ReceiptTypeOK, OperationType
<1>n. /\ rejection.generation \in Nat /\ rejection'.generation \in Nat /\ bound \in Nat /\ redeemed \in Nat
      /\ rejection.revision \in Nat
  BY DEF ReceiptTypeOK, RejectionType
<1>2. ASSUME NEW read \in ReadType, ReadTrue(read)
      PROVE  /\ read.generation <= redeemed' /\ read.sequence <= rejection'.revision
             /\ read.ok /\ read.sequence = rejection'.revision =>
                  bound' <= rejection'.generation \/ bound' <= read.generation
  BY <1>n, <1>2 DEF ReadTrue, ReadType
<1>3. \A o \in Inflight : request'[o].read \in ReadType /\ ReadTrue(request'[o].read)
  BY DEF ReceiptTypeOK, RequestType
<1>4. ReadTrue(sharedRead)' /\ \A o \in Inflight : ReadTrue(request[o].read)'
  BY <1>2, <1>3 DEF ReadTrue
<1>5. KnownOnFile'
  BY DEF KnownOnFile, ReceiptTypeOK
<1>6. OperationNewer'
  BY <1>n DEF OperationNewer, ReceiptTypeOK, OperationType
<1> QED BY <1>1, <1>4, <1>5, <1>6

LEMMA ReceiptSteps ==
  ASSUME ReceiptInv, NEW r \in Inflight,
         Arrive(r) \/ Send(r) \/ AnswerServed(r) \/ Reread(r) \/ Judge(r) \/ ReadPermission(r) \/ Lift(r)
  PROVE  ReceiptInv'
<1>t. ReceiptTypeOK
  BY DEF ReceiptInv
<1>r. request[r] \in RequestType /\ request[r].read \in ReadType /\ ReadTrue(request[r].read) /\ request[r].sent <= redeemed
  BY <1>t DEF ReceiptInv, ReceiptTypeOK, RequestType, KnownOnFile
<1>k. /\ rejection \in RejectionType /\ RejectionBounds /\ rejection.generation >= rejection.generation
      /\ sharedRead \in ReadType /\ ReadTrue(sharedRead) /\ knownGen \in Nat /\ knownGen <= redeemed
      /\ blocked \in BOOLEAN /\ operation \in OperationType
  BY <1>t DEF ReceiptInv, ReceiptTypeOK, KnownOnFile, RejectionType
<1>w. Waiting \in RequestType /\ ReadTrue(Waiting.read) /\ Waiting.sent <= redeemed
  BY <1>t, NoReadIsTrue DEF ReceiptInv, ReceiptTypeOK, Waiting, RequestType, NoRead, ReadType
<1>m. ASSUME NEW pc \in {"idle", "ready", "sent", "settle", "permit", "decide"}, NEW read \in ReadType
      PROVE  /\ [Waiting EXCEPT !.pc = pc, !.read = read] \in RequestType
             /\ [Waiting EXCEPT !.pc = pc, !.read = read].read = read /\ [Waiting EXCEPT !.pc = pc, !.read = read].sent = 0
             /\ [request[r] EXCEPT !.pc = pc, !.read = read] \in RequestType
             /\ [request[r] EXCEPT !.pc = pc, !.read = read].read = read
             /\ [request[r] EXCEPT !.pc = pc, !.read = read].sent = request[r].sent
             /\ [request[r] EXCEPT !.pc = pc] \in RequestType
             /\ [request[r] EXCEPT !.pc = pc].read = request[r].read
             /\ [request[r] EXCEPT !.pc = pc].sent = request[r].sent
  BY <1>r, <1>w DEF RequestType, Waiting
<1>s. ASSUME UNCHANGED <<rejection, bound>> PROVE RejectionBounds'
  BY <1>s, <1>k DEF RejectionBounds
<1>b. ASSUME UNCHANGED blocked PROVE blocked' \in BOOLEAN /\ (blocked' => blocked)
  BY <1>b, <1>k
<1>o. ASSUME UNCHANGED operation
      PROVE  operation' \in OperationType /\ operation'.revision = operation.revision /\ operation'.generation = operation.generation
  BY <1>o, <1>k
<1>j. ASSUME UNCHANGED rejection
      PROVE  rejection' \in RejectionType /\ rejection'.revision = rejection.revision /\ rejection'.generation >= rejection.generation
  BY <1>j, <1>k
<1>1. CASE Arrive(r)
  <2>0. UNCHANGED <<redeemed, permitted, blocked, knownGen, operation, bound>>
    BY <1>1 DEF Arrive
  <2>1. CASE \E read \in {FreshRead} \cup (IF sharedRead.ok THEN {sharedRead} ELSE {}) :
               /\ request' = [request EXCEPT ![r] = [Waiting EXCEPT !.pc = "ready", !.read = read]]
               /\ sharedRead' = read /\ rejection' = Settles(read)
    <3>1. PICK read \in ReadType : /\ ReadTrue(read)
               /\ request' = [request EXCEPT ![r] = [Waiting EXCEPT !.pc = "ready", !.read = read]]
               /\ sharedRead' = read /\ rejection' = Settles(read)
      BY <2>1, <1>k, FreshIsTrue
    <3>2. /\ rejection' \in RejectionType /\ rejection'.revision = rejection.revision
          /\ rejection'.generation >= rejection.generation /\ (~rejection'.blind => bound <= rejection'.generation)
      BY <3>1, SettlesKeeps
    <3>3. RejectionBounds'
      BY <3>2, <2>0 DEF RejectionBounds
    <3>4. 0 <= redeemed
      BY <1>t DEF ReceiptTypeOK
    <3> DEFINE new == [Waiting EXCEPT !.pc = "ready", !.read = read]
    <3>5. new \in RequestType /\ new.read = read /\ new.sent <= redeemed
      BY <1>m, <3>4
    <3> HIDE DEF new
    <3> QED BY <1>k, <1>b, <1>o, <2>0, <3>1, <3>2, <3>3, <3>5, Quietly DEF new
  <2>2. CASE request' = [request EXCEPT ![r] = [Waiting EXCEPT !.pc = "ready"]] /\ sharedRead' = NoRead /\ UNCHANGED rejection
    <3> DEFINE new == [Waiting EXCEPT !.pc = "ready"]
    <3>1. new \in RequestType /\ new.read = Waiting.read /\ new.sent = Waiting.sent
      BY <1>w DEF RequestType, Waiting
    <3>2. RejectionBounds'
      BY <1>s, <2>0, <2>2
    <3> HIDE DEF new
    <3> QED BY <1>k, <1>b, <1>o, <1>j, <1>w, <2>0, <2>2, <3>1, <3>2, NoReadIsTrue, Quietly DEF new
  <2> QED BY <1>1, <2>1, <2>2 DEF Arrive
<1>2. CASE Send(r)
  <2> DEFINE known == IF request[r].read.ok THEN Max({knownGen, request[r].read.generation}) ELSE knownGen
             new == [request[r] EXCEPT !.pc = "sent", !.sent = known, !.blind = ~request[r].read.ok]
  <2>1. knownGen' = known /\ UNCHANGED <<redeemed, permitted, sharedRead, blocked, rejection, operation, bound, readFaults>>
    BY <1>2 DEF Send
  <2>2. request' = [request EXCEPT ![r] = new]
    BY <1>2, <1>r, <1>t DEF Send, ReceiptTypeOK, RequestType
  <2>3. request[r].read.generation \in Nat /\ request[r].read.generation <= redeemed /\ request[r].read.ok \in BOOLEAN
    BY <1>r DEF ReadTrue, ReadType
  <2>4. known \in Nat /\ known <= redeemed
    BY <2>3, <1>k, MaxOfTwo
  <2> HIDE DEF known
  <2>5. new \in RequestType /\ new.read = request[r].read /\ new.sent = known
    BY <1>r, <2>3, <2>4 DEF RequestType
  <2>6. RejectionBounds'
    BY <1>s, <2>1
  <2> HIDE DEF new
  <2> QED BY <1>k, <1>b, <1>o, <1>j, <1>r, <2>1, <2>2, <2>4, <2>5, <2>6, Quietly
<1>3. CASE AnswerServed(r)
  <2>1. RejectionBounds'
    BY <1>3, <1>s DEF AnswerServed
  <2> QED BY <1>3, <2>1, <1>k, <1>b, <1>o, <1>j, <1>w, Quietly DEF AnswerServed
<1>4. CASE Reread(r)
  <2>0. UNCHANGED <<redeemed, permitted, sharedRead, blocked, knownGen, rejection, operation, bound>>
    BY <1>4 DEF Reread
  <2>1. PICK read \in ReadType : ReadTrue(read) /\ request' = [request EXCEPT ![r].pc = "settle", ![r].read = read]
    BY <1>4, FreshIsTrue, NoReadIsTrue DEF Reread
  <2> DEFINE new == [request[r] EXCEPT !.pc = "settle", !.read = read]
  <2>2. request' = [request EXCEPT ![r] = new]
    BY <2>1, <1>r, <1>t DEF ReceiptTypeOK, RequestType
  <2>3. new \in RequestType /\ new.read = read /\ new.sent = request[r].sent
    BY <1>m
  <2>4. RejectionBounds'
    BY <1>s, <2>0
  <2> HIDE DEF new
  <2> QED BY <1>k, <1>b, <1>o, <1>j, <1>r, <2>0, <2>1, <2>2, <2>3, <2>4, Quietly
<1>5. CASE Judge(r)
  <2> DEFINE read == request[r].read
             seen == Settles(read)
  <2>0. rejection' = seen /\ UNCHANGED <<redeemed, permitted, sharedRead, blocked, bound, readFaults>>
    BY <1>5 DEF Judge
  <2>1. /\ rejection' \in RejectionType /\ rejection'.revision = rejection.revision
        /\ rejection'.generation >= rejection.generation /\ (~rejection'.blind => bound <= rejection'.generation)
    BY <1>r, <2>0, SettlesKeeps
  <2>2. RejectionBounds'
    BY <2>0, <2>1 DEF RejectionBounds
  <2>3. CASE request' = [request EXCEPT ![r] = Waiting] /\ UNCHANGED <<operation, knownGen>>
    BY <1>k, <1>b, <1>o, <1>j, <1>w, <2>0, <2>1, <2>2, <2>3, Quietly
  <2>4. CASE /\ Follows(seen, read.generation)
             /\ operation' = [generation |-> read.generation, state |-> "reading", revision |-> seen.revision, by |-> r]
             /\ knownGen' = Max({knownGen, read.generation})
             /\ request' = [request EXCEPT ![r].pc = "permit"]
    <3>1. read.generation \in Nat /\ read.generation <= redeemed
      BY <1>r DEF ReadTrue, ReadType
    <3>2. bound < read.generation
      BY <2>0, <2>1, <2>4, <3>1, <1>t DEF Follows, ReceiptTypeOK, RejectionType
    <3>3. operation' \in OperationType /\ operation'.revision = rejection.revision /\ operation'.generation > bound
      BY <2>0, <2>1, <2>4, <3>1, <3>2, <1>t DEF OperationType, RejectionType, ReceiptTypeOK
    <3>4. knownGen' \in Nat /\ knownGen' <= redeemed
      BY <2>4, <3>1, <1>k, MaxOfTwo
    <3> DEFINE new == [request[r] EXCEPT !.pc = "permit"]
    <3>5. new \in RequestType /\ new.read = request[r].read /\ new.sent = request[r].sent /\ request' = [request EXCEPT ![r] = new]
      BY <2>4, <1>m, <1>r
    <3> HIDE DEF new, read, seen
    <3> QED BY <1>k, <1>b, <1>o, <1>j, <1>r, <2>0, <2>1, <2>2, <3>3, <3>4, <3>5, Quietly
  <2> QED BY <1>5, <2>3, <2>4 DEF Judge
<1>6. CASE ReadPermission(r)
  <2> DEFINE new == [request[r] EXCEPT !.pc = "decide", !.allowed = permitted]
  <2>1. UNCHANGED <<redeemed, permitted, sharedRead, blocked, knownGen, rejection, operation, bound, readFaults>>
        /\ request' = [request EXCEPT ![r] = new]
    BY <1>6, <1>r, <1>t DEF ReadPermission, ReceiptTypeOK, RequestType
  <2>2. new \in RequestType /\ new.read = request[r].read /\ new.sent = request[r].sent
    BY <1>r, <1>t DEF RequestType, ReceiptTypeOK
  <2>3. RejectionBounds'
    BY <1>s, <2>1
  <2> HIDE DEF new
  <2> QED BY <1>k, <1>b, <1>o, <1>j, <1>r, <2>1, <2>2, <2>3, Quietly
<1>7. CASE Lift(r)
  <2>1. UNCHANGED <<redeemed, permitted, sharedRead, knownGen, rejection, bound, readFaults>>
        /\ request' = [request EXCEPT ![r] = Waiting]
    BY <1>7 DEF Lift
  <2>2. blocked' \in BOOLEAN /\ (blocked' => blocked)
    BY <1>7, <1>k DEF Lift
  <2>3. operation' \in OperationType /\ operation'.revision = operation.revision /\ operation'.generation = operation.generation
    BY <1>7, <1>k DEF Lift, OperationType
  <2>4. RejectionBounds'
    BY <1>s, <2>1
  <2> QED BY <1>k, <1>b, <1>o, <1>j, <1>w, <2>1, <2>2, <2>3, <2>4, Quietly
<1> QED BY <1>1, <1>2, <1>3, <1>4, <1>5, <1>6, <1>7

LEMMA RejectedStep ==
  ASSUME ReceiptInv, NEW r \in Inflight, Rejected(r)
  PROVE  ReceiptInv'
<1>t. ReceiptTypeOK /\ KnownOnFile /\ RejectionBounds /\ OperationNewer
  BY DEF ReceiptInv
<1>r. request[r] \in RequestType /\ rejection \in RejectionType
  BY <1>t DEF ReceiptTypeOK
<1>n. /\ rejection.revision \in Nat /\ rejection.generation \in Nat /\ request[r].sent \in Nat /\ request[r].sent <= redeemed
      /\ redeemed \in Nat /\ bound \in Nat /\ bound <= redeemed
      /\ rejection.blind \in BOOLEAN /\ request[r].blind \in BOOLEAN
  BY <1>t, <1>r DEF RequestType, RejectionType, ReceiptTypeOK, KnownOnFile
<1> DEFINE m == Max({rejection.generation, request[r].sent})
           own == IF request[r].blind THEN redeemed ELSE request[r].sent
           newer == Max({bound, own})
<1>1. m \in Nat /\ m >= rejection.generation /\ m >= request[r].sent
  BY <1>n, MaxOfTwo
<1>2. own \in Nat /\ own <= redeemed
  BY <1>n
<1>3. newer \in {bound, own} /\ newer \in Nat /\ newer >= bound /\ newer <= redeemed
  <2> HIDE DEF own
  <2> QED BY <1>n, <1>2, MaxOfTwo
<1>4. /\ rejection' = [revision |-> rejection.revision + 1, generation |-> m, blind |-> rejection.blind \/ request[r].blind]
      /\ blocked' = TRUE /\ bound' = newer /\ request' = [request EXCEPT ![r].pc = "ready"]
      /\ UNCHANGED <<redeemed, permitted, sharedRead, knownGen, operation, readFaults>>
  BY DEF Rejected, RecordedRejection, Knows
<1> HIDE DEF m
<1>5. /\ rejection' \in RejectionType /\ rejection'.revision = rejection.revision + 1 /\ rejection'.generation = m
      /\ rejection'.blind = (rejection.blind \/ request[r].blind)
  BY <1>1, <1>4, <1>n DEF RejectionType
<1>6. RejectionBounds'
  <2> SUFFICES ASSUME ~rejection'.blind PROVE newer <= m
    BY <1>4, <1>5 DEF RejectionBounds
  <2>1. ~rejection.blind /\ ~request[r].blind
    BY <1>5
  <2>2. bound <= rejection.generation /\ own = request[r].sent
    BY <2>1, <1>t DEF RejectionBounds
  <2> HIDE DEF newer, own
  <2> QED BY <2>2, <1>1, <1>3, <1>n
<1> HIDE DEF newer, own
<1>7. request' \in [Inflight -> RequestType] /\ \A o \in Inflight : request'[o].read = request[o].read /\ request'[o].sent = request[o].sent
  BY <1>4, <1>t DEF ReceiptTypeOK, RequestType
<1>8. ReceiptTypeOK'
  BY <1>t, <1>3, <1>4, <1>5, <1>7 DEF ReceiptTypeOK
<1>9. ASSUME NEW read \in ReadType, ReadTrue(read)
      PROVE  read.generation <= redeemed' /\ read.sequence <= rejection'.revision /\ read.sequence # rejection'.revision
  BY <1>9, <1>4, <1>5, <1>n DEF ReadTrue, ReadType
<1>a. sharedRead \in ReadType /\ ReadTrue(sharedRead) /\ \A o \in Inflight : request[o].read \in ReadType /\ ReadTrue(request[o].read)
  BY <1>t DEF ReceiptInv, ReceiptTypeOK, RequestType
<1>b. ReadTrue(sharedRead)' /\ \A o \in Inflight : ReadTrue(request[o].read)'
  BY <1>4, <1>7, <1>9, <1>a DEF ReadTrue
<1>c. KnownOnFile'
  BY <1>t, <1>3, <1>4, <1>7 DEF KnownOnFile
<1>d. OperationNewer'
  BY <1>t, <1>n, <1>4, <1>5 DEF OperationNewer, ReceiptTypeOK, OperationType
<1>e. blocked' => rejection'.revision > 0
  BY <1>5, <1>n
<1> QED BY <1>6, <1>8, <1>b, <1>c, <1>d, <1>e DEF ReceiptInv

LEMMA ReceiptNextInv == ReceiptInv /\ [ReceiptNext]_receiptVars => ReceiptInv'
<1> SUFFICES ASSUME ReceiptInv, [ReceiptNext]_receiptVars PROVE ReceiptInv'
  OBVIOUS
<1> USE DEF ReceiptInv
<1>t. /\ redeemed \in Nat /\ bound \in Nat /\ rejection.revision \in Nat /\ knownGen \in Nat
      /\ \A o \in Inflight : request[o].sent \in Nat /\ request[o].read \in ReadType
  BY DEF ReceiptTypeOK, RejectionType, RequestType
<1>1. CASE UNCHANGED receiptVars
  BY <1>1 DEF receiptVars, ReceiptTypeOK, ReadTrue, KnownOnFile, RejectionBounds, OperationNewer
<1>2. CASE RetryDue
  <2>1. operation' = NoOperation /\ UNCHANGED <<redeemed, permitted, sharedRead, blocked, knownGen, rejection, request, bound, readFaults>>
    BY <1>2 DEF RetryDue
  <2>2. NoOperation \in OperationType /\ NoOperation.revision = 0
    BY DEF NoOperation, OperationType
  <2>3. ReceiptTypeOK' /\ OperationNewer'
    BY <1>t, <2>1, <2>2 DEF ReceiptTypeOK, OperationNewer
  <2> QED BY <2>1, <2>3 DEF ReadTrue, KnownOnFile, RejectionBounds
<1>3. CASE Redemption
  <2>1. redeemed' = redeemed + 1 /\ permitted' = TRUE
        /\ UNCHANGED <<sharedRead, blocked, knownGen, rejection, operation, request, bound, readFaults>>
    BY <1>3 DEF Redemption
  <2>2. ReceiptTypeOK' /\ KnownOnFile' /\ RejectionBounds' /\ OperationNewer'
    BY <1>t, <2>1 DEF ReceiptTypeOK, KnownOnFile, RejectionBounds, OperationNewer
  <2>3. ASSUME NEW read \in ReadType, ReadTrue(read) PROVE read.generation <= redeemed'
    BY <1>t, <2>1, <2>3 DEF ReadTrue, ReadType
  <2>4. ReadTrue(sharedRead)' /\ \A o \in Inflight : ReadTrue(request[o].read)'
    BY <1>t, <2>1, <2>3 DEF ReadTrue, ReceiptTypeOK
  <2> QED BY <2>1, <2>2, <2>4
<1>4. CASE QuotaGone
  BY <1>4 DEF QuotaGone, ReceiptTypeOK, ReadTrue, KnownOnFile, RejectionBounds, OperationNewer
<1>5. CASE CacheOld
  <2>1. sharedRead' = NoRead /\ UNCHANGED <<redeemed, permitted, blocked, knownGen, rejection, operation, request, bound, readFaults>>
    BY <1>5 DEF CacheOld
  <2>2. NoRead \in ReadType /\ ReadTrue(NoRead)
    BY NoReadIsTrue
  <2>3. ReceiptTypeOK' /\ ReadTrue(sharedRead)'
    BY <2>1, <2>2 DEF ReceiptTypeOK, ReadTrue
  <2> QED BY <2>1, <2>3 DEF ReadTrue, KnownOnFile, RejectionBounds, OperationNewer
<1> QED BY <1>1, <1>2, <1>3, <1>4, <1>5, ReceiptSteps, RejectedStep DEF ReceiptNext

\* A remembered limit is lifted only by a receipt newer than every rejection that
\* it summarizes (ConfirmedResetReconciler.reconcile).
THEOREM LiftsAreNewer == ReceiptSpec => [][LiftedByNewerReset]_receiptVars
<1>1. ReceiptInv /\ [ReceiptNext]_receiptVars => [LiftedByNewerReset]_receiptVars
  <2> SUFFICES ASSUME ReceiptInv, ReceiptNext, blocked, ~blocked' PROVE operation.generation > bound
    BY DEF LiftedByNewerReset
  <2>1. PICK r \in Inflight : Lift(r)
    BY DEF ReceiptNext, Arrive, Send, AnswerServed, Rejected, Reread, Judge, ReadPermission, RetryDue, Redemption, QuotaGone, CacheOld
  <2>2. rejection.revision = operation.revision
    BY <2>1 DEF Lift, ReadStands
  <2> QED BY <2>2 DEF ReceiptInv, OperationNewer
<1> QED BY <1>1, ReceiptInitInv, ReceiptNextInv, PTL DEF ReceiptSpec

-----------------------------------------------------------------------------
(* Automatic checks. *)

Holding == {"refresh", "revalidate", "send"}
RouterType == [up : BOOLEAN, pc : {"idle", "loading", "claim", "read"} \cup Holding, due : Nat \cup {NoTime},
               aborted : BOOLEAN, started : Nat, claim : Nat, claimed : Nat, late : BOOLEAN]

CheckTypeOK ==
  /\ kind \in {"subscription", "api"} /\ consent \in BOOLEAN /\ upsets \in Nat
  /\ now \in [t : Nat, epoch : Nat]
  /\ history \in [at : Nat \cup {NoTime}, by : Routers \cup {NoTime}, epoch : Nat, broken : BOOLEAN]
  /\ router \in [Routers -> RouterType]
  /\ \A b \in billed : b.claim \in Nat /\ b.claimed \in Nat /\ b.epoch \in Nat

Holds(p) == router[p].pc \in Holding

\* The history's stamp belongs to the present reading of the clock.
Recent == history.epoch = now.epoch /\ history.at # NoTime

\* One of two claims was made an interval after the other's stamp.
Apart(c, d) ==
  \/ c.claim < d.claim /\ d.claimed - c.claim >= CheckInterval
  \/ d.claim < c.claim /\ c.claimed - d.claim >= CheckInterval

\* Claims made since the clock was last set back are in the history, and apart.
ClaimsApart ==
  /\ history.epoch <= now.epoch
  /\ Recent => history.at <= now.t
  /\ \A p \in Routers : Holds(p) => Recent /\ router[p].claim <= history.at
  /\ \A b \in billed : b.epoch <= now.epoch /\ (b.epoch = now.epoch => Recent /\ b.claim <= history.at)
  /\ \A p \in Routers, b \in billed : Holds(p) /\ b.epoch = now.epoch => Apart(router[p], b)
  /\ \A p, o \in Routers : p # o /\ Holds(p) /\ Holds(o) => Apart(router[p], router[o])
  /\ \A a, b \in billed : a # b /\ a.epoch = b.epoch => Apart(a, b)

\* A run that has not claimed yet is younger than an interval.
RunsYoung ==
  \A p \in Routers : router[p].pc \in {"loading", "claim"} =>
    router[p].started <= now.t /\ now.t - router[p].started < CheckInterval

\* A router that made the last attempt waits for an interval before its next run.
OwnRunsWait ==
  \A p \in Routers :
    /\ history.by = p \/ router[p].pc # "idle" => router[p].up
    /\ history.by = p /\ history.epoch = now.epoch =>
         /\ history.at # NoTime
         /\ router[p].due # NoTime => router[p].due >= history.at + CheckInterval
         /\ router[p].pc \in {"loading", "claim"} => router[p].started >= history.at + CheckInterval
         /\ router[p].pc \in Holding \cup {"read"} => router[p].claim = history.at

\* The timer is armed only between runs and not after stop().
TimerQuiet ==
  \A p \in Routers : router[p].due # NoTime => router[p].pc = "idle" /\ ~router[p].aborted

ConsentKnown == \A p \in Routers : router[p].pc = "send" => consent \/ router[p].late

CheckInv == CheckTypeOK /\ ClaimsApart /\ RunsYoung /\ OwnRunsWait /\ TimerQuiet /\ ConsentKnown

LEMMA CheckInitInv == CheckInit => CheckInv
<1> SUFFICES ASSUME CheckInit PROVE CheckInv
  OBVIOUS
<1>1. Off \in RouterType /\ Off.pc = "idle" /\ Off.due = NoTime
  BY DEF Off, RouterType, Holding
<1>2. CheckTypeOK
  BY <1>1 DEF CheckInit, CheckTypeOK, NoAttempt
<1>3. \A p \in Routers : router[p] = Off
  BY DEF CheckInit
<1>4. history.at = NoTime /\ history.by = NoTime /\ history.epoch = 0 /\ now.epoch = 0 /\ billed = {}
  BY DEF CheckInit, NoAttempt
<1>5. ClaimsApart
  BY <1>1, <1>3, <1>4 DEF ClaimsApart, Recent, Holds, Holding
<1>6. RunsYoung /\ OwnRunsWait /\ TimerQuiet /\ ConsentKnown
  BY <1>1, <1>3, <1>4, CheckAssumption DEF RunsYoung, OwnRunsWait, TimerQuiet, ConsentKnown
<1> QED BY <1>2, <1>5, <1>6 DEF CheckInv

\* A step of one router that neither records nor bills an attempt.
LEMMA RouterStep ==
  ASSUME CheckInv, NEW p \in Routers, NEW new \in RouterType,
         router' = [router EXCEPT ![p] = new],
         UNCHANGED <<kind, now, history, consent, billed>>, upsets' \in Nat,
         new.due # NoTime => new.pc = "idle" /\ ~new.aborted,
         new.pc = "send" => consent \/ new.late,
         new.pc \in Holding => Holds(p) /\ new.claim = router[p].claim /\ new.claimed = router[p].claimed,
         new.pc \in {"loading", "claim"} => new.started <= now.t /\ now.t - new.started < CheckInterval,
         history.by = p \/ new.pc # "idle" => new.up,
         history.by = p /\ history.epoch = now.epoch =>
           /\ new.due # NoTime => new.due >= history.at + CheckInterval
           /\ new.pc \in {"loading", "claim"} => new.started >= history.at + CheckInterval
           /\ new.pc \in Holding \cup {"read"} => new.claim = history.at
  PROVE  CheckInv'
<1> USE DEF CheckInv
<1>0. router'[p] = new /\ \A o \in Routers : o # p => router'[o] = router[o]
  BY DEF CheckTypeOK
<1>1. CheckTypeOK'
  BY DEF CheckTypeOK
<1>2. ClaimsApart'
  <2>1. \A o \in Routers : Holds(o)' => Holds(o) /\ router'[o].claim = router[o].claim /\ router'[o].claimed = router[o].claimed
    BY <1>0 DEF Holds
  <2>2. \A o \in Routers : Holds(o)' => Recent' /\ router'[o].claim <= history'.at
    BY <2>1 DEF ClaimsApart, Recent
  <2>3. \A o \in Routers, b \in billed' : Holds(o)' /\ b.epoch = now'.epoch => Apart(router'[o], b)
    BY <2>1 DEF ClaimsApart, Apart
  <2>4. \A o, r \in Routers : o # r /\ Holds(o)' /\ Holds(r)' => Apart(router'[o], router'[r])
    BY <2>1 DEF ClaimsApart, Apart
  <2> QED BY <2>2, <2>3, <2>4 DEF ClaimsApart, Recent, Apart
<1>3. RunsYoung'
  BY <1>0 DEF RunsYoung
<1>4. OwnRunsWait'
  BY <1>0 DEF OwnRunsWait
<1>5. TimerQuiet' /\ ConsentKnown'
  BY <1>0 DEF TimerQuiet, ConsentKnown
<1> QED BY <1>1, <1>2, <1>3, <1>4, <1>5

\* A run that ends: what Rearms puts in the router's place.
Rested(p, due) == [Off EXCEPT !.up = TRUE, !.aborted = router[p].aborted, !.due = IF router[p].aborted THEN NoTime ELSE due]

LEMMA RestedType ==
  ASSUME CheckInv, NEW p \in Routers, NEW due \in Nat
  PROVE  /\ Rested(p, due) \in RouterType /\ Rested(p, due).pc = "idle" /\ Rested(p, due).up
         /\ Rested(p, due).due # NoTime => ~Rested(p, due).aborted /\ Rested(p, due).due = due
BY DEF CheckInv, CheckTypeOK, Rested, Off, RouterType, Holding

LEMMA RearmStep ==
  ASSUME CheckInv, NEW p \in Routers, NEW due \in Nat, Rearms(p, due),
         UNCHANGED <<kind, now, history, consent, upsets, billed>>,
         history.by = p /\ history.epoch = now.epoch => due >= history.at + CheckInterval
  PROVE  CheckInv'
<1>1. router' = [router EXCEPT ![p] = Rested(p, due)]
  BY DEF Rearms, Rested
<1>2. upsets' \in Nat
  BY DEF CheckInv, CheckTypeOK
<1> QED BY <1>1, <1>2, RestedType, RouterStep DEF Holding

LEMMA RouterFacts ==
  ASSUME CheckInv, NEW p \in Routers
  PROVE  /\ router[p] \in RouterType /\ router[p].up \in BOOLEAN /\ router[p].started \in Nat /\ router[p].claim \in Nat
         /\ router[p].claimed \in Nat /\ router[p].due \in Nat \cup {NoTime} /\ router[p].aborted \in BOOLEAN
         /\ now.t \in Nat /\ now.epoch \in Nat /\ history.at \in Nat \cup {NoTime} /\ history.epoch \in Nat
         /\ upsets \in Nat /\ CheckInterval \in Nat /\ CheckInterval > 0 /\ NoTime \notin Nat
BY CheckAssumption DEF CheckInv, CheckTypeOK, RouterType

\* An interval after the run began, or now, is late enough for whoever made the last attempt.
LEMMA WaitedEnough ==
  ASSUME CheckInv, NEW p \in Routers, history.by = p, history.epoch = now.epoch
  PROVE  /\ history.at \in Nat /\ history.at <= now.t
         /\ router[p].pc \in {"loading", "claim"} => now.t >= history.at + CheckInterval
         /\ router[p].pc \in Holding \cup {"read"} => router[p].claim = history.at
BY RouterFacts DEF CheckInv, OwnRunsWait, ClaimsApart, Recent, RunsYoung

LEMMA TimerSteps ==
  ASSUME CheckInv, NEW p \in Routers, Starts(p) \/ Ticks(p) \/ Stops(p)
  PROVE  CheckInv'
<1>r. /\ router[p] \in RouterType /\ router[p].due \in Nat \cup {NoTime} /\ now.t \in Nat /\ upsets \in Nat
      /\ CheckInterval \in Nat /\ CheckInterval > 0
  BY RouterFacts
<1>1. CASE Starts(p)
  <2> DEFINE new == [Off EXCEPT !.up = TRUE, !.due = now.t]
  <2>1. new \in RouterType /\ new.pc = "idle" /\ ~new.aborted /\ new.up
    BY <1>r DEF Off, RouterType, Holding
  <2>2. history.by # p
    BY <1>1 DEF Starts, CheckInv, OwnRunsWait
  <2>3. router' = [router EXCEPT ![p] = new] /\ UNCHANGED <<kind, now, history, consent, upsets, billed>>
    BY <1>1 DEF Starts
  <2> HIDE DEF new
  <2> QED BY <1>r, <2>1, <2>2, <2>3, RouterStep DEF Holding
<1>2. CASE Ticks(p)
  <2> DEFINE new == [router[p] EXCEPT !.pc = "loading", !.due = NoTime, !.started = now.t]
  <2>1. new \in RouterType /\ new.pc = "loading" /\ new.due = NoTime /\ new.started = now.t /\ (router[p].up => new.up)
    BY <1>r DEF RouterType
  <2>2. router' = [router EXCEPT ![p] = new] /\ UNCHANGED <<kind, now, history, consent, upsets, billed>>
        /\ router[p].due # NoTime /\ router[p].due <= now.t /\ router[p].up
    BY <1>2, <1>r DEF Ticks
  <2>3. history.by = p /\ history.epoch = now.epoch => now.t >= history.at + CheckInterval
    <3> SUFFICES ASSUME history.by = p, history.epoch = now.epoch PROVE now.t >= history.at + CheckInterval
      OBVIOUS
    <3>1. router[p].due >= history.at + CheckInterval
      BY <2>2 DEF CheckInv, OwnRunsWait
    <3> QED BY <3>1, <2>2, <1>r, WaitedEnough
  <2>4. now.t - now.t < CheckInterval /\ now.t <= now.t
    BY <1>r
  <2> HIDE DEF new
  <2>5. new.up /\ new.pc # "send" /\ new.pc \notin Holding \cup {"read"}
    BY <2>1, <2>2 DEF Holding
  <2> QED BY <1>r, <2>1, <2>2, <2>3, <2>4, <2>5, RouterStep
<1>3. CASE Stops(p)
  <2> DEFINE new == [router[p] EXCEPT !.aborted = TRUE, !.due = NoTime]
  <2>1. new \in RouterType /\ new.due = NoTime /\ new.pc = router[p].pc /\ new.late = router[p].late
        /\ new.claim = router[p].claim /\ new.claimed = router[p].claimed /\ new.started = router[p].started /\ (router[p].up => new.up)
    BY <1>r DEF RouterType
  <2>2. router' = [router EXCEPT ![p] = new] /\ UNCHANGED <<kind, now, history, consent, billed>> /\ upsets' \in Nat
    <3>1. router' = [router EXCEPT ![p].aborted = TRUE, ![p].due = NoTime] /\ UNCHANGED <<kind, now, history, consent, billed>> /\ upsets' = upsets + 1
      BY <1>3 DEF Stops, Upset
    <3>2. router' = [router EXCEPT ![p] = new]
      BY <3>1
    <3>3. upsets' \in Nat
      BY <1>r, <3>1
    <3> HIDE DEF new
    <3> QED BY <3>1, <3>2, <3>3
  <2>3. /\ router[p].pc = "send" => consent \/ router[p].late
        /\ router[p].pc \in {"loading", "claim"} => router[p].started <= now.t /\ now.t - router[p].started < CheckInterval
        /\ history.by = p \/ router[p].pc # "idle" => router[p].up
        /\ history.by = p /\ history.epoch = now.epoch =>
             /\ router[p].pc \in {"loading", "claim"} => router[p].started >= history.at + CheckInterval
             /\ router[p].pc \in Holding \cup {"read"} => router[p].claim = history.at
    BY DEF CheckInv, ConsentKnown, RunsYoung, OwnRunsWait
  <2> HIDE DEF new
  <2> QED BY <2>1, <2>2, <2>3, RouterStep DEF Holds
<1> QED BY <1>1, <1>2, <1>3

\* Dates the code computes are dates, and not too early for the router itself.
LEMMA Dues ==
  ASSUME CheckInv, NEW p \in Routers
  PROVE  /\ now.t + CheckInterval \in Nat /\ now.t + PreparationRetry \in Nat /\ NextSubscription(p) \in Nat
         /\ \A d \in Nat : NextApi(d + CheckInterval) \in Nat
         /\ NextDue(p) \in Nat /\ NextIdle(p) \in Nat
         /\ history.by = p /\ history.epoch = now.epoch =>
              /\ now.t + CheckInterval >= history.at + CheckInterval
              /\ router[p].pc \in {"loading", "claim"} => NextIdle(p) >= history.at + CheckInterval
              /\ router[p].pc \in {"loading", "claim"} => now.t + PreparationRetry >= history.at + CheckInterval
              /\ router[p].pc \in Holding \cup {"read"} => NextDue(p) >= history.at + CheckInterval
<1>1. now.t \in Nat /\ CheckInterval \in Nat /\ PreparationRetry \in Nat /\ router[p].claim \in Nat
      /\ router[p].started \in Nat
  BY RouterFacts, CheckAssumption
<1>2. \A d \in Nat : NextApi(d + CheckInterval) \in Nat /\ (d <= now.t => NextApi(d + CheckInterval) >= d + CheckInterval)
  BY <1>1 DEF NextApi
<1>3. NextSubscription(p) = now.t + CheckInterval
  BY DEF NextSubscription
<1>4. NextDue(p) \in Nat
  BY <1>1, <1>2, <1>3 DEF NextDue
<1>5. ASSUME history.by = p, history.epoch = now.epoch
      PROVE  /\ now.t + CheckInterval >= history.at + CheckInterval
             /\ router[p].pc \in {"loading", "claim"} => NextIdle(p) >= history.at + CheckInterval
             /\ router[p].pc \in {"loading", "claim"} => now.t + PreparationRetry >= history.at + CheckInterval
             /\ router[p].pc \in Holding \cup {"read"} => NextDue(p) >= history.at + CheckInterval
  <2>1. /\ history.at \in Nat /\ history.at <= now.t
        /\ router[p].pc \in {"loading", "claim"} => now.t >= history.at + CheckInterval
        /\ router[p].pc \in Holding \cup {"read"} => router[p].claim = history.at
    BY <1>5, WaitedEnough
  <2>2. \A d \in Nat : NextApi(d + CheckInterval) >= now.t
    BY <1>1 DEF NextApi
  <2>3. router[p].pc \in {"loading", "claim"} => NextIdle(p) >= history.at + CheckInterval
    <3>1. NextIdle(p) >= now.t
      BY <1>1, <1>3, <2>2 DEF NextIdle
    <3>2. NextIdle(p) \in Nat
      BY <1>1, <1>2, <1>3 DEF NextIdle
    <3> QED BY <1>1, <2>1, <3>1, <3>2
  <2> QED BY <1>1, <1>2, <1>3, <2>1, <2>3 DEF NextDue
<1>6. /\ now.t + CheckInterval \in Nat /\ now.t + PreparationRetry \in Nat /\ NextSubscription(p) \in Nat
  BY <1>1, <1>3
<1>7. NextIdle(p) \in Nat
  BY <1>1, <1>2, <1>3 DEF NextIdle
<1> QED BY <1>2, <1>4, <1>5, <1>6, <1>7

LEMMA RunSteps ==
  ASSUME CheckInv, NEW p \in Routers,
         HistoryFails(p) \/ PreparesRoute(p) \/ Refreshes(p) \/ Revalidates(p) \/ Ends(p)
  PROVE  CheckInv'
<1>r. router[p] \in RouterType /\ now.t \in Nat /\ upsets \in Nat
  BY RouterFacts
<1>d. /\ NextIdle(p) \in Nat /\ now.t + PreparationRetry \in Nat /\ NextDue(p) \in Nat
      /\ history.by = p /\ history.epoch = now.epoch =>
           /\ router[p].pc \in {"loading", "claim"} => NextIdle(p) >= history.at + CheckInterval
           /\ router[p].pc \in {"loading", "claim"} => now.t + PreparationRetry >= history.at + CheckInterval
           /\ router[p].pc \in Holding \cup {"read"} => NextDue(p) >= history.at + CheckInterval
  BY Dues
<1>g. ASSUME NEW pc \in {"claim", "revalidate", "send"}, router' = [router EXCEPT ![p].pc = pc],
             router[p].pc # "idle", pc = "claim" => router[p].pc = "loading",
             pc # "claim" => router[p].pc \in Holding, pc = "send" => consent,
             UNCHANGED <<kind, now, history, consent, upsets, billed>>
      PROVE  CheckInv'
  <2> DEFINE new == [router[p] EXCEPT !.pc = pc]
  <2>1. new \in RouterType /\ new.due = router[p].due /\ new.pc = pc
        /\ new.claim = router[p].claim /\ new.claimed = router[p].claimed /\ new.started = router[p].started /\ (router[p].up => new.up)
    BY <1>r DEF RouterType, Holding
  <2>2. router' = [router EXCEPT ![p] = new]
    BY <1>g
  <2>3. /\ router[p].pc = "loading" => router[p].started <= now.t /\ now.t - router[p].started < CheckInterval
        /\ router[p].up
        /\ router[p].due = NoTime
        /\ history.by = p /\ history.epoch = now.epoch =>
             /\ router[p].pc = "loading" => router[p].started >= history.at + CheckInterval
             /\ router[p].pc \in Holding \cup {"read"} => router[p].claim = history.at
    BY <1>g DEF CheckInv, TimerQuiet, RunsYoung, OwnRunsWait
  <2> HIDE DEF new
  <2>4. /\ new.due = NoTime /\ (new.pc = "send" => consent) /\ new.up
        /\ new.pc \in Holding => Holds(p)
        /\ new.pc \in {"loading", "claim"} => router[p].pc = "loading"
        /\ new.pc \in Holding \cup {"read"} => router[p].pc \in Holding \cup {"read"}
    BY <1>g, <2>1, <2>3 DEF Holds, Holding
  <2>5. /\ new.pc \in {"loading", "claim"} => new.started <= now.t /\ now.t - new.started < CheckInterval
        /\ new.pc \in Holding => Holds(p) /\ new.claim = router[p].claim /\ new.claimed = router[p].claimed
        /\ history.by = p /\ history.epoch = now.epoch =>
             /\ new.pc \in {"loading", "claim"} => new.started >= history.at + CheckInterval
             /\ new.pc \in Holding \cup {"read"} => new.claim = history.at
    BY <2>1, <2>3, <2>4
  <2>6. UNCHANGED <<kind, now, history, consent, billed>> /\ upsets' \in Nat
    BY <1>g, <1>r
  <2> QED BY <2>1, <2>2, <2>4, <2>5, <2>6, RouterStep
<1>1. CASE HistoryFails(p)
  BY <1>1, <1>d, RearmStep DEF HistoryFails
<1>2. CASE PreparesRoute(p)
  <2>0. router[p].pc = "loading" /\ UNCHANGED <<kind, now, history, consent, upsets, billed>>
    BY <1>2 DEF PreparesRoute
  <2>1. CASE router' = [router EXCEPT ![p].pc = "claim"]
    BY <1>g, <2>0, <2>1
  <2>2. CASE Rearms(p, now.t + PreparationRetry)
    BY <1>d, <2>0, <2>2, RearmStep
  <2>3. CASE Rearms(p, NextIdle(p))
    BY <1>d, <2>0, <2>3, RearmStep
  <2> QED BY <1>2, <2>1, <2>2, <2>3 DEF PreparesRoute
<1>3. CASE Refreshes(p)
  <2>0. router[p].pc = "refresh" /\ UNCHANGED <<kind, now, history, consent, upsets, billed>>
    BY <1>3 DEF Refreshes
  <2>1. CASE router' = [router EXCEPT ![p].pc = "revalidate"]
    BY <1>g, <2>0, <2>1 DEF Holding
  <2>2. CASE Rearms(p, NextDue(p))
    BY <1>d, <2>0, <2>2, RearmStep DEF Holding
  <2> QED BY <1>3, <2>1, <2>2 DEF Refreshes
<1>4. CASE Revalidates(p)
  <2>0. router[p].pc = "revalidate" /\ UNCHANGED <<kind, now, history, consent, upsets, billed>>
    BY <1>4 DEF Revalidates
  <2>1. CASE router' = [router EXCEPT ![p].pc = "send"] /\ consent
    BY <1>g, <2>0, <2>1 DEF Holding
  <2>2. CASE Rearms(p, NextDue(p))
    BY <1>d, <2>0, <2>2, RearmStep DEF Holding
  <2> QED BY <1>4, <2>1, <2>2 DEF Revalidates, StillWanted
<1>5. CASE Ends(p)
  BY <1>5, <1>d, RearmStep DEF Ends
<1> QED BY <1>1, <1>2, <1>3, <1>4, <1>5

\* An attempt is recorded: a claim, or the replacement of a broken history.
LEMMA RecordStep ==
  ASSUME CheckInv, NEW p \in Routers, NEW new \in RouterType, NEW c \in Nat, c <= now.t,
         router' = [router EXCEPT ![p] = new], history' = Attempt(p, c),
         UNCHANGED <<kind, now, consent, upsets, billed>>,
         Recent => history.at <= c,
         new.pc \in {"idle", "refresh", "revalidate"}, new.up,
         new.due # NoTime => new.pc = "idle" /\ ~new.aborted /\ new.due >= c + CheckInterval,
         new.pc \in Holding =>
           /\ new.claim = c /\ new.claimed = now.t
           /\ Recent => history.at < c /\ now.t - history.at >= CheckInterval
  PROVE  CheckInv'
<1> USE DEF CheckInv
<1>r. /\ now.t \in Nat /\ now.epoch \in Nat /\ history.at \in Nat \cup {NoTime} /\ CheckInterval \in Nat /\ NoTime \notin Nat
      /\ \A o \in Routers : router[o].claim \in Nat /\ router[o].claimed \in Nat
      /\ \A b \in billed : b.claim \in Nat /\ b.claimed \in Nat
  BY RouterFacts DEF CheckTypeOK
<1>0. router'[p] = new /\ \A o \in Routers : o # p => router'[o] = router[o]
  BY DEF CheckTypeOK
<1>h. /\ history' \in [at : Nat \cup {NoTime}, by : Routers \cup {NoTime}, epoch : Nat, broken : BOOLEAN]
      /\ history'.at = c /\ history'.by = p /\ history'.epoch = now.epoch
  BY <1>r DEF Attempt
<1>n. c # NoTime
  BY <1>r
<1>1. CheckTypeOK'
  BY <1>h DEF CheckTypeOK
<1>2. ClaimsApart'
  <2>1. Recent' /\ history'.epoch <= now'.epoch /\ history'.at <= now'.t
    BY <1>h, <1>n, <1>r DEF Recent
  <2>2. \A o \in Routers : Holds(o)' => (o = p /\ new.pc \in Holding) \/ (o # p /\ Holds(o) /\ router'[o] = router[o])
    BY <1>0 DEF Holds
  <2>3. \A o \in Routers : Holds(o) => Recent /\ router[o].claim <= history.at
    BY DEF ClaimsApart
  <2>4. \A b \in billed : b.epoch <= now.epoch /\ (b.epoch = now.epoch => Recent /\ b.claim <= history.at)
    BY DEF ClaimsApart
  <2>5. \A o \in Routers : Holds(o)' => router'[o].claim <= history'.at
    BY <1>0, <1>h, <1>r, <2>2, <2>3 DEF Recent
  <2>6. \A b \in billed : b.epoch = now.epoch => b.claim <= history'.at
    BY <1>h, <1>r, <2>4 DEF Recent
  <2>7. ASSUME NEW x, x.claim \in Nat, x.claimed \in Nat, new.pc \in Holding, Recent, x.claim <= history.at
        PROVE  Apart(new, x) /\ Apart(x, new)
    BY <1>r, <2>7 DEF Apart, Recent
  <2>8. ASSUME NEW o \in Routers, NEW b \in billed, Holds(o)', b.epoch = now.epoch PROVE Apart(router'[o], b)
    <3>1. CASE o = p /\ new.pc \in Holding
      BY <1>0, <1>r, <2>4, <2>7, <2>8, <3>1
    <3>2. CASE o # p /\ Holds(o) /\ router'[o] = router[o]
      BY <2>8, <3>2 DEF ClaimsApart
    <3> QED BY <2>2, <2>8, <3>1, <3>2
  <2>9. ASSUME NEW o \in Routers, NEW s \in Routers, o # s, Holds(o)', Holds(s)' PROVE Apart(router'[o], router'[s])
    <3>1. CASE o = p
      BY <1>0, <1>r, <2>2, <2>3, <2>7, <2>9, <3>1
    <3>2. CASE s = p
      BY <1>0, <1>r, <2>2, <2>3, <2>7, <2>9, <3>2
    <3>3. CASE o # p /\ s # p
      BY <2>2, <2>9, <3>3 DEF ClaimsApart
    <3> QED BY <3>1, <3>2, <3>3
  <2>a. \A x, b \in billed : x # b /\ x.epoch = b.epoch => Apart(x, b)
    BY DEF ClaimsApart
  <2> QED BY <2>1, <2>4, <2>5, <2>6, <2>8, <2>9, <2>a DEF ClaimsApart, Apart
<1>3. RunsYoung'
  BY <1>0 DEF RunsYoung
<1>4. OwnRunsWait'
  BY <1>0, <1>h, <1>n DEF OwnRunsWait, Holding
<1>5. TimerQuiet' /\ ConsentKnown'
  BY <1>0 DEF TimerQuiet, ConsentKnown
<1> QED BY <1>1, <1>2, <1>3, <1>4, <1>5

\* What a claim is made against: an attempt that is not too recent.
LEMMA NotThrottled ==
  ASSUME CheckInv, NEW p \in Routers, ~Throttled(history), Recent
  PROVE  history.at \in Nat /\ now.t - history.at >= CheckInterval
<1>1. history.at \in Nat /\ history.at <= now.t /\ now.t \in Nat /\ Skew \in Nat /\ CheckInterval \in Nat
  BY RouterFacts, CheckAssumption DEF CheckInv, ClaimsApart, Recent
<1> QED BY <1>1 DEF Throttled, Recent

LEMMA ClaimSteps ==
  ASSUME CheckInv, NEW p \in Routers, ChecksSubscription(p) \/ ClaimsRoute(p)
  PROVE  CheckInv'
<1>r. /\ router[p] \in RouterType /\ router[p].started \in Nat /\ now.t \in Nat /\ CheckInterval \in Nat /\ CheckInterval > 0
      /\ upsets \in Nat /\ history.at \in Nat \cup {NoTime}
  BY RouterFacts
<1>d. /\ now.t + CheckInterval \in Nat /\ NextIdle(p) \in Nat
      /\ \A d \in Nat : NextApi(d + CheckInterval) \in Nat
      /\ history.by = p /\ history.epoch = now.epoch =>
           /\ now.t + CheckInterval >= history.at + CheckInterval
           /\ router[p].pc \in {"loading", "claim"} => NextIdle(p) >= history.at + CheckInterval
  BY Dues
<1>u. ASSUME router[p].pc \in {"loading", "claim"}
      PROVE  /\ router[p].due = NoTime /\ router[p].up
             /\ router[p].started <= now.t /\ now.t - router[p].started < CheckInterval
  BY <1>u DEF CheckInv, TimerQuiet, OwnRunsWait, RunsYoung
<1>c. ASSUME NEW pc \in {"refresh", "revalidate"}, NEW c \in Nat, c <= now.t,
             router[p].pc \in {"loading", "claim"},
             router' = [router EXCEPT ![p].pc = pc, ![p].claim = c, ![p].claimed = now.t],
             history' = Attempt(p, c), UNCHANGED <<kind, now, consent, upsets, billed>>,
             Recent => history.at < c /\ now.t - history.at >= CheckInterval
      PROVE  CheckInv'
  <2> DEFINE new == [router[p] EXCEPT !.pc = pc, !.claim = c, !.claimed = now.t]
  <2>1. new \in RouterType /\ new.pc = pc /\ new.claim = c /\ new.claimed = now.t /\ new.due = router[p].due /\ (router[p].up => new.up)
    BY <1>r, <1>c DEF RouterType, Holding
  <2>2. router' = [router EXCEPT ![p] = new]
    BY <1>c
  <2>3. Recent => history.at <= c
    BY <1>r, <1>c DEF Recent
  <2>4. new.due = NoTime /\ new.pc \in {"idle", "refresh", "revalidate"} /\ new.up
    BY <1>c, <1>u, <2>1
  <2> HIDE DEF new
  <2> QED BY <1>c, <2>1, <2>2, <2>3, <2>4, RecordStep
<1>1. CASE ChecksSubscription(p)
  <2>0. router[p].pc = "loading" /\ UNCHANGED <<kind, now, consent, upsets, billed>>
    BY <1>1 DEF ChecksSubscription
  <2>1. CASE Rearms(p, NextSubscription(p)) /\ UNCHANGED history
    BY <1>d, <2>0, <2>1, RearmStep DEF NextSubscription
  <2>2. CASE /\ ~Throttled(history) /\ history' = Attempt(p, now.t)
             /\ router' = [router EXCEPT ![p].pc = "refresh", ![p].claim = now.t, ![p].claimed = now.t]
    <3>1. Recent => history.at < now.t /\ now.t - history.at >= CheckInterval
      BY <1>r, <2>2, NotThrottled
    <3>2. now.t <= now.t
      BY <1>r
    <3> QED BY <1>c, <1>r, <2>0, <2>2, <3>1, <3>2
  <2> QED BY <1>1, <2>1, <2>2 DEF ChecksSubscription
<1>2. CASE ClaimsRoute(p)
  <2>0. router[p].pc = "claim" /\ UNCHANGED <<kind, now, consent, upsets, billed>>
    BY <1>2 DEF ClaimsRoute
  <2>1. CASE Rearms(p, NextIdle(p)) /\ UNCHANGED history
    BY <1>d, <2>0, <2>1, RearmStep
  <2>2. CASE history' = Attempt(p, now.t) /\ Rearms(p, now.t + CheckInterval)
    <3>1. router' = [router EXCEPT ![p] = Rested(p, now.t + CheckInterval)]
      BY <2>2 DEF Rearms, Rested
    <3>2. Recent => history.at <= now.t
      BY DEF CheckInv, ClaimsApart
    <3>3. now.t <= now.t /\ now.t + CheckInterval >= now.t + CheckInterval
      BY <1>r
    <3> QED BY <1>d, <1>r, <2>0, <2>2, <3>1, <3>2, <3>3, RestedType, RecordStep DEF Holding
  <2>3. CASE Throttled(history) /\ Rearms(p, NextApi(history.at + CheckInterval)) /\ UNCHANGED history
    <3>1. history.at \in Nat
      BY <1>r, <2>3 DEF Throttled
    <3>2. ~(history.by = p /\ history.epoch = now.epoch)
      <4> SUFFICES ASSUME history.by = p, history.epoch = now.epoch PROVE FALSE
        OBVIOUS
      <4>1. now.t >= history.at + CheckInterval
        BY <2>0, WaitedEnough
      <4> QED BY <1>r, <2>3, <3>1, <4>1 DEF Throttled
    <3> QED BY <1>d, <2>0, <2>3, <3>1, <3>2, RearmStep
  <2>4. CASE /\ ~Throttled(history) /\ history' = Attempt(p, ClaimedAt(p))
             /\ router' = [router EXCEPT ![p].pc = "revalidate", ![p].claim = ClaimedAt(p), ![p].claimed = now.t]
    <3>1. /\ ClaimedAt(p) \in Nat /\ ClaimedAt(p) <= now.t
          /\ now.t - ClaimedAt(p) < CheckInterval
      BY <1>r, <1>u, <2>0 DEF ClaimedAt
    <3>2. Recent => history.at < ClaimedAt(p) /\ now.t - history.at >= CheckInterval
      BY <1>r, <2>4, <3>1, NotThrottled
    <3> HIDE DEF ClaimedAt
    <3> QED BY <1>c, <2>0, <2>4, <3>1, <3>2
  <2> QED BY <1>2, <2>1, <2>2, <2>3, <2>4 DEF ClaimsRoute
<1> QED BY <1>1, <1>2

LEMMA SendStep ==
  ASSUME CheckInv, NEW p \in Routers, Sends(p)
  PROVE  CheckInv'
<1> USE DEF CheckInv
<1>0. router[p].pc = "send" /\ UNCHANGED <<kind, now, history, consent, upsets>>
  BY DEF Sends
<1>r. /\ router[p] \in RouterType /\ router[p].claim \in Nat /\ router[p].claimed \in Nat /\ now.epoch \in Nat /\ upsets \in Nat
  BY RouterFacts
<1>1. CASE Rearms(p, NextDue(p)) /\ UNCHANGED billed
  BY <1>0, <1>1, Dues, RearmStep DEF Holding
<1>2. CASE /\ billed' = billed \cup {[claim |-> router[p].claim, claimed |-> router[p].claimed, epoch |-> now.epoch, n |-> Cardinality(billed)]}
           /\ router' = [router EXCEPT ![p].pc = "read"]
  <2> DEFINE b0 == [claim |-> router[p].claim, claimed |-> router[p].claimed, epoch |-> now.epoch, n |-> Cardinality(billed)]
             new == [router[p] EXCEPT !.pc = "read"]
  <2>1. b0.claim = router[p].claim /\ b0.claimed = router[p].claimed /\ b0.epoch = now.epoch /\ billed' = billed \cup {b0}
    BY <1>2
  <2>2. new \in RouterType /\ new.pc = "read" /\ new.claim = router[p].claim /\ new.due = router[p].due /\ (router[p].up => new.up)
    BY <1>r DEF RouterType
  <2>3. router' = [router EXCEPT ![p] = new]
    BY <1>2
  <2> HIDE DEF b0, new
  <2>4. router'[p] = new /\ (\A o \in Routers : o # p => router'[o] = router[o]) /\ router' \in [Routers -> RouterType]
    BY <2>2, <2>3 DEF CheckTypeOK
  <2>5. CheckTypeOK'
    BY <1>0, <1>r, <2>1, <2>4 DEF CheckTypeOK
  <2>6. Holds(p) /\ Recent /\ router[p].claim <= history.at
    BY <1>0 DEF Holds, Holding, ClaimsApart
  <2>7. \A o \in Routers : Holds(o)' => o # p /\ Holds(o) /\ router'[o] = router[o]
    BY <2>2, <2>4 DEF Holds, Holding
  <2>8. ASSUME NEW b \in billed, b.epoch = now.epoch PROVE Apart(b0, b) /\ Apart(b, b0)
    <3>1. Apart(router[p], b)
      BY <2>6, <2>8 DEF ClaimsApart
    <3> QED BY <2>1, <3>1 DEF Apart
  <2>9. ASSUME NEW o \in Routers, o # p, Holds(o) PROVE Apart(router[o], b0)
    <3>1. Apart(router[o], router[p])
      BY <2>6, <2>9 DEF ClaimsApart
    <3> QED BY <2>1, <3>1 DEF Apart
  <2>a. \A b \in billed' : b.epoch <= now'.epoch /\ (b.epoch = now'.epoch => Recent' /\ b.claim <= history'.at)
    BY <1>0, <1>r, <2>1, <2>6 DEF ClaimsApart, Recent
  <2>b. \A o \in Routers, b \in billed' : Holds(o)' /\ b.epoch = now'.epoch => Apart(router'[o], b)
    BY <1>0, <2>1, <2>7, <2>9 DEF ClaimsApart
  <2>c. \A o, s \in Routers : o # s /\ Holds(o)' /\ Holds(s)' => Apart(router'[o], router'[s])
    BY <2>7 DEF ClaimsApart
  <2>d. \A x, b \in billed' : x # b /\ x.epoch = b.epoch => Apart(x, b)
    BY <2>1, <2>8 DEF ClaimsApart
  <2>e. \A o \in Routers : Holds(o)' => Recent' /\ router'[o].claim <= history'.at
    BY <1>0, <2>7 DEF ClaimsApart, Recent
  <2>f. history'.epoch <= now'.epoch /\ (Recent' => history'.at <= now'.t)
    BY <1>0 DEF ClaimsApart, Recent
  <2>g. ClaimsApart'
    BY <2>a, <2>b, <2>c, <2>d, <2>e, <2>f DEF ClaimsApart, Apart
  <2>h. RunsYoung'
    BY <1>0, <2>2, <2>4 DEF RunsYoung
  <2>i. OwnRunsWait'
    BY <1>0, <2>2, <2>4 DEF OwnRunsWait, Holding
  <2>j. TimerQuiet' /\ ConsentKnown'
    BY <1>0, <2>2, <2>4 DEF TimerQuiet, ConsentKnown
  <2> QED BY <2>5, <2>g, <2>h, <2>i, <2>j
<1> QED BY <1>1, <1>2 DEF Sends

LEMMA CrashStep ==
  ASSUME CheckInv, NEW p \in Routers, Crashes(p)
  PROVE  CheckInv'
<1> USE DEF CheckInv
<1>0. /\ router' = [router EXCEPT ![p] = Off] /\ UNCHANGED <<kind, now, consent, billed>> /\ upsets' = upsets + 1
      /\ history' = [history EXCEPT !.by = IF @ = p THEN NoTime ELSE @]
  BY DEF Crashes, Upset
<1>1. Off \in RouterType /\ Off.pc = "idle" /\ Off.due = NoTime
  BY DEF Off, RouterType, Holding
<1>2. router'[p] = Off /\ (\A o \in Routers : o # p => router'[o] = router[o]) /\ router' \in [Routers -> RouterType]
  BY <1>0, <1>1 DEF CheckTypeOK
<1>3. /\ history' \in [at : Nat \cup {NoTime}, by : Routers \cup {NoTime}, epoch : Nat, broken : BOOLEAN]
      /\ history'.at = history.at /\ history'.epoch = history.epoch
      /\ \A o \in Routers : history'.by = o => o # p /\ history.by = o
  <2> DEFINE by == IF history.by = p THEN NoTime ELSE history.by
  <2>1. history' = [history EXCEPT !.by = by]
    BY <1>0
  <2>2. by \in Routers \cup {NoTime} /\ (\A o \in Routers : by = o => o # p /\ history.by = o)
    BY CheckAssumption DEF CheckTypeOK
  <2> HIDE DEF by
  <2> QED BY <2>1, <2>2 DEF CheckTypeOK
<1>4. CheckTypeOK'
  <2>1. upsets' \in Nat
    BY <1>0 DEF CheckTypeOK
  <2> QED BY <1>0, <1>2, <1>3, <2>1 DEF CheckTypeOK
<1>5. \A o \in Routers : Holds(o)' => o # p /\ Holds(o) /\ router'[o] = router[o]
  BY <1>1, <1>2 DEF Holds, Holding
<1>6. ClaimsApart'
  BY <1>0, <1>3, <1>5 DEF ClaimsApart, Recent, Apart
<1>7. RunsYoung' /\ TimerQuiet' /\ ConsentKnown'
  BY <1>0, <1>1, <1>2 DEF RunsYoung, TimerQuiet, ConsentKnown
<1>8. OwnRunsWait'
  BY <1>0, <1>1, <1>2, <1>3 DEF OwnRunsWait
<1> QED BY <1>4, <1>6, <1>7, <1>8

LEMMA TimeStep ==
  ASSUME CheckInv, TimePasses
  PROVE  CheckInv'
<1> USE DEF CheckInv
<1>0. /\ now' = [now EXCEPT !.t = @ + 1] /\ UNCHANGED <<kind, history, consent, upsets, router, billed>>
      /\ \A p \in Routers : router[p].pc \in {"loading", "claim"} => now.t + 1 - router[p].started < CheckInterval
  BY DEF TimePasses
<1>1. now' \in [t : Nat, epoch : Nat] /\ now'.t = now.t + 1 /\ now'.epoch = now.epoch /\ now.t \in Nat
  BY <1>0 DEF CheckTypeOK
<1>2. CheckTypeOK'
  BY <1>0, <1>1 DEF CheckTypeOK
<1>3. Recent => history.at \in Nat
  BY DEF Recent, CheckTypeOK
<1>4. ClaimsApart'
  BY <1>0, <1>1, <1>3 DEF ClaimsApart, Recent, Apart, Holds
<1>5. RunsYoung'
  <2>1. \A p \in Routers : router[p].started \in Nat
    BY DEF CheckTypeOK, RouterType
  <2> QED BY <1>0, <1>1, <2>1 DEF RunsYoung
<1>6. OwnRunsWait' /\ TimerQuiet' /\ ConsentKnown'
  BY <1>0, <1>1 DEF OwnRunsWait, TimerQuiet, ConsentKnown
<1> QED BY <1>2, <1>4, <1>5, <1>6

LEMMA ClockStep ==
  ASSUME CheckInv, ClockSetBack
  PROVE  CheckInv'
<1> USE DEF CheckInv
<1>0. /\ now' = [t |-> now.t - Skew - 1, epoch |-> 1] /\ now.epoch = 0 /\ now.t > Skew
      /\ UNCHANGED <<kind, history, consent, router, billed>> /\ upsets' = upsets + 1
      /\ \A p \in Routers : router[p].due = NoTime /\ router[p].pc = "idle"
  BY DEF ClockSetBack, Upset
<1>1. now' \in [t : Nat, epoch : Nat] /\ now'.epoch = 1 /\ upsets' \in Nat
  BY <1>0, CheckAssumption DEF CheckTypeOK
<1>2. CheckTypeOK'
  BY <1>0, <1>1 DEF CheckTypeOK
<1>3. history.epoch = 0 /\ (\A b \in billed : b.epoch = 0) /\ history.epoch \in Nat
  BY <1>0 DEF ClaimsApart, CheckTypeOK
<1>4. ClaimsApart'
  BY <1>0, <1>1, <1>3 DEF ClaimsApart, Recent, Apart, Holds, Holding
<1>5. RunsYoung' /\ OwnRunsWait' /\ TimerQuiet' /\ ConsentKnown'
  BY <1>0, <1>1, <1>3 DEF RunsYoung, OwnRunsWait, TimerQuiet, ConsentKnown
<1> QED BY <1>2, <1>4, <1>5

LEMMA ConsentStep ==
  ASSUME CheckInv, ConsentChanges
  PROVE  CheckInv'
<1> USE DEF CheckInv
<1>0. /\ consent' = ~consent /\ UNCHANGED <<kind, now, history, billed>> /\ upsets' = upsets + 1
      /\ router' = [p \in Routers |-> [router[p] EXCEPT !.late = consent /\ router[p].pc = "send"]]
  BY DEF ConsentChanges, Upset
<1>1. /\ router' \in [Routers -> RouterType]
      /\ \A p \in Routers :
           /\ router'[p].up = router[p].up /\ router'[p].pc = router[p].pc /\ router'[p].due = router[p].due
           /\ router'[p].aborted = router[p].aborted /\ router'[p].started = router[p].started
           /\ router'[p].claim = router[p].claim /\ router'[p].claimed = router[p].claimed
  BY <1>0 DEF CheckTypeOK, RouterType
<1>2. \A p \in Routers : router[p].pc = "send" => (consent => router'[p].late)
  BY <1>0 DEF CheckTypeOK, RouterType
<1>3. CheckTypeOK'
  <2>1. consent' \in BOOLEAN /\ upsets' \in Nat
    BY <1>0 DEF CheckTypeOK
  <2> QED BY <1>0, <1>1, <2>1 DEF CheckTypeOK
<1>4. ClaimsApart'
  BY <1>0, <1>1 DEF ClaimsApart, Recent, Apart, Holds
<1>5. RunsYoung' /\ OwnRunsWait' /\ TimerQuiet'
  BY <1>0, <1>1 DEF RunsYoung, OwnRunsWait, TimerQuiet
<1>6. ConsentKnown'
  BY <1>0, <1>1, <1>2 DEF ConsentKnown, CheckTypeOK
<1> QED BY <1>3, <1>4, <1>5, <1>6

LEMMA DamageStep ==
  ASSUME CheckInv, HistoryDamaged
  PROVE  CheckInv'
<1> USE DEF CheckInv
<1>0. /\ history' = [history EXCEPT !.broken = TRUE] /\ UNCHANGED <<kind, now, consent, router, billed>> /\ upsets' = upsets + 1
  BY DEF HistoryDamaged, Upset
<1>1. /\ history' \in [at : Nat \cup {NoTime}, by : Routers \cup {NoTime}, epoch : Nat, broken : BOOLEAN]
      /\ history'.at = history.at /\ history'.by = history.by /\ history'.epoch = history.epoch /\ upsets' \in Nat
  <2>1. history \in [at : Nat \cup {NoTime}, by : Routers \cup {NoTime}, epoch : Nat, broken : BOOLEAN] /\ upsets \in Nat
    BY DEF CheckTypeOK
  <2>2. upsets' \in Nat
    BY <1>0, <2>1
  <2> QED BY <1>0, <2>1, <2>2
<1>2. CheckTypeOK'
  BY <1>0, <1>1 DEF CheckTypeOK
<1>3. ClaimsApart'
  BY <1>0, <1>1 DEF ClaimsApart, Recent, Apart, Holds
<1>4. RunsYoung' /\ OwnRunsWait' /\ TimerQuiet' /\ ConsentKnown'
  BY <1>0, <1>1 DEF RunsYoung, OwnRunsWait, TimerQuiet, ConsentKnown
<1> QED BY <1>2, <1>3, <1>4

LEMMA CheckNextInv == CheckInv /\ [CheckNext]_checkVars => CheckInv'
<1> SUFFICES ASSUME CheckInv, [CheckNext]_checkVars PROVE CheckInv'
  OBVIOUS
<1>1. CASE UNCHANGED checkVars
  BY <1>1 DEF checkVars, CheckInv, CheckTypeOK, ClaimsApart, Recent, Apart, Holds, RunsYoung, OwnRunsWait, TimerQuiet, ConsentKnown
<1> QED BY <1>1, TimerSteps, CrashStep, RunSteps, ClaimSteps, SendStep, TimeStep, ClockStep, ConsentStep, DamageStep DEF CheckNext

LEMMA CheckInvariant == CheckSpec => []CheckInv
BY CheckInitInv, CheckNextInv, PTL DEF CheckSpec

\* Any number of routers, with crashes and restarts, bill an account at most once
\* for an interval, a stopped one has no timer left, and a router's own tick never
\* falls inside the limit its last attempt set (automatic-subscription-checks.ts,
\* automatic-api-checks.ts, startAutomaticAccountChecks).
THEOREM ChecksStaySpaced == CheckSpec => []ChecksSpaced
<1>1. CheckInv => SpacedRequests
  BY DEF CheckInv, CheckTypeOK, ClaimsApart, Apart, SpacedRequests
<1>2. CheckInv => QuietAfterStop
  BY DEF CheckInv, TimerQuiet, QuietAfterStop, Stopped
<1>3. CheckInv => OwnTickEffective
  <2> SUFFICES ASSUME CheckInv, NEW p \in Routers, router[p].pc \in {"loading", "claim"}, history.by = p, history.epoch = now.epoch
               PROVE  ~Throttled(history)
    BY DEF OwnTickEffective
  <2>1. history.at \in Nat /\ now.t >= history.at + CheckInterval
    BY WaitedEnough
  <2> QED BY <2>1, RouterFacts DEF Throttled
<1> QED BY <1>1, <1>2, <1>3, CheckInvariant, PTL DEF ChecksSpaced

\* No request is sent for an account that was opted out before it was read again
\* (revalidation in automatic-subscription-checks.ts).
THEOREM OptOutIsHeard == CheckSpec => [][ConsentHonoured]_checkVars
<1>1. CheckInv /\ [CheckNext]_checkVars => [ConsentHonoured]_checkVars
  BY DEF CheckInv, ConsentKnown, ConsentHonoured
<1> QED BY <1>1, CheckInvariant, PTL DEF CheckSpec

-----------------------------------------------------------------------------
(* Managers of a running proxy. *)

\* The managers form one chain in the order of publication, which ends in the active one.
ChainOK ==
  /\ last \in Gens /\ active = last
  /\ redirect = [g \in Gens |-> IF g < last THEN g + 1 ELSE None]

LEMMA ChainInit == Init => ChainOK
BY SwapAssumption DEF Init, ChainOK, Gens

\* Whoever publishes a manager does so in place of the active one.
LEMMA ChainGrows ==
  ASSUME ChainOK, NEW row, Publish(active, row)
  PROVE  ChainOK'
<1>1. last' = last + 1 /\ last' \in Gens /\ active' = last'
  BY SwapAssumption DEF ChainOK, Publish, Gens
<1>2. redirect' = [redirect EXCEPT ![last] = last + 1]
  BY DEF ChainOK, Publish
<1>3. \A g \in Gens : redirect'[g] = IF g < last' THEN g + 1 ELSE None
  BY <1>1, <1>2 DEF ChainOK, Gens
<1>4. redirect' = [g \in Gens |-> redirect'[g]]
  BY <1>2 DEF ChainOK
<1> QED BY <1>1, <1>3, <1>4 DEF ChainOK

LEMMA ChainStays == ASSUME ChainOK, UNCHANGED <<last, active, redirect>> PROVE ChainOK'
BY DEF ChainOK

LEMMA ChainRequests == ASSUME ChainOK, NEW r \in Requests, RequestStep(r) PROVE ChainOK'
<1>1. CASE Begin(r)
  BY <1>1, ChainStays DEF Begin, managers
<1>2. CASE RefreshSucceeds(r)
  BY <1>2, ChainStays DEF RefreshSucceeds, managers
<1>3. CASE CommitRedirected(r)
  BY <1>3, ChainStays DEF CommitRedirected, managers
<1>4. CASE CommitStarts(r)
  BY <1>4, ChainStays DEF CommitStarts, managers
<1>5. CASE CommitWrites(r)
  BY <1>5, ChainStays DEF CommitWrites
<1>6. CASE CommitPersists(r)
  BY <1>6, ChainStays DEF CommitPersists
<1>7. CASE CommitRollsBack(r)
  BY <1>7, ChainStays DEF CommitRollsBack
<1>8. CASE CommitFails(r)
  BY <1>8, ChainStays DEF CommitFails, managers
<1>9. CASE Revoked401(r)
  BY <1>9, ChainStays DEF Revoked401
<1>10. CASE Served(r)
  BY <1>10, ChainStays DEF Served, managers
<1>11. CASE \E revoked \in BOOLEAN : RefreshFails(r, revoked)
  BY <1>11, ChainStays DEF RefreshFails
<1>12. CASE \E journaled \in Journaled : CommitRescued(r, journaled)
  BY <1>12, ChainStays DEF CommitRescued
<1> QED BY <1>1, <1>2, <1>3, <1>4, <1>5, <1>6, <1>7, <1>8, <1>9, <1>10, <1>11, <1>12 DEF RequestStep

LEMMA ChainSyncs == ASSUME ChainOK, NEW s \in Syncs, SyncStep(s) PROVE ChainOK'
<1>1. CASE SyncStarts(s) \/ SyncRedirected(s) \/ SyncLocks(s) \/ SyncReads(s)
  BY <1>1, ChainStays DEF SyncStarts, SyncRedirected, SyncLocks, SyncReads, managers
<1>2. CASE SyncApplies(s)
  <2>1. UNCHANGED <<last, active, redirect>> \/ Publish(active, RowOf(syn[s].snap))
    BY <1>2 DEF SyncApplies
  <2> QED BY <2>1, ChainStays, ChainGrows
<1> QED BY <1>1, <1>2 DEF SyncStep

LEMMA ChainReloads == ASSUME ChainOK, ReloadStep PROVE ChainOK'
<1>1. CASE \E mode \in Modes : ReloadStarts(mode)
  BY <1>1, ChainStays DEF ReloadStarts, managers
<1>2. CASE ReloadReads \/ ReloadAborts \/ RecoverCarries
  BY <1>2, ChainStays DEF ReloadReads, ReloadAborts, RecoverCarries, managers
<1>3. CASE \E saved \in BOOLEAN : RecoverFlushes(saved)
  BY <1>3, ChainStays DEF RecoverFlushes, managers
<1>4. CASE RecoverSwaps
  <2>1. Publish(active, Carried(rel.row, mgr[rel.prev]))
    BY <1>4 DEF RecoverSwaps, StillCurrent
  <2> QED BY <2>1, ChainGrows
<1>5. CASE ReloadSwaps
  <2>1. UNCHANGED <<last, active, redirect>> \/ \E row : Publish(active, row)
    BY <1>5 DEF ReloadSwaps, StillCurrent, managers
  <2> QED BY <2>1, ChainStays, ChainGrows
<1> QED BY <1>1, <1>2, <1>3, <1>4, <1>5 DEF ReloadStep

LEMMA ChainNext == ChainOK /\ [Next]_vars => ChainOK'
<1> SUFFICES ASSUME ChainOK, [Next]_vars PROVE ChainOK'
  OBVIOUS
<1>1. CASE \E g \in Gens : Save(g)
  BY <1>1, ChainStays DEF Save
<1>2. CASE EditStep
  BY <1>2, ChainStays DEF EditStep, Login, RemoveRow, SetEnabled, Edit, managers
<1>3. CASE UNCHANGED vars
  BY <1>3, ChainStays DEF vars, managers
<1> QED BY <1>1, <1>2, <1>3, ChainRequests, ChainSyncs, ChainReloads DEF Next

\* From every manager ever published the redirects lead to the end of the chain.
LEMMA ChainLeads == ASSUME ChainOK PROVE \A g \in 1..last : Resolve(g) = last
<1> USE SwapAssumption
<1> DEFINE Steps == 0..MaxManagers
           h == [n \in Steps |-> [g \in Gens |-> IF g >= last THEN g ELSE IF n + g >= last THEN last ELSE n + g]]
<1>1. /\ MaxManagers \in Nat \ {0} /\ last \in Gens /\ None \notin Nat
      /\ \A g \in Gens : g \in Nat /\ redirect[g] = IF g < last THEN g + 1 ELSE None
      /\ \A g \in Gens : g < last => g + 1 \in Gens
  BY DEF ChainOK, Gens
<1>2. \A n \in Steps, g \in Gens : h[n][g] = IF n = 0 \/ redirect[g] = None THEN g ELSE h[n - 1][redirect[g]]
  <2> SUFFICES ASSUME NEW n \in Steps, NEW g \in Gens
               PROVE  h[n][g] = IF n = 0 \/ redirect[g] = None THEN g ELSE h[n - 1][redirect[g]]
    OBVIOUS
  <2>1. CASE n = 0 \/ g >= last
    BY <1>1, <2>1
  <2>2. CASE n # 0 /\ g < last
    <3>1. n - 1 \in Steps /\ redirect[g] = g + 1 /\ g + 1 \in Gens /\ redirect[g] # None
      BY <1>1, <2>2
    <3> QED BY <1>1, <2>2, <3>1
  <2> QED BY <1>1, <2>1, <2>2
<1>3. h = [n \in Steps |-> [g \in Gens |-> IF n = 0 \/ redirect[g] = None THEN g ELSE h[n - 1][redirect[g]]]]
  <2>1. h = [n \in Steps |-> [g \in Gens |-> h[n][g]]]
    OBVIOUS
  <2> HIDE DEF h
  <2> DEFINE Row(n) == [g \in Gens |-> IF n = 0 \/ redirect[g] = None THEN g ELSE h[n - 1][redirect[g]]]
  <2>2. \A n \in Steps : h[n] = [g \in Gens |-> h[n][g]]
    BY <2>1
  <2>3. ASSUME NEW n \in Steps PROVE h[n] = Row(n)
    <3>1. \A g \in Gens : h[n][g] = Row(n)[g]
      BY <1>2
    <3>2. Row(n) = [g \in Gens |-> Row(n)[g]]
      OBVIOUS
    <3> HIDE DEF Row
    <3> QED BY <2>2, <3>1, <3>2
  <2>4. h = [n \in Steps |-> h[n]]
    BY <2>1
  <2> HIDE DEF Row
  <2>5. h = [n \in Steps |-> Row(n)]
    BY <2>3, <2>4
  <2> QED BY <2>5 DEF Row
<1> HIDE DEF h
<1>4. ResolveFrom = [n \in Steps |-> [g \in Gens |->
                       IF n = 0 \/ redirect[g] = None THEN g ELSE ResolveFrom[n - 1][redirect[g]]]]
  BY <1>3 DEF ResolveFrom
<1>5. \A n \in Steps, g \in Gens : ResolveFrom[n][g] = h[n][g]
  <2> DEFINE Bad == {n \in Steps : \E g \in Gens : ResolveFrom[n][g] # h[n][g]}
             R == OpToRel(<, Nat)
  <2>1. SUFFICES ASSUME Bad # {} PROVE FALSE
    OBVIOUS
  <2>2. IsWellFoundedOn(R, Nat)
    BY NatLessThanWellFounded
  <2>3. \A i, j \in Nat : i < j => <<i, j>> \in R
    BY DEF OpToRel
  <2>4. Bad \subseteq Steps /\ Steps \subseteq Nat
    BY <1>1
  <2>5. \A n \in Steps \ Bad, g \in Gens : ResolveFrom[n][g] = h[n][g]
    OBVIOUS
  <2>6. \A n \in Bad : \E g \in Gens : ResolveFrom[n][g] # h[n][g]
    OBVIOUS
  <2> HIDE DEF R, Bad
  <2>7. PICK n \in Bad : \A j \in Bad : <<j, n>> \notin R
    BY <2>1, <2>2, <2>4, WFMin
  <2>8. PICK g \in Gens : ResolveFrom[n][g] # h[n][g]
    BY <2>6, <2>7
  <2>9. ResolveFrom[n][g] = IF n = 0 \/ redirect[g] = None THEN g ELSE ResolveFrom[n - 1][redirect[g]]
    <3>1. n \in Steps
      BY <2>4, <2>7
    <3>2. ResolveFrom[n] = [x \in Gens |-> IF n = 0 \/ redirect[x] = None THEN x ELSE ResolveFrom[n - 1][redirect[x]]]
      BY <1>4, <3>1, Zenon
    <3> QED BY <2>8, <3>2, Zenon
  <2>10. n # 0 /\ g < last
    BY <1>1, <1>2, <2>4, <2>7, <2>8, <2>9
  <2>11. n - 1 \in Steps /\ n - 1 \in Nat /\ n \in Nat /\ n - 1 < n /\ redirect[g] \in Gens
    BY <1>1, <2>4, <2>7, <2>10
  <2>12. n - 1 \notin Bad
    BY <2>3, <2>7, <2>11
  <2> QED BY <1>2, <2>4, <2>5, <2>7, <2>8, <2>9, <2>10, <2>11, <2>12
<1>6. \A g \in 1..last : g \in Gens /\ h[MaxManagers][g] = last
  BY <1>1 DEF h, Gens
<1> QED BY <1>5, <1>6, <1>1 DEF Resolve

\* Every manager that was ever published leads to the active one, however requests, syncs,
\* recoveries and reloads replace managers under each other: a late commit, a late 401 and a
\* waiting sync all find the live row (resolveRuntimeRefreshCommitManager).
THEOREM RedirectsLeadToActive == Spec => []RedirectsReachActive
<1>1. ChainOK => RedirectsReachActive
  BY ChainLeads DEF ChainOK, RedirectsReachActive
<1> QED BY <1>1, ChainInit, ChainNext, PTL DEF Spec
=============================================================================

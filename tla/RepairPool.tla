----------------------------- MODULE RepairPool -----------------------------
(***************************************************************************)
(* The commands that move accounts between the pool file and the flagged   *)
(* file: fix, doctor --fix, verify-flagged with and without --no-restore   *)
(* (lib/codex-manager/repair-commands.ts), and the plugin's deep check and *)
(* verify-flagged (lib/runtime).  Each loads a snapshot, refreshes         *)
(* accounts without a lock, and commits under the storage lock, while      *)
(* other commands do the same, a runtime rotates credentials, and the user *)
(* logs in again or deletes an account.                                    *)
(* An account's refresh tokens are numbered in the order the server issued *)
(* them; 0 stands for "not in this file".                                  *)
(***************************************************************************)
EXTENDS Integers, FiniteSets

CONSTANTS Holders,      \* accounts, numbered in the order of the files
          Repairs,      \* command invocations, each in a process of its own
          RepairKinds,  \* the commands that each of them may be
          MaxRotations, \* bound on the tokens the server issues per account
          PoolCap,    \* ACCOUNT_LIMITS.MAX_ACCOUNTS
          MaxMishaps    \* bound on failing writes, deaths, revocations and deletions

VARIABLES poolFile,    \* the token of each account of the pool file
          poolEnabled, \* the accounts not disabled there
          flaggedFile, \* the token of each account of the flagged file
          newest,      \* the token the server accepts
          revoked,     \* accounts whose grant is gone
          repair,      \* the state of each command
          forsaken,    \* accounts the user deleted, or that a named window lost
          mishaps

repairVars == <<poolFile, poolEnabled, flaggedFile, newest, revoked, repair,
                forsaken, mishaps>>
files == <<poolFile, poolEnabled, flaggedFile>>

Inactive == [kind |-> "none", pc |-> "idle", pool |-> [a \in Holders |-> 0],
             enabled |-> {}, flagged |-> [a \in Holders |-> 0], todo |-> {},
             got |-> [a \in Holders |-> 0], failed |-> {}]

\* An account may be in both: flagged once, and logged in again.
In(file) == {a \in Holders : file[a] # 0}

RepairInit ==
  /\ flaggedFile \in [Holders -> {0, 1}]
  /\ poolFile \in [Holders -> {0, 2}]
  /\ In(poolFile) \union In(flaggedFile) = Holders
  /\ poolEnabled = In(poolFile)
  /\ newest = [a \in Holders |-> IF poolFile[a] = 0 THEN 1 ELSE 2]
  /\ revoked = {}
  /\ repair = [p \in Repairs |-> Inactive]
  /\ forsaken = {}
  /\ mishaps = 0

(***************************************************************************)
(* The transaction over both files keeps the lock from its first write to  *)
(* its last; every other commit is one write.                              *)
(***************************************************************************)
Committing(p) == repair[p].pc \in {"second", "rollback"}
Unlocked(p) == \A other \in Repairs \ {p} : ~ Committing(other)

Go(p, pc) == repair' = [repair EXCEPT ![p].pc = pc]

Finish(p) == repair' = [repair EXCEPT ![p] = [Inactive EXCEPT !.pc = "done"]]

Mishap == mishaps < MaxMishaps /\ mishaps' = mishaps + 1

NoMishap == UNCHANGED mishaps

----------------------------------------------------------------------------
\* Loading

Flags(kind) == kind \in {"verify", "verifyKeep", "runtimeVerify"}

\* What a command goes through: verify-flagged, the CLI's and the plugin's, the
\* flagged accounts;
VerifyTodo == {In(flaggedFile)}

RuntimeVerifyTodo == {In(flaggedFile)}

\* fix and the deep check the enabled accounts of the pool (one whose access
\* token is still good is passed over, which is what a soft failure does);
FixTodo == {poolEnabled}

CheckTodo == {poolEnabled}

\* and doctor the active account, whichever it is.
DoctorTodo == {{a} : a \in In(poolFile)}

Todo(kind) ==
  CASE kind \in {"verify", "verifyKeep"} -> VerifyTodo
    [] kind = "runtimeVerify" -> RuntimeVerifyTodo
    [] kind = "doctor" -> DoctorTodo
    [] kind = "fix" -> FixTodo
    [] OTHER -> CheckTodo

Begin(p, kind) ==
  /\ repair[p].pc = "idle"
  /\ In(IF Flags(kind) THEN flaggedFile ELSE poolFile) # {}
  /\ \E todo \in Todo(kind) :
        repair' = [repair EXCEPT ![p] =
             [Inactive EXCEPT !.kind = kind, !.pc = "refresh", !.pool = poolFile,
                !.enabled = poolEnabled, !.flagged = flaggedFile, !.todo = todo]]
  /\ UNCHANGED <<files, newest, revoked, forsaken, mishaps>>

\* The loops take the accounts in order.
Due(p, a) == repair[p].pc = "refresh" /\ a \in repair[p].todo /\ \A b \in repair[p].todo : a <= b

\* The token of account a that the command sends.
Held(p, a) == IF Flags(repair[p].kind) THEN repair[p].flagged[a] ELSE repair[p].pool[a]

Learn(p, a, token) == repair' = [repair EXCEPT ![p].todo = @ \ {a}, ![p].got[a] = token]

(***************************************************************************)
(* queuedRefresh: the server rotates the token it accepts; for an older    *)
(* one the lease's published result may still be joined, or the grant is   *)
(* refused; or the call fails for another reason and changes nothing.      *)
(***************************************************************************)
RefreshRotates(p, a) ==
  /\ Due(p, a) /\ a \notin revoked
  /\ Held(p, a) = newest[a] /\ newest[a] < MaxRotations
  /\ newest' = [newest EXCEPT ![a] = @ + 1]
  /\ Learn(p, a, newest'[a])
  /\ UNCHANGED <<files, revoked, forsaken, mishaps>>

RefreshJoins(p, a) ==
  /\ Due(p, a)
  /\ Held(p, a) < newest[a]
  /\ Learn(p, a, Held(p, a) + 1)
  /\ UNCHANGED <<files, newest, revoked, forsaken, mishaps>>

RefreshFails(p, a, hard) ==
  /\ Due(p, a)
  /\ hard => a \in revoked \/ Held(p, a) < newest[a]
  /\ repair' = [repair EXCEPT ![p].todo = @ \ {a},
                              ![p].failed = IF hard THEN @ \union {a} ELSE @]
  /\ UNCHANGED <<files, newest, revoked, forsaken, mishaps>>

\* The plugin's verify takes an unexpired credential of the Codex CLI instead.
TakeCodexCli(p, a) ==
  /\ repair[p].kind = "runtimeVerify" /\ Due(p, a)
  /\ \E token \in 1..newest[a] : Learn(p, a, token)
  /\ UNCHANGED <<files, newest, revoked, forsaken, mishaps>>

----------------------------------------------------------------------------
\* Committing to the pool file: fix, doctor, deep check

\* fix disables what was refused, but keeps one account (the active one, if
\* it was refused) when its own snapshot would be left without any.
DisablesDead(p) ==
  LET r == repair[p] IN
  IF r.failed # {} /\ r.enabled \subseteq r.failed
  THEN {r.failed \ {a} : a \in r.failed} ELSE {r.failed}

\* collectAccountStorageMutations: the accounts that differ from the snapshot.
Changed(p, off) == {a \in Holders : repair[p].got[a] # 0 \/ a \in off}

\* applyAccountStorageMutations: token and enabled come from the snapshot for
\* every such account that the file still has.
FixedToken(p, off, a) ==
  IF a \notin Changed(p, off) \/ poolFile[a] = 0 THEN poolFile[a]
  ELSE IF repair[p].got[a] # 0 THEN repair[p].got[a] ELSE repair[p].pool[a]

FixCommits(p) ==
  /\ repair[p].kind = "fix" /\ repair[p].pc = "refresh" /\ repair[p].todo = {}
  /\ Unlocked(p)
  /\ \E off \in DisablesDead(p) :
       LET here == Changed(p, off) \intersect In(poolFile) IN
       /\ poolFile' = [a \in Holders |-> FixedToken(p, off, a)]
       /\ poolEnabled' = (poolEnabled \union (here \intersect repair[p].enabled)) \ (here \intersect off)
  /\ Finish(p)
  /\ UNCHANGED <<flaggedFile, newest, revoked, forsaken, mishaps>>

\* applyDoctorFixes re-enables one account of a pool without any.
Reenabled(on) ==
  IF on = {} THEN {{a} : a \in In(poolFile)} ELSE {on}

\* The doctor's transaction: the refreshed credential goes to its account ...
DoctorCommits(p) ==
  /\ repair[p].kind = "doctor" /\ repair[p].pc = "refresh" /\ repair[p].todo = {}
  /\ Unlocked(p)
  /\ \A a \in Holders : repair[p].got[a] # 0 => poolFile[a] # 0
  /\ poolFile' = [a \in Holders |-> IF repair[p].got[a] # 0 THEN repair[p].got[a] ELSE poolFile[a]]
  /\ poolEnabled' \in IF poolFile = [a \in Holders |-> 0] THEN {{}} ELSE Reenabled(poolEnabled)
  /\ Finish(p)
  /\ UNCHANGED <<flaggedFile, newest, revoked, forsaken, mishaps>>

\* ... or, where that has gone, to the active entry, if there is one: the
\* entry thereby becomes the refreshed account.
DoctorFallsBack(p, a, active) ==
  /\ repair[p].kind = "doctor" /\ repair[p].pc = "refresh" /\ repair[p].todo = {}
  /\ Unlocked(p)
  /\ repair[p].got[a] # 0 /\ poolFile[a] = 0
  /\ IF In(poolFile) = {} THEN UNCHANGED <<poolFile, poolEnabled, forsaken>>
     ELSE /\ active \in In(poolFile)
          /\ poolFile' = [poolFile EXCEPT ![active] = 0, ![a] = repair[p].got[a]]
          /\ poolEnabled' = (poolEnabled \ {active}) \union {a}
          /\ forsaken' = forsaken \union {active}
  /\ Finish(p)
  /\ UNCHANGED <<flaggedFile, newest, revoked, mishaps>>

\* Entries of the flagged file that a list read earlier does not know.
Overwritten(list) == {a \in Holders : flaggedFile[a] # 0 /\ list[a] = 0 /\ poolFile[a] = 0}

\* The deep check saves its flagged list first ...
CheckFlaggedForgets(p) == repair[p].flagged

CheckFlagged(p) ==
  LET r == repair[p] IN [a \in Holders |-> IF a \in r.failed THEN r.pool[a] ELSE r.flagged[a]]

CheckSavesFlagged(p) ==
  /\ repair[p].kind = "deepCheck" /\ repair[p].pc = "refresh"
  /\ repair[p].todo = {} /\ repair[p].failed # {} /\ Unlocked(p)
  /\ flaggedFile' = CheckFlagged(p)
  /\ forsaken' = forsaken \union Overwritten(CheckFlagged(p))
  /\ repair' = [repair EXCEPT ![p].pc = "pool", ![p].flagged = CheckFlagged(p)]
  /\ UNCHANGED <<poolFile, poolEnabled, newest, revoked, mishaps>>

\* ... then the pool, merged with the file: a removal stands, a token changed
\* on both sides is a conflict and nothing is written.
Conflict(p) ==
  \E a \in Holders \ repair[p].failed :
    /\ repair[p].got[a] # 0 /\ poolFile[a] # 0
    /\ poolFile[a] \notin {repair[p].pool[a], repair[p].got[a]}

CheckSavesPool(p) ==
  /\ repair[p].kind = "deepCheck" /\ repair[p].todo = {} /\ Unlocked(p)
  /\ repair[p].pc = IF repair[p].failed # {} THEN "pool" ELSE "refresh"
  /\ LET r == repair[p] IN
     IF Conflict(p) THEN UNCHANGED <<poolFile, poolEnabled, forsaken>>
     ELSE /\ poolFile' = [a \in Holders |->
                 IF a \in r.failed \/ poolFile[a] = 0 THEN 0
                 ELSE IF r.got[a] # 0 THEN r.got[a] ELSE poolFile[a]]
          /\ poolEnabled' = poolEnabled \ r.failed
          /\ forsaken' = forsaken \union (In(r.flagged) \ In(flaggedFile))
  /\ Finish(p)
  /\ UNCHANGED <<flaggedFile, newest, revoked, mishaps>>

----------------------------------------------------------------------------
\* Committing flagged accounts

\* hasFlaggedRefreshTokenDrift: the file's entry has another token by now.
NeverDrifted(p, a) == FALSE
Drifted(p, a) == flaggedFile[a] # 0 /\ flaggedFile[a] # repair[p].flagged[a]

Verified(p) == {a \in Holders : repair[p].got[a] # 0 /\ ~ Drifted(p, a)}

\* verify-flagged --no-restore: a transaction over the flagged file alone.
VerifyKeeps(p) ==
  /\ repair[p].kind = "verifyKeep" /\ repair[p].pc = "refresh" /\ repair[p].todo = {}
  /\ Unlocked(p)
  /\ \/ /\ NoMishap
        /\ flaggedFile' = [a \in Holders |->
             IF a \in Verified(p) /\ flaggedFile[a] # 0 THEN repair[p].got[a] ELSE flaggedFile[a]]
     \/ Mishap /\ UNCHANGED flaggedFile
  /\ Finish(p)
  /\ UNCHANGED <<poolFile, poolEnabled, newest, revoked, forsaken>>

\* upsertRecoveredFlaggedAccount: into the existing entry, or a new one
\* while there is room.
Restorable(p) ==
  LET old == Verified(p) \intersect In(poolFile)
      new == Verified(p) \ In(poolFile)
      room == IF Cardinality(In(poolFile)) < PoolCap THEN PoolCap - Cardinality(In(poolFile)) ELSE 0 IN
  {old \union s : s \in {s \in SUBSET new :
      Cardinality(s) = IF Cardinality(new) < room THEN Cardinality(new) ELSE room}}

\* The first write of the transaction: the pool.  What the second needs is
\* kept in the command's record: the pool to roll back to, the flagged list.
RestoreBegins(p) ==
  /\ repair[p].kind \in {"verify", "runtimeVerify"} /\ repair[p].pc = "refresh"
  /\ repair[p].todo = {} /\ Unlocked(p)
  /\ \E back \in IF repair[p].kind = "verify" THEN Restorable(p)
                 ELSE {{a \in Holders : repair[p].got[a] # 0}} :
       LET r == repair[p]
           list == [a \in Holders |->
             IF a \in back THEN 0
             ELSE IF r.kind = "runtimeVerify" THEN r.flagged[a]
             ELSE IF a \in Verified(p) /\ flaggedFile[a] # 0 THEN r.got[a] ELSE flaggedFile[a]] IN
       \/ /\ back \union Verified(p) # {} \/ r.kind = "runtimeVerify"
          /\ poolFile' = [a \in Holders |-> IF a \in back THEN r.got[a] ELSE poolFile[a]]
          /\ poolEnabled' = poolEnabled \union back
          /\ repair' = [repair EXCEPT ![p].pc = "second", ![p].pool = poolFile,
                          ![p].enabled = poolEnabled, ![p].flagged = list]
          /\ NoMishap
       \/ /\ back \union Verified(p) = {} /\ r.kind = "verify"
          /\ Finish(p) /\ NoMishap /\ UNCHANGED <<poolFile, poolEnabled>>
       \/ Mishap /\ Finish(p) /\ UNCHANGED <<poolFile, poolEnabled>>
  /\ UNCHANGED <<flaggedFile, newest, revoked, forsaken>>

\* The second write: the flagged file, or on failure the roll back of the first.
RestoreEnds(p) ==
  /\ repair[p].pc = "second"
  /\ \/ /\ NoMishap
        /\ flaggedFile' = repair[p].flagged
        /\ forsaken' = IF repair[p].kind = "verify" THEN forsaken
                       ELSE forsaken \union Overwritten(repair[p].flagged)
        /\ Finish(p)
     \/ Mishap /\ Go(p, "rollback") /\ UNCHANGED <<flaggedFile, forsaken>>
  /\ UNCHANGED <<poolFile, poolEnabled, newest, revoked>>

RestoreRollsBack(p) ==
  /\ repair[p].pc = "rollback"
  /\ \/ /\ NoMishap
        /\ poolFile' = repair[p].pool /\ poolEnabled' = repair[p].enabled
     \/ Mishap /\ UNCHANGED <<poolFile, poolEnabled>>
  /\ Finish(p)
  /\ UNCHANGED <<flaggedFile, newest, revoked, forsaken>>

----------------------------------------------------------------------------
\* The others

RepairDies(p) ==
  /\ repair[p].pc \notin {"idle", "done"}
  /\ Mishap /\ Finish(p)
  /\ UNCHANGED <<files, newest, revoked, forsaken>>

\* A runtime refreshes an account of the pool and saves the credential.
RuntimeRotates(a) ==
  /\ a \in poolEnabled /\ poolFile[a] = newest[a] /\ a \notin revoked
  /\ newest[a] < MaxRotations /\ \A p \in Repairs : ~ Committing(p)
  /\ newest' = [newest EXCEPT ![a] = @ + 1]
  /\ poolFile' = [poolFile EXCEPT ![a] = newest'[a]]
  /\ UNCHANGED <<poolEnabled, flaggedFile, revoked, repair, forsaken, mishaps>>

Revoke(a) ==
  /\ a \notin revoked /\ Mishap
  /\ revoked' = revoked \union {a}
  /\ UNCHANGED <<files, newest, repair, forsaken>>

\* Deletion in the login menu takes the account out of the stored pool, in a transaction
\* of its own; a flagged copy stays.
DeleteAccount(a) ==
  /\ poolFile[a] # 0 /\ (\A p \in Repairs : ~ Committing(p)) /\ Mishap
  /\ poolFile' = [poolFile EXCEPT ![a] = 0]
  /\ poolEnabled' = poolEnabled \ {a}
  /\ forsaken' = forsaken \union {a}
  /\ UNCHANGED <<flaggedFile, newest, revoked, repair>>

RepairNext ==
  \/ \E p \in Repairs :
       \/ \E kind \in RepairKinds[p] : Begin(p, kind)
       \/ \E a \in Holders :
            \/ RefreshRotates(p, a) \/ RefreshJoins(p, a) \/ TakeCodexCli(p, a)
            \/ \E hard \in BOOLEAN : RefreshFails(p, a, hard)
       \/ FixCommits(p) \/ DoctorCommits(p)
       \/ \E a, active \in Holders : DoctorFallsBack(p, a, active)
       \/ CheckSavesFlagged(p) \/ CheckSavesPool(p) \/ VerifyKeeps(p)
       \/ RestoreBegins(p) \/ RestoreEnds(p) \/ RestoreRollsBack(p) \/ RepairDies(p)
  \/ \E a \in Holders : RuntimeRotates(a) \/ Revoke(a) \/ DeleteAccount(a)

RepairSpec == RepairInit /\ [][RepairNext]_repairVars

----------------------------------------------------------------------------
(***************************************************************************)
(* An account is always in the pool file or in the flagged file, whichever *)
(* write of a move fails and wherever a command dies.  Let go of are those *)
(* the user deleted, those over which the deep check or the plugin's       *)
(* verify wrote a list read before they were flagged, those taken out of   *)
(* the flagged file between the deep check's two saves, and an active      *)
(* entry the doctor's fall-back replaced.                                  *)
(***************************************************************************)
NotLost == \A a \in Holders \ forsaken : poolFile[a] # 0 \/ flaggedFile[a] # 0

\* Neither form of the CLI's verify-flagged puts an older token of a flagged
\* account in place of one that was written after the command had read the
\* file.
FlaggedNeverOlder ==
  \A p \in Repairs, a \in Holders :
    /\ repair[p].kind \in {"verify", "verifyKeep"} /\ repair[p].pc # repair'[p].pc
    => flaggedFile'[a] = 0 \/ flaggedFile'[a] >= flaggedFile[a]
=============================================================================

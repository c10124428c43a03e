----------------------------- MODULE QuotaCache -----------------------------
(***************************************************************************)
(* The quota cache (lib/quota-cache.ts and its lookup and update helpers). *)
(* A check, or the login menu, loads the cache, probes accounts and saves: *)
(* under the file lock it reads the file again and merges what it changed  *)
(* since it loaded.  An older release rewrites the file without the lock.  *)
(* The cache is a function from keys to observations; an observation says  *)
(* when it was made, whether the probe also completed the account's first  *)
(* use, and (for the properties) whom and which workspace it is about.     *)
(***************************************************************************)
EXTENDS Integers, Sequences, TLC
LOCAL INSTANCE SequencesExt

CONSTANTS Nil,
          Checks,         \* runs of the check, and of the menu's refresh
          Recs,           \* saved credential records
          MaxTime,        \* the wall clock reads 1 .. MaxTime, in any order
          MaxProbes,      \* bound on the probes of a run
          MaxQuotaEvents, \* bound on probes, pool edits and foreign writes
          CasAttempts     \* attempts of a save whose file moved

VARIABLES quota,       \* quota-cache.json
          quotaStamp,  \* its modification time
          pool,        \* the saved accounts: record -> [id, email, sel]
          check,       \* check[c]: what run c holds
          quotaTally   \* probes and other events so far, and removed records

quotaVars == <<quota, quotaStamp, pool, check, quotaTally>>

\* An account's stored binding, its email, and the workspace selected in it:
\* the binding's own (its token's, when nothing is bound) or a sibling.
Account == [id : {"a", Nil}, email : {"e", "f"}, sel : {"own", "sibling"}]
NewAccount == {acct \in Account : acct.sel = "own" /\ (acct.id = Nil => acct.email = "e")}

Binding(acct) == IF acct.id = Nil THEN "t" ELSE acct.id
QuotaWorkspaceId(acct) == IF acct.sel = "sibling" THEN "w" ELSE Binding(acct)

Empty == [k \in {} |-> Nil]
Entry(c, k) == IF k \in DOMAIN c THEN c[k] ELSE Nil
Without(c, k) == Restrict(c, DOMAIN c \ {k})

-----------------------------------------------------------------------------
(* Keys and lookups *)

HasUniqueIdLoose(accts, r) == accts[r].id # Nil

HasUniqueId(accts, r) ==
  accts[r].id # Nil /\ {s \in DOMAIN accts : accts[s].id = accts[r].id} = {r}

HasSafeEmail(accts, r) == {s \in DOMAIN accts : accts[s].email = accts[r].email} = {r}

Newer(scoped, legacy) ==
  IF scoped # Nil /\ (legacy = Nil \/ scoped.at >= legacy.at) THEN scoped ELSE legacy

Find(c, accts, r, ws) ==
  LET scoped  == Entry(c, <<"workspace", r, ws>>)
      byId    == Entry(c, <<"id", accts[r].id>>)
      byEmail == Entry(c, <<"email", accts[r].email>>)
  IN  IF ws # accts[r].id THEN scoped
      ELSE IF HasUniqueId(accts, r) /\ byId # Nil THEN Newer(scoped, byId)
      ELSE IF HasSafeEmail(accts, r) /\ byEmail # Nil THEN Newer(scoped, byEmail)
      ELSE scoped

-----------------------------------------------------------------------------
(* Merging *)

OutcomeTime(e) ==
  IF e.out = "none" THEN -1 ELSE IF e.outAt = Nil THEN e.at ELSE e.outAt

MergeEntryLatest(latest, update) ==
  IF latest = Nil \/ update.at >= latest.at THEN update ELSE latest

\* Quota and first-use evidence are merged apart: the newer quota wins, and
\* the outcome of a first use counts while no quota is newer than it.
MergeEntry(latest, update) ==
  IF latest = Nil THEN update
  ELSE LET newest == IF update.at >= latest.at THEN update ELSE latest
           done   == {e \in {update, latest} :
                        e.out = "done" /\ OutcomeTime(e) >= newest.at}
           last   == IF OutcomeTime(update) >= OutcomeTime(latest)
                     THEN update ELSE latest
           proof  == IF done = {} THEN last
                     ELSE IF last \in done THEN last ELSE CHOOSE e \in done : TRUE
       IN  IF OutcomeTime(proof) >= newest.at
           THEN [newest EXCEPT !.out = proof.out, !.outAt = proof.outAt]
           ELSE [newest EXCEPT !.out = "none", !.outAt = Nil]

\* A clock that stepped back does not make an unraced write look old.
Floored(current, proposed, before) ==
  [k \in DOMAIN proposed |->
     LET latest == Entry(current, k)  update == proposed[k] IN
     IF /\ update # Entry(before, k)
        /\ latest # Nil /\ latest = Entry(before, k) /\ update.at < latest.at
     THEN [update EXCEPT !.at = latest.at + 1] ELSE update]

MergeChangesWhole(current, proposed, before) == proposed

\* Reapply to the file what the run changed since `before'; a removal only
\* where the file still holds what the run saw.
MergeChanges(current, proposed, before) ==
  LET changed == {k \in DOMAIN before \cup DOMAIN proposed :
                    Entry(before, k) # Entry(proposed, k)}
      removed == {k \in changed \ DOMAIN proposed :
                    Entry(current, k) = before[k]}
  IN  [k \in (DOMAIN current \cup (changed \cap DOMAIN proposed)) \ removed |->
         IF k \in changed \cap DOMAIN proposed
         THEN MergeEntry(Entry(current, k), proposed[k]) ELSE current[k]]

UpdateForAccount(c, accts, r, e) ==
  LET idKey    == <<"id", accts[r].id>>
      emailKey == <<"email", accts[r].email>>
      withId   == IF HasUniqueId(accts, r)
                  THEN (idKey :> MergeEntry(Entry(c, idKey), e)) @@ c ELSE c
  IN  IF HasSafeEmail(accts, r) /\ ~HasUniqueId(accts, r)
      THEN (emailKey :> MergeEntry(Entry(c, emailKey), e)) @@ c
      ELSE Without(withId, emailKey)

UpdateForWorkspace(c, accts, r, ws, e) ==
  LET key     == <<"workspace", r, ws>>
      bound   == <<"workspace", r, accts[r].id>>
      scoped  == (key :> MergeEntry(Entry(c, key), e)) @@ c
      binding == IF accts[r].id = Nil THEN Nil ELSE Find(scoped, accts, r, accts[r].id)
  IN  IF ws = accts[r].id THEN UpdateForAccount(scoped, accts, r, e)
      ELSE Without(IF binding = Nil THEN scoped ELSE (bound :> binding) @@ scoped,
                   <<"email", accts[r].email>>)

-----------------------------------------------------------------------------
(* A run *)

IdleRun == [pc |-> "idle", kind |-> "check", base |-> Empty, work |-> Empty,
            accts |-> Empty, seen |-> << >>, expected |-> 0,
            merged |-> Empty, tries |-> 0]

QuotaInit ==
  /\ quota = Empty /\ quotaStamp = 0
  /\ \E acct \in NewAccount : pool = (CHOOSE r \in Recs : TRUE) :> acct
  /\ check = [c \in Checks |-> IdleRun]
  /\ quotaTally = [events |-> 0, gone |-> {}]

MoreEvents == quotaTally.events < MaxQuotaEvents
SetRun(c, run) == check' = [check EXCEPT ![c] = run]

\* The menu asks for the binding, and only where the answer can be stored; the
\* check asks for the selected workspace.
MenuTarget(accts, r) == HasUniqueId(accts, r) \/ HasSafeEmail(accts, r)

\* Quota is observed with the headers, the outcome of a first use, which only
\* the check asks for, when the body was consumed.  A failed probe changes
\* nothing.
Observations(run, r) ==
  [rec : {r}, src : {"run"}, at : 1 .. MaxTime,
   ws : {IF run.kind = "menu" THEN Binding(run.accts[r])
         ELSE QuotaWorkspaceId(run.accts[r])},
   out : {"none"}, outAt : {Nil}]
  \cup IF run.kind = "menu" THEN {} ELSE
  [rec : {r}, src : {"run"}, at : 1 .. MaxTime,
   ws : {QuotaWorkspaceId(run.accts[r])},
   out : {"done", "failed"}, outAt : {MaxTime}]

Applied(run, c, e) ==
  IF run.kind = "menu" THEN UpdateForAccount(c, run.accts, e.rec, e)
  ELSE UpdateForWorkspace(c, run.accts, e.rec, e.ws, e)

After(run, cache, seen) == FoldLeft(LAMBDA c, e : Applied(run, c, e), cache, seen)

\* A run loads the cache and the accounts and probes: what it does to its own
\* copy no other process sees, so this is one step.  It goes on to save when
\* the copy changed.
Probes(c) == \E kind \in {"check", "menu"}, n \in 1 .. MaxProbes :
  LET run == [IdleRun EXCEPT !.kind = kind, !.base = quota, !.accts = pool] IN
  /\ check[c].pc = "idle" /\ quotaTally.events + n <= MaxQuotaEvents
  /\ \E recs \in [1 .. n -> DOMAIN pool] :
       /\ kind = "menu" => \A i \in 1 .. n : MenuTarget(pool, recs[i])
       /\ \E seen \in [1 .. n -> UNION {Observations(run, r) : r \in Range(recs)}] :
            /\ \A i \in 1 .. n : seen[i].rec = recs[i]
            /\ LET work == After(run, quota, seen) IN
               /\ work # quota
               /\ SetRun(c, IF kind = "menu"
                            THEN [run EXCEPT !.pc = "probed", !.work = work, !.seen = seen]
                            ELSE [IdleRun EXCEPT !.pc = "saving", !.base = quota, !.work = work])
  /\ quotaTally' = [quotaTally EXCEPT !.events = @ + n]
  /\ UNCHANGED <<quota, quotaStamp, pool>>

\* The menu applies what it saw to a fresh copy first, unless that is empty.
Reapplies(c) ==
  /\ check[c].pc = "probed"
  /\ SetRun(c, IF quota # Empty
               THEN [IdleRun EXCEPT !.pc = "saving", !.base = quota,
                                    !.work = After(check[c], quota, check[c].seen)]
               ELSE [IdleRun EXCEPT !.pc = "saving", !.base = check[c].base,
                                    !.work = check[c].work])
  /\ UNCHANGED <<quota, quotaStamp, pool, quotaTally>>

-----------------------------------------------------------------------------
(* Saving, under the file lock *)

Locked == \E c \in Checks : check[c].pc \in {"write", "rename"}

Merging(c, tries) ==
  LET work == Floored(quota, check[c].work, check[c].base) IN
  SetRun(c, [check[c] EXCEPT !.pc = "write", !.expected = quotaStamp, !.tries = tries,
                             !.work = work,
                             !.merged = MergeChanges(quota, work, check[c].base)])

Merges(c) ==
  /\ check[c].pc = "saving" /\ ~Locked
  /\ Merging(c, CasAttempts)
  /\ UNCHANGED <<quota, quotaStamp, pool, quotaTally>>

\* The file moved: stat, read and merge again, a few times.
Unmoved(c) == quotaStamp = check[c].expected

Verifies(c) ==
  /\ check[c].pc = "write"
  /\ IF Unmoved(c) THEN SetRun(c, [check[c] EXCEPT !.pc = "rename", !.work = Empty])
     ELSE IF check[c].tries > 1 THEN Merging(c, check[c].tries - 1)
     ELSE SetRun(c, IdleRun)
  /\ UNCHANGED <<quota, quotaStamp, pool, quotaTally>>

Renames(c) ==
  /\ check[c].pc = "rename"
  /\ quota' = check[c].merged /\ quotaStamp' = quotaStamp + 1
  /\ SetRun(c, IdleRun)
  /\ UNCHANGED <<pool, quotaTally>>

\* A failed read or write is logged, and leaves the file.
SaveFails(c) ==
  /\ check[c].pc \in {"write", "rename"}
  /\ SetRun(c, IdleRun)
  /\ UNCHANGED <<quota, quotaStamp, pool, quotaTally>>

-----------------------------------------------------------------------------
(* Around it *)

\* An older release stores an observation of its own, without the lock.
OlderRelease ==
  /\ MoreEvents
  /\ \E r \in DOMAIN pool, now \in 1 .. MaxTime :
       quota' = (<<"workspace", r, Binding(pool[r])>> :>
                   [rec |-> r, ws |-> Binding(pool[r]), at |-> now,
                    out |-> "done", outAt |-> Nil, src |-> "older"]) @@ quota
  /\ quotaStamp' = quotaStamp + 1
  /\ quotaTally' = [quotaTally EXCEPT !.events = @ + 1]
  /\ UNCHANGED <<pool, check>>

\* A sign-in after a removal makes a new record.
SignsIn == \E r \in Recs \ (DOMAIN pool \cup quotaTally.gone), acct \in NewAccount :
  /\ MoreEvents
  /\ pool' = (r :> acct) @@ pool
  /\ quotaTally' = [quotaTally EXCEPT !.events = @ + 1]
  /\ UNCHANGED <<quota, quotaStamp, check>>

RemovesAccount == \E r \in DOMAIN pool :
  /\ MoreEvents
  /\ pool' = Without(pool, r)
  /\ quotaTally' = [events |-> quotaTally.events + 1, gone |-> quotaTally.gone \cup {r}]
  /\ UNCHANGED <<quota, quotaStamp, check>>

Selects == \E r \in DOMAIN pool, sel \in {"own", "sibling"} :
  /\ MoreEvents /\ sel # pool[r].sel
  /\ pool' = [pool EXCEPT ![r].sel = sel]
  /\ quotaTally' = [quotaTally EXCEPT !.events = @ + 1]
  /\ UNCHANGED <<quota, quotaStamp, check>>

QuotaNext ==
  \/ \E c \in Checks :
       \/ Probes(c) \/ Reapplies(c)
       \/ Merges(c) \/ Verifies(c) \/ Renames(c) \/ SaveFails(c)
  \/ OlderRelease \/ SignsIn \/ RemovesAccount \/ Selects

-----------------------------------------------------------------------------
(* Properties *)

\* As long as the account it was measured on is saved, usage is found by that
\* account only, and for the workspace it was measured in: accounts that share
\* an organization or an email never read each other's, nor a workspace its
\* sibling's (findQuotaCacheEntryForAccount).
OwnUsageOnly ==
  \A r \in DOMAIN pool :
    LET e == Find(quota, pool, r, QuotaWorkspaceId(pool[r])) IN
    e # Nil /\ e.rec \in DOMAIN pool => e.rec = r /\ e.ws = QuotaWorkspaceId(pool[r])

\* No save takes an observation back: what a run stored is replaced only by
\* one at least as recent, and a completed first use is not undone by the
\* failure of an overlapping one (mergeQuotaCacheEntry).
RunWrites == \E c \in Checks : check[c].pc = "rename" /\ check'[c].pc = "idle"

EvidenceKept ==
  RunWrites =>
  \A k \in DOMAIN quota \cap DOMAIN quota' : quota[k].src = "run" =>
    /\ quota'[k].at >= quota[k].at
    /\ quota[k].out = "done" /\ OutcomeTime(quota[k]) >= quota'[k].at => quota'[k].out = "done"

\* A save drops nothing another run stored meanwhile: an entry leaves the file
\* only through a run that had it in hand when it removed it (mergeQuotaChanges).
NothingDropped ==
  \A k \in DOMAIN quota \ DOMAIN quota' : quota[k].src = "run" =>
    \E c \in Checks : check[c].pc = "rename" /\ Entry(check[c].base, k) = quota[k]
=============================================================================

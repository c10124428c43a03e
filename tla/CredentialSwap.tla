---------------------------- MODULE CredentialSwap ----------------------------
(***************************************************************************)
(* Rotated credentials of one account row while requests refresh it, the   *)
(* proxy replaces its account manager and other processes edit the account *)
(* file: rotation-token-refresh.ts, rotation-proxy-state.ts, the storage   *)
(* sync of handleRequestInner, AccountManager.commitRefreshedAuth and the  *)
(* pending-auth journal.  A credential (access token, single-use refresh   *)
(* token, expiry) is a number in the order of expiry.  An invalidation     *)
(* marker is the credential it was recorded for.  Managers are numbered as *)
(* they are published.                                                     *)
(***************************************************************************)
EXTENDS Integers, FiniteSets, TLC

CONSTANTS
  Requests,   \* requests that need a fresh access token
  Syncs,      \* arriving requests that read the account file first
  Modes,      \* manager replacements: subset of {"recover", "reload"}
  Journaled,  \* whether recordPendingAuth can succeed and can fail: subset of BOOLEAN
  JournalRead, \* whether a load can read the journal and can fail to: subset of BOOLEAN
  Edits,      \* what other processes do: subset of {"login", "toggle", "remove"}
  Quiet,      \* leave out the replacements that start while a commit is being written,
              \* or end while a sync is between its read and its use
  MaxManagers, MaxCred,
  MaxEdits,   \* bounds; MaxEdits is on edits and journal faults together
  None

ASSUME SwapAssumption ==
  /\ Modes \subseteq {"recover", "reload"} /\ Journaled \subseteq BOOLEAN /\ JournalRead \subseteq BOOLEAN
  /\ Quiet \in BOOLEAN
  /\ Edits \subseteq {"login", "toggle", "remove"}
  /\ {MaxManagers, MaxCred} \subseteq Nat \ {0} /\ MaxEdits \in Nat
  /\ Requests \cap Syncs = {} /\ None \notin Requests \cup Syncs \cup Nat

VARIABLES
  mgr,      \* the row in each manager, with the manager's persistence baseline
  last,     \* newest manager
  active,   \* state.activeAccountManager
  redirect, \* runtimeRefreshManagerRedirects
  lock,     \* runtimeCredentialLocks: the operation running on each manager
  dirty,    \* managers with a save pending
  disk,     \* the row in the account file
  journal,  \* pending-auth journal: the credential that replaces a spent one at load
  minted,   \* number of credentials issued so far
  spent,    \* credentials whose refresh token this process used
  heir,     \* what the refresh of a credential returned
  lost,     \* credentials whose rotated heir could not be kept, or not be read back
  edits,    \* edits of the account file by other processes, and failed journal accesses
  q,        \* requests
  syn,      \* storage syncs
  rel       \* the running manager replacement

managers == <<mgr, last, active, redirect>>
files == <<disk, journal, edits>>
issued == <<minted, spent, heir>>
tokens == <<issued, lost>>
vars == <<managers, lock, dirty, files, tokens, q, syn, rel>>

Creds == 1..MaxCred
Gens == 1..MaxManagers
Marks == {None} \cup Creds
Record == [cred : Creds, enabled : BOOLEAN, bad : Marks]
Fresh == [cred |-> 1, enabled |-> TRUE, bad |-> None]
NoRow == [present |-> FALSE, cred |-> 1, enabled |-> TRUE, bad |-> None, base |-> Fresh]
\* A manager's row as loaded from the file; what was loaded is the baseline of later merges.
RowOf(d) == [present |-> d.present, cred |-> d.cred, enabled |-> d.enabled, bad |-> d.bad,
             base |-> [cred |-> d.cred, enabled |-> d.enabled, bad |-> d.bad]]
IdleRequest == [pc |-> "idle", m |-> None, cred |-> None, new |-> None, cm |-> None, lk |-> None, prior |-> NoRow]
IdleSync == [pc |-> "idle", lk |-> None, snap |-> None]
IdleReload == [pc |-> "idle", mode |-> None, prev |-> None, was |-> NoRow, row |-> NoRow]

TypeOK ==
  /\ last \in Gens /\ active \in 1..last
  /\ mgr \in [Gens -> [present : BOOLEAN, cred : Creds, enabled : BOOLEAN, bad : Marks, base : Record]]
  /\ \A g \in Gens : redirect[g] \in {None} \cup (g + 1)..last
  /\ lock \in [Gens -> {None} \cup Requests \cup Syncs]
  /\ dirty \subseteq Gens /\ minted \in Creds /\ spent \subseteq 1..minted /\ lost \subseteq spent
  /\ disk \in [present : BOOLEAN, cred : Creds, enabled : BOOLEAN, bad : Marks]
  /\ journal \in [Creds -> Marks] /\ heir \in [Creds -> Marks] /\ edits \in 0..MaxEdits
  /\ \A r \in Requests : q[r].pc \in {"idle", "refresh", "commit", "persist", "write", "rescue", "sent", "done"}
  /\ \A s \in Syncs : syn[s].pc \in {"idle", "lock", "read", "apply", "done"}
  /\ rel.pc \in {"idle", "load", "drain", "flush", "swap"}

\* The proxy starts on a pool it loaded, in which the row may be disabled.
Init ==
  \E row \in {[Fresh EXCEPT !.enabled = b] : b \in BOOLEAN} :
    /\ disk = [present |-> TRUE, cred |-> row.cred, enabled |-> row.enabled, bad |-> row.bad]
    /\ mgr = [g \in Gens |-> IF g = 1 THEN RowOf(disk) ELSE NoRow]
    /\ last = 1 /\ active = 1 /\ redirect = [g \in Gens |-> None] /\ lock = [g \in Gens |-> None] /\ dirty = {}
    /\ journal = [c \in Creds |-> None] /\ minted = 1 /\ spent = {} /\ heir = [c \in Creds |-> None]
    /\ lost = {} /\ edits = 0
    /\ q = [r \in Requests |-> IdleRequest] /\ syn = [s \in Syncs |-> IdleSync] /\ rel = IdleReload

-----------------------------------------------------------------------------
(* Managers. *)

\* resolveRuntimeRefreshCommitManager: follow the redirects.  A redirect leads
\* to a newer manager, so the longest path has fewer than MaxManagers steps.
ResolveFrom[n \in 0..MaxManagers] ==
  [g \in Gens |-> IF n = 0 \/ redirect[g] = None THEN g ELSE ResolveFrom[n - 1][redirect[g]]]
Resolve(g) == ResolveFrom[MaxManagers][g]

\* Publish a new manager with the given row in place of prev.
Publish(prev, row) ==
  /\ last < MaxManagers /\ last' = last + 1 /\ active' = last + 1
  /\ mgr' = [mgr EXCEPT ![last + 1] = row]
  /\ redirect' = [redirect EXCEPT ![prev] = last + 1]

Usable(row) == row.present /\ row.enabled

-----------------------------------------------------------------------------
(* The account file: three-way merge, and the journal of rotated credentials. *)

\* applyPendingAuth: a load replaces a spent credential, and clears its marker.  A
\* journal that cannot be read is passed over, with the row's heir in it.
Loaded(read) ==
  IF ~read \/ journal[disk.cred] = None THEN disk ELSE [disk EXCEPT !.cred = journal[disk.cred], !.bad = None]

\* One reading of the account file; passing over an empty journal makes no difference.
ReadTries(read) ==
  /\ ~read => journal[disk.cred] # None /\ edits < MaxEdits
  /\ edits' = IF read THEN edits ELSE edits + 1
  /\ lost' = IF read THEN lost ELSE lost \cup {disk.cred}

\* reconcileTokensFromDisk: a newer stored credential and a stored marker are adopted.
Proposed(row, cur) ==
  [cred |-> IF cur.present /\ cur.cred > row.cred THEN cur.cred ELSE row.cred,
   enabled |-> row.enabled,
   bad |-> IF cur.present /\ row.bad = None THEN cur.bad ELSE row.bad]

\* mergeValue on one field: the side that changed it wins, two different changes conflict.
Pick(b, d, l) == IF l = b THEN d ELSE l
Clash(b, d, l) == l # b /\ l # d /\ b # d
Conflict(base, cur, p) == cur.present /\ \E f \in {"cred", "enabled", "bad"} : Clash(base[f], cur[f], p[f])

\* mergeAccountSnapshot: a row removed from the file stays removed.
Merged(base, cur, p) ==
  IF cur.present THEN [present |-> TRUE] @@ [f \in {"cred", "enabled", "bad"} |-> Pick(base[f], cur[f], p[f])]
  ELSE cur

\* Store a row; then drop the journal entries no stored credential needs, unless
\* the scan of the recovery files fails or still finds them (prunePendingAuth).
Store(d) ==
  /\ disk' = d
  /\ journal' \in {journal, [c \in Creds |-> IF d.present /\ c = d.cred THEN journal[c] ELSE None]}

\* A request inside a storage transaction keeps all other writers out.
FileFree == \A r \in Requests : q[r].pc # "write"

\* recordPendingAuth: the oldest entry that led to the spent credential now leads
\* to its heir, and the spent credential gets an entry of its own.
Recorded(prior, new) ==
  LET leads == {c \in Creds \ {prior, new} : journal[c] = prior}
      chained == {c \in leads : \A d \in leads : c <= d}
  IN [c \in Creds |-> IF c = prior \/ c \in chained THEN new ELSE IF c = new THEN None ELSE journal[c]]

-----------------------------------------------------------------------------
(* ensureFreshAccessToken of a request. *)

\* The row of the live manager decides: disabled, marked, a usable token, or a
\* refresh.  A new access token is good for longer than its commit takes.
Begin(r) ==
  /\ q[r].pc = "idle" /\ Usable(mgr[active]) /\ mgr[active].bad = None
  /\ \E pc \in {"sent", "refresh"} :
       /\ pc = "refresh" => \A x \in Requests : q[x].pc \in {"write", "rescue"} => q[x].new # mgr[active].cred
       /\ q' = [q EXCEPT ![r] = [@ EXCEPT !.pc = pc, !.m = active, !.cred = mgr[active].cred]]
  /\ UNCHANGED <<managers, lock, dirty, files, tokens, syn, rel>>

\* Requests that share one entry of the commit queue.
Mates(g, c) == {r \in Requests : q[r].pc \in {"commit", "persist", "write", "rescue"} /\ q[r].cm = g /\ q[r].cred = c}
Group(r) == Mates(q[r].cm, q[r].cred)
Move(rs, f(_)) == q' = [x \in Requests |-> IF x \in rs THEN f(q[x]) ELSE q[x]]
Finished(x) == [x EXCEPT !.pc = "done"]
End(rs) == Move(rs, Finished)
Dispatch(rs, g, cred) == LET Sent(x) == [x EXCEPT !.pc = "sent", !.m = g, !.cred = cred] IN Move(rs, Sent)

CredentialChanged(r, g) == mgr[g].cred # q[r].cred

\* The refresh failed, perhaps because the token was revoked.
RefreshFails(r, revoked) ==
  LET g == Resolve(q[r].m)
      charged == Usable(mgr[g]) /\ ~CredentialChanged(r, g)
  IN
  /\ q[r].pc = "refresh"
  /\ \/ End({r})
     \/ Usable(mgr[g]) /\ CredentialChanged(r, g) /\ Dispatch({r}, g, mgr[g].cred)
  /\ mgr' = IF charged /\ revoked THEN [mgr EXCEPT ![g].bad = q[r].cred] ELSE mgr
  /\ dirty' = IF charged THEN dirty \cup {g} ELSE dirty
  /\ UNCHANGED <<last, active, redirect, lock, files, tokens, syn, rel>>

\* The refresh succeeded (requests with one token share the result): the heir
\* goes into the commit queue of the live manager, unless the row is gone,
\* disabled or holds another credential.
RefreshSucceeds(r) ==
  LET g == Resolve(q[r].m)
      c == q[r].cred
      fresh == IF heir[c] = None THEN minted + 1 ELSE heir[c]
      Queued(x) == [x EXCEPT !.pc = "commit", !.m = g, !.new = fresh, !.cm = g, !.lk = g]
  IN
  /\ q[r].pc = "refresh" /\ fresh <= MaxCred
  /\ minted' = IF heir[c] = None THEN fresh ELSE minted
  /\ spent' = spent \cup {c} /\ heir' = [heir EXCEPT ![c] = fresh]
  /\ \/ ~Usable(mgr[g]) /\ End({r}) /\ lost' = lost \cup {c}
     \/ /\ Usable(mgr[g]) /\ CredentialChanged(r, g) /\ UNCHANGED lost
        /\ Dispatch({r}, g, mgr[g].cred) \/ End({r})
     \/ /\ Usable(mgr[g]) /\ ~CredentialChanged(r, g) /\ UNCHANGED lost
        /\ IF Mates(g, c) = {} THEN Move({r}, Queued)
           ELSE q' = [q EXCEPT ![r] = q[CHOOSE x \in Mates(g, c) : TRUE]]
  /\ UNCHANGED <<managers, lock, dirty, files, syn, rel>>

\* withRuntimeCredentialLock: the lock of a superseded manager is left for the live one's.
CommitRedirected(r) ==
  LET Requeued(x) == [x EXCEPT !.lk = Resolve(@)] IN
  /\ q[r].pc = "commit" /\ lock[q[r].lk] = None /\ Resolve(q[r].lk) # q[r].lk
  /\ Move(Group(r), Requeued)
  /\ UNCHANGED <<managers, lock, dirty, files, tokens, syn, rel>>

\* commitRefreshedAuthOnce, under the lock: look at the row again.  A request whose
\* row is gone goes on with the token it was given, which nobody keeps.
CommitStarts(r) ==
  LET g == q[r].lk
      Locked(x) == [x EXCEPT !.pc = "persist"]
  IN
  /\ q[r].pc = "commit" /\ lock[g] = None /\ Resolve(g) = g
  /\ \/ mgr[g].present /\ ~mgr[g].enabled /\ End(Group(r)) /\ lost' = lost \cup {q[r].cred} /\ UNCHANGED lock
     \/ /\ ~mgr[g].present /\ Dispatch(Group(r), q[r].m, q[r].new)
        /\ lost' = lost \cup {q[r].cred} /\ UNCHANGED lock
     \/ Usable(mgr[g]) /\ CredentialChanged(r, g) /\ Dispatch(Group(r), g, mgr[g].cred) /\ UNCHANGED <<lock, lost>>
     \/ /\ Usable(mgr[g]) /\ ~CredentialChanged(r, g) /\ Move(Group(r), Locked)
        /\ lock' = [lock EXCEPT ![g] = r] /\ UNCHANGED lost
  /\ UNCHANGED <<managers, dirty, files, minted, spent, heir, syn, rel>>

Renewed(row, cred) == [row EXCEPT !.cred = cred, !.bad = None, !.enabled = TRUE]

\* commitRefreshedAuth, inside the storage transaction: the live row takes the
\* new credential before the file is written.
CommitWrites(r) ==
  LET g == q[r].lk
      Writing(x) == [x EXCEPT !.pc = "write", !.prior = mgr[g]]
  IN
  /\ q[r].pc = "persist" /\ lock[g] = r /\ FileFree
  /\ mgr' = [mgr EXCEPT ![g] = Renewed(@, q[r].new)]
  /\ Move(Group(r), Writing)
  /\ UNCHANGED <<last, active, redirect, lock, dirty, files, tokens, syn, rel>>

\* What the commit stores for the row.
Committed(r) == [cred |-> q[r].new, enabled |-> TRUE, bad |-> None]

CommitPersists(r) == \E read \in JournalRead :
  LET g == q[r].lk
      base == mgr[g].base
  IN
  /\ q[r].pc = "write" /\ lock[g] = r /\ ReadTries(read)
  /\ ~Conflict(base, Loaded(read), Committed(r)) /\ Store(Merged(base, Loaded(read), Committed(r)))
  /\ mgr' = [mgr EXCEPT ![g].base = Committed(r)]
  /\ lock' = [lock EXCEPT ![g] = None] /\ Dispatch(Group(r), g, q[r].new)
  /\ UNCHANGED <<last, active, redirect, dirty, issued, syn, rel>>

\* The write failed or conflicts: the live row gets its old credential back.
CommitRollsBack(r) ==
  LET g == q[r].lk
      Failed(x) == [x EXCEPT !.pc = "rescue"]
  IN
  /\ q[r].pc = "write" /\ lock[g] = r
  /\ mgr' = [mgr EXCEPT ![g] = q[r].prior]
  /\ Move(Group(r), Failed)
  /\ UNCHANGED <<last, active, redirect, lock, dirty, files, tokens, syn, rel>>

\* The file was locked or unreadable, before or after the row was touched: keep
\* the credential in memory, journal it if that works, let the debounced save retry.
CommitRescued(r, journaled) ==
  LET g == q[r].lk
      prior == mgr[g].cred
      known == [cred |-> q[r].new, enabled |-> mgr[g].base.enabled, bad |-> mgr[g].base.bad]
  IN
  /\ q[r].pc \in {"persist", "rescue"} /\ lock[g] = r
  /\ ~journaled => edits < MaxEdits
  /\ edits' = IF journaled THEN edits ELSE edits + 1
  /\ q[r].pc = "rescue" => \E read \in JournalRead : ~Conflict(mgr[g].base, Loaded(read), Committed(r))
  /\ mgr' = [mgr EXCEPT ![g] = [Renewed(@, q[r].new) EXCEPT
               !.base = IF journaled /\ @.cred = prior THEN known ELSE @]]
  /\ journal' = IF journaled THEN Recorded(prior, q[r].new) ELSE journal
  /\ lost' = IF journaled THEN lost ELSE lost \cup {prior}
  /\ dirty' = dirty \cup {g}
  /\ lock' = [lock EXCEPT ![g] = None] /\ Dispatch(Group(r), g, q[r].new)
  /\ UNCHANGED <<last, active, redirect, disk, issued, syn, rel>>

\* Any other failure, a conflict above all: the row keeps its spent credential.
CommitFails(r) ==
  LET g == q[r].lk IN
  /\ q[r].pc = "rescue" /\ lock[g] = r
  /\ lock' = [lock EXCEPT ![g] = None] /\ End(Group(r))
  /\ lost' = lost \cup {q[r].cred} /\ dirty' = dirty \cup {Resolve(g)}
  /\ UNCHANGED <<managers, files, minted, spent, heir, syn, rel>>

\* responseAuthStateTarget: a 401 is only charged to the credential it is about.
AuthTarget(r, g) == mgr[g].present /\ mgr[g].cred = q[r].cred

\* The upstream revoked the token: mark the row, and save the marker.
Revoked401(r) ==
  LET g == Resolve(q[r].m) IN
  /\ q[r].pc = "sent" /\ End({r})
  /\ IF AuthTarget(r, g) THEN mgr' = [mgr EXCEPT ![g].bad = q[r].cred] /\ dirty' = dirty \cup {g}
     ELSE UNCHANGED <<mgr, dirty>>
  /\ UNCHANGED <<last, active, redirect, lock, files, tokens, syn, rel>>

\* A served request, like every observed limit, schedules a save of its manager.
Served(r) ==
  /\ q[r].pc = "sent" /\ End({r}) /\ dirty' = dirty \cup {Resolve(q[r].m)}
  /\ UNCHANGED <<managers, lock, files, tokens, syn, rel>>

-----------------------------------------------------------------------------
(* saveToDisk of a manager, debounced or not, and of the one being prepared. *)

\* Stores the row against its baseline; on a conflict only the runtime
\* observations are saved, and the baseline stays.
SavesRow(row, read) ==
  LET cur == Loaded(read)
      p == Proposed(row, cur)
  IN /\ ReadTries(read)
     /\ IF row.present /\ ~Conflict(row.base, cur, p) THEN Store(Merged(row.base, cur, p)) ELSE Store(cur)
Rebased(row, read) ==
  LET cur == Loaded(read)
      p == Proposed(row, cur)
  IN IF row.present /\ ~Conflict(row.base, cur, p) THEN [row EXCEPT !.base = p] ELSE row

Save(g) == \E read \in JournalRead :
  /\ g \in dirty /\ FileFree /\ SavesRow(mgr[g], read)
  /\ mgr' = [mgr EXCEPT ![g] = Rebased(@, read)] /\ dirty' = dirty \ {g}
  /\ UNCHANGED <<last, active, redirect, lock, issued, q, syn, rel>>

-----------------------------------------------------------------------------
(* handleRequestInner: a request reads the account file before selection. *)

SyncStarts(s) ==
  /\ syn[s].pc = "idle" /\ syn' = [syn EXCEPT ![s] = [@ EXCEPT !.pc = "lock", !.lk = active]]
  /\ UNCHANGED <<managers, lock, dirty, files, tokens, q, rel>>

SyncRedirected(s) ==
  /\ syn[s].pc = "lock" /\ lock[syn[s].lk] = None /\ Resolve(syn[s].lk) # syn[s].lk
  /\ syn' = [syn EXCEPT ![s].lk = Resolve(@)]
  /\ UNCHANGED <<managers, lock, dirty, files, tokens, q, rel>>

SyncLocks(s) ==
  /\ syn[s].pc = "lock" /\ lock[syn[s].lk] = None /\ Resolve(syn[s].lk) = syn[s].lk
  /\ lock' = [lock EXCEPT ![syn[s].lk] = s] /\ syn' = [syn EXCEPT ![s].pc = "read"]
  /\ UNCHANGED <<managers, dirty, files, tokens, q, rel>>

SyncReads(s) == \E read \in JournalRead :
  /\ syn[s].pc = "read" /\ ReadTries(read)
  /\ syn' = [syn EXCEPT ![s] = [@ EXCEPT !.pc = "apply", !.snap = Loaded(read)]]
  /\ UNCHANGED <<managers, lock, dirty, disk, journal, issued, q, rel>>

\* syncNativeAccountCredentials: the row takes what the file holds; the baseline stays.
Adopted(row, d) ==
  [row EXCEPT !.cred = d.cred, !.enabled = d.enabled,
              !.bad = IF d.bad # None THEN d.bad ELSE IF d.cred # row.cred THEN None ELSE @]

\* The same inventory is updated in place, another one gets a new manager.
SyncApplies(s) ==
  LET m == active
      d == syn[s].snap
  IN
  /\ syn[s].pc = "apply"
  /\ IF d.present = mgr[m].present
     THEN /\ mgr' = IF d.present THEN [mgr EXCEPT ![m] = Adopted(@, d)] ELSE mgr
          /\ UNCHANGED <<last, active, redirect>>
     ELSE Publish(m, RowOf(d))
  /\ lock' = IF lock[syn[s].lk] = s THEN [lock EXCEPT ![syn[s].lk] = None] ELSE lock
  /\ syn' = [syn EXCEPT ![s] = [IdleSync EXCEPT !.pc = "done"]]
  /\ UNCHANGED <<dirty, files, tokens, q, rel>>

-----------------------------------------------------------------------------
(* recoverStaleRuntimeState and reloadRuntimeCredentials; they exclude each other. *)

ReloadStarts(mode) ==
  /\ rel.pc = "idle" /\ last < MaxManagers /\ (Quiet => FileFree)
  /\ rel' = [IdleReload EXCEPT !.pc = "load", !.mode = mode, !.prev = active, !.was = mgr[active]]
  /\ UNCHANGED <<managers, lock, dirty, files, tokens, q, syn>>

ReloadReads == \E read \in JournalRead :
  /\ rel.pc = "load" /\ ReadTries(read)
  /\ rel' = [rel EXCEPT !.pc = "drain", !.row = RowOf(Loaded(read))]
  /\ UNCHANGED <<managers, lock, dirty, disk, journal, issued, q, syn>>

\* Another path published a manager meanwhile: its redirect is left alone.
ReloadAborts ==
  /\ rel.pc \in {"drain", "flush", "swap"} /\ active # rel.prev /\ rel' = IdleReload
  /\ UNCHANGED <<managers, lock, dirty, files, tokens, q, syn>>

\* waitForRuntimeRefreshCommits.
Drained == \A r \in Requests : q[r].pc \in {"commit", "persist", "write", "rescue"} => q[r].cm # rel.prev

\* Mutant of StillCurrent: the swap goes on although another manager was published.
StillCurrentAlways == rel.pc # "idle"

StillCurrent == rel.pc # "idle" /\ active = rel.prev

\* Mutant of Carried: the snapshot read before the commit is published as it is.
CarriedNothing(row, prev) == row

\* carryRotatedCredentials: a credential that rotated since the start wins over the snapshot.
Carried(row, prev) ==
  IF row.present /\ prev.present /\ rel.was.present /\ prev.cred # rel.was.cred
  THEN [row EXCEPT !.cred = prev.cred] ELSE row

SyncsDone == Quiet => \A s \in Syncs : syn[s].pc \notin {"read", "apply"}

\* Stale recovery drains and carries, saves the cleared pool, then drains, carries and swaps.
RecoverCarries ==
  /\ rel.mode = "recover" /\ rel.pc = "drain" /\ StillCurrent /\ Drained
  /\ rel' = [rel EXCEPT !.pc = "flush", !.row = Carried(@, mgr[rel.prev])]
  /\ UNCHANGED <<managers, lock, dirty, files, tokens, q, syn>>

RecoverFlushes(saved) == \E read \in JournalRead :
  /\ rel.pc = "flush" /\ (~saved => read)
  /\ IF saved THEN FileFree /\ SavesRow(rel.row, read) ELSE UNCHANGED <<files, lost>>
  /\ rel' = [rel EXCEPT !.pc = "swap", !.row = IF saved THEN Rebased(@, read) ELSE @]
  /\ UNCHANGED <<managers, lock, dirty, issued, q, syn>>

RecoverSwaps ==
  /\ rel.pc = "swap" /\ StillCurrent /\ Drained /\ SyncsDone
  /\ Publish(rel.prev, Carried(rel.row, mgr[rel.prev])) /\ rel' = IdleReload
  /\ UNCHANGED <<lock, dirty, files, tokens, q, syn>>

\* The credential reload keeps the manager when the file had nothing new, and
\* carries a marker that was set while the file was read for the credential it keeps.
\* credentialInventoryFingerprint: what a replacement has to differ in.
Inventory(row) == [row EXCEPT !.base = Fresh]

\* A mark of the same credential that landed while the file was read.
MarkedLate(row, prev) ==
  row.present /\ prev.present /\ row.cred = prev.cred /\ rel.was.bad = None /\ row.bad = None

ReloadSwaps ==
  LET prev == mgr[rel.prev]
      row == Carried(rel.row, prev)
  IN
  /\ rel.mode = "reload" /\ rel.pc = "drain" /\ StillCurrent /\ Drained /\ SyncsDone /\ rel' = IdleReload
  /\ IF Inventory(rel.was) = Inventory(rel.row) THEN UNCHANGED managers
     ELSE Publish(rel.prev, IF MarkedLate(row, prev) THEN [row EXCEPT !.bad = prev.bad] ELSE row)
  /\ UNCHANGED <<lock, dirty, files, tokens, q, syn>>

-----------------------------------------------------------------------------
(* Other processes: a login, the menu's enable and disable, a removal. *)
Edit(d) ==
  /\ edits < MaxEdits /\ FileFree /\ edits' = edits + 1 /\ disk' = d /\ d # disk
  /\ UNCHANGED <<managers, lock, dirty, journal, spent, heir, lost, q, syn, rel>>

Login ==
  /\ "login" \in Edits /\ minted < MaxCred /\ minted' = minted + 1
  /\ Edit([disk EXCEPT !.present = TRUE, !.cred = minted + 1, !.bad = None])
SetEnabled(b) == "toggle" \in Edits /\ disk.present /\ Edit([disk EXCEPT !.enabled = b]) /\ UNCHANGED minted
RemoveRow == "remove" \in Edits /\ disk.present /\ Edit([disk EXCEPT !.present = FALSE]) /\ UNCHANGED minted

-----------------------------------------------------------------------------
RequestStep(r) ==
  \/ Begin(r) \/ RefreshSucceeds(r) \/ CommitRedirected(r) \/ CommitStarts(r) \/ CommitWrites(r)
  \/ CommitPersists(r) \/ CommitRollsBack(r) \/ CommitFails(r) \/ Revoked401(r) \/ Served(r)
  \/ \E revoked \in BOOLEAN : RefreshFails(r, revoked)
  \/ \E journaled \in Journaled : CommitRescued(r, journaled)
SyncStep(s) == SyncStarts(s) \/ SyncRedirected(s) \/ SyncLocks(s) \/ SyncReads(s) \/ SyncApplies(s)
ReloadStep ==
  \/ \E mode \in Modes : ReloadStarts(mode)
  \/ ReloadReads \/ ReloadAborts \/ RecoverCarries \/ RecoverSwaps \/ ReloadSwaps
  \/ \E saved \in BOOLEAN : RecoverFlushes(saved)
EditStep == Login \/ RemoveRow \/ \E b \in BOOLEAN : SetEnabled(b)

Next ==
  \/ \E r \in Requests : RequestStep(r)
  \/ \E s \in Syncs : SyncStep(s)
  \/ \E g \in Gens : Save(g)
  \/ ReloadStep \/ EditStep

Spec == Init /\ [][Next]_vars

-----------------------------------------------------------------------------
(* Properties. *)

\* Every manager ever published leads to the active one, so a late commit, a
\* late 401 and a waiting sync all find the live row, whoever replaced the manager.
RedirectsReachActive == \A g \in 1..last : Resolve(g) = active

\* The live row holds a credential whose refresh token this process has spent
\* only while the heir is on its way into the row, or when it had to be given up (row
\* removed, disabled or edited on disk, heir neither stored nor journaled, or a load
\* that could not read the journal): no swap, sync or save brings it back.
NoSpentActive ==
  LET row == mgr[active] IN
  Usable(row) /\ row.cred \in spent => row.cred \in lost \/ \E r \in Requests : r \in Mates(q[r].cm, row.cred)
=============================================================================

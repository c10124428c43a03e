-------------------------- MODULE AccountCommands ---------------------------
(***************************************************************************)
(* The account list as its commands see it: a sequence of accounts with    *)
(* positions pointing into it (the active account, one model family's      *)
(* account, the manual pin) and the affinity generation that tells a       *)
(* running proxy that positions moved.  `login`, the dashboard's actions   *)
(* and the re-authentication of one account run in a storage transaction;  *)
(* `switch`, `best`, `unpin` and the plugin's menu load a snapshot, change *)
(* it and save it through the three-way merge.                             *)
(***************************************************************************)
EXTENDS Integers, Sequences, SequencesExt, FiniteSets

CONSTANTS Ids,        \* the accounts' identities
          Commands,   \* snapshot commands that may overlap
          MaxGeneration, MaxRows

VARIABLES selDisk,    \* the accounts file
          view,       \* the rows the dashboard shows
          cmds,       \* the snapshot commands
          chosen,     \* the account of the last committed `switch`, or none
          strayed     \* a dashboard action reached another account than the one shown

selectionVars == <<selDisk, view, cmds, chosen, strayed>>

NoOne == <<>>
NoCommand == [pc |-> "idle"]

Pos(rows, who) == IF who \in {<<i>> : i \in Range(rows)}
                  THEN CHOOSE k \in DOMAIN rows : <<rows[k]>> = who ELSE 0
RowAt(rows, k) == IF k \in DOMAIN rows THEN <<rows[k]>> ELSE NoOne
FirstOr(k) == IF k = 0 THEN 1 ELSE k
Lower(a, b) == IF a < b THEN a ELSE b
Higher(a, b) == IF a > b THEN a ELSE b

SelectionInit ==
  /\ selDisk = [rows |-> <<>>, off |-> {}, active |-> 1, family |-> 0, pin |-> 0, gen |-> 0]
  /\ view = <<>>
  /\ cmds = [c \in Commands |-> NoCommand]
  /\ chosen = NoOne
  /\ strayed = FALSE

-----------------------------------------------------------------------------
(***************************************************************************)
(* Transactions: read and written under the storage lock.                  *)
(***************************************************************************)

\* A login updates the row of its identity or appends one.
LoginRows(rows, i) == IF i \in Range(rows) THEN rows ELSE Append(rows, i)

\* A family without a valid position of its own follows the global selection, and
\* so does one that points where the global selection does.
FollowsGlobal(s) == s.family \notin DOMAIN s.rows \/ s.family = s.active

\* A plain login makes its account the active one and enables it.  A family that
\* followed the global selection follows it; one bound to another account stays.
\* The pin is dropped.
PlainLogin(i) ==
  LET rows == LoginRows(selDisk.rows, i)
      at == Pos(rows, <<i>>)
  IN /\ Len(rows) <= MaxRows
     /\ selDisk' = [selDisk EXCEPT !.rows = rows, !.off = @ \ {i}, !.active = at,
                                   !.family = IF FollowsGlobal(selDisk) THEN at ELSE @, !.pin = 0]
     /\ chosen' = NoOne
     /\ UNCHANGED <<view, cmds, strayed>>

\* The dashboard reads the accounts it shows.
ViewLoads ==
  /\ view # selDisk.rows
  /\ view' = selDisk.rows
  /\ UNCHANGED <<selDisk, cmds, chosen, strayed>>

ResolveByPosition(k) == IF k \in DOMAIN selDisk.rows THEN k ELSE 0
\* Where the account shown at position k is now: found by its identity, the
\* shown position only while that account is still there.
Resolve(k) == Pos(selDisk.rows, RowAt(view, k))

\* The sign-in is the account it was started for.
SameIdentity(k, j) == j = view[k]

\* Re-authenticating the account shown at k with a sign-in that turns out to be
\* j: refused when the account is gone or j is someone else; the selection, the
\* pin and the enabled flag stay.
TargetedLogin(k, j) ==
  /\ k \in DOMAIN view
  /\ Resolve(k) # 0 /\ SameIdentity(k, j)
  /\ strayed' = (strayed \/ RowAt(view, k) # RowAt(selDisk.rows, Resolve(k)))
  /\ selDisk' = [selDisk EXCEPT !.active = IF @ \in DOMAIN selDisk.rows THEN @ ELSE Resolve(k),
                                !.family = IF @ \in DOMAIN selDisk.rows THEN @ ELSE selDisk.active]
  /\ UNCHANGED <<view, cmds, chosen>>

\* Where a selection points once row k is removed.
Adjusted(p, k, n) ==
  CASE n = 0 -> 1
    [] p < k -> Lower(FirstOr(p), n)
    [] p > k -> p - 1
    [] OTHER -> Lower(k, n)

\* The pin is followed by identity through a removal, or dropped.
Reconciled(pinned, rows) == Pos(rows, pinned)

BumpedNever(own) == own
\* The generation a command writes: past its own and past the file's.
Bumped(own) == Higher(own, selDisk.gen) + 1

\* Deleting the account shown at k from the dashboard.
MenuDelete(k) ==
  LET at == Resolve(k)
      rows == RemoveAt(selDisk.rows, at)
      family == IF selDisk.family = 0 THEN selDisk.active ELSE selDisk.family
      pin == Reconciled(RowAt(selDisk.rows, selDisk.pin), rows)
  IN /\ k \in DOMAIN view /\ at # 0
     /\ selDisk.gen < MaxGeneration
     /\ selDisk' = [rows |-> rows, off |-> selDisk.off \ {selDisk.rows[at]},
                    active |-> Adjusted(selDisk.active, at, Len(rows)),
                    family |-> Adjusted(family, at, Len(rows)),
                    pin |-> pin, gen |-> Bumped(selDisk.gen)]
     /\ view' = rows
     /\ strayed' = (strayed \/ RowAt(view, k) # RowAt(selDisk.rows, at))
     /\ chosen' = IF pin = 0 THEN NoOne ELSE chosen
     /\ UNCHANGED cmds

\* Enabling or disabling the account shown at k.
MenuToggle(k) ==
  LET at == Resolve(k)
      i == selDisk.rows[at]
  IN /\ k \in DOMAIN view /\ at # 0
     /\ selDisk' = [selDisk EXCEPT !.off = IF i \in @ THEN @ \ {i} ELSE @ \cup {i}]
     /\ view' = selDisk.rows
     /\ strayed' = (strayed \/ RowAt(view, k) # RowAt(selDisk.rows, at))
     /\ UNCHANGED <<cmds, chosen>>

-----------------------------------------------------------------------------
(***************************************************************************)
(* Snapshot commands.                                                      *)
(***************************************************************************)

\* switch takes the number it is given.
SwitchTarget == DOMAIN selDisk.rows

\* best refreshes, probes and rates the rows: which one it recommends is up to
\* the backend, and it stops where there is none or it is the current one.
BestTarget ==
  DOMAIN selDisk.rows \ {IF selDisk.family = 0 THEN selDisk.active ELSE selDisk.family}

CommandLoads(c) == \E kind \in {"switch", "best", "unpin", "remove"}, k \in DOMAIN selDisk.rows :
  /\ cmds[c].pc = "idle"
  /\ kind = "switch" => k \in SwitchTarget
  /\ kind = "best" => k \in BestTarget
  /\ kind = "unpin" => selDisk.pin # 0 /\ k = 1
  /\ cmds' = [cmds EXCEPT ![c] = [pc |-> "loaded", kind |-> kind, target |-> k,
                                  base |-> selDisk, local |-> selDisk]]
  /\ UNCHANGED <<selDisk, view, chosen, strayed>>

\* `switch` and `best`: every selection moves to the target, which is enabled;
\* `switch` pins it, `best` drops the pin.
Selected(s, k, kind) ==
  [s EXCEPT !.active = k, !.family = k, !.off = @ \ {s.rows[k]}, !.gen = Bumped(@),
            !.pin = IF kind = "switch" THEN k ELSE 0]
\* The plugin's account check drops an account whose token is revoked.
Removed(s, k) ==
  LET rows == RemoveAt(s.rows, k)
  IN [s EXCEPT !.rows = rows, !.off = @ \ {s.rows[k]}, !.gen = Bumped(@),
               !.active = FirstOr(Lower(@, Len(rows))),
               !.family = FirstOr(Lower(FirstOr(@), Len(rows))),
               !.pin = Reconciled(RowAt(s.rows, @), rows)]
Unpinned(s) == [s EXCEPT !.pin = 0, !.gen = Bumped(@)]

\* The snapshot is changed; the generation on disk is read here, before the save.
CommandChanges(c) ==
  LET m == cmds[c]
  IN /\ m.pc = "loaded"
     /\ selDisk.gen < MaxGeneration
     /\ cmds' = [cmds EXCEPT ![c].pc = "changed",
                   ![c].local = CASE m.kind = "unpin" -> Unpinned(@)
                                  [] m.kind = "remove" -> Removed(@, m.target)
                                  [] OTHER -> Selected(@, m.target, m.kind)]
     /\ UNCHANGED <<selDisk, view, chosen, strayed>>

\* The three-way merge.  Rows removed by either side are gone, rows only the disk
\* has stay; a position moved by the command is taken to the account it points at.
MergedRows(m) ==
  SelectSeq(selDisk.rows, LAMBDA i : i \notin Range(m.base.rows) \/ i \in Range(m.local.rows))
PickPosition(m, was, onDisk, next) ==
  LET k == IF next # was THEN next ELSE onDisk
  IN IF k \in DOMAIN MergedRows(m) THEN k ELSE 0
PickPointer(m, was, onDisk, next) ==
  LET old == RowAt(m.base.rows, was)
      mine == RowAt(m.local.rows, next)
  IN Pos(MergedRows(m), IF mine # old THEN mine ELSE RowAt(selDisk.rows, onDisk))
Merged(m) ==
  [rows |-> MergedRows(m),
   off |-> {i \in Range(MergedRows(m)) :
              IF (i \in m.base.off) = (i \in m.local.off) THEN i \in selDisk.off ELSE i \in m.local.off},
   active |-> FirstOr(PickPointer(m, m.base.active, selDisk.active, m.local.active)),
   family |-> FirstOr(PickPointer(m, m.base.family, selDisk.family, m.local.family)),
   pin |-> PickPointer(m, m.base.pin, selDisk.pin, m.local.pin),
   gen |-> IF m.local.gen \in {m.base.gen, selDisk.gen} THEN selDisk.gen ELSE m.local.gen]
\* Both sides changed the generation, to different values.
Conflicting(m) ==
  /\ m.local.gen \notin {m.base.gen, selDisk.gen}
  /\ selDisk.gen # m.base.gen

CommandSaves(c) ==
  LET m == cmds[c]
  IN /\ m.pc = "changed" /\ ~Conflicting(m)
     /\ selDisk' = Merged(m)
     /\ chosen' = CASE selDisk'.pin = 0 -> NoOne
                    [] m.kind = "switch" /\ m.local.pin # 0 /\ m.local.pin # m.base.pin -> RowAt(m.local.rows, m.local.pin)
                    [] OTHER -> chosen
     /\ cmds' = [cmds EXCEPT ![c] = NoCommand]
     /\ UNCHANGED <<view, strayed>>

\* The save is refused (ESTALE) and the command fails.
CommandConflicts(c) ==
  /\ cmds[c].pc = "changed" /\ Conflicting(cmds[c])
  /\ cmds' = [cmds EXCEPT ![c] = NoCommand]
  /\ UNCHANGED <<selDisk, view, chosen, strayed>>

SelectionNext ==
  \/ ViewLoads
  \/ \E i \in Ids : PlainLogin(i)
  \/ \E k \in DOMAIN view : \/ \E j \in Ids : TargetedLogin(k, j)
                            \/ MenuDelete(k)
                            \/ MenuToggle(k)
  \/ \E c \in Commands : CommandLoads(c) \/ CommandChanges(c) \/ CommandSaves(c) \/ CommandConflicts(c)

-----------------------------------------------------------------------------
\* The pin points at the account the user last switched to, whatever moved the
\* rows since (logins, deletions, a snapshot command that overlapped them).
PinIsChosen == selDisk.pin # 0 => RowAt(selDisk.rows, selDisk.pin) = chosen

\* A dashboard action (delete, toggle, re-authenticate) reaches the account that
\* was shown, however stale the screen.
HitsWhatItAimedAt == ~strayed

\* Rows that change their position come with a new affinity generation, so that a
\* proxy drops the sessions bound to positions; the one exception is a command
\* whose generation was published by another command between its read and its save.
MovesAnnounced ==
  (\E i \in Range(selDisk.rows) \cap Range(selDisk'.rows) : Pos(selDisk.rows, <<i>>) # Pos(selDisk'.rows, <<i>>))
    => \/ selDisk'.gen > selDisk.gen
       \/ \E c \in Commands : cmds[c].pc = "changed" /\ cmds[c].local.gen = selDisk.gen

-----------------------------------------------------------------------------
(***************************************************************************)
(* The `login` command: the dashboard with its background quota refresh,   *)
(* the sign-in, the choice of a workspace and its check against the        *)
(* backend, the write of the account and the publication of its tokens to  *)
(* the official CLI's auth.json.  Where the account goes in the pool is    *)
(* the subject above, how the sign-in gets its tokens that of SignIn.      *)
(***************************************************************************)

CONSTANTS People,        \* accounts that may sign in
          Spaces,        \* workspaces a token names
          Granted,       \* the workspaces the backend authorises
          DefaultSpace,  \* the backend's default among them
          Nobody, NoSpace,
          MaxSignIns,
          MaxAccounts    \* ACCOUNT_LIMITS.MAX_ACCOUNTS

ASSUME GrantAssumption == Granted \subseteq Spaces /\ DefaultSpace \in Granted

VARIABLES mode,     \* "dashboard", or the flag that bypasses it
          at,       \* where the command is
          saved,    \* accounts' rows: token, workspace, mirrored workspace
          activeNow,   \* the account the CLI's selection points at
          loginAt,    \* the sign-in at hand
          quota,    \* MenuQuotaRefreshState
          auth,     \* what auth.json holds: account, token, workspace
          past      \* history: actions since a refresh began, a stale skip, a failed publication

loginVars == <<mode, at, saved, activeNow, loginAt, quota, auth, past>>

NoRow == [tok |-> 0, space |-> NoSpace, mirror |-> NoSpace]
NoLogin == [wanted |-> Nobody, who |-> Nobody, source |-> "none", space |-> NoSpace, mirror |-> "keep", answered |-> FALSE, n |-> 0]
Signed == {p \in People : saved[p].tok # 0}

LoginInit ==
  /\ mode \in {"dashboard", "transport", "preserve", "target"}
  /\ at = "enter"
  /\ saved \in [People -> {NoRow, [tok |-> 1, space |-> DefaultSpace, mirror |-> NoSpace]}]
  /\ activeNow \in IF Signed = {} THEN {Nobody} ELSE Signed
  /\ auth = [who |-> activeNow, tok |-> IF activeNow = Nobody THEN 0 ELSE 1,
             space |-> IF activeNow = Nobody THEN NoSpace ELSE DefaultSpace, checked |-> TRUE]
  /\ loginAt = NoLogin
  /\ quota = [pending |-> FALSE, skip |-> FALSE, gen |-> 0, startedAt |-> 0]
  /\ past = [acted |-> FALSE, staleSkip |-> FALSE, unpublished |-> FALSE]

Explicit == mode # "dashboard"

-----------------------------------------------------------------------------
(***************************************************************************)
(* The dashboard.                                                          *)
(***************************************************************************)

\* The flow's loop: with accounts and no flag, the dashboard; a target that is
\* not saved ends the command.
Enters ==
  /\ at = "enter"
  /\ at' = CASE ~Explicit /\ Signed # {} -> "pass"
             [] mode = "target" /\ Signed = {} -> "exit"
             [] OTHER -> "signIn"
  /\ \E p \in IF mode = "target" /\ Signed # {} THEN Signed ELSE {Nobody} : loginAt' = [loginAt EXCEPT !.wanted = p]
  /\ UNCHANGED <<mode, saved, activeNow, quota, auth, past>>

\* One pass: unless a refresh is pending or this pass is to be skipped, a refresh
\* of stale quota entries starts behind the menu.
Pass == \E stale \in BOOLEAN :
  LET skips == ~quota.pending /\ quota.skip
      starts == ~quota.pending /\ ~skips /\ stale
  IN /\ at = "pass" /\ Signed # {}
     /\ at' = "menu"
     /\ quota' = [quota EXCEPT !.skip = @ /\ ~skips, !.pending = @ \/ starts,
                               !.startedAt = IF starts THEN quota.gen ELSE @]
     /\ past' = [past EXCEPT !.acted = @ /\ ~starts, !.staleSkip = @ \/ (skips /\ past.acted)]
     /\ UNCHANGED <<mode, saved, activeNow, loginAt, auth>>
PassEmpty ==
  /\ at = "pass" /\ Signed = {} /\ ~quota.pending
  /\ at' = "signIn"
  /\ UNCHANGED <<mode, saved, activeNow, loginAt, quota, auth, past>>

\* The refresh ends behind whatever runs; it has the next pass skipped only if no
\* action has run since it began.
SkipsNextAlways == TRUE
SkipsNext == quota.startedAt = quota.gen
RefreshEnds == \E ok \in BOOLEAN :
  /\ quota.pending
  /\ quota' = [quota EXCEPT !.pending = FALSE, !.skip = @ \/ (ok /\ SkipsNext)]
  /\ UNCHANGED <<mode, at, saved, activeNow, loginAt, auth, past>>

\* Every action clears the skip and starts a new generation.
MenuActs == \E p \in Signed \cup {Nobody} :
  /\ at = "menu" /\ quota.gen < MaxSignIns
  /\ quota' = [quota EXCEPT !.skip = FALSE, !.gen = @ + 1]
  /\ past' = [past EXCEPT !.acted = TRUE]
  /\ saved' = IF p = Nobody \/ p = activeNow THEN saved ELSE [saved EXCEPT ![p] = NoRow]
  /\ at' = "pass"
  /\ UNCHANGED <<mode, activeNow, loginAt, auth>>

\* Leaving the loop waits for the refresh that is still running.
NotDrained == TRUE
QuotaDrained == ~quota.pending
MenuAdds == at = "menu" /\ QuotaDrained /\ at' = "signIn" /\ UNCHANGED <<mode, saved, activeNow, loginAt, quota, auth, past>>
MenuCancels == at = "menu" /\ QuotaDrained /\ at' = "exit" /\ UNCHANGED <<mode, saved, activeNow, loginAt, quota, auth, past>>

-----------------------------------------------------------------------------
(***************************************************************************)
(* Signing in and saving.                                                  *)
(***************************************************************************)

\* Tokens arrive for some account.  A target names its account and keeps its
\* workspace; `--org` and the prompt are an explicit choice, the rest is automatic.
SignsIn == \E p \in People, source \in {"manual", "auto"}, w \in Spaces :
  /\ at = "signIn" /\ loginAt.n < MaxSignIns
  /\ mode = "target" => source = "manual" /\ w = IF p = loginAt.wanted THEN saved[p].space ELSE DefaultSpace
  /\ loginAt' = [loginAt EXCEPT !.who = p, !.source = source, !.space = w, !.n = @ + 1]
  /\ at' = IF mode = "target" THEN "save" ELSE "check"
  /\ UNCHANGED <<mode, saved, activeNow, quota, auth, past>>

\* The prompt may be left: with accounts saved the flow starts over.
PromptCancelled ==
  /\ at = "signIn" /\ mode # "transport"
  /\ at' = IF Signed # {} THEN "enter" ELSE "exit"
  /\ UNCHANGED <<mode, saved, activeNow, loginAt, quota, auth, past>>

\* An empty pool may be filled from a named backup, whose selection is published.
RestoresBackup == \E p \in People, synced \in BOOLEAN :
  /\ at = "signIn" /\ mode \in {"dashboard", "preserve"} /\ Signed = {}
  /\ saved' = [saved EXCEPT ![p] = [NoRow EXCEPT !.tok = 1, !.space = DefaultSpace]]
  /\ activeNow' = p
  /\ auth' = IF synced THEN [who |-> p, tok |-> 1, space |-> DefaultSpace, checked |-> FALSE] ELSE auth
  /\ past' = [past EXCEPT !.unpublished = ~synced]
  /\ at' = "enter"
  /\ UNCHANGED <<mode, loginAt, quota>>

\* A cancelled sign-in goes back to the dashboard when that started it and exits
\* otherwise; a failed one exits.
SignInEnds == \E cancelled \in BOOLEAN :
  /\ at = "signIn"
  /\ at' = IF cancelled /\ ~Explicit /\ Signed # {} THEN "enter" ELSE "exit"
  /\ UNCHANGED <<mode, saved, activeNow, loginAt, quota, auth, past>>

\* The backend is asked which workspaces these credentials may use; without an
\* answer nothing changes.  An unauthorised explicit choice is kept and mirrored,
\* an automatic one replaced; an authorised one drops an earlier mirror.
ConstrainUnmirrored(l) ==
  IF l.space \in Granted THEN [l EXCEPT !.mirror = "drop"]
  ELSE IF l.source = "manual" THEN l
  ELSE [l EXCEPT !.space = DefaultSpace, !.mirror = "drop"]
Constrain(l) ==
  IF l.space \in Granted THEN [l EXCEPT !.mirror = "drop"]
  ELSE IF l.source = "manual" THEN [l EXCEPT !.mirror = "set"]
  ELSE [l EXCEPT !.space = DefaultSpace, !.mirror = "drop"]
ChecksWorkspace == \E answers \in BOOLEAN :
  /\ at = "check"
  /\ loginAt' = IF answers THEN [Constrain(loginAt) EXCEPT !.answered = TRUE] ELSE loginAt
  /\ at' = "save"
  /\ UNCHANGED <<mode, saved, activeNow, quota, auth, past>>

\* The write: refused for a target that is not the account signed in.  A plain
\* login becomes the selection, --preserve-selection leaves it (an empty pool
\* takes the first account).
Saves ==
  LET p == loginAt.who
      keepsMirror == loginAt.mirror = "keep"
  IN /\ at = "save"
     /\ (mode = "target" => p = loginAt.wanted)
     /\ saved' = [saved EXCEPT ![p] = [tok |-> saved[p].tok + 1, space |-> loginAt.space,
                       mirror |-> CASE loginAt.mirror = "set" -> DefaultSpace
                                    [] keepsMirror /\ saved[p].space = loginAt.space -> @.mirror
                                    [] OTHER -> NoSpace]]
     /\ activeNow' = IF mode \in {"preserve", "target"} /\ activeNow # Nobody THEN activeNow ELSE p
     /\ at' = "publish"
     /\ UNCHANGED <<mode, loginAt, quota, auth, past>>
SaveRefused ==
  /\ at = "save" /\ mode = "target" /\ loginAt.who # loginAt.wanted
  /\ at' = "exit"
  /\ UNCHANGED <<mode, saved, activeNow, loginAt, quota, auth, past>>

\* The tokens are published when the write owns the selection.
OwnsUnlessPreserved == mode \notin {"preserve", "target"}
Owns == loginAt.who = activeNow
Publishes == \E ok \in BOOLEAN :
  /\ at = "publish"
  /\ auth' = IF Owns /\ ok
             THEN [who |-> loginAt.who, tok |-> saved[loginAt.who].tok, checked |-> loginAt.answered,
                   space |-> IF loginAt.mirror = "set" THEN DefaultSpace ELSE loginAt.space]
             ELSE auth
  /\ past' = [past EXCEPT !.unpublished = IF Owns THEN ~ok ELSE @]
  /\ at' = "saved"
  /\ UNCHANGED <<mode, saved, activeNow, loginAt, quota>>

\* Another account, while there is room; with a flag the command ends instead of
\* falling back into a sign-in nobody asked for.
Continues == \E another \in BOOLEAN :
  /\ at = "saved"
  /\ at' = CASE mode \in {"preserve", "target"} -> "exit"
             [] another /\ Cardinality(Signed) < MaxAccounts -> "signIn"
             [] Explicit -> "exit"
             [] OTHER -> "enter"
  /\ loginAt' = [NoLogin EXCEPT !.n = loginAt.n]
  /\ UNCHANGED <<mode, saved, activeNow, quota, auth, past>>

LoginNext ==
  \/ Enters \/ Pass \/ PassEmpty \/ RefreshEnds \/ MenuActs \/ MenuAdds \/ MenuCancels
  \/ SignsIn \/ PromptCancelled \/ RestoresBackup \/ SignInEnds \/ ChecksWorkspace \/ Saves \/ SaveRefused \/ Publishes \/ Continues

-----------------------------------------------------------------------------
\* The background quota refresh is over before a login writes the pool and before
\* the command ends: its cache write neither races that write nor is cut off.
RefreshDrained == at \in {"save", "publish", "saved", "exit"} => ~quota.pending

\* A pass never skips its refresh for a refresh that began before an action did.
SkipNotStale == ~past.staleSkip

\* Between logins the CLI has the newest tokens of the active account, also when a
\* login preserved the selection, unless the write of auth.json itself failed.
CliHasActive ==
  at \in {"pass", "menu", "enter", "exit"} /\ activeNow # Nobody /\ ~past.unpublished
    => auth.who = activeNow /\ auth.tok = saved[activeNow].tok

\* What the backend was asked about reaches the CLI only if it is authorised.
CliGetsAuthorised == auth.checked /\ auth.who # Nobody => auth.space \in Granted
=============================================================================

---------------------------- MODULE PluginTools ----------------------------
(***************************************************************************)
(* The plugin's own commands on the account pool (index.ts): the tools     *)
(* codex-switch, codex-remove, codex-refresh and codex-health, the event   *)
(* account.select, and the OAuth method with its menu and its sequence of  *)
(* sign-ins.  A tool loads the file, works on that object across awaits    *)
(* and saves it; saveAccounts merges it with the file as it is then, by    *)
(* record id, because the object is the one loadAccounts registered.  The  *)
(* menu works on a spread copy, which is not registered: its save writes   *)
(* the copy as it is.  A sign-in is persisted in a storage transaction.    *)
(*                                                                         *)
(* A refresh token is a number; a successful refresh spends it.            *)
(***************************************************************************)
EXTENDS Integers, Sequences, FiniteSets, SequencesExt

CONSTANTS Holders,     \* the accounts one can sign in with: numbers
          Calls,       \* tool calls that may overlap
          MaxAccounts, \* ACCOUNT_LIMITS.MAX_ACCOUNTS
          MaxIssued,   \* refresh tokens issued
          MaxRecords,  \* records created
          MaxBegun     \* tool calls, menus and sign-ins begun

VARIABLES accountsFile, \* rows and the active position
          grants,       \* how many were issued, which are live, what each was rotated into
          call,         \* the tool calls
          visit,        \* the OAuth method at work
          ghost         \* what users asked for, see the properties

toolVars == <<accountsFile, grants, call, visit, ghost>>

NoCall == [pc |-> "idle"]
NoVisit == [pc |-> "idle"]
RecordsOf(rows) == {rows[k].rec : k \in DOMAIN rows}
AtRec(rows, rec) == SelectInSeq(rows, LAMBDA row : row.rec = rec)
AtHolder(rows, who) == SelectInSeq(rows, LAMBDA row : row.id = who)
ClampActive(p, n) == IF p > n THEN IF n = 0 THEN 1 ELSE n ELSE p
RecAt(s, p) == IF p \in DOMAIN s.rows THEN s.rows[p].rec ELSE 0

NewRow(who, rec, tok) == [id |-> who, rec |-> rec, tok |-> tok, on |-> TRUE, mail |-> TRUE]

\* One account without an email, or a full pool with an account in the middle active.
ToolInit ==
  /\ accountsFile \in {[rows |-> <<[NewRow(1, 1, 1) EXCEPT !.mail = FALSE]>>, active |-> 1],
                       [rows |-> [k \in 1..MaxAccounts |-> NewRow(k, k, k)], active |-> MaxAccounts - 1]}
  /\ grants = [issued |-> Len(accountsFile.rows), live |-> 1..Len(accountsFile.rows),
               next |-> [t \in 1..MaxIssued |-> 0]]
  /\ call = [c \in Calls |-> NoCall]
  /\ visit = NoVisit
  /\ ghost = [ever |-> RecordsOf(accountsFile.rows), asked |-> {}, wasted |-> {},
              overwrote |-> FALSE, crowded |-> FALSE, begun |-> 0]

MoreToCome == ghost.begun < MaxBegun

-----------------------------------------------------------------------------
(***************************************************************************)
(* Saving a registered object: the three-way merge.                        *)
(***************************************************************************)

MergedField(was, onDisk, mine) == IF mine \in {was, onDisk} THEN onDisk ELSE mine
Old(m, rec) == m.base.rows[AtRec(m.base.rows, rec)]
Mine(m, rec) == m.draft.rows[AtRec(m.draft.rows, rec)]

MergedRow(m, row) ==
  IF AtRec(m.base.rows, row.rec) = 0 THEN row
  ELSE [row EXCEPT !.tok = MergedField(Old(m, row.rec).tok, @, Mine(m, row.rec).tok),
                   !.mail = MergedField(Old(m, row.rec).mail, @, Mine(m, row.rec).mail)]

\* Rows the object dropped are gone, rows only the file has stay; nothing the
\* file has lost comes back.
Merged3(m) ==
  LET kept == SelectSeq(accountsFile.rows,
                        LAMBDA row : row.rec \in RecordsOf(m.base.rows) => row.rec \in RecordsOf(m.draft.rows))
      was == RecAt(m.base, m.base.active)
      mine == RecAt(m.draft, m.draft.active)
      at == AtRec(kept, IF mine # was THEN mine ELSE RecAt(accountsFile, accountsFile.active))
  IN [rows |-> [k \in DOMAIN kept |-> MergedRow(m, kept[k])], active |-> IF at = 0 THEN 1 ELSE at]

\* Both sides changed a token, to different ones: the save throws ESTALE.
Clashing(m) == \E row \in Range(accountsFile.rows) :
  /\ row.rec \in RecordsOf(m.base.rows) \cap RecordsOf(m.draft.rows)
  /\ LET was == Old(m, row.rec).tok
         mine == Mine(m, row.rec).tok
     IN mine \notin {was, row.tok} /\ was # row.tok

\* Live tokens that only this object has.
OnlyHere(m) == {rec \in RecordsOf(m.draft.rows) :
  /\ Mine(m, rec).tok \in grants.live
  /\ \A row \in Range(accountsFile.rows) : row.rec = rec => row.tok # Mine(m, rec).tok}

SaveRegistered(m) == ~Clashing(m) /\ accountsFile' = Merged3(m)

-----------------------------------------------------------------------------
(***************************************************************************)
(* queuedRefresh: the endpoint rotates a live token; for a spent one the   *)
(* queue may still have the answer; otherwise the call fails.              *)
(***************************************************************************)

Rotates(t) ==
  /\ t \in grants.live /\ grants.issued < MaxIssued
  /\ grants' = [issued |-> grants.issued + 1,
                live |-> (grants.live \ {t}) \cup {grants.issued + 1},
                next |-> [grants.next EXCEPT ![t] = grants.issued + 1]]
Answered(t) == grants.next[t] # 0 /\ UNCHANGED grants

-----------------------------------------------------------------------------
(* The tools *)

\* codex-switch and account.select: the position the user named.
SwitchDraft(s, k) == [s EXCEPT !.active = k]

\* Mutant of RemoveDraft: later positions are not moved up.
RemoveUnadjusted(s, k) ==
  [rows |-> RemoveAt(s.rows, k), active |-> IF s.active > Len(s.rows) - 1 THEN 1 ELSE s.active]
\* codex-remove: a position past the end becomes the first one, even when the
\* row it belonged to only moved up; a later position moves up.
RemoveDraft(s, k) ==
  [rows |-> RemoveAt(s.rows, k),
   active |-> IF s.active > Len(s.rows) - 1 THEN 1
              ELSE IF s.active > k THEN s.active - 1 ELSE s.active]

\* A tool loads the pool; account.select waits for the one before it.
CallLoads(c) == \E tool \in {"switch", "select", "remove", "refresh", "health"}, k \in DOMAIN accountsFile.rows :
  /\ call[c].pc = "idle" /\ MoreToCome
  /\ tool = "select" => {d \in Calls : call[d].pc = "work" /\ call[d].tool = "select"} = {}
  /\ tool \in {"refresh", "health"} => k = 1
  /\ call' = [call EXCEPT ![c] =
       [pc |-> "work", tool |-> tool, target |-> k, base |-> accountsFile,
        draft |-> CASE tool \in {"switch", "select"} -> SwitchDraft(accountsFile, k)
                    [] tool = "remove" -> RemoveDraft(accountsFile, k)
                    [] OTHER -> accountsFile,
        todo |-> IF tool \in {"refresh", "health"} THEN DOMAIN accountsFile.rows ELSE {}]]
  /\ ghost' = [ghost EXCEPT !.begun = @ + 1,
                 !.asked = IF tool = "remove" THEN @ \cup {accountsFile.rows[k].rec} ELSE @]
  /\ UNCHANGED <<accountsFile, grants, visit>>

\* Mutant of Discards: codex-refresh forgets the new token as well.
RefreshForgets(c) == call[c].tool \in {"health", "refresh"}
\* codex-health looks at the outcome only; codex-refresh puts the new token into
\* the row it loaded.
Discards(c) == call[c].tool = "health"

\* The next account, in order.
CallRefreshes(c) ==
  LET m == call[c]
      k == CHOOSE x \in m.todo : \A y \in m.todo : x <= y
      t == m.draft.rows[k].tok
  IN /\ m.pc = "work" /\ m.todo # {}
     /\ \/ /\ Rotates(t)
           /\ call' = [call EXCEPT ![c].todo = @ \ {k},
                         ![c].draft.rows[k].tok = IF Discards(c) THEN @ ELSE grants.issued + 1]
           /\ ghost' = IF m.tool = "health"
                       THEN [ghost EXCEPT !.wasted = @ \cup {m.draft.rows[k].rec}] ELSE ghost
        \/ /\ Answered(t)
           /\ call' = [call EXCEPT ![c].todo = @ \ {k},
                         ![c].draft.rows[k].tok = IF Discards(c) THEN @ ELSE grants.next[t]]
           /\ UNCHANGED ghost
        \/ /\ call' = [call EXCEPT ![c].todo = @ \ {k}]
           /\ UNCHANGED <<grants, ghost>>
     /\ UNCHANGED <<accountsFile, visit>>

CallSaves(c) ==
  /\ call[c].pc = "work" /\ call[c].todo = {} /\ call[c].tool # "health"
  /\ SaveRegistered(call[c])
  /\ call' = [call EXCEPT ![c] = NoCall]
  /\ UNCHANGED <<grants, visit, ghost>>

\* The save throws: refused by the merge or failed on the disk.
CallSaveFails(c) ==
  /\ call[c].pc = "work" /\ call[c].todo = {} /\ call[c].tool # "health"
  /\ call' = [call EXCEPT ![c] = NoCall]
  /\ ghost' = [ghost EXCEPT !.wasted = @ \cup OnlyHere(call[c])]
  /\ UNCHANGED <<accountsFile, grants, visit>>

HealthReports(c) ==
  /\ call[c].pc = "work" /\ call[c].todo = {} /\ call[c].tool = "health"
  /\ call' = [call EXCEPT ![c] = NoCall]
  /\ UNCHANGED <<accountsFile, grants, visit, ghost>>

-----------------------------------------------------------------------------
(***************************************************************************)
(* The OAuth method.  The menu loads the pool, completes rows without an   *)
(* email by refreshing them, and shows the result.                         *)
(***************************************************************************)

MenuLoads ==
  /\ visit.pc = "idle" /\ accountsFile.rows # <<>> /\ MoreToCome
  /\ visit' = [pc |-> "hydrate", base |-> accountsFile, draft |-> accountsFile,
               todo |-> {k \in DOMAIN accountsFile.rows : ~accountsFile.rows[k].mail}]
  /\ ghost' = [ghost EXCEPT !.begun = @ + 1]
  /\ UNCHANGED <<accountsFile, grants, call>>

Hydrated(row, t) == [row EXCEPT !.tok = t, !.mail = TRUE]

\* All at once, so they finish in any order.
HydrateRefreshes == \E k \in IF visit.pc = "hydrate" THEN visit.todo ELSE {} :
  LET t == visit.draft.rows[k].tok
      took(n) == visit' = [visit EXCEPT !.todo = @ \ {k}, !.draft.rows[k] = Hydrated(@, n)]
  IN /\ \/ Rotates(t) /\ took(grants.issued + 1)
        \/ Answered(t) /\ took(grants.next[t])
        \/ visit' = [visit EXCEPT !.todo = @ \ {k}] /\ UNCHANGED grants
     /\ UNCHANGED <<accountsFile, call, ghost>>

\* What changed is saved, and the menu shows the merged object: a copy of it.
HydrateEnds ==
  /\ visit.pc = "hydrate" /\ visit.todo = {}
  /\ IF visit.draft = visit.base THEN UNCHANGED accountsFile ELSE SaveRegistered(visit)
  /\ LET shown == IF visit.draft = visit.base THEN visit.draft ELSE accountsFile'
     IN visit' = [pc |-> "menu", base |-> shown, draft |-> shown]
  /\ UNCHANGED <<grants, call, ghost>>
HydrateFails ==
  /\ visit.pc = "hydrate" /\ visit.todo = {} /\ visit.draft # visit.base
  /\ visit' = NoVisit
  /\ ghost' = [ghost EXCEPT !.wasted = @ \cup OnlyHere(visit)]
  /\ UNCHANGED <<accountsFile, grants, call>>

\* The copy is written as it is.
SaveCopy(copy) ==
  /\ accountsFile' = copy
  /\ ghost' = [ghost EXCEPT !.overwrote = @ \/ accountsFile # visit.base,
                 !.asked = @ \cup (RecordsOf(visit.base.rows) \ RecordsOf(copy.rows))]
  /\ visit' = NoVisit
  /\ UNCHANGED <<grants, call>>

\* Delete and toggle act on what is shown; then the menu starts over.
PluginMenuDeletes == \E k \in IF visit.pc = "menu" THEN DOMAIN visit.draft.rows ELSE {} :
  SaveCopy([rows |-> RemoveAt(visit.draft.rows, k),
            active |-> ClampActive(visit.draft.active, Len(visit.draft.rows) - 1)])
PluginMenuToggles == \E k \in IF visit.pc = "menu" THEN DOMAIN visit.draft.rows ELSE {} :
  SaveCopy([visit.draft EXCEPT !.rows[k].on = ~@])

SignIn0(fresh, again) == [pc |-> "count", fresh |-> fresh, again |-> again]

\* Sign in: again for one account, in addition, or afresh.  An explicit mode
\* skips the menu; so does an empty pool.
StartsSignIn(fresh, again) ==
  /\ visit.pc = "menu" \/ (visit.pc = "idle" /\ ~again /\ MoreToCome)
  /\ visit' = SignIn0(fresh, again)
  /\ ghost' = IF visit.pc = "idle" THEN [ghost EXCEPT !.begun = @ + 1] ELSE ghost
  /\ UNCHANGED <<accountsFile, grants, call>>
\* Afresh with everything cleared first.
MenuClears ==
  /\ visit.pc = "menu"
  /\ accountsFile' = [rows |-> <<>>, active |-> 1]
  /\ ghost' = [ghost EXCEPT !.asked = @ \cup RecordsOf(accountsFile.rows)]
  /\ visit' = SignIn0(TRUE, FALSE)
  /\ UNCHANGED <<grants, call>>
MenuCancels ==
  /\ visit.pc = "menu" /\ visit' = NoVisit
  /\ UNCHANGED <<accountsFile, grants, call, ghost>>

\* Mutant of AvailableSlots: the rows there are do not count.
SlotsUncounted(v) == IF v.again THEN 1 ELSE MaxAccounts
\* One for an account signed in again, the whole limit afresh, else what is left.
AvailableSlots(v) ==
  IF v.again THEN 1 ELSE IF v.fresh THEN MaxAccounts ELSE MaxAccounts - Len(accountsFile.rows)

CountsSlots ==
  /\ visit.pc = "count"
  /\ visit' = IF AvailableSlots(visit) <= 0 THEN NoVisit
              ELSE [pc |-> "signin", fresh |-> visit.fresh, again |-> visit.again,
                    slots |-> AvailableSlots(visit), done |-> 0,
                    seen |-> IF visit.fresh THEN 0 ELSE Len(accountsFile.rows)]
  /\ UNCHANGED <<accountsFile, grants, call, ghost>>

\* Mutant of Replaces: every account of a fresh sign-in replaces the pool.
ReplacesEachTime(v) == v.fresh
\* Only the first account of a fresh sign-in replaces the pool.
Replaces(v) == v.fresh /\ v.done = 0

\* persistAccountPoolResults: the row of that account gets the credentials, or a
\* row is appended; the active position is clamped.
PooledRows(rows, who, rec, tok) ==
  LET at == AtHolder(rows, who)
  IN IF at = 0 THEN Append(rows, NewRow(who, rec, tok)) ELSE [rows EXCEPT ![at].tok = tok, ![at].mail = TRUE]
Pooled(v, who, rec, tok) ==
  LET rows == PooledRows(IF Replaces(v) THEN <<>> ELSE accountsFile.rows, who, rec, tok)
  IN [rows |-> rows, active |-> IF Replaces(v) THEN 1 ELSE ClampActive(accountsFile.active, Len(rows))]

Issues == /\ grants.issued < MaxIssued
          /\ grants' = [grants EXCEPT !.issued = @ + 1, !.live = @ \cup {grants.issued + 1}]

\* More are asked for while there are slots, and never after signing in again.
NextSignIn(v, known) ==
  \/ visit' = NoVisit
  \/ v.done + 1 < v.slots /\ ~v.again
     /\ visit' = [v EXCEPT !.done = @ + 1, !.seen = known]

PoolSignsIn(who) ==
  LET rec == Cardinality(ghost.ever) + 1
  IN /\ visit.pc = "signin" /\ rec <= MaxRecords /\ Issues
     /\ accountsFile' = Pooled(visit, who, rec, grants.issued + 1)
     /\ ghost' = [ghost EXCEPT !.ever = @ \cup RecordsOf(accountsFile'.rows),
                    !.asked = IF visit.fresh /\ visit.done = 0 THEN @ \cup RecordsOf(accountsFile.rows) ELSE @,
                    !.crowded = @ \/ visit.again
                                 \/ (~(visit.fresh /\ visit.done = 0) /\ Len(accountsFile.rows) > visit.seen)]
     /\ NextSignIn(visit, Len(accountsFile'.rows))
     /\ UNCHANGED call
\* The account is signed in but cannot be stored: reported, and the next one follows.
SignInNotStored ==
  /\ visit.pc = "signin" /\ Issues
  /\ UNCHANGED <<accountsFile, call, ghost>>
  /\ NextSignIn(visit, visit.seen)
SignInGivenUp ==
  /\ visit.pc = "signin" /\ visit' = NoVisit
  /\ UNCHANGED <<accountsFile, grants, call, ghost>>

ToolNext ==
  \/ \E c \in Calls : \/ CallLoads(c) \/ CallRefreshes(c)
                      \/ CallSaves(c) \/ CallSaveFails(c) \/ HealthReports(c)
  \/ MenuLoads \/ HydrateRefreshes \/ HydrateEnds \/ HydrateFails
  \/ PluginMenuDeletes \/ PluginMenuToggles \/ MenuClears \/ MenuCancels
  \/ \E fresh, again \in BOOLEAN : ~(fresh /\ again) /\ StartsSignIn(fresh, again)
  \/ CountsSlots \/ SignInNotStored \/ SignInGivenUp
  \/ \E who \in Holders : PoolSignsIn(who)

-----------------------------------------------------------------------------
(***************************************************************************)
(* The properties except one thing: a menu that writes its copy over a     *)
(* file which changed since it was read (ghost.overwrote).  Everything the *)
(* file gained meanwhile is lost then.                                     *)
(***************************************************************************)

\* A record leaves the file only because a user removed it, cleared the pool or
\* began afresh: no tool's save, and no later sign-in of a sequence, drops an
\* account that somebody else stored meanwhile.
OnlyAskedRowsLeave ==
  ghost.overwrote \/ ghost.ever \ RecordsOf(accountsFile.rows) \subseteq ghost.asked

\* A row's refresh token is live, or its successor is in an object that is still
\* to be saved.  The exceptions are what codex-health rotates and forgets, and
\* what a refused or failed save loses.
SuccessorsStored == ghost.overwrote \/ \A row \in Range(accountsFile.rows) :
  \/ row.tok \in grants.live \/ row.rec \in ghost.wasted
  \/ \E m \in {call[c] : c \in Calls} \cup {visit} :
       /\ m.pc \in {"work", "hydrate"} /\ AtRec(m.draft.rows, row.rec) # 0
       /\ Mine(m, row.rec).tok \in grants.live

\* The pool keeps to its limit, unless it had more rows than a sequence of
\* sign-ins had counted (others signed in meanwhile, or the pool it was to
\* replace could not be written), or an account was signed in again as another.
PoolWithinLimit ==
  ghost.overwrote \/ ghost.crowded \/ Len(accountsFile.rows) <= MaxAccounts

\* codex-remove of an account that is not the active one leaves the selection to
\* what the file says by then, except when the active one was the last row: it
\* is taken for a position past the end.
RemovalKeepsSelection == \A c \in Calls :
  LET m == call[c]
      selected == RecAt(accountsFile, accountsFile.active)
  IN m.pc = "work" /\ m.tool = "remove" /\ call'[c] = NoCall
     /\ m.target # m.base.active /\ m.base.active < Len(m.base.rows)
     /\ selected \in RecordsOf(accountsFile'.rows)
     => RecAt(accountsFile', accountsFile'.active) = selected
=============================================================================

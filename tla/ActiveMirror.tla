---------------------------- MODULE ActiveMirror ----------------------------
(***************************************************************************)
(* The selection of the accounts file, mirrored into the official CLI's    *)
(* files.  The wrapper makes a pass before and after every command it      *)
(* forwards (lib/codex-manager/active-account-sync.ts); switch, best and   *)
(* login save a selection and write the mirror themselves, outside the     *)
(* storage lock (persist-selected-account.ts, login-oauth.ts).  The mirror *)
(* files are written one after the other (lib/codex-cli/writer.ts) under   *)
(* the binding lock, which the official CLI knows nothing of.              *)
(* An entry is an account and the number of its refresh token.             *)
(***************************************************************************)
EXTENDS Integers

CONSTANTS Members,     \* accounts of the pool
          Switches,    \* commands that select an account
          MaxSelects,  \* bound on selections, rotations and CLI rewrites
          MaxWriteErrors,
          Missing      \* an absent file, or no cached entry

ASSUME MirrorAssumption == Members # {}

VARIABLES canon,       \* the accounts file: selection, tokens, generation
          selAuth,     \* auth.json: an entry, or Missing
          selAccounts, \* the active entry of accounts.json, or Missing
          bound,       \* config.toml names the native provider
          bindLock,    \* who holds the binding lock
          pass,        \* the wrapper's pass
          synced,      \* ACTIVE_SYNC_FINGERPRINTS: what was mirrored, the files whose
                       \* recorded time has not settled, and those rewritten with
                       \* the recorded time and size
          switch,      \* the state of each command
          selects, writeErrors

mirrorVars == <<canon, selAuth, selAccounts, bound, bindLock, pass, synced, switch, selects, writeErrors>>
cliFiles == <<selAuth, selAccounts>>
counters == <<selects, writeErrors>>

Entry(c) == [account |-> c.active, token |-> c.tokens[c.active]]
Wrapper == "wrapper"
NoPass == [pc |-> "idle", base |-> Missing, entry |-> Missing, had |-> FALSE, wrote |-> FALSE]
NoSwitch == [pc |-> "idle", entry |-> Missing]

MirrorInit ==
  /\ canon = [active |-> CHOOSE a \in Members : TRUE, tokens |-> [a \in Members |-> 1], gen |-> 0]
  /\ selAuth \in {Missing, Entry(canon)}
  /\ selAccounts \in {Missing, Entry(canon)}
  /\ bound = FALSE /\ bindLock = Missing
  /\ pass = NoPass /\ synced = Missing
  /\ switch = [s \in Switches |-> NoSwitch]
  /\ selects = 0 /\ writeErrors = 0

Budgeted == selects < MaxSelects /\ selects' = selects + 1

----------------------------------------------------------------------------
\* The record

MirrorFiles == {"canon", "auth", "accounts"}

\* fingerprintMatchesCurrent: a file whose time and size are the recorded ones
\* is trusted once that time has settled, and read and compared otherwise.
FileMatches(f, content) == synced[f] = content \/ f \in synced.same \ synced.soft

\* isActiveSelectionSyncCurrent: the accounts file and every mirror file are
\* what the last recorded pass left.
Hit == /\ synced # Missing
       /\ FileMatches("canon", canon) /\ FileMatches("auth", selAuth) /\ FileMatches("accounts", selAccounts)

\* What the record says of a file once that is rewritten: a write may fall into
\* the tick of the recorded time, and have the recorded size.
Rewritten(f, content) ==
  IF synced = Missing THEN {Missing}
  ELSE {[synced EXCEPT !.same = @ \ {f}, !.soft = IF synced[f] = content THEN @ ELSE @ \ {f}]}
       \cup IF f \in synced.soft /\ Missing \notin {content, synced[f]}
            THEN {[synced EXCEPT !.same = @ \cup {f}]} ELSE {}

\* Two seconds after the recorded times no write can have them any more.
Settles ==
  /\ synced # Missing /\ synced.soft # {}
  /\ synced' = [synced EXCEPT !.soft = {}]
  /\ UNCHANGED <<canon, cliFiles, bound, bindLock, pass, switch, counters>>

----------------------------------------------------------------------------
\* The pass

PassBegins ==
  /\ pass.pc = "idle" /\ ~ Hit
  /\ pass' = [NoPass EXCEPT !.pc = "load", !.base = canon, !.had = selAuth # Missing]
  /\ UNCHANGED <<canon, cliFiles, bound, bindLock, synced, switch, counters>>

\* The file may have moved since it was fingerprinted.  An access token that
\* is about to expire is a rotation to come, and counted as one.
PassLoads(usable) ==
  /\ pass.pc = "load"
  /\ IF usable THEN UNCHANGED selects ELSE Budgeted
  /\ pass' = [pass EXCEPT !.pc = IF usable THEN "compare" ELSE "refresh", !.entry = Entry(canon)]
  /\ UNCHANGED <<canon, cliFiles, bound, bindLock, synced, switch, writeErrors>>

\* The credential is refreshed without a lock; a failure ends the pass.
PassRefreshes(ok) ==
  /\ pass.pc = "refresh"
  /\ IF ok THEN pass' = [pass EXCEPT !.pc = "persist", !.entry.token = @ + 1] /\ UNCHANGED writeErrors
           ELSE pass' = NoPass /\ writeErrors < MaxWriteErrors /\ writeErrors' = writeErrors + 1
  /\ UNCHANGED <<canon, cliFiles, bound, bindLock, synced, switch, selects>>

\* The transaction: the token goes to its account; if another one is selected
\* by now, the mirror is left to the next pass.
PassPersists ==
  /\ pass.pc = "persist"
  /\ canon' = [canon EXCEPT !.tokens[pass.entry.account] = pass.entry.token]
  /\ IF canon.active # pass.entry.account
     THEN pass' = NoPass /\ synced' = Missing
     ELSE pass' = [pass EXCEPT !.pc = "compare", !.base = canon'] /\ synced' \in Rewritten("canon", canon')
  /\ UNCHANGED <<cliFiles, bound, bindLock, switch, counters>>

PassCompares ==
  /\ pass.pc = "compare"
  /\ IF canon = pass.base THEN pass' = [pass EXCEPT !.pc = "enter"] /\ UNCHANGED synced
                          ELSE pass' = NoPass /\ synced' = Missing
  /\ UNCHANGED <<canon, cliFiles, bound, bindLock, switch, counters>>

\* recordActiveSelectionSync: nothing is recorded when the accounts file moved
\* or auth.json vanished; otherwise whatever the mirror holds at this moment.
RecordableAnyway == selAuth # Missing

Recordable == canon = pass.base /\ selAuth # Missing

PassRecords ==
  /\ pass.pc = "record"
  /\ synced' = IF Recordable
               THEN [canon |-> canon, auth |-> selAuth, accounts |-> selAccounts,
                     foreign |-> selAuth # pass.entry, soft |-> MirrorFiles, same |-> {}]
               ELSE Missing
  /\ pass' = NoPass
  /\ UNCHANGED <<canon, cliFiles, bound, bindLock, switch, counters>>

----------------------------------------------------------------------------
\* setCodexCliActiveSelection, for the wrapper and for the commands

Caller(w) == IF w = Wrapper THEN pass ELSE switch[w]

Advance(w, pc) ==
  IF w = Wrapper THEN pass' = [pass EXCEPT !.pc = pc] /\ UNCHANGED switch
  ELSE switch' = [switch EXCEPT ![w].pc = pc] /\ UNCHANGED pass

\* The call returned false: a pass ends without a record.
GaveUp(w) ==
  IF w = Wrapper THEN pass' = NoPass /\ UNCHANGED switch
  ELSE switch' = [switch EXCEPT ![w] = NoSwitch] /\ UNCHANGED pass

WriteEnters(w) ==
  /\ Caller(w).pc = "enter" /\ bindLock = Missing
  /\ IF bound THEN GaveUp(w) /\ UNCHANGED bindLock
     ELSE Advance(w, "accounts") /\ bindLock' = w
  /\ UNCHANGED <<canon, cliFiles, bound, synced, counters>>

\* accounts.json first, if there is one: its selected row gets the tokens.
WriteAccounts(w) ==
  /\ Caller(w).pc = "accounts"
  /\ selAccounts' = IF selAccounts = Missing THEN Missing ELSE Caller(w).entry
  /\ IF selAccounts = Missing THEN UNCHANGED synced ELSE synced' \in Rewritten("accounts", selAccounts')
  /\ Advance(w, "auth")
  /\ UNCHANGED <<canon, selAuth, bound, bindLock, counters>>

\* Then auth.json, which is made if need be.
WriteAuth(w) ==
  /\ Caller(w).pc = "auth"
  /\ selAuth' = Caller(w).entry /\ synced' \in Rewritten("auth", selAuth')
  /\ bindLock' = Missing
  /\ IF w = Wrapper THEN Advance(w, "record") ELSE GaveUp(w)
  /\ UNCHANGED <<canon, selAccounts, bound, counters>>

\* A malformed file, a failing read or rename: what was written stays.
WriteFailsLocked(w) ==
  /\ Caller(w).pc \in {"accounts", "auth"} /\ writeErrors < MaxWriteErrors
  /\ writeErrors' = writeErrors + 1
  /\ GaveUp(w)
  /\ UNCHANGED <<canon, cliFiles, bound, bindLock, synced, selects>>

WriteFails(w) ==
  /\ Caller(w).pc \in {"accounts", "auth"} /\ writeErrors < MaxWriteErrors
  /\ writeErrors' = writeErrors + 1
  /\ bindLock' = Missing /\ GaveUp(w)
  /\ UNCHANGED <<canon, cliFiles, bound, synced, selects>>

----------------------------------------------------------------------------
\* The others

\* persistAndSyncSelectedAccount: the save bumps the affinity generation; the
\* account's token may have been refreshed just before.
SwitchSaves(s, a) ==
  /\ switch[s].pc = "idle" /\ Budgeted
  /\ \E step \in {0, 1} :
       canon' = [canon EXCEPT !.active = a, !.tokens[a] = @ + step, !.gen = @ + 1]
  /\ switch' = [switch EXCEPT ![s] = [pc |-> "enter", entry |-> Entry(canon')]]
  /\ synced' \in Rewritten("canon", canon')
  /\ UNCHANGED <<cliFiles, bound, bindLock, pass, writeErrors>>

\* The official CLI logs in, refreshes its credential, or logs out.
CliRewrites(entry) ==
  /\ Budgeted /\ selAuth # entry
  /\ selAuth' = entry /\ synced' \in Rewritten("auth", entry)
  /\ UNCHANGED <<canon, selAccounts, bound, bindLock, pass, switch, writeErrors>>

\* The native app is bound or unbound under the same lock.
BindToggles ==
  /\ bindLock = Missing /\ Budgeted
  /\ bound' = ~ bound
  /\ UNCHANGED <<canon, cliFiles, bindLock, pass, synced, switch, writeErrors>>

WriteStep(w) == WriteEnters(w) \/ WriteAccounts(w) \/ WriteAuth(w)

PassStep == PassBegins \/ PassLoads(TRUE) \/ PassRefreshes(TRUE) \/ PassPersists \/ PassCompares
            \/ PassRecords \/ WriteStep(Wrapper)

MirrorNext ==
  \/ PassStep \/ PassLoads(FALSE) \/ PassRefreshes(FALSE)
  \/ \E w \in {Wrapper} \union Switches : WriteFails(w)
  \/ \E s \in Switches : WriteStep(s) \/ \E a \in Members : SwitchSaves(s, a)
  \/ \E e \in {Missing} \union [account : Members, token : {1, 2}] : CliRewrites(e)
  \/ BindToggles
  \/ Settles

MirrorSpec == MirrorInit /\ [][MirrorNext]_mirrorVars

----------------------------------------------------------------------------
(***************************************************************************)
(* A pass that is skipped because nothing moved leaves the official CLI on *)
(* the account the accounts file selects, with its credential.  Excepted   *)
(* is an auth.json that someone else rewrote between this process's write  *)
(* and its record, which the record takes for its own; and a file that was *)
(* rewritten in the tick of its recorded time with its recorded size, and  *)
(* not looked at before that time had settled.                             *)
(***************************************************************************)
Unseen == synced.same \ synced.soft # {}
SkippedMeansMirrored == Hit => selAuth = Entry(canon) \/ synced.foreign \/ Unseen

(***************************************************************************)
(* Once nobody selects, logs in or binds any more, the passes around the   *)
(* forwarded commands bring the selection into auth.json and it stays      *)
(* there, whatever a failed or overtaken write had left; excepted are a    *)
(* native binding and the two records above.                               *)
(***************************************************************************)
MirrorConverges ==
  <>[](bound \/ selAuth = Entry(canon) \/ (Hit /\ (synced.foreign \/ Unseen)))
=============================================================================

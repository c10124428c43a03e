--------------------------- MODULE ProgressProofs ---------------------------
(***************************************************************************)
(* Safety of components that MCProgress runs, for all values of their      *)
(* constants: the mirror of the active selection, sign-ins, and budgets    *)
(* with their usage ledger.  Each has an inductive invariant of its own.   *)
(***************************************************************************)
EXTENDS SignIn, ActiveMirror, UsageBudget, TLAPS

-----------------------------------------------------------------------------
(* The active selection's mirror. *)

Selections == [active : Members, tokens : [Members -> Nat], gen : Nat]
Entries == [account : Members, token : Nat]

MirrorTypeOK ==
  /\ canon \in Selections
  /\ pass \in [pc : {"idle", "load", "refresh", "persist", "compare", "enter", "accounts", "auth", "record"},
               base : Selections \cup {Missing}, entry : Entries \cup {Missing},
               had : BOOLEAN, wrote : BOOLEAN]

\* Every selection bumps the generation, so the file a pass started from does not
\* come back once it has moved.
PassBehind == pass.pc # "idle" => pass.base \in Selections /\ pass.base.gen <= canon.gen

\* A pass mirrors what it read: the entry of its base, from the moment that the base
\* was compared with the file.
PassTrue ==
  /\ pass.pc \in {"refresh", "persist"} => pass.entry \in Entries
  /\ pass.pc = "compare" /\ canon = pass.base => pass.entry = Entry(pass.base)
  /\ pass.pc \in {"enter", "accounts", "auth", "record"} => pass.entry = Entry(pass.base)

\* What was recorded as mirrored is the entry of the selection recorded with it,
\* unless somebody else's auth.json was recorded.
Recorded(r) == [canon |-> r.canon, auth |-> r.auth, accounts |-> r.accounts,
                foreign |-> r.foreign, soft |-> r.soft, same |-> r.same]
RecordTrue ==
  synced # Missing => /\ synced = Recorded(synced)
                      /\ synced.foreign \/ synced.auth = Entry(synced.canon)

MirrorInv == MirrorTypeOK /\ PassBehind /\ PassTrue /\ RecordTrue

LEMMA EntryType == \A c \in Selections : Entry(c) \in Entries
BY DEF Selections, Entries, Entry

LEMMA MirrorInitInv == MirrorInit => MirrorInv
<1> SUFFICES ASSUME MirrorInit PROVE MirrorInv
  OBVIOUS
<1>1. (CHOOSE a \in Members : TRUE) \in Members
  BY MirrorAssumption
<1>2. canon \in Selections
  BY <1>1 DEF MirrorInit, Selections
<1> QED BY <1>2 DEF MirrorInit, MirrorInv, MirrorTypeOK, PassBehind, PassTrue, RecordTrue, NoPass

\* A rewritten file changes nothing of what was recorded, only whether it is looked at.
LEMMA RewrittenKeeps == ASSUME RecordTrue, NEW f, NEW content, synced' \in Rewritten(f, content) PROVE RecordTrue'
<1>1. CASE synced = Missing
  BY <1>1 DEF Rewritten, RecordTrue
<1>2. CASE synced # Missing
  <2>1. PICK soft, same : synced' = [synced EXCEPT !.same = same, !.soft = soft]
    <3>1. CASE synced' = [synced EXCEPT !.same = @ \ {f}, !.soft = IF synced[f] = content THEN @ ELSE @ \ {f}]
      BY <3>1
    <3>2. CASE synced' = [synced EXCEPT !.same = @ \cup {f}]
      <4>1. synced' = [synced EXCEPT !.same = synced.same \cup {f}, !.soft = synced.soft]
        BY <1>2, <3>2 DEF RecordTrue, Recorded
      <4> QED BY <4>1
    <3> QED BY <1>2, <3>1, <3>2 DEF Rewritten
  <2>2. synced' = [Recorded(synced) EXCEPT !.same = same, !.soft = soft]
    BY <1>2, <2>1 DEF RecordTrue
  <2>3. synced' = Recorded(synced') /\ synced'.foreign = synced.foreign /\ synced'.auth = synced.auth /\ synced'.canon = synced.canon
    BY <2>2 DEF Recorded
  <2> QED BY <1>2, <2>3 DEF RecordTrue, Entry
<1> QED BY <1>1, <1>2

\* A pass that has ended owes nothing.
LEMMA PassOverInv ==
  ASSUME MirrorInv, canon' \in Selections, pass' = NoPass, RecordTrue'
  PROVE  MirrorInv'
BY DEF MirrorInv, MirrorTypeOK, PassBehind, PassTrue, NoPass

\* A step that leaves pass, selection and record alone.
LEMMA MirrorFrame == MirrorInv /\ UNCHANGED <<canon, pass>> /\ RecordTrue' => MirrorInv'
BY DEF MirrorInv, MirrorTypeOK, PassBehind, PassTrue, RecordTrue, Entry

\* The wrapper's step from one write to the next.
LEMMA AdvanceInv ==
  ASSUME MirrorInv, UNCHANGED canon, RecordTrue', NEW pc \in {"accounts", "auth", "record"},
         pass.pc \in {"enter", "accounts", "auth"}, pass' = [pass EXCEPT !.pc = pc]
  PROVE  MirrorInv'
<1>1. pass' \in [pc : {"idle", "load", "refresh", "persist", "compare", "enter", "accounts", "auth", "record"},
                 base : Selections \cup {Missing}, entry : Entries \cup {Missing},
                 had : BOOLEAN, wrote : BOOLEAN]
      /\ pass'.pc = pc /\ pass'.base = pass.base /\ pass'.entry = pass.entry
  BY DEF MirrorInv, MirrorTypeOK
<1> QED BY <1>1 DEF MirrorInv, MirrorTypeOK, PassBehind, PassTrue, RecordTrue, Entry

\* setCodexCliActiveSelection, whoever calls it.
LEMMA WriteInv ==
  ASSUME MirrorInv, NEW w, WriteEnters(w) \/ WriteAccounts(w) \/ WriteAuth(w) \/ WriteFails(w)
  PROVE  MirrorInv'
<1>0. UNCHANGED canon /\ RecordTrue'
  <2>1. UNCHANGED canon
    BY DEF WriteEnters, WriteAccounts, WriteAuth, WriteFails
  <2>2. RecordTrue /\ (UNCHANGED synced => RecordTrue')
    BY DEF MirrorInv, RecordTrue, Recorded, Entry
  <2>3. CASE WriteEnters(w) \/ WriteFails(w)
    BY <2>2, <2>3 DEF WriteEnters, WriteFails
  <2>4. CASE WriteAccounts(w)
    BY <2>2, <2>4, RewrittenKeeps DEF WriteAccounts
  <2>5. CASE WriteAuth(w)
    BY <2>2, <2>5, RewrittenKeeps DEF WriteAuth
  <2> QED BY <2>1, <2>3, <2>4, <2>5
<1>1. CASE UNCHANGED pass
  BY <1>0, <1>1, MirrorFrame
<1>2. CASE pass' = NoPass
  BY <1>0, <1>2, PassOverInv DEF MirrorInv, MirrorTypeOK, RecordTrue, Entry
<1>3. CASE w = Wrapper /\ pass' # NoPass
  <2>1. /\ pass.pc \in {"enter", "accounts", "auth"}
        /\ \E pc \in {"accounts", "auth", "record"} : pass' = [pass EXCEPT !.pc = pc]
    BY <1>3 DEF WriteEnters, WriteAccounts, WriteAuth, WriteFails, Caller, Advance, GaveUp
  <2> QED BY <1>0, <2>1, AdvanceInv
<1>4. w # Wrapper => UNCHANGED pass
  BY DEF WriteEnters, WriteAccounts, WriteAuth, WriteFails, Advance, GaveUp
<1> QED BY <1>1, <1>2, <1>3, <1>4

LEMMA MirrorNextInv == MirrorInv /\ [MirrorNext]_mirrorVars => MirrorInv'
<1> SUFFICES ASSUME MirrorInv, [MirrorNext]_mirrorVars PROVE MirrorInv'
  OBVIOUS
<1>0. /\ canon \in Selections /\ canon.gen \in Nat
      /\ pass \in [pc : {"idle", "load", "refresh", "persist", "compare", "enter", "accounts", "auth", "record"},
                   base : Selections \cup {Missing}, entry : Entries \cup {Missing},
                   had : BOOLEAN, wrote : BOOLEAN]
  BY DEF MirrorInv, MirrorTypeOK, Selections
<1>1. CASE PassBegins
  <2>1. UNCHANGED <<canon, synced>> /\ pass' \in [pc : {"load"}, base : {canon}, entry : {Missing},
                                                  had : BOOLEAN, wrote : BOOLEAN]
    BY <1>1 DEF PassBegins, NoPass
  <2> QED BY <1>0, <2>1 DEF MirrorInv, MirrorTypeOK, PassBehind, PassTrue, RecordTrue, Entry
<1>2. ASSUME NEW usable \in BOOLEAN, PassLoads(usable) PROVE MirrorInv'
  <2>1. Entry(canon) \in Entries
    BY <1>0, EntryType
  <2>2. /\ UNCHANGED <<canon, synced>> /\ pass.pc = "load"
        /\ pass'.pc \in {"compare", "refresh"} /\ pass'.base = pass.base /\ pass'.entry = Entry(canon)
    BY <1>0, <1>2 DEF PassLoads
  <2>3. MirrorTypeOK'
    BY <1>0, <1>2, <2>1 DEF PassLoads, MirrorTypeOK
  <2> QED BY <2>1, <2>2, <2>3 DEF MirrorInv, PassBehind, PassTrue, RecordTrue, Entry
<1>3. ASSUME NEW ok \in BOOLEAN, PassRefreshes(ok) PROVE MirrorInv'
  <2>1. CASE ~ok
    BY <1>0, <1>3, <2>1, PassOverInv DEF PassRefreshes, MirrorInv, RecordTrue, Entry
  <2>2. CASE ok
    <3>1. pass.entry \in Entries /\ pass.pc = "refresh" /\ UNCHANGED <<canon, synced>>
      BY <1>3 DEF PassRefreshes, MirrorInv, PassTrue
    <3>2. [pass.entry EXCEPT !.token = @ + 1] \in Entries
      BY <3>1 DEF Entries
    <3>3. pass' = [pass EXCEPT !.pc = "persist", !.entry = [pass.entry EXCEPT !.token = @ + 1]]
      BY <1>0, <1>3, <2>2 DEF PassRefreshes
    <3>4. /\ pass'.pc = "persist" /\ pass'.base = pass.base /\ pass'.entry \in Entries /\ MirrorTypeOK'
      BY <1>0, <3>1, <3>2, <3>3 DEF MirrorTypeOK
    <3> QED BY <3>1, <3>4 DEF MirrorInv, PassBehind, PassTrue, RecordTrue, Entry
  <2> QED BY <2>1, <2>2
<1>4. CASE PassPersists
  <2>1. pass.entry \in Entries /\ pass.pc = "persist"
    BY <1>4 DEF PassPersists, MirrorInv, PassTrue
  <2>2. /\ canon' \in Selections /\ canon'.active = canon.active /\ canon'.gen = canon.gen
        /\ canon'.tokens[pass.entry.account] = pass.entry.token
    BY <1>0, <1>4, <2>1 DEF PassPersists, Selections, Entries
  <2>3. CASE canon.active # pass.entry.account
    BY <1>4, <2>2, <2>3, PassOverInv DEF PassPersists, RecordTrue
  <2>4. CASE canon.active = pass.entry.account
    <3>1. Entry(canon') = pass.entry
      BY <2>1, <2>2, <2>4 DEF Entry, Entries
    <3>2. /\ pass' = [pass EXCEPT !.pc = "compare", !.base = canon'] /\ synced' \in Rewritten("canon", canon')
      BY <1>4, <2>4 DEF PassPersists
    <3>6. RecordTrue'
      BY <3>2, RewrittenKeeps DEF MirrorInv
    <3>3. pass'.pc = "compare" /\ pass'.base = canon' /\ pass'.entry = pass.entry /\ MirrorTypeOK'
      BY <1>0, <2>2, <3>2 DEF MirrorTypeOK
    <3>4. canon'.gen \in Nat
      BY <2>2 DEF Selections
    <3>5. Entry(pass'.base) = pass'.entry
      BY <3>1, <3>3
    <3> QED BY <2>2, <3>2, <3>3, <3>4, <3>5, <3>6 DEF MirrorInv, PassBehind, PassTrue, Entry
  <2> QED BY <2>3, <2>4
<1>5. CASE PassCompares
  <2>1. CASE canon # pass.base
    BY <1>0, <1>5, <2>1, PassOverInv DEF PassCompares, RecordTrue
  <2>2. CASE canon = pass.base
    <3>1. /\ UNCHANGED <<canon, synced>> /\ pass.pc = "compare"
          /\ pass' = [pass EXCEPT !.pc = "enter"]
      BY <1>5, <2>2 DEF PassCompares
    <3>2. pass'.pc = "enter" /\ pass'.base = pass.base /\ pass'.entry = pass.entry /\ MirrorTypeOK'
      BY <1>0, <3>1 DEF MirrorTypeOK
    <3> QED BY <2>2, <3>1, <3>2 DEF MirrorInv, PassBehind, PassTrue, RecordTrue, Entry
  <2> QED BY <2>1, <2>2
<1>6. CASE PassRecords
  <2>1. pass.entry = Entry(pass.base) /\ pass' = NoPass /\ UNCHANGED canon
    BY <1>6 DEF PassRecords, MirrorInv, PassTrue
  <2>2. RecordTrue'
    BY <1>6, <2>1 DEF PassRecords, Recordable, RecordTrue, Recorded, Entry
  <2> QED BY <1>0, <2>1, <2>2, PassOverInv
<1>7. ASSUME NEW s \in Switches, NEW a \in Members, SwitchSaves(s, a) PROVE MirrorInv'
  <2>1. UNCHANGED pass /\ synced' \in Rewritten("canon", canon')
    BY <1>7 DEF SwitchSaves
  <2>4. RecordTrue'
    BY <2>1, RewrittenKeeps DEF MirrorInv
  <2>2. canon' \in Selections /\ canon'.gen = canon.gen + 1
    <3>1. PICK step \in {0, 1} :
            canon' = [canon EXCEPT !.active = a, !.tokens[a] = @ + step, !.gen = @ + 1]
      BY <1>7 DEF SwitchSaves
    <3>2. canon.tokens \in [Members -> Nat] /\ canon.tokens[a] \in Nat
      BY <1>0 DEF Selections
    <3>3. [canon.tokens EXCEPT ![a] = @ + step] \in [Members -> Nat]
      BY <3>2
    <3>4. canon' = [canon EXCEPT !.active = a, !.tokens = [canon.tokens EXCEPT ![a] = @ + step], !.gen = @ + 1]
      BY <1>0, <3>1 DEF Selections
    <3> DEFINE rotated == [canon.tokens EXCEPT ![a] = @ + step]
    <3>5. rotated \in [Members -> Nat] /\ canon' = [canon EXCEPT !.active = a, !.tokens = rotated, !.gen = @ + 1]
      BY <3>3, <3>4
    <3> HIDE DEF rotated
    <3>6. canon' = [active |-> a, tokens |-> rotated, gen |-> canon.gen + 1]
      BY <1>0, <3>5 DEF Selections
    <3> QED BY <1>0, <3>5, <3>6 DEF Selections
  <2>3. pass.pc # "idle" => pass.base.gen <= canon.gen /\ pass.base.gen \in Nat /\ canon' # pass.base
    BY <1>0, <2>2 DEF MirrorInv, PassBehind, Selections
  <2> QED BY <1>0, <2>1, <2>2, <2>3, <2>4 DEF MirrorInv, MirrorTypeOK, PassBehind, PassTrue, Entry
<1>8. ASSUME NEW e, CliRewrites(e) PROVE MirrorInv'
  <2>1. RecordTrue'
    BY <1>8, RewrittenKeeps DEF CliRewrites, MirrorInv
  <2> QED BY <1>8, <2>1, MirrorFrame DEF CliRewrites
<1>11. UNCHANGED synced => RecordTrue'
  BY DEF MirrorInv, RecordTrue, Recorded, Entry
<1>9. CASE BindToggles
  BY <1>9, <1>11, MirrorFrame DEF BindToggles
<1>10. CASE UNCHANGED mirrorVars
  BY <1>10, <1>11, MirrorFrame DEF mirrorVars
<1>12. CASE Settles
  <2>1. synced # Missing /\ synced' = [synced EXCEPT !.soft = {}] /\ UNCHANGED <<canon, pass>>
    BY <1>12 DEF Settles
  <2>2. synced' = [Recorded(synced) EXCEPT !.soft = {}]
    BY <2>1 DEF MirrorInv, RecordTrue
  <2>3. synced' = Recorded(synced') /\ synced'.foreign = synced.foreign /\ synced'.auth = synced.auth /\ synced'.canon = synced.canon
    BY <2>2 DEF Recorded
  <2> QED BY <2>1, <2>3, MirrorFrame DEF MirrorInv, RecordTrue, Entry
<1> QED BY <1>12, <1>1, <1>2, <1>3, <1>4, <1>5, <1>6, <1>7, <1>8, <1>9, <1>10, WriteInv
        DEF MirrorNext, PassStep, WriteStep

\* Whatever selections, rewrites, bindings and failed writes happen, a pass that
\* isActiveSelectionSyncCurrent skips has nothing to mirror, except after the window
\* that the record leaves open, and except when a file was rewritten in the tick of
\* its recorded time with its recorded size (lib/codex-manager/active-account-sync.ts).
THEOREM SkipIsRight == MirrorSpec => []SkippedMeansMirrored
<1>1. MirrorInv => SkippedMeansMirrored
  BY DEF MirrorInv, RecordTrue, SkippedMeansMirrored, Hit, FileMatches, Unseen
<1> QED BY <1>1, MirrorInitInv, MirrorNextInv, PTL DEF MirrorSpec

-----------------------------------------------------------------------------
(* Sign-ins. *)

Flows == [pc : {"start", "binding", "waiting", "prompt", "usercode", "polling",
                "exchange", "signedIn", "failed", "cancelled"},
          bound : SUBSET Families, failed : SUBSET Families, inUse : BOOLEAN,
          captured : Logins \cup {NoCode}, code : Logins \cup {NoCode}, polls : Nat]

SignTypeOK ==
  /\ sign \in [Logins -> Flows]
  /\ port \in [Families -> Logins \cup {Free, Foreign, Unavailable}]
  /\ redirects \subseteq Logins

\* Codes come from a redirect or a paste that named the login's own state.
CodesOwned ==
  \A l \in Logins : /\ sign[l].captured \in {NoCode, l}
                    /\ sign[l].pc \in {"exchange", "signedIn"} => sign[l].code = l

\* Only a login that can still be redirected to listens, and once it has stopped
\* binding only if it found no other holder of the port.
ListenersOpen ==
  \A l \in Logins, f \in Families : port[f] = l =>
    /\ sign[l].pc \in {"binding", "waiting", "prompt"}
    /\ sign[l].pc # "binding" => ~sign[l].inUse

\* A login knows its listeners, and a family that failed without a holder cannot be
\* bound by anybody.
BindingsKnown ==
  \A l \in Logins : /\ \A f \in sign[l].bound : port[f] = l
                    /\ \A f \in sign[l].failed : sign[l].inUse \/ port[f] = Unavailable

\* Who waits has settled every family, holds one and met no other holder.
WaitersSettled ==
  \A l \in Logins : sign[l].pc = "waiting" =>
    /\ sign[l].bound \cup sign[l].failed = Families
    /\ sign[l].bound # {} /\ ~sign[l].inUse

SignInv == SignTypeOK /\ CodesOwned /\ ListenersOpen /\ BindingsKnown /\ WaitersSettled

LEMMA SignInitInv == SignInit => SignInv
BY SignAssumption DEF SignInit, FlowAtRest, SignInv, SignTypeOK, Flows, CodesOwned, ListenersOpen,
   BindingsKnown, WaitersSettled

\* A step of one login that keeps its listeners or closes them all, with what the
\* login's new record must satisfy.
LEMMA LoginStepInv ==
  ASSUME SignInv, NEW l \in Logins, NEW v \in Flows, sign' = [sign EXCEPT ![l] = v],
         redirects' \subseteq Logins,
         v.captured = sign[l].captured, v.failed = sign[l].failed, v.inUse = sign[l].inUse,
         v.pc \in {"exchange", "signedIn"} => v.code = l,
         \/ /\ port' = Closed(l) /\ v.bound = {} /\ v.pc # "waiting"
         \/ /\ port' = port /\ v.bound = sign[l].bound
            /\ (\E f \in Families : port[f] = l) => /\ v.pc \in {"binding", "waiting", "prompt"}
                                                    /\ v.pc # "binding" => ~v.inUse
            /\ v.pc = "waiting" => /\ v.bound \cup v.failed = Families
                                   /\ v.bound # {} /\ ~v.inUse
  PROVE  SignInv'
<1> USE SignAssumption DEF SignInv
<1>1. sign'[l] = v /\ \A m \in Logins : m # l => sign'[m] = sign[m]
  BY DEF SignTypeOK
<1>2. \A f \in Families : \/ port'[f] = port[f] /\ (port' = Closed(l) => port[f] # l)
                          \/ port[f] = l /\ port'[f] = Free /\ port' = Closed(l)
  BY DEF Closed, SignTypeOK
<1>3. SignTypeOK'
  BY <1>2 DEF SignTypeOK, Closed
<1>4. CodesOwned'
  BY <1>1 DEF CodesOwned
<1>5. ListenersOpen'
  BY <1>1, <1>2 DEF ListenersOpen, SignTypeOK
<1>6. BindingsKnown'
  <2> SUFFICES ASSUME NEW m \in Logins
               PROVE  /\ \A f \in sign'[m].bound : port'[f] = m
                      /\ \A f \in sign'[m].failed : sign'[m].inUse \/ port'[f] = Unavailable
    BY DEF BindingsKnown
  <2>1. sign[m].bound \subseteq Families /\ sign[m].failed \subseteq Families
    BY DEF SignTypeOK, Flows
  <2>2. \A f \in sign[m].failed : sign[m].inUse \/ port'[f] = Unavailable
    BY <1>2, <2>1 DEF BindingsKnown
  <2>3. CASE m = l BY <1>1, <1>2, <2>1, <2>2, <2>3 DEF BindingsKnown
  <2>4. CASE m # l BY <1>1, <1>2, <2>1, <2>2, <2>4 DEF BindingsKnown
  <2> QED BY <2>3, <2>4
<1>7. WaitersSettled'
  BY <1>1 DEF WaitersSettled
<1> QED BY <1>3, <1>4, <1>5, <1>6, <1>7

\* A login that leaves the prompt or its wait closes every listener it has.
LEMMA ClosingInv ==
  ASSUME SignInv, NEW l \in Logins,
         NEW p \in {"exchange", "failed", "cancelled"}, NEW k \in Logins \cup {NoCode},
         p = "exchange" => k = l,
         sign' = [sign EXCEPT ![l] = [sign[l] EXCEPT !.pc = p, !.bound = {}, !.code = k]],
         port' = Closed(l), UNCHANGED redirects
  PROVE  SignInv'
<1>1. sign \in [Logins -> Flows] /\ sign[l] \in Flows /\ redirects \subseteq Logins
  BY DEF SignInv, SignTypeOK
<1> DEFINE v == [sign[l] EXCEPT !.pc = p, !.bound = {}, !.code = k]
<1>2. sign' = [sign EXCEPT ![l] = v]
  BY <1>1
<1>3. v \in Flows
  BY <1>1 DEF Flows
<1>4. /\ v.pc = p /\ v.bound = {} /\ v.code = k /\ v.captured = sign[l].captured
      /\ v.failed = sign[l].failed /\ v.inUse = sign[l].inUse
  BY <1>1 DEF Flows
<1> HIDE DEF v
<1> QED BY <1>1, <1>2, <1>3, <1>4, LoginStepInv

\* listen(): the family becomes this login's, or its bind fails.
LEMMA BindSettlesInv ==
  ASSUME SignInv, NEW l \in Logins, NEW f \in Families, BindSettles(l, f)
  PROVE  SignInv'
<1> USE SignAssumption DEF SignInv
<1> DEFINE v == sign'[l]
<1>1. /\ sign' = [sign EXCEPT ![l] = v] /\ v \in Flows /\ redirects' = redirects
      /\ v.pc = "binding" /\ sign[l].pc = "binding"
      /\ v.captured = sign[l].captured /\ v.code = sign[l].code
      /\ sign[l] \in Flows
  BY DEF BindSettles, SignTypeOK, Flows
<1>2. \/ /\ port[f] = Free /\ port' = [port EXCEPT ![f] = l]
         /\ v.bound = sign[l].bound \cup {f} /\ v.failed = sign[l].failed /\ v.inUse = sign[l].inUse
      \/ /\ port' = port /\ v.bound = sign[l].bound /\ v.failed = sign[l].failed \cup {f}
         /\ v.inUse \/ (port[f] = Unavailable /\ v.inUse = sign[l].inUse)
  BY DEF BindSettles, SignTypeOK, Flows
<1> HIDE DEF v
<1>3. \A m \in Logins : m # l => sign'[m] = sign[m]
  BY <1>1 DEF SignTypeOK
<1>4. \A g \in Families : \/ port'[g] = port[g]
                          \/ g = f /\ port[g] = Free /\ port'[g] = l
  BY <1>2 DEF SignTypeOK
<1>5. v = sign'[l]
  BY DEF v
<1>6. SignTypeOK'
  <2>1. sign' \in [Logins -> Flows] BY <1>1 DEF SignTypeOK
  <2>2. port' \in [Families -> Logins \cup {Free, Foreign, Unavailable}] BY <1>2 DEF SignTypeOK
  <2> QED BY <1>1, <2>1, <2>2 DEF SignTypeOK
<1>7. CodesOwned'
  BY <1>1, <1>3, <1>5 DEF CodesOwned
<1>8. ListenersOpen'
  BY <1>1, <1>3, <1>4, <1>5 DEF ListenersOpen, SignTypeOK
<1>9. BindingsKnown'
  <2> SUFFICES ASSUME NEW m \in Logins
               PROVE  /\ \A g \in sign'[m].bound : port'[g] = m
                      /\ \A g \in sign'[m].failed : sign'[m].inUse \/ port'[g] = Unavailable
    BY DEF BindingsKnown
  <2>1. sign[m].bound \subseteq Families /\ sign[m].failed \subseteq Families
    BY DEF SignTypeOK, Flows
  <2>2. \A g \in sign[m].bound : port'[g] = m
    BY <1>4, <2>1 DEF BindingsKnown
  <2>3. \A g \in sign[m].failed : sign[m].inUse \/ port'[g] = Unavailable
    BY <1>4, <2>1 DEF BindingsKnown
  <2>4. CASE m # l BY <1>3, <2>2, <2>3, <2>4
  <2>5. CASE m = l
    <3>1. CASE port' = port
      BY <1>2, <1>5, <2>2, <2>3, <2>5, <3>1 DEF SignTypeOK
    <3>2. CASE port' # port
      BY <1>2, <1>5, <2>2, <2>3, <2>5, <3>2 DEF SignTypeOK
    <3> QED BY <3>1, <3>2
  <2> QED BY <2>4, <2>5
<1>10. WaitersSettled'
  BY <1>1, <1>3, <1>5 DEF WaitersSettled
<1> QED BY <1>6, <1>7, <1>8, <1>9, <1>10

\* The request handler keeps a code only if it names the login's own state.
LEMMA RedirectInv ==
  ASSUME SignInv, NEW m \in Logins, NEW f \in Families, RedirectArrives(m, f)
  PROVE  SignInv'
<1> USE SignAssumption DEF SignInv
<1> DEFINE l == port[f]
<1>1. CASE ~Accepts(l, m)
  BY <1>1 DEF RedirectArrives, SignTypeOK, CodesOwned, ListenersOpen, BindingsKnown, WaitersSettled
<1>2. CASE Accepts(l, m)
  <2>1. l \in Logins /\ m = l /\ sign' = [sign EXCEPT ![l].captured = l] /\ UNCHANGED <<port, redirects>>
    BY <1>2 DEF RedirectArrives, Accepts
  <2>2. \A k \in Logins : /\ sign'[k].pc = sign[k].pc /\ sign'[k].bound = sign[k].bound
                          /\ sign'[k].failed = sign[k].failed /\ sign'[k].inUse = sign[k].inUse
                          /\ sign'[k].code = sign[k].code
                          /\ sign'[k].captured \in {sign[k].captured, k}
    BY <2>1 DEF SignTypeOK, Flows
  <2>3. SignTypeOK'
    BY <2>1 DEF SignTypeOK, Flows
  <2> QED BY <2>1, <2>2, <2>3 DEF SignTypeOK, CodesOwned, ListenersOpen, BindingsKnown, WaitersSettled
<1> QED BY <1>1, <1>2

LEMMA SignNextInv == SignInv /\ [SignNext]_signVars => SignInv'
<1> SUFFICES ASSUME SignInv, [SignNext]_signVars PROVE SignInv'
  OBVIOUS
<1> USE SignAssumption
<1>0. /\ \A l \in Logins : sign[l] \in Flows /\ sign \in [Logins -> Flows]
      /\ redirects \subseteq Logins
  BY DEF SignInv, SignTypeOK
<1>1. ASSUME NEW l \in Logins, SignBegins(l) PROVE SignInv'
  <2>1. PICK p \in {"binding", "prompt", "usercode"} : sign' = [sign EXCEPT ![l].pc = p]
    BY <1>1 DEF SignBegins
  <2>2. sign' = [sign EXCEPT ![l] = [sign[l] EXCEPT !.pc = p]] /\ [sign[l] EXCEPT !.pc = p] \in Flows
    BY <1>0, <2>1 DEF Flows
  <2>3. \A f \in Families : port[f] # l
    BY <1>1 DEF SignBegins, SignInv, ListenersOpen
  <2> QED BY <1>0, <1>1, <2>2, <2>3, LoginStepInv DEF SignBegins, Flows
<1>2. ASSUME NEW l \in Logins, BindEnds(l) PROVE SignInv'
  <2>1. sign' = [sign EXCEPT ![l] = sign'[l]] /\ sign'[l] \in Flows /\ redirects' \subseteq Logins
    BY <1>0, <1>2 DEF BindEnds, BindGivesUp, Flows
  <2>2. CASE PortUseless(l)
    BY <1>0, <1>2, <2>1, <2>2, LoginStepInv DEF BindEnds, BindGivesUp, Flows
  <2>3. CASE ~PortUseless(l)
    BY <1>0, <1>2, <2>1, <2>3, LoginStepInv DEF BindEnds, PortUseless, Flows
  <2> QED BY <2>2, <2>3
<1>3. ASSUME NEW l \in Logins, WaitEnds(l) PROVE SignInv'
  <2>1. sign[l].captured = l
    BY <1>3 DEF WaitEnds, SignInv, CodesOwned
  <2>2. sign' = [sign EXCEPT ![l] = [sign[l] EXCEPT !.pc = "exchange", !.bound = {}, !.code = l]]
    BY <1>0, <1>3, <2>1 DEF WaitEnds, Flows
  <2> QED BY <1>0, <1>3, <2>2, ClosingInv DEF WaitEnds
<1>4. ASSUME NEW l \in Logins, WaitPolls(l) PROVE SignInv'
  <2>1. PICK p \in {"waiting", "prompt"}, n \in Nat : sign' = [sign EXCEPT ![l] = [sign[l] EXCEPT !.pc = p, !.polls = n]]
    <3>1. CASE sign[l].polls + 1 = MaxWaitPolls
      <4>1. sign' = [sign EXCEPT ![l] = [sign[l] EXCEPT !.pc = "prompt", !.polls = sign[l].polls]]
        BY <1>0, <1>4, <3>1 DEF WaitPolls, Flows
      <4>2. sign[l].polls \in Nat
        BY <1>0 DEF Flows
      <4> QED BY <4>1, <4>2
    <3>2. CASE sign[l].polls + 1 # MaxWaitPolls
      <4>1. sign' = [sign EXCEPT ![l] = [sign[l] EXCEPT !.pc = "waiting", !.polls = sign[l].polls + 1]]
        BY <1>0, <1>4, <3>2 DEF WaitPolls, Flows
      <4>2. sign[l].polls + 1 \in Nat
        BY <1>0 DEF Flows
      <4> QED BY <4>1, <4>2
    <3> QED BY <3>1, <3>2
  <2>2. [sign[l] EXCEPT !.pc = p, !.polls = n] \in Flows
    BY <1>0, <2>1 DEF Flows
  <2>3. sign[l].bound \cup sign[l].failed = Families /\ sign[l].bound # {} /\ ~sign[l].inUse
    BY <1>4 DEF WaitPolls, SignInv, WaitersSettled
  <2> QED BY <1>0, <1>4, <2>1, <2>2, <2>3, LoginStepInv DEF WaitPolls, Flows
<1>5. ASSUME NEW l \in Logins, NEW m \in Logins, PastesCode(l, m) PROVE SignInv'
  <2>1. CASE m = l
    <3>1. sign' = [sign EXCEPT ![l] = [sign[l] EXCEPT !.pc = "exchange", !.bound = {}, !.code = l]]
      BY <1>0, <1>5, <2>1 DEF PastesCode, Classified, Flows
    <3> QED BY <1>0, <1>5, <3>1, ClosingInv DEF PastesCode
  <2>2. CASE m # l
    <3>1. sign' = [sign EXCEPT ![l] = [sign[l] EXCEPT !.pc = "failed", !.bound = {}, !.code = sign[l].code]]
      BY <1>0, <1>5, <2>2 DEF PastesCode, Classified, Flows
    <3>2. sign[l].code \in Logins \cup {NoCode}
      BY <1>0 DEF Flows
    <3> QED BY <1>5, <3>1, <3>2, ClosingInv DEF PastesCode
  <2> QED BY <2>1, <2>2
<1>6. ASSUME NEW l \in Logins, PastesNothing(l) PROVE SignInv'
  <2>1. PICK p \in {"failed", "cancelled"} : sign' = [sign EXCEPT ![l].pc = p, ![l].bound = {}]
    BY <1>6 DEF PastesNothing
  <2>2. sign' = [sign EXCEPT ![l] = [sign[l] EXCEPT !.pc = p, !.bound = {}, !.code = sign[l].code]]
    BY <1>0, <2>1 DEF Flows
  <2>3. sign[l].code \in Logins \cup {NoCode} /\ port' = Closed(l) /\ UNCHANGED redirects
    BY <1>0, <1>6 DEF Flows, PastesNothing
  <2> QED BY <2>2, <2>3, ClosingInv
<1>7. ASSUME NEW l \in Logins, UserCodeAnswers(l) \/ DevicePending(l) \/ DeviceAnswers(l) PROVE SignInv'
  <2>1. sign' = [sign EXCEPT ![l] = sign'[l]] /\ sign'[l] \in Flows
    BY <1>0, <1>7 DEF UserCodeAnswers, DevicePending, DeviceAnswers, Flows
  <2>2. \A f \in Families : port[f] # l
    BY <1>7 DEF UserCodeAnswers, DevicePending, DeviceAnswers, SignInv, ListenersOpen
  <2> QED BY <1>0, <1>7, <2>1, <2>2, LoginStepInv DEF UserCodeAnswers, DevicePending, DeviceAnswers, Flows
<1>8. ASSUME NEW l \in Logins, Exchanges(l) PROVE SignInv'
  <2>1. PICK p \in {"signedIn", "failed"} : sign' = [sign EXCEPT ![l].pc = p]
    BY <1>8 DEF Exchanges
  <2>2. sign' = [sign EXCEPT ![l] = [sign[l] EXCEPT !.pc = p]] /\ [sign[l] EXCEPT !.pc = p] \in Flows
    BY <1>0, <2>1 DEF Flows
  <2>3. sign[l].code = l /\ \A f \in Families : port[f] # l
    BY <1>8 DEF Exchanges, SignInv, ListenersOpen, CodesOwned
  <2> QED BY <1>0, <1>8, <2>2, <2>3, LoginStepInv DEF Exchanges, Flows
<1>9. ASSUME NEW f \in Families, ForeignLeaves(f) PROVE SignInv'
  <2>1. \A g \in Families : port'[g] = port[g] \/ (port[g] = Foreign /\ port'[g] = Free)
    BY <1>9 DEF ForeignLeaves, SignInv, SignTypeOK
  <2>2. SignTypeOK' /\ UNCHANGED <<sign, redirects>>
    BY <1>9 DEF ForeignLeaves, SignInv, SignTypeOK
  <2>3. \A l \in Logins : sign[l].bound \subseteq Families /\ sign[l].failed \subseteq Families
    BY <1>0 DEF Flows
  <2> QED BY <2>1, <2>2, <2>3 DEF SignInv, CodesOwned, ListenersOpen, BindingsKnown, WaitersSettled
<1>10. CASE UNCHANGED signVars
  BY <1>10 DEF signVars, SignInv, SignTypeOK, CodesOwned, ListenersOpen, BindingsKnown, WaitersSettled
<1> QED BY <1>1, <1>2, <1>3, <1>4, <1>5, <1>6, <1>7, <1>8, <1>9, <1>10, BindSettlesInv, RedirectInv
        DEF SignNext, OwnStep

\* Two waiting logins would each have to hold a family that the other one found free
\* of holders.
LEMMA OneWaits == SignInv => OneListener
<1> SUFFICES ASSUME SignInv, NEW l \in Logins, NEW m \in Logins, l # m,
                    sign[l].pc = "waiting", sign[m].pc = "waiting"
             PROVE  FALSE
  BY DEF OneListener
<1>1. PICK f \in sign[l].bound : TRUE
  BY DEF SignInv, WaitersSettled
<1>2. port[f] = l /\ f \in Families
  BY <1>1 DEF SignInv, BindingsKnown, SignTypeOK, Flows
<1>3. f \in sign[m].bound \cup sign[m].failed /\ ~sign[m].inUse
  BY <1>2 DEF SignInv, WaitersSettled
<1> QED BY <1>2, <1>3, SignAssumption DEF SignInv, BindingsKnown

\* Any number of concurrent sign-ins stay apart: each exchanges a code issued for its
\* own state, a login that is over or was turned away holds no listener, and at most
\* one waits for a redirect (lib/auth/server.ts, login-flow.ts).
THEOREM SignInsStayApart == SignSpec => []SignInsApart
<1>1. SignInv => SignInsApart
  BY OneWaits DEF SignInv, SignInsApart, OwnCodeOnly, PortReleased, CodesOwned, ListenersOpen
<1> QED BY <1>1, SignInitInv, SignNextInv, PTL DEF SignSpec

-----------------------------------------------------------------------------
(* Budgets and the usage ledger. *)

CallRecords ==
  [pc : {"new", "load", "loaded", "count", "current", "serving", "over"},
   loads : Nat, before : Nat, limit : Nat, sinceLimit : Nat,
   seen : SUBSET Calls, follows : BOOLEAN, due : SUBSET Calls, blind : BOOLEAN, missed : SUBSET Calls,
   usage : {"none", "intime"},
   row : {"none", "deferred", "queued", "appending", "written", "lost"},
   tokens : BOOLEAN, gaveUp : BOOLEAN, spliced : BOOLEAN]

Filed == ledger.current \cup UNION ledger.archived
Ledgers == [current : SUBSET Calls, archived : SUBSET SUBSET Calls]

UsageTypeOK ==
  /\ limits \in Nat /\ print \in Nat /\ print <= limits
  /\ ledger \in Ledgers
  /\ calls \in [Calls -> CallRecords]

\* The cached limits are at least as new as the fingerprint they are kept under.
CacheCurrent ==
  cache # NoLimits => cache \in [version : Nat, print : Nat] /\ cache.version >= cache.print

\* What a request has loaded is not older than the fingerprint it took before, nor
\* than the limits in force at its arrival; a file that could not be read asks for
\* nothing.
LoadCurrent(v) ==
  /\ v.pc \in {"load", "loaded"} => v.sinceLimit <= limits /\ v.before <= limits
  /\ v.pc = "loaded" => v.limit >= v.sinceLimit /\ (v.limit >= v.before \/ v.limit = 0)
  /\ v.pc = "count" => v.limit >= v.sinceLimit

\* Until it is over a request has no row; its counts come before the row is queued,
\* or the row has been given up on.
RowTimed(v) ==
  /\ v.pc \in {"new", "load", "loaded", "count", "current"} => v.usage = "none"
  /\ v.pc # "over" => v.row = "none"
  /\ v.row = "deferred" => v.usage = "none"
  /\ v.row \notin {"none", "deferred"} => \/ v.usage = "none" /\ v.gaveUp = TRUE
                                          \/ v.usage = "intime" /\ v.tokens = TRUE

\* Between the listing of the ledger and the reading of its current file, the rows
\* that are due stand in what was read or in the file still to be read, unless the
\* request has lost a file.
Seeing(v) ==
  v.pc = "current" =>
    /\ \A d \in v.due : calls[d].row = "written" /\ calls[d].spliced = FALSE
    /\ v.blind = FALSE => \A d \in v.due : d \in v.seen \/ (v.follows = TRUE /\ d \in ledger.current)

\* A row that was written is in the ledger's files, current or archived, and no
\* admission overlooked one.
RowsKept ==
  \A c \in Calls : calls[c].missed = {} /\ (calls[c].row = "written" => c \in Filed)

UsageInv ==
  /\ UsageTypeOK /\ CacheCurrent /\ RowsKept
  /\ \A c \in Calls : LoadCurrent(calls[c]) /\ RowTimed(calls[c]) /\ Seeing(calls[c])

LEMMA UsageInitInv == UsageInit => UsageInv
BY DEF UsageInit, NewCall, UsageInv, UsageTypeOK, CallRecords, CacheCurrent, LoadCurrent, RowTimed, RowsKept, Seeing, Ledgers

\* A step of one request, with what its new record must satisfy.
LEMMA CallStepInv ==
  ASSUME UsageInv, NEW c \in Calls, NEW v \in CallRecords, calls' = [calls EXCEPT ![c] = v],
         UNCHANGED <<limits, print>>, CacheCurrent', calls[c].row # "written",
         ledger' \in Ledgers, Filed \subseteq Filed', ledger.current \subseteq ledger'.current,
         LoadCurrent(v), RowTimed(v), v.missed = {}, v.row = "written" => c \in Filed',
         v.pc = "current" => Seeing(v)'
  PROVE  UsageInv'
<1>1. UsageTypeOK'
  BY DEF UsageInv, UsageTypeOK
<1>2. calls'[c] = v /\ \A d \in Calls : d # c => calls'[d] = calls[d]
  BY DEF UsageInv, UsageTypeOK
<1>3. RowsKept'
  BY <1>2 DEF UsageInv, RowsKept
<1>4. \A d \in Calls : LoadCurrent(calls'[d]) /\ RowTimed(calls'[d])
  BY <1>2 DEF UsageInv
<1>5. \A d \in Calls : LoadCurrent(calls[d])' /\ RowTimed(calls[d])'
  BY <1>4 DEF LoadCurrent, RowTimed
<1>6. ASSUME NEW d \in Calls PROVE Seeing(calls[d])'
  <2>1. CASE d = c
    BY <1>2, <2>1 DEF Seeing
  <2>2. CASE d # c
    <3>1. Seeing(calls[d]) /\ calls'[d] = calls[d] /\ calls[d].due \subseteq Calls
      BY <1>2, <2>2 DEF UsageInv, UsageTypeOK, CallRecords
    <3>2. ASSUME NEW e \in calls[d].due, calls[d].pc = "current"
          PROVE  calls'[e].row = "written" /\ calls'[e].spliced = FALSE
      BY <1>2, <3>1, <3>2 DEF Seeing
    <3> QED BY <3>1, <3>2 DEF Seeing
  <2> QED BY <2>1, <2>2
<1> QED BY <1>1, <1>3, <1>5, <1>6 DEF UsageInv

\* The common case: neither limits, cache nor ledger change.
LEMMA LocalStepInv ==
  ASSUME UsageInv, NEW c \in Calls, calls' = [calls EXCEPT ![c] = calls'[c]], calls'[c] \in CallRecords,
         UNCHANGED <<limits, print, cache, ledger>>,
         LoadCurrent(calls'[c]), RowTimed(calls'[c]), calls'[c].missed = {},
         calls[c].row # "written", calls'[c].row # "written", calls'[c].pc # "current"
  PROVE  UsageInv'
<1>1. CacheCurrent' /\ Filed' = Filed /\ ledger' \in Ledgers
  BY DEF UsageInv, UsageTypeOK, CacheCurrent, Filed
<1> HIDE DEF Filed
<1> QED BY <1>1, CallStepInv

\* The record that a decision leaves.
LEMMA CountedRecord ==
  ASSUME NEW v \in CallRecords, NEW p \in {"serving", "over"}, NEW row \in {"none", "queued"},
         NEW g \in BOOLEAN
  PROVE  [v EXCEPT !.pc = p, !.row = row, !.gaveUp = g, !.missed = {},
                   !.limit = 0, !.seen = {}, !.follows = FALSE, !.due = {}, !.blind = FALSE] \in CallRecords
BY DEF CallRecords

LEMMA UsageNextInv == UsageInv /\ [UsageNext]_usageVars => UsageInv'
<1> SUFFICES ASSUME UsageInv, [UsageNext]_usageVars PROVE UsageInv'
  OBVIOUS
<1> USE UsageAssumption
<1>0. /\ limits \in Nat /\ print \in Nat /\ print <= limits /\ calls \in [Calls -> CallRecords]
      /\ \A c \in Calls : /\ calls[c] \in CallRecords /\ calls[c].missed = {}
                          /\ LoadCurrent(calls[c]) /\ RowTimed(calls[c])
  BY DEF UsageInv, UsageTypeOK, RowsKept
<1>1. ASSUME NEW c \in Calls, CallBegins(c) PROVE UsageInv'
  <2>1. cache # NoLimits => cache.version \in Nat /\ cache.version >= cache.print
    BY DEF UsageInv, CacheCurrent
  <2>2. PICK p \in {"load", "count"}, n \in Nat, k \in Nat :
          /\ calls' = [calls EXCEPT ![c] = [@ EXCEPT !.pc = p, !.limit = n, !.before = print, !.sinceLimit = k]]
          /\ p = "count" => n >= k
          /\ k <= limits
    <3>1. calls[c].limit \in Nat
      BY <1>0 DEF CallRecords
    <3>2. PICK trusted \in BOOLEAN :
            LET hit == trusted /\ cache # NoLimits /\ cache.print = print
            IN calls' = [calls EXCEPT ![c] = [@ EXCEPT !.pc = IF hit THEN "count" ELSE "load",
                                                !.limit = IF hit THEN cache.version ELSE calls[c].limit,
                                                !.before = print,
                                                !.sinceLimit = IF hit THEN print ELSE limits]]
      BY <1>1 DEF CallBegins
    <3>3. CASE trusted /\ cache # NoLimits /\ cache.print = print
      <4>1. calls' = [calls EXCEPT ![c] = [@ EXCEPT !.pc = "count", !.limit = cache.version,
                                                   !.before = print, !.sinceLimit = print]]
        BY <3>2, <3>3
      <4> QED BY <1>0, <2>1, <3>3, <4>1
    <3>4. CASE ~(trusted /\ cache # NoLimits /\ cache.print = print)
      <4>1. calls' = [calls EXCEPT ![c] = [@ EXCEPT !.pc = "load", !.limit = calls[c].limit,
                                                   !.before = print, !.sinceLimit = limits]]
        BY <3>2, <3>4
      <4>2. "load" \in {"load", "count"} /\ limits \in Nat /\ limits <= limits
        BY <1>0
      <4> QED BY <3>1, <4>1, <4>2
    <3> QED BY <3>3, <3>4
  <2>3. /\ calls' = [calls EXCEPT ![c] = calls'[c]]
        /\ calls'[c] = [calls[c] EXCEPT !.pc = p, !.limit = n, !.before = print, !.sinceLimit = k]
    BY <1>0, <2>2
  <2>4. /\ calls[c].pc = "new" /\ calls'[c].usage = calls[c].usage /\ calls'[c].row = calls[c].row
        /\ calls'[c].missed = calls[c].missed /\ calls'[c].pc = p /\ calls'[c].limit = n
        /\ calls'[c].before = print /\ calls'[c].sinceLimit = k
        /\ UNCHANGED <<limits, print, cache, ledger>> /\ calls'[c] \in CallRecords
    <3>1. calls[c].pc = "new" /\ UNCHANGED <<limits, print, cache, ledger>>
      BY <1>1 DEF CallBegins
    <3>2. calls'[c] \in CallRecords
      BY <1>0, <2>3 DEF CallRecords
    <3> QED BY <1>0, <2>3, <3>1, <3>2 DEF CallRecords
  <2>5. LoadCurrent(calls'[c]) /\ RowTimed(calls'[c]) /\ calls'[c].missed = {}
        /\ calls[c].row # "written" /\ calls'[c].row # "written"
    BY <1>0, <2>2, <2>4 DEF LoadCurrent, RowTimed
  <2> QED BY <2>2, <2>3, <2>4, <2>5, LocalStepInv
<1>2. ASSUME NEW c \in Calls, LimitLoads(c) PROVE UsageInv'
  <2>0. PICK n \in Nat, k \in Nat :
          /\ calls' = [calls EXCEPT ![c].pc = "loaded", ![c].limit = n, ![c].sinceLimit = k]
          /\ (n = limits /\ k = calls[c].sinceLimit) \/ (n = 0 /\ k = 0)
    <3>1. calls[c].sinceLimit \in Nat
      BY <1>0 DEF CallRecords
    <3> QED BY <1>0, <1>2, <3>1 DEF LimitLoads
  <2>1. /\ calls' = [calls EXCEPT ![c] = calls'[c]] /\ UNCHANGED <<limits, print, cache, ledger>>
        /\ calls'[c] = [calls[c] EXCEPT !.pc = "loaded", !.limit = n, !.sinceLimit = k]
    BY <1>0, <1>2, <2>0 DEF LimitLoads
  <2>2. /\ calls[c].pc = "load" /\ calls'[c].pc = "loaded" /\ calls'[c].usage = calls[c].usage
        /\ calls'[c].row = calls[c].row /\ calls'[c].missed = calls[c].missed
        /\ calls'[c].before = calls[c].before /\ calls'[c].limit = n /\ calls'[c].sinceLimit = k
        /\ calls'[c] \in CallRecords
    BY <1>0, <1>2, <2>1 DEF LimitLoads, CallRecords
  <2>3. LoadCurrent(calls'[c]) /\ RowTimed(calls'[c]) /\ calls'[c].missed = {}
        /\ calls[c].row # "written" /\ calls'[c].row # "written" /\ calls'[c].pc # "current"
    BY <1>0, <2>0, <2>2 DEF LoadCurrent, RowTimed, CallRecords
  <2> QED BY <2>1, <2>2, <2>3, LocalStepInv
<1>3. ASSUME NEW c \in Calls, LoadChecks(c) PROVE UsageInv'
  <2>1. calls' = [calls EXCEPT ![c] = calls'[c]] /\ UNCHANGED <<limits, print, ledger>>
        /\ calls'[c] \in CallRecords
    BY <1>0, <1>3 DEF LoadChecks, CallRecords
  <2>2. /\ calls[c].pc = "loaded" /\ calls'[c].usage = calls[c].usage
        /\ calls'[c].row = calls[c].row /\ calls'[c].missed = calls[c].missed
        /\ calls'[c].limit = calls[c].limit /\ calls'[c].sinceLimit = calls[c].sinceLimit
        /\ \/ calls'[c].pc = "load" /\ calls'[c].before = print
           \/ calls'[c].pc = "count" /\ calls'[c].before = calls[c].before
    BY <1>0, <1>3 DEF LoadChecks, CallRecords
  <2>3. calls[c].limit \in Nat /\ calls[c].sinceLimit \in Nat /\ calls[c].before \in Nat
    BY <1>0 DEF CallRecords
  <2>4. LoadCurrent(calls'[c]) /\ RowTimed(calls'[c]) /\ calls'[c].missed = {}
        /\ calls[c].row # "written" /\ calls'[c].row # "written" /\ calls'[c].pc # "current"
    BY <1>0, <2>2, <2>3 DEF LoadCurrent, RowTimed
  <2>5. CacheCurrent'
    <3>1. CASE UNCHANGED cache BY <3>1 DEF UsageInv, CacheCurrent
    <3>2. CASE cache' # cache
      <4>1. /\ cache' = [version |-> calls[c].limit, print |-> print]
            /\ calls[c].before = print /\ LimitOf[calls[c].limit] # 0
        BY <1>3, <3>2 DEF LoadChecks, Stable
      <4>2. calls[c].limit # 0
        BY <4>1
      <4>3. calls[c].limit >= print
        BY <1>0, <2>2, <4>1, <4>2 DEF LoadCurrent
      <4> QED BY <1>0, <2>3, <4>1, <4>3 DEF CacheCurrent
    <3> QED BY <3>1, <3>2
  <2>6. Filed' = Filed /\ ledger' \in Ledgers
    BY <2>1 DEF Filed, UsageInv, UsageTypeOK
  <2> HIDE DEF Filed
  <2> QED BY <2>1, <2>4, <2>5, <2>6, CallStepInv
<1>4. ASSUME NEW c \in Calls, PolicyFails(c) PROVE UsageInv'
  <2>1. calls' = [calls EXCEPT ![c] = calls'[c]] /\ UNCHANGED <<limits, print, cache, ledger>>
        /\ calls'[c] \in CallRecords
    BY <1>0, <1>4 DEF PolicyFails, NewCall, CallRecords
  <2>2. LoadCurrent(calls'[c]) /\ RowTimed(calls'[c]) /\ calls'[c].missed = {}
        /\ calls[c].row # "written" /\ calls'[c].row # "written" /\ calls'[c].pc # "current"
    BY <1>0, <1>4 DEF PolicyFails, NewCall, LoadCurrent, RowTimed
  <2> QED BY <2>1, <2>2, LocalStepInv
<1>5. ASSUME NEW c \in Calls, CountsRows(c) PROVE UsageInv'
  <2>0. PICK readable \in BOOLEAN :
          LET v    == calls[c]
              rows == Parsed(v.seen \cup (IF v.follows /\ readable THEN ledger.current ELSE {}))
          IN calls' = [calls EXCEPT ![c] =
               [@ EXCEPT !.pc = IF Allowed(c, rows) THEN "serving" ELSE "over",
                         !.row = IF Allowed(c, rows) THEN "none" ELSE "queued",
                         !.gaveUp = ~Allowed(c, rows),
                         !.missed = IF v.blind \/ ~readable THEN {} ELSE v.due \ rows,
                         !.limit = 0, !.seen = {}, !.follows = FALSE, !.due = {}, !.blind = FALSE]]
    BY <1>5 DEF CountsRows
  <2> DEFINE rows == Parsed(calls[c].seen \cup (IF calls[c].follows /\ readable THEN ledger.current ELSE {}))
             missed == IF calls[c].blind \/ ~readable THEN {} ELSE calls[c].due \ rows
  <2>1. missed = {}
    <3>1. CASE calls[c].blind \/ ~readable
      BY <3>1
    <3>2. CASE ~(calls[c].blind \/ ~readable)
      <4>1. calls[c].pc = "current" /\ calls[c].blind = FALSE /\ readable = TRUE
        BY <1>0, <1>5, <3>2 DEF CountsRows, CallRecords
      <4>2. ASSUME NEW d \in calls[c].due PROVE d \in rows
        <5>1. /\ calls[d].spliced = FALSE
              /\ d \in calls[c].seen \/ (calls[c].follows = TRUE /\ d \in ledger.current)
          BY <4>1, <4>2 DEF UsageInv, Seeing
        <5> QED BY <4>1, <5>1 DEF Parsed
      <4> QED BY <3>2, <4>2
    <3> QED BY <3>1, <3>2
  <2>2. PICK p \in {"serving", "over"}, row \in {"none", "queued"}, g \in BOOLEAN :
          /\ calls' = [calls EXCEPT ![c] =
               [@ EXCEPT !.pc = p, !.row = row, !.gaveUp = g, !.missed = {},
                         !.limit = 0, !.seen = {}, !.follows = FALSE, !.due = {}, !.blind = FALSE]]
          /\ (p = "serving" /\ row = "none") \/ (p = "over" /\ row = "queued" /\ g = TRUE)
    <3>0. calls' = [calls EXCEPT ![c] =
               [@ EXCEPT !.pc = IF Allowed(c, rows) THEN "serving" ELSE "over",
                         !.row = IF Allowed(c, rows) THEN "none" ELSE "queued",
                         !.gaveUp = ~Allowed(c, rows), !.missed = missed,
                         !.limit = 0, !.seen = {}, !.follows = FALSE, !.due = {}, !.blind = FALSE]]
      BY <2>0
    <3> HIDE DEF rows, missed
    <3>1. CASE Allowed(c, rows)  BY <2>1, <3>0, <3>1
    <3>2. CASE ~Allowed(c, rows) BY <2>1, <3>0, <3>2
    <3> QED BY <3>1, <3>2
  <2> HIDE DEF rows, missed
  <2>3. /\ calls' = [calls EXCEPT ![c] = calls'[c]] /\ UNCHANGED <<limits, print, cache, ledger>>
        /\ calls'[c] = [calls[c] EXCEPT !.pc = p, !.row = row, !.gaveUp = g, !.missed = {},
                                        !.limit = 0, !.seen = {}, !.follows = FALSE, !.due = {}, !.blind = FALSE]
    BY <1>0, <1>5, <2>2 DEF CountsRows
  <2>4. /\ calls[c].pc = "current" /\ calls'[c].usage = calls[c].usage /\ calls'[c].missed = {}
        /\ calls'[c].pc = p /\ calls'[c].row = row /\ calls'[c].gaveUp = g
        /\ calls'[c] \in CallRecords
    <3>1. calls[c].pc = "current"
      BY <1>5 DEF CountsRows
    <3>2. calls[c] \in CallRecords
      BY <1>0
    <3>3. calls'[c].pc = p /\ calls'[c].row = row /\ calls'[c].gaveUp = g /\ calls'[c].missed = {}
      BY <2>3, <3>2 DEF CallRecords
    <3>4. calls'[c].usage = calls[c].usage
      BY <2>3, <3>2 DEF CallRecords
    <3>5. p \in {"serving", "over"} /\ row \in {"none", "queued"} /\ g \in BOOLEAN
      BY <2>2
    <3>6. calls'[c] \in CallRecords
      <4>1. [calls[c] EXCEPT !.pc = p, !.row = row, !.gaveUp = g, !.missed = {}, !.limit = 0,
                             !.seen = {}, !.follows = FALSE, !.due = {}, !.blind = FALSE] \in CallRecords
        BY <3>2, <3>5, CountedRecord, ZenonT(60)
      <4> QED BY <2>3, <4>1, Zenon
    <3> QED BY <3>1, <3>3, <3>4, <3>6
  <2>5. LoadCurrent(calls'[c]) /\ RowTimed(calls'[c])
        /\ calls[c].row # "written" /\ calls'[c].row # "written" /\ calls'[c].pc # "current"
    BY <1>0, <2>2, <2>4 DEF LoadCurrent, RowTimed
  <2> QED BY <2>3, <2>4, <2>5, LocalStepInv
<1>14. ASSUME NEW c \in Calls, ListsLedger(c) PROVE UsageInv'
  <2>0. PICK read \in SUBSET Archives :
          calls' = [calls EXCEPT ![c] = [@ EXCEPT !.pc = "current", !.seen = UNION read,
                                             !.follows = CurrentExists, !.due = Appended,
                                             !.blind = read # Archives, !.sinceLimit = 0,
                                             !.loads = 0, !.before = 0]]
    BY <1>14 DEF ListsLedger
  <2>1. /\ calls[c].pc = "count" /\ UNCHANGED <<limits, print, cache, ledger>>
        /\ read \subseteq ledger.archived /\ UNION read \subseteq Calls /\ Appended \subseteq Calls
        /\ CurrentExists \in BOOLEAN
    BY <1>14 DEF ListsLedger, Archives, Appended, Parsed, CurrentExists, UsageInv, UsageTypeOK, Ledgers
  <2>2. PICK seen \in SUBSET Calls, due \in SUBSET Calls, follows \in BOOLEAN, blind \in BOOLEAN :
          seen = UNION read /\ due = Appended /\ follows = CurrentExists /\ blind = (read # Archives)
    BY <2>1
  <2>3. PICK v : v = [calls[c] EXCEPT !.pc = "current", !.seen = seen, !.follows = follows, !.due = due,
                                      !.blind = blind, !.sinceLimit = 0, !.loads = 0, !.before = 0]
    OBVIOUS
  <2>4. calls' = [calls EXCEPT ![c] = v]
    BY <1>0, <2>0, <2>2, <2>3
  <2>5. /\ v \in CallRecords /\ v.pc = "current"
        /\ v.seen = seen /\ v.follows = follows /\ v.due = due /\ v.blind = blind
        /\ v.missed = calls[c].missed /\ v.usage = calls[c].usage /\ v.row = calls[c].row
    <3>1. calls[c] \in CallRecords
      BY <1>0
    <3> QED BY <2>3, <3>1 DEF CallRecords
  <2>6. ASSUME NEW d \in due
        PROVE  /\ calls[d].row = "written" /\ calls[d].spliced = FALSE /\ d \in Calls
               /\ calls'[d] = calls[d]
    <3>1. calls[d].row = "written" /\ calls[d].spliced = FALSE /\ d \in Calls
      BY <1>0, <2>2, <2>6 DEF Appended, Parsed, CallRecords
    <3>2. d # c
      BY <1>0, <2>1, <3>1 DEF RowTimed
    <3> QED BY <1>0, <2>4, <3>1, <3>2
  <2>7. blind = FALSE => \A d \in due : d \in seen \/ (follows = TRUE /\ d \in ledger.current)
    <3> SUFFICES ASSUME blind = FALSE, NEW d \in due PROVE d \in seen \/ (follows = TRUE /\ d \in ledger.current)
      OBVIOUS
    <3>1. read = ledger.archived /\ d \in Filed
      BY <2>2, <2>6 DEF Archives, UsageInv, RowsKept
    <3>2. d \in ledger.current => CurrentExists
      BY DEF CurrentExists
    <3> QED BY <2>2, <3>1, <3>2 DEF Filed
  <2>8. LoadCurrent(v) /\ RowTimed(v) /\ v.missed = {} /\ calls[c].row # "written" /\ v.row # "written"
    BY <1>0, <2>1, <2>5 DEF LoadCurrent, RowTimed
  <2>9. Seeing(v)'
    BY <2>1, <2>5, <2>6, <2>7 DEF Seeing
  <2>10. CacheCurrent' /\ Filed' = Filed /\ ledger' \in Ledgers /\ ledger' = ledger
    BY <2>1 DEF UsageInv, UsageTypeOK, CacheCurrent, Filed
  <2> HIDE DEF Filed
  <2> QED BY <2>1, <2>4, <2>5, <2>8, <2>9, <2>10, CallStepInv
<1>6. ASSUME NEW c \in Calls, UsageArrives(c) PROVE UsageInv'
  <2>1. PICK row \in {"none", "queued", "appending", "written", "lost"}, t \in BOOLEAN :
          /\ calls' = [calls EXCEPT ![c].usage = "intime", ![c].row = row, ![c].tokens = t]
          /\ (calls[c].row = "deferred" /\ row = "queued" /\ t = TRUE) \/ row = calls[c].row
    <3>1. calls[c].tokens \in BOOLEAN /\ calls[c].row \in {"none", "deferred", "queued", "appending", "written", "lost"}
      BY <1>0 DEF CallRecords
    <3>2. CASE calls[c].row = "deferred" BY <1>6, <3>1, <3>2 DEF UsageArrives
    <3>3. CASE calls[c].row # "deferred" BY <1>6, <3>1, <3>3 DEF UsageArrives
    <3> QED BY <3>2, <3>3
  <2>2. /\ calls' = [calls EXCEPT ![c] = calls'[c]] /\ UNCHANGED <<limits, print, cache, ledger>>
        /\ calls'[c] = [calls[c] EXCEPT !.usage = "intime", !.row = row, !.tokens = t]
    BY <1>0, <1>6, <2>1 DEF UsageArrives
  <2>3. /\ calls[c].pc \in {"serving", "over"} /\ calls[c].usage = "none" /\ calls[c].gaveUp # TRUE
        /\ calls'[c].pc = calls[c].pc /\ calls'[c].usage = "intime" /\ calls'[c].missed = calls[c].missed
        /\ calls'[c].row = row /\ calls'[c].tokens = t /\ calls'[c] \in CallRecords
    <3>1. calls[c].pc \in {"serving", "over"} /\ calls[c].usage = "none" /\ calls[c].gaveUp # TRUE
      BY <1>6 DEF UsageArrives
    <3>2. calls'[c] \in CallRecords
      BY <1>0, <2>2 DEF CallRecords
    <3> QED BY <1>0, <2>2, <3>1, <3>2 DEF CallRecords
  <2>4. LoadCurrent(calls'[c]) /\ RowTimed(calls'[c]) /\ calls'[c].missed = {}
        /\ calls[c].row # "written" /\ calls'[c].row # "written" /\ calls'[c].pc # "current"
    BY <1>0, <2>1, <2>3 DEF LoadCurrent, RowTimed
  <2> QED BY <2>2, <2>3, <2>4, LocalStepInv
<1>7. ASSUME NEW c \in Calls, CallCompletes(c) \/ CallFails(c) PROVE UsageInv'
  <2>1. calls' = [calls EXCEPT ![c] = calls'[c]] /\ UNCHANGED <<limits, print, cache, ledger>>
    BY <1>0, <1>7 DEF CallCompletes, CallFails
  <2>2. /\ calls[c].pc = "serving" /\ calls'[c].pc = "over"
        /\ calls'[c].usage = calls[c].usage /\ calls'[c].missed = calls[c].missed
        /\ calls[c].usage = "intime" => calls'[c].tokens = TRUE
        /\ \/ calls'[c].row = "deferred" /\ calls[c].usage = "none"
           \/ calls'[c].row = "queued" /\ (calls[c].usage # "none" \/ calls'[c].gaveUp = TRUE)
    BY <1>0, <1>7 DEF CallCompletes, CallFails, Defers, CallRecords
  <2>3. calls'[c] \in CallRecords
    BY <1>0, <1>7 DEF CallCompletes, CallFails, CallRecords
  <2>4. calls[c].usage \in {"none", "intime"}
    BY <1>0 DEF CallRecords
  <2>5. LoadCurrent(calls'[c]) /\ RowTimed(calls'[c]) /\ calls'[c].missed = {}
        /\ calls[c].row # "written" /\ calls'[c].row # "written" /\ calls'[c].pc # "current"
    BY <1>0, <2>2, <2>4 DEF LoadCurrent, RowTimed
  <2> QED BY <2>1, <2>3, <2>5, LocalStepInv
<1>8. ASSUME NEW c \in Calls, FallbackFires(c) PROVE UsageInv'
  <2>1. calls' = [calls EXCEPT ![c] = calls'[c]] /\ UNCHANGED <<limits, print, cache, ledger>>
        /\ calls'[c] \in CallRecords
    <3>1. calls[c] \in CallRecords
      BY <1>0
    <3>2. calls' = [calls EXCEPT ![c] = [calls[c] EXCEPT !.row = "queued", !.gaveUp = TRUE]]
      BY <1>8 DEF FallbackFires
    <3>3. calls' = [calls EXCEPT ![c] = calls'[c]] /\ calls'[c] = [calls[c] EXCEPT !.row = "queued", !.gaveUp = TRUE]
      BY <1>0, <3>2
    <3>4. calls'[c] \in CallRecords
      BY <3>1, <3>3 DEF CallRecords
    <3> QED BY <1>8, <3>3, <3>4 DEF FallbackFires
  <2>2. /\ calls[c].row = "deferred" /\ calls'[c].row = "queued" /\ calls'[c].gaveUp = TRUE
        /\ calls'[c].pc = calls[c].pc /\ calls'[c].usage = calls[c].usage /\ calls'[c].missed = calls[c].missed
    BY <1>0, <1>8 DEF FallbackFires, CallRecords
  <2>3. calls[c].pc = "over" /\ calls[c].usage = "none"
    BY <1>0, <2>2 DEF RowTimed
  <2>4. LoadCurrent(calls'[c]) /\ RowTimed(calls'[c]) /\ calls'[c].missed = {}
        /\ calls[c].row # "written" /\ calls'[c].row # "written" /\ calls'[c].pc # "current"
    BY <1>0, <2>2, <2>3 DEF LoadCurrent, RowTimed
  <2> QED BY <2>1, <2>4, LocalStepInv
<1>9. ASSUME NEW c \in Calls, AppendLocks(c) \/ AppendFails(c) \/ AppendKilled(c) PROVE UsageInv'
  <2>1. calls' = [calls EXCEPT ![c] = calls'[c]] /\ UNCHANGED <<limits, print, cache, ledger>>
        /\ calls'[c] \in CallRecords
    BY <1>0, <1>9 DEF AppendLocks, AppendFails, AppendKilled, CallRecords
  <2>2. /\ calls[c].row \in {"queued", "appending"} /\ calls'[c].row \in {"appending", "lost"}
        /\ calls'[c].pc = calls[c].pc /\ calls'[c].usage = calls[c].usage /\ calls'[c].missed = calls[c].missed
        /\ calls'[c].gaveUp = calls[c].gaveUp /\ calls'[c].tokens = calls[c].tokens
    BY <1>0, <1>9 DEF AppendLocks, AppendFails, AppendKilled, CallRecords
  <2>3. calls[c].pc = "over"
    BY <1>0, <2>2 DEF RowTimed
  <2>4. LoadCurrent(calls'[c]) /\ RowTimed(calls'[c]) /\ calls'[c].missed = {}
        /\ calls[c].row # "written" /\ calls'[c].row # "written" /\ calls'[c].pc # "current"
    BY <1>0, <2>2, <2>3 DEF LoadCurrent, RowTimed
  <2> QED BY <2>1, <2>4, LocalStepInv
<1>10. ASSUME NEW c \in Calls, Appends(c) PROVE UsageInv'
  <2>1. calls' = [calls EXCEPT ![c] = calls'[c]] /\ UNCHANGED <<limits, print, cache>>
        /\ calls'[c] \in CallRecords
    <3>1. calls[c] \in CallRecords
      BY <1>0
    <3>2. calls' = [calls EXCEPT ![c] = [calls[c] EXCEPT !.row = "written", !.spliced = (tail = "torn")]]
      BY <1>10 DEF Appends
    <3>3. /\ calls' = [calls EXCEPT ![c] = calls'[c]]
          /\ calls'[c] = [calls[c] EXCEPT !.row = "written", !.spliced = (tail = "torn")]
      BY <1>0, <3>2
    <3>4. calls'[c] \in CallRecords
      BY <3>1, <3>3 DEF CallRecords
    <3> QED BY <1>10, <3>3, <3>4 DEF Appends
  <2>2. /\ calls[c].row = "appending" /\ calls'[c].row = "written"
        /\ calls'[c].pc = calls[c].pc /\ calls'[c].usage = calls[c].usage /\ calls'[c].missed = calls[c].missed
        /\ calls'[c].gaveUp = calls[c].gaveUp /\ calls'[c].tokens = calls[c].tokens
    BY <1>0, <1>10 DEF Appends, CallRecords
  <2>3. calls[c].pc = "over"
    BY <1>0, <2>2 DEF RowTimed
  <2>4. LoadCurrent(calls'[c]) /\ RowTimed(calls'[c]) /\ calls'[c].missed = {} /\ calls'[c].pc # "current"
    BY <1>0, <2>2, <2>3 DEF LoadCurrent, RowTimed
  <2>5. /\ ledger' \in Ledgers /\ ledger.current \subseteq ledger'.current
        /\ Filed' = Filed \cup {c}
    BY <1>10 DEF Appends, Filed, UsageInv, UsageTypeOK, Ledgers
  <2>6. CacheCurrent'
    BY <2>1 DEF UsageInv, CacheCurrent
  <2> HIDE DEF Filed
  <2> QED BY <2>1, <2>2, <2>4, <2>5, <2>6, CallStepInv
<1>11. CASE LimitSet
  <2>1. /\ limits' = limits + 1 /\ UNCHANGED <<cache, ledger, calls>>
        /\ print' \in Nat /\ print' <= limits'
    BY <1>0, <1>11 DEF LimitSet
  <2>2. \A c \in Calls : LoadCurrent(calls[c])' /\ RowTimed(calls[c])'
    BY <1>0, <2>1 DEF LoadCurrent, RowTimed, CallRecords
  <2> QED BY <1>0, <2>1, <2>2 DEF UsageInv, UsageTypeOK, CacheCurrent, RowsKept, Filed, Seeing
<1>12. CASE Rotates
  <2>1. /\ UNCHANGED <<limits, print, cache>>
        /\ ledger' = [current |-> {}, archived |-> ledger.archived \cup {ledger.current}]
        /\ calls' = [c \in Calls |-> [calls[c] EXCEPT !.blind = @ \/ calls[c].follows]]
    BY <1>12 DEF Rotates
  <2>2. Filed' = Filed /\ ledger' \in Ledgers
    BY <2>1 DEF Filed, UsageInv, UsageTypeOK, Ledgers
  <2>3. ASSUME NEW c \in Calls
        PROVE  /\ calls'[c] \in CallRecords
               /\ calls'[c].blind = FALSE => calls[c].blind = FALSE /\ calls[c].follows = FALSE
               /\ calls'[c].pc = calls[c].pc /\ calls'[c].before = calls[c].before
               /\ calls'[c].limit = calls[c].limit /\ calls'[c].sinceLimit = calls[c].sinceLimit
               /\ calls'[c].seen = calls[c].seen /\ calls'[c].due = calls[c].due
               /\ calls'[c].missed = calls[c].missed /\ calls'[c].usage = calls[c].usage
               /\ calls'[c].row = calls[c].row /\ calls'[c].tokens = calls[c].tokens
               /\ calls'[c].gaveUp = calls[c].gaveUp /\ calls'[c].spliced = calls[c].spliced
    <3> DEFINE b == calls[c].blind \/ calls[c].follows
    <3>1. calls'[c] = [calls[c] EXCEPT !.blind = b]
      BY <2>1
    <3>2. b \in BOOLEAN /\ (b = FALSE => calls[c].blind = FALSE /\ calls[c].follows = FALSE)
      BY <1>0 DEF CallRecords
    <3> HIDE DEF b
    <3> QED BY <1>0, <3>1, <3>2 DEF CallRecords
  <2>4. calls' \in [Calls -> CallRecords]
    BY <2>1, <2>3
  <2>5. ASSUME NEW c \in Calls
        PROVE  LoadCurrent(calls[c])' /\ RowTimed(calls[c])' /\ Seeing(calls[c])'
    <3>1. LoadCurrent(calls[c])' /\ RowTimed(calls[c])'
      <4>1. LoadCurrent(calls[c]) /\ RowTimed(calls[c])
        BY <1>0
      <4>2. LoadCurrent(calls[c])'
        BY <2>1, <2>3, <4>1 DEF LoadCurrent
      <4>3. RowTimed(calls[c])'
        BY <2>3, <4>1 DEF RowTimed
      <4> QED BY <4>2, <4>3
    <3>2. Seeing(calls[c]) /\ calls[c].due \subseteq Calls
      BY <1>0, <1>12 DEF UsageInv, CallRecords
    <3>3. ASSUME NEW d \in calls[c].due, calls[c].pc = "current"
          PROVE  calls'[d].row = "written" /\ calls'[d].spliced = FALSE
      <4>1. calls[d].row = "written" /\ calls[d].spliced = FALSE /\ d \in Calls
        BY <3>2, <3>3 DEF Seeing
      <4> QED BY <2>3, <4>1
    <3>4. Seeing(calls[c])'
      BY <2>3, <3>2, <3>3 DEF Seeing
    <3> QED BY <3>1, <3>4
  <2>6. CacheCurrent' /\ UsageTypeOK'
    BY <1>0, <2>1, <2>2, <2>4 DEF UsageInv, UsageTypeOK, CacheCurrent
  <2>7. RowsKept'
    BY <2>2, <2>3 DEF UsageInv, RowsKept
  <2> QED BY <2>5, <2>6, <2>7 DEF UsageInv
<1>13. CASE LockGoesStale \/ UNCHANGED usageVars
  <2>1. UNCHANGED <<limits, print, cache, calls, ledger>>
    BY <1>13 DEF LockGoesStale, usageVars
  <2> QED BY <1>0, <2>1 DEF UsageInv, UsageTypeOK, CacheCurrent, RowsKept, LoadCurrent, RowTimed, Filed, Seeing
<1> QED BY <1>1, <1>2, <1>3, <1>4, <1>5, <1>6, <1>7, <1>8, <1>9, <1>10, <1>11, <1>12, <1>13, <1>14
        DEF UsageNext, CallStep

\* For any number of requests, limits files and faults: an admission counts every
\* parseable row appended before it listed the ledger, unless a file could not be read
\* or was rotated away under the reading; it goes by the limit in force when the
\* request began or a newer one, or by a cached one that the file's fingerprint does
\* not tell from it; and counts reported in time are in the row (lib/usage/ledger.ts,
\* lib/policy/runtime-policy.ts, runtime-policy-cache.ts).
THEOREM BudgetsKept == UsageSpec => []BudgetKept
<1>1. UsageInv => BudgetKept
  BY DEF UsageInv, RowsKept, LoadCurrent, RowTimed, BudgetKept, RowsAreCounted, LimitIsCurrent, UsageNotDropped
<1> QED BY <1>1, UsageInitInv, UsageNextInv, PTL DEF UsageSpec

=============================================================================

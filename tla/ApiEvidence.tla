----------------------------- MODULE ApiEvidence -----------------------------
(***************************************************************************)
(* The stored API credentials and the paid evidence about what their keys  *)
(* can do (lib/api-route-store.ts, lib/runtime/persisted-api-              *)
(* capabilities.ts, api-model-capabilities.ts, the menu in                 *)
(* lib/codex-manager/api-login-menu.ts and the wipe in                     *)
(* lib/storage/credential-sidecars.ts).                                    *)
(*                                                                         *)
(* One credential is stored at a time.  Its policy may be edited, which    *)
(* starts a new lifetime; discovery may add models to it; a wipe removes   *)
(* it and, in a second step, the evidence.  Checkers are processes that    *)
(* probe one of its models, share the result through a file, and keep it   *)
(* in memory when the file cannot be written.                              *)
(***************************************************************************)
EXTENDS Integers, FiniteSets, Sequences, SequencesExt

CONSTANTS Checkers,       \* processes that check capabilities: numbers
          ApiModels,      \* models of the credential
          Probed,         \* the model that is checked
          MaxLives,       \* lifetimes of credentials
          MaxApiChecks,   \* checks and discoveries
          MaxCheckFaults, \* locks and writes that fail
          Asking,         \* requests of probes, which share the slots of a process
          Slots,          \* probes at a time
          Missing,        \* no credential, no evidence, nobody, no list of models
          Corrupt,        \* a file that cannot be parsed
          Closed          \* the menu before it is opened

ASSUME EvidenceAssumption ==
  Checkers \subseteq Nat /\ Probed \in ApiModels /\ MaxLives \in Nat \ {0} /\ MaxApiChecks \in Nat /\ MaxCheckFaults \in Nat
  /\ Slots \in Nat \ {0}

VARIABLES
  stored,    \* api-routes.json: Missing or [id, epoch, legacy, on, meta, visible, known, life]; 0 is no epoch, life is a ghost
  probes,    \* api-capability-probes.json: per id Missing or evidence; Corrupt when it cannot be parsed
  probeLease,\* per id the checker in api-probe-locks, or Missing
  wiping,    \* how far clearCredentialSidecars is: "no", "half", "done"
  menuSeen,  \* the credential as the menu read it; Closed before
  finder,    \* a discovery: [at, of, list, seen, next]
  check,     \* the checkers
  retained,  \* retainedProbes of each checker's process
  hidden,    \* ghost: models the user was offered and did not select
  lives, checks, faultsMade   \* ghosts: what has been used of the bounds

evidenceVars == <<stored, probes, probeLease, wiping, menuSeen, finder, check, retained, hidden, lives, checks, faultsMade>>

CredentialIds == 1..MaxLives
Waiting == [at |-> "idle", snap |-> Missing, epoch |-> 0, legacy |-> FALSE, gen |-> 0, base |-> Missing, found |-> Missing, life |-> 0]
NoProbes == [i \in CredentialIds |-> Missing]
NoFind == [at |-> "idle", of |-> Missing, list |-> {}, seen |-> Missing, next |-> Missing]

-----------------------------------------------------------------------------
(* The store *)

Policy(r) == <<r.on, r.meta>>
\* Bug: a lifetime ends with the credential only, whatever is edited.
SameLifeById(old, r, expansion) == old # Missing /\ old.id = r.id
\* Discovery may add models within a lifetime; every other edit of the policy ends it.
SameLife(old, r, expansion) ==
  old # Missing /\ old.id = r.id /\ Policy(old) = Policy(r) /\ (expansion \/ old.visible = r.visible)

\* saveApiRoutesLocked: the store alone decides about the epoch.
Owned(old, r, expansion) ==
  IF SameLife(old, r, expansion)
  THEN [r EXCEPT !.epoch = IF old.epoch # 0 THEN old.epoch ELSE old.life, !.legacy = old.epoch = 0 \/ old.legacy, !.life = old.life]
  ELSE [r EXCEPT !.epoch = lives + 1, !.legacy = FALSE, !.life = lives + 1]

Saves(r, expansion) ==
  LET new == Owned(stored, r, expansion)
  IN /\ stored' = new
     /\ lives' = IF stored # Missing /\ new.life = stored.life THEN lives ELSE lives + 1

\* Bug: a save does not look at what it replaces.
UntouchedAlways(seen) == TRUE
\* Every save compares what it was computed from with the file.
Untouched(seen) == stored = seen

MenuSave(r) ==
  /\ menuSeen # Closed /\ lives < MaxLives
  /\ IF Untouched(menuSeen)
     THEN /\ Saves(r, FALSE) /\ menuSeen' = Owned(stored, r, FALSE)
     ELSE /\ menuSeen' = stored /\ UNCHANGED <<stored, lives>>
  /\ UNCHANGED <<probes, probeLease, wiping, finder, check, retained, checks, faultsMade>>

MenuOpens ==
  /\ menuSeen = Closed
  /\ menuSeen' = stored
  /\ UNCHANGED <<stored, probes, probeLease, wiping, finder, check, retained, hidden, lives, checks, faultsMade>>

\* probes or the whole credential switched, metadata declared, or only the priority changed.
MenuSettings(f) ==
  /\ menuSeen \notin {Closed, Missing}
  /\ MenuSave(CASE f = "on" -> [menuSeen EXCEPT !.on = ~@]
                [] f = "meta" -> [menuSeen EXCEPT !.meta = ~@]
                [] f = "priority" -> menuSeen)
  /\ UNCHANGED hidden

Baseline(known, list) == IF known = Missing THEN list ELSE known
\* chooseModels: the user was shown the list.
MenuModels(list, chosen) ==
  /\ menuSeen \notin {Closed, Missing}
  /\ MenuSave([menuSeen EXCEPT !.visible = chosen, !.known = (IF @ = Missing THEN {} ELSE @) \cup list])
  /\ hidden' = IF Untouched(menuSeen) THEN (hidden \cup list) \ chosen ELSE hidden

MenuAdds(list, chosen) ==
  /\ menuSeen = Missing
  /\ MenuSave([id |-> lives + 1, epoch |-> 0, legacy |-> FALSE, on |-> TRUE, meta |-> FALSE,
               visible |-> chosen, known |-> list, life |-> 0])
  /\ hidden' = IF Untouched(menuSeen) THEN list \ chosen ELSE hidden

Wipe ==
  /\ wiping = "no" /\ stored # Missing
  /\ stored' = Missing
  /\ probeLease' = [i \in CredentialIds |-> Missing]      \* detached; holders go on
  /\ wiping' = "half" /\ hidden' = {}
  /\ UNCHANGED <<probes, menuSeen, finder, check, retained, lives, checks, faultsMade>>

\* The evidence goes under the lock of its own file.
WipeProbes ==
  /\ wiping = "half"
  /\ probes' = NoProbes /\ wiping' = "done"
  /\ UNCHANGED <<stored, probeLease, menuSeen, finder, check, retained, hidden, lives, checks, faultsMade>>

-----------------------------------------------------------------------------
(* Discovery: updateApiModelDiscovery *)

FindStarts(list) ==
  /\ finder.at = "idle" /\ checks < MaxApiChecks /\ stored # Missing /\ stored.on
  /\ checks' = checks + 1
  /\ finder' = [NoFind EXCEPT !.at = "listed", !.of = stored, !.list = list]
  /\ UNCHANGED <<stored, probes, probeLease, wiping, menuSeen, check, retained, hidden, lives, faultsMade>>

\* Bug: what is new is decided by the copy that discovery was started with.
ExpandedOld(current, of, list) ==
  [current EXCEPT !.known = Baseline(@, list) \cup list, !.visible = @ \cup (list \ Baseline(of.known, list))]
\* Only models nobody has seen before become visible by themselves.
Expanded(current, of, list) ==
  [current EXCEPT !.known = Baseline(@, list) \cup list, !.visible = @ \cup (list \ Baseline(current.known, list))]

FindLoads ==
  /\ finder.at = "listed"
  /\ finder' = IF stored = Missing \/ ~stored.on THEN NoFind
               ELSE IF stored.id # finder.of.id \/ finder.of.epoch \notin {0, stored.epoch} THEN NoFind
               ELSE LET next == Expanded(stored, finder.of, finder.list)
                    IN IF next = stored THEN NoFind ELSE [finder EXCEPT !.at = "loaded", !.seen = stored, !.next = next]
  /\ UNCHANGED <<stored, probes, probeLease, wiping, menuSeen, check, retained, hidden, lives, checks, faultsMade>>

FindSaves ==
  /\ finder.at = "loaded"
  /\ IF Untouched(finder.seen) THEN Saves(finder.next, TRUE) ELSE UNCHANGED <<stored, lives>>
  /\ finder' = NoFind
  /\ UNCHANGED <<probes, probeLease, wiping, menuSeen, check, retained, hidden, checks, faultsMade>>

-----------------------------------------------------------------------------
(* Ownership *)

\* storedGeneration: the epoch, or without one what stat tells of the file.  Every write
\* gives the credential an epoch, so a file without one is still the file that was read.
FileVersion == -1
GenerationOf(x) ==
  IF stored = Missing THEN 0
  ELSE IF stored.id # x.snap.id \/ ~stored.on \/ Probed \notin stored.visible \/ stored.meta # x.snap.meta THEN 0
  ELSE IF x.epoch \notin {0, stored.epoch} THEN 0
  ELSE IF stored.epoch # 0 THEN stored.epoch ELSE FileVersion
Owns(c) == check[c].gen # 0 /\ GenerationOf(check[c]) = check[c].gen

\* Bug: evidence is told apart by its key only.
OwnEvidenceAny(c, e) == TRUE
\* ownedEntries
OwnEvidence(c, e) ==
  IF e.owner # 0 THEN e.owner = check[c].gen ELSE check[c].legacy \/ check[c].epoch = 0

IdOf(c) == check[c].snap.id
FromDisk(c) == IF probes = Corrupt \/ probes[IdOf(c)] = Missing THEN Missing
               ELSE IF OwnEvidence(c, probes[IdOf(c)]) THEN probes[IdOf(c)] ELSE Missing
\* latestProbe
Latest(c, disk) ==
  IF retained[c] # Missing /\ retained[c].id = IdOf(c) /\ (disk = Missing \/ retained[c].when > disk.when) THEN retained[c] ELSE disk

-----------------------------------------------------------------------------
(* A check: enrichPersistedApiCapabilities *)

Quiet == UNCHANGED <<stored, probes, wiping, menuSeen, finder, hidden, lives, checks>>

\* Of two checkers in the same state the first goes first.
CheckStarts(c) ==
  /\ \A d \in Checkers : d < c => <<check[d], retained[d]>> # <<check[c], retained[c]>>
  /\ check[c].at = "idle" /\ checks < MaxApiChecks /\ checks' = checks + 1
  /\ stored # Missing /\ stored.on /\ Probed \in stored.visible
  /\ check' = [check EXCEPT ![c] = [Waiting EXCEPT !.at = "claim", !.snap = stored, !.epoch = stored.epoch, !.legacy = stored.legacy]]
  /\ UNCHANGED <<stored, probes, probeLease, wiping, menuSeen, finder, retained, hidden, lives, faultsMade>>

\* What is answered, and the lease returned unless a wipe has detached it.
Served(c, e) == [Waiting EXCEPT !.found = e]
Returned(c) == [i \in CredentialIds |-> IF probeLease[i] = c THEN Missing ELSE probeLease[i]]
Answers(c, e) == check' = [check EXCEPT ![c] = Served(c, e)] /\ probeLease' = Returned(c)
Goes(c, x) == check' = [check EXCEPT ![c] = x] /\ UNCHANGED probeLease
CheckFault == faultsMade < MaxCheckFaults /\ faultsMade' = faultsMade + 1

Mine(c) == stored # Missing /\ stored.id = IdOf(c) /\ check[c].epoch \in {0, stored.epoch}

\* ensureApiRouteCapabilityEpoch: a credential without an epoch gets one, in its own lifetime.
Claim(c) ==
  /\ check[c].at = "claim"
  /\ IF ~Mine(c)
     THEN Answers(c, Missing) /\ retained' = [retained EXCEPT ![c] = Missing] /\ UNCHANGED stored
     ELSE LET now == Owned(stored, stored, FALSE)
          IN /\ Goes(c, [check[c] EXCEPT !.at = "owner", !.epoch = now.epoch, !.legacy = now.legacy])
             /\ IF stored.epoch = 0 THEN stored' = now ELSE UNCHANGED stored
             /\ UNCHANGED retained
  /\ UNCHANGED <<probes, wiping, menuSeen, finder, hidden, lives, checks, faultsMade>>

\* The store is locked or cannot be written: the owner is only read.
ClaimFails(c) ==
  /\ check[c].at \in {"claim", "owner"} /\ CheckFault
  /\ IF check[c].at = "owner" THEN Goes(c, [check[c] EXCEPT !.at = "reader"])
     ELSE IF Mine(c) THEN Goes(c, [check[c] EXCEPT !.at = "reader", !.epoch = stored.epoch, !.legacy = stored.legacy])
     ELSE Answers(c, Missing)
  /\ retained' = IF check[c].at = "claim" /\ ~Mine(c) THEN [retained EXCEPT ![c] = Missing] ELSE retained
  /\ Quiet

\* The generation is fixed; what another generation left in memory is dropped.
Capture(c) ==
  LET now == GenerationOf(check[c])
  IN /\ check[c].at \in {"owner", "reader"}
     /\ IF now = 0 THEN Answers(c, Missing)
        ELSE Goes(c, [check[c] EXCEPT !.at = IF check[c].at = "owner" THEN "lease" ELSE "fallback", !.gen = now])
     /\ retained' = IF retained[c] # Missing /\ retained[c].gen = now THEN retained ELSE [retained EXCEPT ![c] = Missing]
     /\ Quiet /\ UNCHANGED faultsMade

\* Bug: a lease that is taken is no obstacle.
LeaseFreeAlways(c) == TRUE
LeaseFree(c) == probeLease[IdOf(c)] = Missing
TakeLease(c) ==
  /\ check[c].at = "lease" /\ LeaseFree(c) /\ Owns(c)
  /\ probeLease' = [probeLease EXCEPT ![IdOf(c)] = c]
  /\ check' = [check EXCEPT ![c].at = "load"]
  /\ Quiet /\ UNCHANGED <<retained, faultsMade>>

\* Another checker has it for longer than a minute, or the owner has changed.
LeaseFails(c) ==
  /\ check[c].at = "lease" /\ (probeLease[IdOf(c)] # Missing \/ ~Owns(c))
  /\ Goes(c, [check[c] EXCEPT !.at = "fallback"])
  /\ Quiet /\ UNCHANGED <<retained, faultsMade>>

Lost(c) == Answers(c, Missing) /\ retained' = [retained EXCEPT ![c] = Missing]

Load(c) ==
  /\ check[c].at = "load" /\ probes # Corrupt
  /\ IF ~Owns(c) THEN Lost(c)
     ELSE Goes(c, [check[c] EXCEPT !.at = "probe", !.base = Latest(c, FromDisk(c))]) /\ UNCHANGED retained
  /\ Quiet /\ UNCHANGED faultsMade

\* A forced check may reset what cannot be parsed, as long as it owns the credential.
Repair(c) ==
  /\ check[c].at = "load" /\ probes = Corrupt /\ Owns(c)
  /\ probes' = NoProbes
  /\ UNCHANGED <<stored, probeLease, wiping, menuSeen, finder, check, retained, hidden, lives, checks, faultsMade>>

\* Without force nothing is paid for; the lease is held to the end.
LoadFails(c) ==
  /\ check[c].at = "load" /\ probes = Corrupt
  /\ Goes(c, [check[c] EXCEPT !.at = "memory"])
  /\ Quiet /\ UNCHANGED <<retained, faultsMade>>

\* Evidence that is fresh is used as it is.
Reuse(c) ==
  /\ check[c].at = "probe" /\ check[c].base # Missing
  /\ Goes(c, [check[c] EXCEPT !.at = "persist", !.found = check[c].base])
  /\ Quiet /\ UNCHANGED <<retained, faultsMade>>

Settings == {"effort", "tier"}
Unknown == [s \in Settings |-> "unverified"]
NoStatus == [status |-> Unknown, lost |-> FALSE]
Evidence(c, result, life) ==
  [id |-> IdOf(c), owner |-> check[c].gen, gen |-> check[c].gen, life |-> life, when |-> checks,
   status |-> result.status, lost |-> result.lost]

\* What is kept of an earlier result for a setting that was not established now.
KeepStatus(old, a) ==
  IF a \in {"verified", "unsupported"} THEN a
  ELSE IF old \in {"verified", "unsupported"} THEN old ELSE "unverified"
\* Bug: a key that lost its access keeps what was verified before.
AfterAnswersKept(base, ans) ==
  [status |-> [s \in Settings |-> KeepStatus(base.status[s], ans[s])], lost |-> \E s \in Settings : ans[s] = "lost"]
\* runProbe: lost access leaves nothing, a denied model denies every setting, and what was
\* not established keeps its earlier status.
AfterAnswers(base, ans) ==
  LET lost == \E s \in Settings : ans[s] = "lost"
      unfit == \E s \in Settings : ans[s] = "denied"
  IN [status |-> [s \in Settings |-> IF lost THEN "unverified" ELSE IF unfit THEN "unsupported" ELSE KeepStatus(base.status[s], ans[s])],
      lost |-> lost \/ (base.lost /\ \A s \in Settings : ans[s] # "verified")]
Before(c) == IF check[c].base = Missing THEN NoStatus ELSE check[c].base

\* guardedFetch: ownership first, then the request, which is paid for.
Post(c) ==
  /\ check[c].at = "probe"
  /\ IF Owns(c) THEN Goes(c, [check[c] EXCEPT !.at = "sent", !.life = stored.life])
     ELSE Goes(c, [check[c] EXCEPT !.at = "persist", !.found = Evidence(c, AfterAnswers(Before(c), [s \in Settings |-> "unclear"]), 0)])
  /\ Quiet /\ UNCHANGED <<retained, faultsMade>>

\* Efforts are asked first; after a refusal of the key or the model nothing more is.
Answered(c, ans) ==
  /\ check[c].at = "sent"
  /\ Goes(c, [check[c] EXCEPT !.at = "persist", !.found = Evidence(c, AfterAnswers(Before(c), ans), check[c].life)])
  /\ Quiet /\ UNCHANGED <<retained, faultsMade>>

\* Bug: the result is written without another look at the owner.
StillMineAlways(c) == TRUE
StillMine(c) == GenerationOf(check[c]) = check[c].gen
\* persistProbe: evidence of this owner is never replaced by older evidence.
Newer(disk, e) == disk = Missing \/ disk.owner # e.owner \/ disk.when <= e.when

\* Under the locks of both files.
Persist(c) ==
  LET e == [check[c].found EXCEPT !.owner = check[c].gen]
  IN /\ check[c].at = "persist" /\ probes # Corrupt
     /\ IF StillMine(c)
        THEN /\ probes' = IF Newer(probes[IdOf(c)], e) THEN [probes EXCEPT ![IdOf(c)] = e] ELSE probes
             /\ Answers(c, e)
        ELSE Answers(c, Missing) /\ UNCHANGED probes
     /\ retained' = [retained EXCEPT ![c] = Missing]
     /\ UNCHANGED <<stored, wiping, menuSeen, finder, hidden, lives, checks, faultsMade>>

\* The result stays in memory, with its owner.
PersistFails(c) ==
  LET e == [check[c].found EXCEPT !.owner = check[c].gen, !.gen = check[c].gen]
  IN /\ check[c].at = "persist"
     /\ IF probes = Corrupt THEN UNCHANGED faultsMade ELSE CheckFault
     /\ IF Owns(c) THEN Answers(c, e) /\ retained' = [retained EXCEPT ![c] = e] ELSE Lost(c)
     /\ Quiet

\* fallbackWithoutProbes: reading needs no lease.
Fallback(c) ==
  /\ check[c].at \in {"fallback", "memory"}
  /\ IF ~Owns(c) THEN Lost(c)
     ELSE /\ Goes(c, [check[c] EXCEPT !.at = "shown",
                        !.found = Latest(c, IF check[c].at = "memory" THEN Missing ELSE FromDisk(c))])
          /\ UNCHANGED retained
  /\ Quiet /\ UNCHANGED faultsMade

\* The documentation may have taken long: the owner is checked once more.
Show(c) ==
  /\ check[c].at = "shown"
  /\ IF ~Owns(c) THEN Lost(c) ELSE Answers(c, check[c].found) /\ UNCHANGED retained
  /\ Quiet /\ UNCHANGED faultsMade

-----------------------------------------------------------------------------
OldCredential ==
  [id |-> 1, epoch |-> 0, legacy |-> FALSE, on |-> TRUE, meta |-> FALSE, visible |-> {Probed}, known |-> Missing, life |-> 1]
OldEvidence == [id |-> 1, owner |-> 0, gen |-> 0, life |-> 1, when |-> 0,
                status |-> [s \in Settings |-> "verified"], lost |-> FALSE]

\* A credential and its evidence, as they were written before there were epochs or since.
EvidenceInit ==
  /\ \/ /\ stored = OldCredential
        /\ probes \in {NoProbes, [NoProbes EXCEPT ![1] = OldEvidence], Corrupt}
     \/ /\ stored = [OldCredential EXCEPT !.epoch = 1, !.known = {Probed}]
        /\ probes = [NoProbes EXCEPT ![1] = [OldEvidence EXCEPT !.owner = 1]]
  /\ probeLease = [i \in CredentialIds |-> Missing] /\ wiping = "no" /\ menuSeen = Closed
  /\ finder = NoFind /\ check = [c \in Checkers |-> Waiting] /\ retained = [c \in Checkers |-> Missing]
  /\ hidden = {} /\ lives = 1 /\ checks = 0 /\ faultsMade = 0

EvidenceNext ==
  \/ MenuOpens \/ Wipe \/ WipeProbes \/ FindLoads \/ FindSaves
  \/ \E f \in {"on", "meta", "priority"} : MenuSettings(f)
  \/ FindStarts(ApiModels)
  \/ \E chosen \in SUBSET ApiModels : MenuModels(ApiModels, chosen) \/ MenuAdds(ApiModels, chosen)
  \/ \E c \in Checkers :
       \/ CheckStarts(c) \/ Claim(c) \/ ClaimFails(c) \/ Capture(c) \/ TakeLease(c) \/ LeaseFails(c)
       \/ Load(c) \/ Repair(c) \/ LoadFails(c) \/ Reuse(c) \/ Post(c) \/ Persist(c) \/ PersistFails(c)
       \/ Fallback(c) \/ Show(c)
       \/ \E ans \in {[effort |-> e, tier |-> t] : e \in {"verified", "unclear"}, t \in {"unclear", "lost", "denied"}} :
            Answered(c, ans)

EvidenceSpec == EvidenceInit /\ [][EvidenceNext]_evidenceVars

-----------------------------------------------------------------------------
(* The slots of a process: withSharedProbeSlot *)

VARIABLES slotsTaken,   \* activeProbes
          slotQueue,    \* probeWaiters
          slotOf        \* per request "out", "queued", "granted" or "running"

slotVars == <<slotsTaken, slotQueue, slotOf>>

AskSlot(p) ==
  /\ slotOf[p] = "out"
  /\ IF slotsTaken >= Slots
     THEN slotQueue' = Append(slotQueue, p) /\ slotOf' = [slotOf EXCEPT ![p] = "queued"] /\ UNCHANGED slotsTaken
     ELSE slotsTaken' = slotsTaken + 1 /\ slotOf' = [slotOf EXCEPT ![p] = "granted"] /\ UNCHANGED slotQueue

\* Bug: a request that gives up stays in the queue.
WithoutKept(p) == slotQueue
Without(p) == SelectSeq(slotQueue, LAMBDA q : q # p)
AbortSlot(p) ==
  /\ slotOf[p] = "queued"
  /\ slotQueue' = Without(p) /\ slotOf' = [slotOf EXCEPT ![p] = "out"]
  /\ UNCHANGED slotsTaken

UseSlot(p) ==
  /\ slotOf[p] = "granted"
  /\ slotOf' = [slotOf EXCEPT ![p] = "running"]
  /\ UNCHANGED <<slotsTaken, slotQueue>>

\* The slot is handed to the next in the queue; also by a request that is aborted between
\* the grant and its start.
ReturnSlot(p) ==
  /\ slotOf[p] \in {"granted", "running"}
  /\ IF slotQueue # <<>>
     THEN /\ slotOf' = [slotOf EXCEPT ![p] = "out", ![Head(slotQueue)] = "granted"]
          /\ slotQueue' = Tail(slotQueue) /\ UNCHANGED slotsTaken
     ELSE slotsTaken' = slotsTaken - 1 /\ slotOf' = [slotOf EXCEPT ![p] = "out"] /\ UNCHANGED slotQueue

SlotInit == slotsTaken = 0 /\ slotQueue = <<>> /\ slotOf = [p \in Asking |-> "out"]
SlotNext == \E p \in Asking : AskSlot(p) \/ AbortSlot(p) \/ UseSlot(p) \/ ReturnSlot(p)

-----------------------------------------------------------------------------
(* Properties *)

OnFile == IF probes = Corrupt THEN {} ELSE {probes[i] : i \in CredentialIds} \ {Missing}

\* Nothing measured before a wipe is on file after it, whatever checks were under way.
NothingAfterWipe == wiping = "done" => \A e \in OnFile : stored # Missing /\ e.id = stored.id

\* A model the user was offered and left out is not shown again by discovery, however late
\* its answer is and whatever it was started from.
HiddenStaysHidden == stored # Missing => stored.visible \cap hidden = {}

\* Two checkers never pay at the same time for the same evidence of the same lifetime.
OneBill ==
  \A c, d \in Checkers : c # d /\ check[c].at = "sent" /\ check[d].at = "sent" => check[c].life # check[d].life

\* While the last word about a key is that it lost its access, its evidence shows nothing,
\* on file, in memory and in what is answered.
LostShowsNothing ==
  \A e \in OnFile \cup (({retained[c] : c \in Checkers} \cup {check[c].found : c \in Checkers}) \ {Missing}) :
    e.lost => \A s \in Settings : e.status[s] # "verified"

\* Slots are never lost or invented by requests that give up, and nobody waits while one is
\* free.
SlotsKept ==
  /\ slotsTaken = Cardinality({p \in Asking : slotOf[p] \in {"granted", "running"}}) /\ slotsTaken <= Slots
  /\ slotQueue # <<>> => slotsTaken = Slots
  /\ ToSet(slotQueue) = {p \in Asking : slotOf[p] = "queued"}

\* What a check answers was measured in the lifetime the credential is in: no edit, wipe or
\* new credential in between goes unnoticed.  (A reader that could not lock the store may
\* still show evidence from before there were epochs.)
EvidenceCurrent ==
  \A c \in Checkers :
    LET e == check'[c].found
    IN check[c].at # "idle" /\ check'[c].at = "idle" /\ e # Missing =>
         \/ stored # Missing /\ e.id = stored.id /\ e.life = stored.life
         \/ e.owner = 0 /\ check[c].epoch = 0

\* A credential that was removed is not brought back by a save that was prepared before:
\* only a new one is added.
NoResurrection == stored = Missing /\ stored' # Missing => stored'.id > lives
=============================================================================

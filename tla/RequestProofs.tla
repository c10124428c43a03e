---------------------------- MODULE RequestProofs ----------------------------
(***************************************************************************)
(* What the two places that serve requests keep for every number of        *)
(* requests, accounts and workspaces, with every bound: the request loop   *)
(* of lib/runtime-rotation-proxy.ts (LoopInv), and below it the fetch of   *)
(* the plugin in index.ts (FetchInv).                                      *)
(***************************************************************************)
EXTENDS RequestLoop, PluginFetch, FiniteSetTheorems, SequenceTheorems, WellFoundedInduction, TLAPS

Reasons == {"no-account", "rate-limit", "auth-failure", "network-error", "server-error", "deactivated"}

\* A request's record, field by field.
ReqType ==
  [pc : Pcs, kind : Kinds \cup {None}, pin : Pins \cup {None}, pinGone : BOOLEAN,
   at : Accounts \cup {None}, ws : Workspaces \cup {None}, gen : Nat, rows : SUBSET Accounts,
   cands : SUBSET Accounts, pend : [Accounts -> SUBSET Nat], attempted : SUBSET Accounts,
   blocked : SUBSET Accounts, rejected : SUBSET Workspaces, own : SUBSET Accounts,
   transient : Nat, limit : Nat, selections : Nat, capacity : Nat, reconciled : BOOLEAN,
   recovered : BOOLEAN, reloaded : BOOLEAN, reason : Reasons, owed : {0, 1},
   unsure : BOOLEAN, nays : SUBSET Workspaces]

\* An attempt is under way on account s.at.
Attempting(s) == s.pc \in {"refresh", "sent"}

MostTries == MaxAttempts + MaxPinned

\* What holds of every request, whatever the others and the manager do.
ReqOK(s) ==
  /\ \A a \in Accounts : s.pend[a] \subseteq DOMAIN Scopes[a]
  /\ s.limit \in 1..MostTries /\ s.transient \in 0..MostTries
  /\ Attempting(s) => s.transient < MostTries
  /\ s.pc \in {"refresh", "sent", "stream"} => s.at \in Accounts
  /\ s.pc \notin {"idle", "answered"} => s.kind \in Kinds
  /\ s.pc = "sent" => s.ws \in Workspaces /\ s.ws \notin s.rejected
  /\ Attempting(s) => (s.owed = 1) = ~Bypass(s)
  /\ s.pc = "waiting" => s.owed = 0
  /\ s.nays \subseteq s.rejected
  /\ s.unsure => s.kind \in {"responses", "thread-goal"}
  /\ Pinned(s) /\ s.pc \in {"refresh", "sent", "stream"} => s.at = s.pin

AcctType == [enabled : BOOLEAN, invalid : BOOLEAN, limited : BOOLEAN, dictated : BOOLEAN,
             cooling : Cooldowns, dead : SUBSET Workspaces]

SharedOK ==
  /\ acct \in [Accounts -> AcctType]
  /\ bucket \in [Accounts -> 0..MaxTokens]
  /\ circuit \in [Accounts -> {"closed", "open", "half-open"}]
  /\ slot \in [Accounts -> {None, "sent"} \cup Requests]
  /\ pool \subseteq Accounts /\ gen \in 0..MaxSwaps
  /\ lifted \subseteq Accounts /\ resets \in 0..MaxResets

\* The probe slot belongs to a half-open circuit, and to a request only while
\* that request prepares its attempt.
SlotsOK ==
  /\ \A a \in Accounts : slot[a] # None => circuit[a] = "half-open"
  /\ ProbeNotLeaked

LoopInv ==
  /\ SharedOK
  /\ q \in [Requests -> ReqType]
  /\ \A r \in Requests : ReqOK(q[r])
  /\ SlotsOK

-----------------------------------------------------------------------------
(* Lemmas on the operators. *)

LEMMA LimitBounds ==
  ASSUME NEW rows \in SUBSET Accounts
  PROVE  PoolLimit(rows) \in 1..MostTries /\ PinLimit \in 1..MostTries
<1>1. Cardinality(rows) \in Nat
  BY LoopAssumption, FS_Subset, FS_CardinalityType
<1> QED BY <1>1, LoopAssumption DEF PoolLimit, PinLimit, AtLeastOne, Least, MostTries

LEMMA BestIsOne ==
  ASSUME NEW left \in SUBSET Nat, left # {}
  PROVE  Best(left) \in left
<1> DEFINE R == OpToRel(<, Nat)
<1>1. IsWellFoundedOn(R, Nat)
  BY NatLessThanWellFounded
<1>2. \A i, j \in Nat : i < j => <<i, j>> \in R
  BY DEF OpToRel
<1> HIDE DEF R
<1>3. PICK i \in left : \A j \in left : <<j, i>> \notin R
  BY <1>1, WFMin
<1>4. ASSUME NEW j \in left PROVE i <= j
  <2>1. i \in Nat /\ j \in Nat /\ ~(j < i)
    BY <1>2, <1>3
  <2> QED BY <2>1
<1> QED BY <1>4 DEF Best

LEMMA PlacesAreNatural == \A a \in Accounts : DOMAIN Scopes[a] \subseteq Nat /\ \A i \in DOMAIN Scopes[a] : Scopes[a][i] \in Workspaces
  BY LoopAssumption DEF Workspaces

LEMMA IdleOK ==
  /\ Idle \in ReqType /\ ReqOK(Idle)
  /\ \A n \in {0, 1} : LET s == [Idle EXCEPT !.pc = "answered", !.owed = n] IN s \in ReqType /\ ReqOK(s)
<1>1. 1 \in 1..MostTries /\ 0 \in 0..MostTries
  BY LoopAssumption DEF MostTries
<1>2. Idle \in ReqType
  BY DEF Idle, ReqType, Pcs, Reasons
<1>3. ReqOK(Idle)
  BY <1>1 DEF Idle, ReqOK, Attempting, Pinned
<1>4. ASSUME NEW n \in {0, 1} PROVE LET s == [Idle EXCEPT !.pc = "answered", !.owed = n] IN s \in ReqType /\ ReqOK(s)
  BY <1>1 DEF Idle, ReqType, Pcs, Reasons, ReqOK, Attempting, Pinned
<1> QED BY <1>2, <1>3, <1>4

\* adoptAccountManager changes only what is keyed by index.
LEMMA CurrentOK ==
  ASSUME SharedOK, NEW s \in ReqType, ReqOK(s)
  PROVE  /\ Current(s) \in ReqType /\ ReqOK(Current(s))
         /\ Current(s).pc = s.pc /\ Current(s).at = s.at /\ Current(s).kind = s.kind
         /\ Current(s).pin = s.pin /\ Current(s).owed = s.owed
<1> DEFINE t == Adopted(s)
<1>1. PoolLimit(pool) \in 1..MostTries
  BY LimitBounds DEF SharedOK
<1>2. t \in ReqType
  <2>1. PoolLimit(pool) \in Nat
    BY <1>1, LoopAssumption DEF MostTries
  <2>a. gen \in Nat /\ pool \in SUBSET Accounts
    BY LoopAssumption DEF SharedOK
  <2>2. ASSUME NEW b \in BOOLEAN, NEW p \in [Accounts -> SUBSET Nat], NEW n \in Nat
        PROVE  [s EXCEPT !.gen = gen, !.rows = pool, !.limit = n, !.pinGone = b, !.pend = p,
                         !.cands = @ \cap pool, !.attempted = {}, !.own = {}, !.blocked = {}] \in ReqType
    <3> DEFINE u == [s EXCEPT !.gen = gen, !.rows = pool, !.limit = n, !.pinGone = b]
    <3>1. u \in ReqType
      BY <2>a DEF ReqType
    <3>2. \A c \in SUBSET Accounts :
            [u EXCEPT !.pend = p, !.cands = c, !.attempted = {}, !.own = {}, !.blocked = {}] \in ReqType
      <4> HIDE DEF u
      <4> QED BY <3>1 DEF ReqType
    <3>3. s.cands \cap pool \in SUBSET Accounts
      BY DEF ReqType
    <3> QED BY <3>2, <3>3
  <2>3. [a \in Accounts |-> IF a \in pool THEN s.pend[a] \cap Routable(a) ELSE {}] \in [Accounts -> SUBSET Nat]
    BY DEF ReqType
  <2>4. (Pinned(s) /\ s.pin \notin pool) \in BOOLEAN
    OBVIOUS
  <2> QED BY <2>1, <2>2, <2>3, <2>4 DEF Adopted, Remapped, PinLost
<1>3. /\ t.pc = s.pc /\ t.at = s.at /\ t.kind = s.kind /\ t.pin = s.pin /\ t.owed = s.owed
      /\ t.ws = s.ws /\ t.rejected = s.rejected /\ t.nays = s.nays /\ t.unsure = s.unsure
      /\ t.transient = s.transient /\ t.limit = PoolLimit(pool)
      /\ \A a \in Accounts : t.pend[a] \subseteq s.pend[a]
  BY DEF Adopted, Remapped, PinLost, ReqType
<1>4. ReqOK(t)
  BY <1>1, <1>3 DEF ReqOK, Attempting, Bypass, Pinned, Routed
<1> QED BY <1>2, <1>3, <1>4 DEF Current

\* Giving the token back leaves an attempt without a debit.
LEMMA RefundedOK ==
  ASSUME NEW s \in ReqType, ReqOK(s), Attempting(s)
  PROVE  /\ Refunded(s) \in ReqType /\ Refunded(s).owed = 0
         /\ \A f \in {"pc", "kind", "pin", "at", "ws", "pend", "attempted", "blocked", "rejected", "transient",
                      "limit", "unsure", "nays"} : Refunded(s)[f] = s[f]
<1>1. CASE Bypass(s)
  <2>1. Refunded(s) = s
    BY <1>1 DEF Refunded, ReqType
  <2> QED BY <1>1, <2>1 DEF ReqOK, ReqType
<1>2. CASE ~Bypass(s)
  <2>1. s.owed = 1 /\ Refunded(s) = [s EXCEPT !.owed = 0]
    BY <1>2 DEF Refunded, ReqType, ReqOK
  <2> QED BY <2>1 DEF ReqType
<1> QED BY <1>1, <1>2

LEMMA RefundTyped ==
  ASSUME SharedOK, NEW s \in ReqType, s.at \in Accounts, Refund(s)
  PROVE  bucket' \in [Accounts -> 0..MaxTokens]
<1>1. \A n \in 0..MaxTokens : Least(n + 1, MaxTokens) \in 0..MaxTokens
  BY LoopAssumption DEF Least
<1> QED BY <1>1 DEF Refund, SharedOK

LEMMA DrainedTyped == \A n \in 0..MaxTokens : Drained(n) \in 0..MaxTokens
  BY LoopAssumption DEF Drained

-----------------------------------------------------------------------------
(* The probe slots over a step of request r that leaves it without a slot. *)

SlotStep(r) ==
  /\ circuit' \in [Accounts -> {"closed", "open", "half-open"}]
  /\ slot' \in [Accounts -> {None, "sent"} \cup Requests]
  /\ \A a \in Accounts :
       /\ slot'[a] # None => circuit'[a] = "half-open"
       /\ slot'[a] # r /\ slot'[a] \in {slot[a], None, "sent"}

LEMMA SlotFacts ==
  ASSUME LoopInv, NEW r \in Requests
  PROVE  /\ r # None /\ r # "sent"
         /\ q[r].pc # "refresh" => \A a \in Accounts : slot[a] # r
         /\ \A a \in Accounts : a # q[r].at => slot[a] # r
  BY LoopAssumption DEF LoopInv, SlotsOK, ProbeNotLeaked

LEMMA SlotsUnchanged ==
  ASSUME LoopInv, NEW r \in Requests, q[r].pc # "refresh", UNCHANGED <<circuit, slot>>
  PROVE  SlotStep(r)
  BY SlotFacts DEF LoopInv, SharedOK, SlotsOK, SlotStep

LEMMA SlotReleased ==
  ASSUME LoopInv, NEW r \in Requests, releaseUnusedProbe(r, q[r].at), UNCHANGED circuit
  PROVE  SlotStep(r)
  BY SlotFacts DEF LoopInv, SharedOK, SlotsOK, SlotStep, releaseUnusedProbe

LEMMA SlotAfterFailure ==
  ASSUME LoopInv, NEW r \in Requests, recordFailure(q[r].at)
  PROVE  SlotStep(r)
  BY SlotFacts DEF LoopInv, SharedOK, SlotsOK, SlotStep, recordFailure

LEMMA SlotAfterSuccess ==
  ASSUME LoopInv, NEW r \in Requests, q[r].pc # "refresh", recordSuccess(q[r].at)
  PROVE  SlotStep(r)
  BY SlotFacts DEF LoopInv, SharedOK, SlotsOK, SlotStep, recordSuccess

\* What a step of one request has to show.
LEMMA RequestStep ==
  ASSUME LoopInv, NEW r \in Requests, NEW t \in ReqType, ReqOK(t), Becomes(r, t), SlotStep(r),
         acct' \in [Accounts -> AcctType], bucket' \in [Accounts -> 0..MaxTokens],
         pool' \subseteq Accounts, gen' \in 0..MaxSwaps, lifted' \subseteq Accounts, resets' \in 0..MaxResets
  PROVE  LoopInv'
<1>1. SharedOK'
  BY DEF SlotStep, SharedOK
<1>2. q' \in [Requests -> ReqType] /\ q'[r] = t /\ \A o \in Requests \ {r} : q'[o] = q[o]
  BY DEF LoopInv, Becomes
<1>3. \A o \in Requests : ReqOK(q'[o])
  BY <1>2 DEF LoopInv
<1>4. ASSUME NEW a \in Accounts, NEW o \in Requests, slot'[a] = o
      PROVE  q'[o].pc = "refresh" /\ q'[o].at = a
  <2>1. o # r /\ slot[a] = o
    BY <1>4, LoopAssumption DEF SlotStep
  <2> QED BY <1>2, <2>1 DEF LoopInv, SlotsOK, ProbeNotLeaked
<1>5. SlotsOK'
  BY <1>4 DEF SlotsOK, ProbeNotLeaked, SlotStep
<1>6. (\A o \in Requests : ReqOK(q[o]))'
  BY <1>3 DEF ReqOK, Attempting, Bypass, Pinned, Routed
<1> QED BY <1>1, <1>2, <1>5, <1>6 DEF LoopInv

\* The parts of SharedOK that a step leaves alone.
LEMMA Untouched ==
  ASSUME LoopInv
  PROVE  /\ UNCHANGED acct => acct' \in [Accounts -> AcctType]
         /\ UNCHANGED bucket => bucket' \in [Accounts -> 0..MaxTokens]
         /\ UNCHANGED managers => /\ pool' \subseteq Accounts /\ gen' \in 0..MaxSwaps
                                 /\ lifted' \subseteq Accounts /\ resets' \in 0..MaxResets
  BY DEF LoopInv, SharedOK, managers

LEMMA AnswerOK ==
  ASSUME LoopInv, NEW r \in Requests, Answer(r), SlotStep(r),
         acct' \in [Accounts -> AcctType], bucket' \in [Accounts -> 0..MaxTokens], UNCHANGED managers
  PROVE  LoopInv'
<1>1. q[r].owed \in {0, 1}
  BY DEF LoopInv, ReqType
<1> QED BY <1>1, IdleOK, RequestStep, Untouched DEF Answer

LEMMA AnswerRefundedOK ==
  ASSUME LoopInv, NEW r \in Requests, Attempting(q[r]), AnswerRefunded(r), SlotStep(r),
         acct' \in [Accounts -> AcctType], bucket' \in [Accounts -> 0..MaxTokens], UNCHANGED managers
  PROVE  LoopInv'
<1>1. Refunded(q[r]).owed = 0
  BY RefundedOK DEF LoopInv
<1> QED BY <1>1, IdleOK, RequestStep, Untouched DEF AnswerRefunded

-----------------------------------------------------------------------------
(* Arrival and selection. *)

LEMMA ArrivalKeeps ==
  ASSUME LoopInv, NEW r \in Requests, Arrive(r)
  PROVE  LoopInv'
<1>1. CASE Refuse(r)
  BY <1>1, AnswerOK, SlotsUnchanged, Untouched DEF Refuse, shared, managers
<1>2. ASSUME NEW kind \in Kinds, NEW pin \in Pins, NEW advertised \in SUBSET Accounts, Start(r, kind, pin, advertised)
      PROVE  LoopInv'
  <2> DEFINE lim == IF pin = None THEN PoolLimit(pool) ELSE PinLimit
             left == [a \in Accounts |-> IF a \in advertised THEN Routable(a) ELSE {}]
             t == [Idle EXCEPT !.pc = "select", !.kind = kind, !.pin = pin, !.gen = gen, !.rows = pool,
                               !.limit = lim, !.cands = advertised, !.pend = left]
  <2>3. gen \in Nat /\ pool \in SUBSET Accounts /\ MostTries \in Nat
    BY LoopAssumption DEF LoopInv, SharedOK, MostTries
  <2>1. lim \in 1..MostTries /\ lim \in Nat
    BY <2>3, LimitBounds
  <2>2. left \in [Accounts -> SUBSET Nat] /\ \A a \in Accounts : left[a] \subseteq DOMAIN Scopes[a]
    BY PlacesAreNatural DEF Routable
  <2>4. t \in ReqType
    <3> HIDE DEF lim, left
    <3> DEFINE u == [Idle EXCEPT !.pc = "select", !.kind = kind, !.pin = pin, !.gen = gen]
    <3>1. u \in ReqType
      BY <2>3, IdleOK DEF ReqType, Pcs
    <3> HIDE DEF u
    <3>2. [u EXCEPT !.rows = pool, !.limit = lim, !.cands = advertised, !.pend = left] \in ReqType
      BY <2>1, <2>2, <2>3, <3>1 DEF ReqType
    <3> QED BY <3>2 DEF u
  <2>5. ReqOK(t)
    <3> HIDE DEF lim, left
    <3>1. /\ t.pc = "select" /\ t.kind = kind /\ t.pin = pin /\ t.limit = lim /\ t.pend = left
          /\ t.transient = 0 /\ t.nays = {} /\ t.rejected = {} /\ t.unsure = FALSE
      BY DEF Idle
    <3> HIDE DEF t
    <3> QED BY <2>1, <2>2, <2>3, <3>1 DEF ReqOK, Attempting
  <2>6. q[r].pc # "refresh" /\ Becomes(r, t) /\ UNCHANGED shared
    BY <1>2 DEF Start
  <2> QED BY <2>4, <2>5, <2>6, RequestStep, SlotsUnchanged, Untouched DEF shared, managers
<1> QED BY <1>1, <1>2 DEF Arrive

LEMMA TryingOK ==
  ASSUME NEW s \in ReqType, ReqOK(s), NEW a \in Accounts
  PROVE  /\ Trying(s, a) \in ReqType /\ Trying(s, a).at = a
         /\ \A f \in {"pc", "kind", "pin", "ws", "pend", "blocked", "rejected", "transient", "limit",
                      "owed", "unsure", "nays"} : Trying(s, a)[f] = s[f]
<1> DEFINE t(tried, n) == [s EXCEPT !.at = a, !.attempted = tried, !.selections = n]
<1>1. ASSUME NEW tried \in SUBSET Accounts, NEW n \in Nat
      PROVE  /\ t(tried, n) \in ReqType /\ t(tried, n).at = a
             /\ \A f \in {"pc", "kind", "pin", "ws", "pend", "blocked", "rejected", "transient", "limit",
                          "owed", "unsure", "nays"} : t(tried, n)[f] = s[f]
  BY DEF ReqType
<1>2. s.attempted \cup {a} \in SUBSET Accounts /\ s.selections \in Nat /\ s.selections + 1 \in Nat
  BY DEF ReqType
<1>3. Trying(s, a) \in {t(s.attempted \cup {a}, s.selections), t(s.attempted \cup {a}, s.selections + 1)}
  BY DEF Trying
<1> HIDE DEF t
<1> QED BY <1>1, <1>2, <1>3

LEMMA SelectionKeeps ==
  ASSUME LoopInv, NEW r \in Requests, NEW a \in Accounts, Defer(r, a) \/ Reject(r, a) \/ Admit(r, a)
  PROVE  LoopInv'
<1> DEFINE s == q[r]
           t == Trying(s, a)
<1>1. s \in ReqType /\ ReqOK(s) /\ t \in ReqType /\ t.at = a
      /\ \A f \in {"pc", "kind", "pin", "ws", "pend", "blocked", "rejected", "transient", "limit",
                   "owed", "unsure", "nays"} : t[f] = s[f]
  BY TryingOK DEF LoopInv
<1>2. s.pc = "select" /\ s.transient < s.limit /\ (Pinned(s) => a = s.pin)
  BY DEF Defer, Reject, Admit, Chosen, LoopOpen, Eligible
<1>3. MostTries \in Nat
  BY LoopAssumption DEF MostTries
<1> HIDE DEF t
<1>4. CASE Defer(r, a)
  <2> DEFINE u == [t EXCEPT !.reason = "rate-limit"]
  <2>1. u \in ReqType /\ ReqOK(u)
    BY <1>1, <1>2 DEF ReqType, Reasons, ReqOK, Attempting, Pinned
  <2>2. acct' \in [Accounts -> AcctType] /\ bucket' \in [Accounts -> 0..MaxTokens]
    BY <1>4, DrainedTyped DEF Defer, LoopInv, SharedOK, AcctType
  <2> QED BY <1>2, <1>4, <2>1, <2>2, RequestStep, SlotsUnchanged, Untouched DEF Defer, t
<1>5. CASE Reject(r, a)
  <2> DEFINE u(p) == [t EXCEPT !.reason = "rate-limit", !.pc = p]
  <2>1. ASSUME NEW p \in {"exhausted", "select"} PROVE u(p) \in ReqType /\ ReqOK(u(p))
    <3>1. u(p) \in ReqType
      BY <1>1 DEF ReqType, Pcs, Reasons
    <3>2. ReqOK(u(p))
      BY <1>1, <1>2 DEF ReqType, ReqOK, Attempting, Pinned
    <3> QED BY <3>1, <3>2
  <2>2. PICK p \in {"exhausted", "select"} : Becomes(r, u(p))
    BY <1>5 DEF Reject, t
  <2> HIDE DEF u
  <2> QED BY <1>2, <1>5, <2>1, <2>2, RequestStep, SlotsUnchanged, Untouched DEF Reject, t, shared, managers
<1>6. CASE Admit(r, a)
  <2> DEFINE u == [t EXCEPT !.pc = "refresh", !.owed = IF Bypass(s) THEN 0 ELSE 1]
  <2>1. u \in ReqType
    <3>1. \A n \in {0, 1} : [t EXCEPT !.pc = "refresh", !.owed = n] \in ReqType
      BY <1>1 DEF ReqType, Pcs
    <3> QED BY <3>1
  <2>2. u.pc = "refresh" /\ u.at = a /\ (u.owed = 1) = ~Bypass(s) /\ Bypass(u) = Bypass(s)
    BY <1>1 DEF ReqType, Bypass, Pinned, Routed
  <2>3. ReqOK(u)
    BY <1>1, <1>2, <1>3, <2>2 DEF ReqType, ReqOK, Attempting, Pinned
  <2>4. bucket' \in [Accounts -> 0..MaxTokens]
    <3>1. bucket \in [Accounts -> 0..MaxTokens] /\ MaxTokens \in Nat
      BY LoopAssumption DEF LoopInv, SharedOK
    <3>2. bucket' = bucket \/ (bucket[a] > 0 /\ bucket' = [bucket EXCEPT ![a] = @ - 1])
      BY <1>6 DEF Admit, HasToken
    <3> QED BY <3>1, <3>2
  <2>5. \A o \in Requests : q'[o] = IF o = r THEN u ELSE q[o]
    BY <1>6 DEF Admit, Becomes, LoopInv, t
  <2>6. SharedOK' /\ q' \in [Requests -> ReqType]
    BY <1>6, <2>1, <2>4 DEF Admit, Becomes, LoopInv, SharedOK, managers, t
  <2>7. \A o \in Requests : ReqOK(q'[o])
    BY <2>3, <2>5 DEF LoopInv
  <2>8. ASSUME NEW b \in Accounts
        PROVE  /\ slot'[b] # None => circuit'[b] = "half-open"
               /\ \A o \in Requests : slot'[b] = o => q'[o].pc = "refresh" /\ q'[o].at = b
    <3>1. slot' = slot \/ (circuit[a] = "half-open" /\ slot' = [slot EXCEPT ![a] = r])
      BY <1>6 DEF Admit
    <3>2. slot[b] # r
      BY <1>2, SlotFacts
    <3>3. circuit' = circuit
      BY <1>6 DEF Admit
    <3>4. CASE slot'[b] = slot[b]
      BY <2>5, <3>2, <3>3, <3>4 DEF LoopInv, SlotsOK, ProbeNotLeaked
    <3>5. CASE b = a /\ slot'[b] = r /\ circuit[a] = "half-open"
      BY <2>2, <2>5, <3>3, <3>5
    <3> QED BY <3>1, <3>4, <3>5 DEF LoopInv, SharedOK
  <2>9. SlotsOK'
    BY <2>8 DEF SlotsOK, ProbeNotLeaked
  <2>10. (\A o \in Requests : ReqOK(q[o]))'
    BY <2>7 DEF ReqOK, Attempting, Bypass, Pinned, Routed
  <2> QED BY <2>6, <2>9, <2>10 DEF LoopInv
<1> QED BY <1>4, <1>5, <1>6

-----------------------------------------------------------------------------
(* Nothing left to select. *)

\* Between two attempts little is asked of a request.
LEMMA Between ==
  ASSUME NEW s \in ReqType, ReqOK(s), s.pc \notin {"idle", "answered"}, NEW u,
         u.pc \in {"select", "lost", "exhausted"}, u.limit = s.limit \/ u.limit \in 1..MostTries,
         \A f \in {"pend", "kind", "rejected", "nays", "unsure", "transient"} : u[f] = s[f]
  PROVE  ReqOK(u)
<1>1. /\ u.pend = s.pend /\ u.kind = s.kind /\ u.rejected = s.rejected /\ u.nays = s.nays
      /\ u.unsure = s.unsure /\ u.transient = s.transient
  OBVIOUS
<1> QED BY <1>1 DEF ReqOK, Attempting


LEMMA LiftTyped ==
  ASSUME LoopInv, NEW a \in pool, Lift(a)
  PROVE  /\ acct' \in [Accounts -> AcctType] /\ bucket' \in [Accounts -> 0..MaxTokens]
         /\ pool' \subseteq Accounts /\ gen' \in 0..MaxSwaps
         /\ lifted' \subseteq Accounts /\ resets' \in 0..MaxResets
         /\ UNCHANGED <<circuit, slot>>
<1>1. a \in Accounts /\ resets + 1 \in 0..MaxResets
  BY LoopAssumption DEF LoopInv, SharedOK, Lift
<1> QED BY <1>1 DEF LoopInv, SharedOK, Lift, AcctType

LEMMA SharedTyped ==
  ASSUME LoopInv, UNCHANGED shared
  PROVE  /\ acct' \in [Accounts -> AcctType] /\ bucket' \in [Accounts -> 0..MaxTokens]
         /\ pool' \subseteq Accounts /\ gen' \in 0..MaxSwaps
         /\ lifted' \subseteq Accounts /\ resets' \in 0..MaxResets
         /\ UNCHANGED <<circuit, slot, managers>>
  BY DEF LoopInv, SharedOK, shared, managers

LEMMA ReconcileKeeps ==
  ASSUME LoopInv, NEW r \in Requests, Reconcile(r)
  PROVE  LoopInv'
<1> DEFINE s == q[r]
<1>1. s \in ReqType /\ ReqOK(s) /\ s.pc = "select" /\ SharedOK
  BY DEF LoopInv, Reconcile, Nothing
<1>2. CASE Answer(r) /\ UNCHANGED shared
  BY <1>1, <1>2, AnswerOK, SlotsUnchanged, SharedTyped
<1>3. CASE Becomes(r, Adopted(s)) /\ Stale(s) /\ UNCHANGED shared
  <2>1. Adopted(s) \in ReqType /\ ReqOK(Adopted(s))
    BY <1>1, <1>3, CurrentOK DEF Current
  <2> QED BY <1>1, <1>3, <2>1, RequestStep, SlotsUnchanged, SharedTyped
<1>4. ASSUME NEW a \in pool, Lift(a), Becomes(r, [s EXCEPT !.attempted = {}]) PROVE LoopInv'
  <2> DEFINE u == [s EXCEPT !.attempted = {}]
  <2>1. u \in ReqType /\ ReqOK(u)
    <3>1. u \in ReqType /\ u.pc = "select"
          /\ \A f \in {"pend", "kind", "rejected", "nays", "unsure", "transient", "limit"} : u[f] = s[f]
      BY <1>1 DEF ReqType, Pcs
    <3> HIDE DEF u
    <3> QED BY <1>1, <3>1, Between
  <2> QED BY <1>1, <1>4, <2>1, RequestStep, SlotsUnchanged, LiftTyped
<1>5. CASE Becomes(r, [s EXCEPT !.reconciled = TRUE, !.attempted = @ \ (s.own \cap lifted)]) /\ UNCHANGED shared
  <2> DEFINE u(tried) == [s EXCEPT !.reconciled = TRUE, !.attempted = tried]
  <2>1. ASSUME NEW tried \in SUBSET Accounts PROVE u(tried) \in ReqType /\ ReqOK(u(tried))
    <3>1. u(tried) \in ReqType /\ u(tried).pc = s.pc
          /\ \A f \in {"pend", "kind", "rejected", "nays", "unsure", "transient", "limit"} : u(tried)[f] = s[f]
      BY <1>1 DEF ReqType
    <3> HIDE DEF u
    <3> QED BY <1>1, <3>1, Between
  <2>2. s.attempted \ (s.own \cap lifted) \in SUBSET Accounts
    BY <1>1 DEF ReqType
  <2>3. PICK tried \in SUBSET Accounts : Becomes(r, u(tried))
    BY <1>5, <2>2
  <2> HIDE DEF u
  <2> QED BY <1>1, <1>5, <2>1, <2>3, RequestStep, SlotsUnchanged, SharedTyped
<1> QED BY <1>2, <1>3, <1>4, <1>5 DEF Reconcile

LEMMA RecoverKeeps ==
  ASSUME LoopInv, NEW r \in Requests, Recover(r)
  PROVE  LoopInv'
<1> DEFINE s == q[r]
<1>1. s \in ReqType /\ ReqOK(s) /\ s.pc = "select"
  BY DEF LoopInv, Recover, Nothing
<1>2. ASSUME NEW a \in pool, Lift(a), Becomes(r, [s EXCEPT !.recovered = TRUE, !.attempted = {}]) PROVE LoopInv'
  <2> DEFINE u == [s EXCEPT !.recovered = TRUE, !.attempted = {}]
  <2>1. u \in ReqType /\ ReqOK(u)
    <3>1. u \in ReqType /\ u.pc = "select"
          /\ \A f \in {"pend", "kind", "rejected", "nays", "unsure", "transient", "limit"} : u[f] = s[f]
      BY <1>1 DEF ReqType, Pcs
    <3> HIDE DEF u
    <3> QED BY <1>1, <3>1, Between
  <2> QED BY <1>1, <1>2, <2>1, RequestStep, SlotsUnchanged, LiftTyped
<1>3. CASE Becomes(r, [s EXCEPT !.recovered = TRUE, !.pc = "lost"]) /\ UNCHANGED shared
  <2> DEFINE u == [s EXCEPT !.recovered = TRUE, !.pc = "lost"]
  <2>1. u \in ReqType /\ ReqOK(u)
    <3>1. u \in ReqType /\ u.pc = "lost"
          /\ \A f \in {"pend", "kind", "rejected", "nays", "unsure", "transient", "limit"} : u[f] = s[f]
      BY <1>1 DEF ReqType, Pcs
    <3> HIDE DEF u
    <3> QED BY <1>1, <3>1, Between
  <2> QED BY <1>1, <1>3, <2>1, RequestStep, SlotsUnchanged, SharedTyped
<1> QED BY <1>2, <1>3 DEF Recover

LEMMA ReloadKeeps ==
  ASSUME LoopInv, NEW r \in Requests, ReloadCredentials(r) \/ GiveUp(r) \/ Exhausted(r)
  PROVE  LoopInv'
<1> DEFINE s == q[r]
<1>1. s \in ReqType /\ ReqOK(s) /\ SharedOK /\ UNCHANGED shared /\ s.pc \in {"select", "lost", "exhausted"}
  BY DEF LoopInv, ReloadCredentials, DeadEnd, Nothing, GiveUp, Exhausted
<1>2. CASE Answer(r)
  BY <1>1, <1>2, AnswerOK, SlotsUnchanged, SharedTyped
<1>3. CASE Becomes(r, [s EXCEPT !.pc = "exhausted", !.reloaded = TRUE])
  <2> DEFINE u == [s EXCEPT !.pc = "exhausted", !.reloaded = TRUE]
  <2>1. u \in ReqType /\ ReqOK(u)
    <3>1. u \in ReqType /\ u.pc = "exhausted"
          /\ \A f \in {"pend", "kind", "rejected", "nays", "unsure", "transient", "limit"} : u[f] = s[f]
      BY <1>1 DEF ReqType, Pcs
    <3> HIDE DEF u
    <3> QED BY <1>1, <3>1, Between
  <2> QED BY <1>1, <1>3, <2>1, RequestStep, SlotsUnchanged, SharedTyped
<1>4. CASE Becomes(r, [s EXCEPT !.pc = "exhausted"])
  <2> DEFINE u == [s EXCEPT !.pc = "exhausted"]
  <2>1. u \in ReqType /\ ReqOK(u)
    <3>1. u \in ReqType /\ u.pc = "exhausted"
          /\ \A f \in {"pend", "kind", "rejected", "nays", "unsure", "transient", "limit"} : u[f] = s[f]
      BY <1>1 DEF ReqType, Pcs
    <3> HIDE DEF u
    <3> QED BY <1>1, <3>1, Between
  <2> QED BY <1>1, <1>4, <2>1, RequestStep, SlotsUnchanged, SharedTyped
<1>5. CASE Stale(s) /\ Becomes(r, [Adopted(s) EXCEPT !.pc = "select", !.reloaded = TRUE])
  <2> DEFINE t == Adopted(s)
             u == [t EXCEPT !.pc = "select", !.reloaded = TRUE]
  <2>1. t \in ReqType /\ ReqOK(t) /\ t.pc = s.pc
    BY <1>1, <1>5, CurrentOK DEF Current
  <2> HIDE DEF t
  <2>2. u \in ReqType /\ u.pc = "select"
        /\ \A f \in {"pend", "kind", "rejected", "nays", "unsure", "transient", "limit"} : u[f] = t[f]
    BY <2>1 DEF ReqType, Pcs
  <2>4. t.limit \in 1..MostTries
    BY <2>1 DEF ReqOK
  <2>3. ReqOK(u)
    <3> HIDE DEF u
    <3> QED BY <1>1, <2>1, <2>2, <2>4, Between
  <2> QED BY <1>1, <1>5, <2>2, <2>3, RequestStep, SlotsUnchanged, SharedTyped DEF t
<1> QED BY <1>2, <1>3, <1>4, <1>5 DEF ReloadCredentials, GiveUp, Exhausted

LEMMA RecoverStaleKeeps ==
  ASSUME LoopInv, NEW r \in Requests, RecoverStale(r)
  PROVE  LoopInv'
<1> DEFINE s == q[r]
           next(g) == [s EXCEPT !.pc = "select", !.reloaded = TRUE, !.gen = g, !.rows = pool,
                                !.limit = PoolLimit(pool), !.attempted = {}, !.own = {}]
<1>1. s \in ReqType /\ ReqOK(s) /\ s.pc \in {"select", "lost"} /\ pool \in SUBSET Accounts
  BY DEF LoopInv, SharedOK, RecoverStale, DeadEnd, Nothing
<1>2. PoolLimit(pool) \in 1..MostTries /\ PoolLimit(pool) \in Nat
  BY <1>1, LimitBounds, LoopAssumption DEF MostTries
<1>3. ASSUME NEW g \in Nat PROVE next(g) \in ReqType /\ ReqOK(next(g))
  <2> DEFINE t == [s EXCEPT !.pc = "select", !.reloaded = TRUE, !.gen = g, !.rows = pool]
  <2>1. t \in ReqType /\ \A f \in {"pend", "kind", "rejected", "nays", "unsure", "transient"} : t[f] = s[f]
    BY <1>1 DEF ReqType, Pcs
  <2>2. t.pc = "select"
    BY <1>1 DEF ReqType
  <2> HIDE DEF t
  <2> DEFINE u == [t EXCEPT !.limit = PoolLimit(pool), !.attempted = {}, !.own = {}]
  <2>3. u \in ReqType /\ u.limit = PoolLimit(pool) /\ u.pc = t.pc
        /\ \A f \in {"pend", "kind", "rejected", "nays", "unsure", "transient"} : u[f] = t[f]
    BY <1>2, <2>1 DEF ReqType
  <2>4. ReqOK(u)
    <3> HIDE DEF u
    <3> QED BY <1>1, <1>2, <2>1, <2>2, <2>3, Between
  <2> QED BY <2>3, <2>4 DEF t
<1> HIDE DEF next
<1>4. gen \in Nat /\ gen + 1 \in Nat
  BY LoopAssumption DEF LoopInv, SharedOK
<1>5. CASE UNCHANGED shared
  <2>1. CASE Answer(r)
    BY <1>1, <1>5, <2>1, AnswerOK, SlotsUnchanged, SharedTyped
  <2>2. CASE Becomes(r, next(gen))
    BY <1>1, <1>3, <1>4, <1>5, <2>2, RequestStep, SlotsUnchanged, SharedTyped
  <2>3. CASE Becomes(r, [s EXCEPT !.pc = "exhausted"])
    <3> DEFINE u == [s EXCEPT !.pc = "exhausted"]
    <3>1. u \in ReqType /\ ReqOK(u)
      <4>1. u \in ReqType /\ u.pc = "exhausted"
            /\ \A f \in {"pend", "kind", "rejected", "nays", "unsure", "transient", "limit"} : u[f] = s[f]
        BY <1>1 DEF ReqType, Pcs
      <4> HIDE DEF u
      <4> QED BY <1>1, <4>1, Between
    <3> QED BY <1>1, <1>5, <2>3, <3>1, RequestStep, SlotsUnchanged, SharedTyped
  <2>4. CASE ~UNCHANGED gen
    BY <1>5, <2>4 DEF shared
  <2> QED BY <1>4, <1>5, <2>1, <2>2, <2>3, <2>4 DEF RecoverStale, next
<1>6. CASE gen < MaxSwaps /\ gen' = gen + 1
  <2>1. /\ acct' = [a \in Accounts |-> [acct[a] EXCEPT !.cooling = "none", !.limited = FALSE]]
        /\ bucket' = [a \in Accounts |-> MaxTokens]
        /\ circuit' = [a \in Accounts |-> "closed"] /\ slot' = [a \in Accounts |-> None]
        /\ UNCHANGED <<pool, lifted, resets>>
        /\ Answer(r) \/ Becomes(r, next(gen'))
    <3>1. ~UNCHANGED shared
      BY <1>4, <1>6 DEF shared
    <3> QED BY <3>1 DEF RecoverStale, next
  <2>2. SlotStep(r)
    BY <2>1, SlotFacts DEF SlotStep
  <2>3. acct' \in [Accounts -> AcctType]
    <3>1. acct \in [Accounts -> AcctType]
      BY DEF LoopInv, SharedOK
    <3>2. ASSUME NEW a \in Accounts PROVE [acct[a] EXCEPT !.cooling = "none", !.limited = FALSE] \in AcctType
      BY <3>1 DEF AcctType, Cooldowns
    <3> QED BY <2>1, <3>2
  <2>4. bucket' \in [Accounts -> 0..MaxTokens]
    <3>1. MaxTokens \in 0..MaxTokens
      BY LoopAssumption
    <3> QED BY <2>1, <3>1
  <2>5. pool' \subseteq Accounts /\ gen' \in 0..MaxSwaps /\ lifted' \subseteq Accounts /\ resets' \in 0..MaxResets
    <3>1. gen + 1 \in 0..MaxSwaps
      BY <1>4, <1>6, LoopAssumption
    <3> QED BY <1>6, <2>1, <3>1 DEF LoopInv, SharedOK
  <2>6. CASE Answer(r)
    <3>1. q[r].owed \in {0, 1}
      BY DEF LoopInv, ReqType
    <3> QED BY <2>2, <2>3, <2>4, <2>5, <2>6, <3>1, IdleOK, RequestStep DEF Answer
  <2>7. CASE Becomes(r, next(gen'))
    BY <1>3, <1>4, <1>6, <2>2, <2>3, <2>4, <2>5, <2>7, RequestStep
  <2> QED BY <2>1, <2>6, <2>7
<1>7. UNCHANGED shared \/ (gen < MaxSwaps /\ gen' = gen + 1)
  BY DEF RecoverStale
<1> QED BY <1>5, <1>6, <1>7

-----------------------------------------------------------------------------
(* The attempt is prepared. *)

\* An attempt that ends without an answer to the client.
LEMMA AttemptEnds ==
  ASSUME NEW s \in ReqType, ReqOK(s), Attempting(s), NEW u,
         u.pc \in {"select", "exhausted", "waiting"}, u.pc = "waiting" => u.owed = 0,
         u.kind = s.kind, u.limit = s.limit, u.transient = s.transient \/ u.transient = s.transient + 1,
         u.nays \subseteq u.rejected, u.unsure => s.unsure \/ mayResend(s),
         \A a \in Accounts : u.pend[a] \subseteq DOMAIN Scopes[a]
  PROVE  ReqOK(u)
<1>1. s.transient \in 0..MostTries /\ s.transient < MostTries /\ MostTries \in Nat
  BY LoopAssumption DEF ReqOK, MostTries
<1>2. u.transient \in 0..MostTries
  BY <1>1
<1>3. s.kind \in Kinds /\ (s.unsure => s.kind \in {"responses", "thread-goal"})
  BY DEF ReqOK, Attempting
<1>4. u.unsure => u.kind \in {"responses", "thread-goal"}
  BY <1>3, LoopAssumption DEF mayResend, Unretried
<1> QED BY <1>2, <1>3, <1>4 DEF ReqOK, Attempting

LEMMA RefreshFacts ==
  ASSUME LoopInv, NEW r \in Requests, Refreshing(r)
  PROVE  LET c == Current(q[r])
             u == Refunded(c)
         IN  /\ q[r] \in ReqType /\ ReqOK(q[r]) /\ Attempting(q[r])
             /\ c \in ReqType /\ ReqOK(c) /\ Attempting(c) /\ c.pc = "refresh"
             /\ c.at \in Accounts /\ c.at = q[r].at
             /\ u \in ReqType /\ u.owed = 0
             /\ \A f \in {"pc", "kind", "pin", "at", "ws", "pend", "attempted", "blocked", "rejected", "transient",
                          "limit", "unsure", "nays"} : u[f] = c[f]
             /\ \A a \in Accounts : u.pend[a] \subseteq DOMAIN Scopes[a]
<1> DEFINE s == q[r]
           c == Current(s)
<1>1. s \in ReqType /\ ReqOK(s) /\ s.pc = "refresh" /\ SharedOK
  BY DEF LoopInv, Refreshing
<1>2. c \in ReqType /\ ReqOK(c) /\ c.pc = "refresh" /\ c.at = s.at
  BY <1>1, CurrentOK
<1> HIDE DEF c
<1>3. Attempting(s) /\ Attempting(c) /\ c.at \in Accounts
  BY <1>1, <1>2 DEF Attempting, ReqOK
<1>4. /\ Refunded(c) \in ReqType /\ Refunded(c).owed = 0
      /\ \A f \in {"pc", "kind", "pin", "at", "ws", "pend", "attempted", "blocked", "rejected", "transient",
                   "limit", "unsure", "nays"} : Refunded(c)[f] = c[f]
  BY <1>2, <1>3, RefundedOK
<1>5. \A a \in Accounts : Refunded(c).pend[a] \subseteq DOMAIN Scopes[a]
  BY <1>2, <1>4 DEF ReqOK
<1> QED BY <1>1, <1>2, <1>3, <1>4, <1>5 DEF c

LEMMA CoolingTyped ==
  ASSUME LoopInv, NEW a \in Accounts
  PROVE  /\ AuthCooling(a, "auth-failure") \in [Accounts -> AcctType]
         /\ \A why \in Cooldowns : Cooling(a, why) \in [Accounts -> AcctType]
         /\ Revoking(a) \in [Accounts -> AcctType]
         /\ [acct EXCEPT ![a].limited = TRUE] \in [Accounts -> AcctType]
         /\ [acct EXCEPT ![a].dictated = TRUE] \in [Accounts -> AcctType]
         /\ [acct EXCEPT ![a].enabled = FALSE] \in [Accounts -> AcctType]
<1>1. acct \in [Accounts -> AcctType]
  BY DEF LoopInv, SharedOK
<1>2. AuthCooling(a, "auth-failure") \in [Accounts -> AcctType]
  BY <1>1 DEF AuthCooling, AcctType, Cooldowns
<1>3. \A why \in Cooldowns : Cooling(a, why) \in [Accounts -> AcctType]
  BY <1>1 DEF Cooling, AcctType
<1>4. Revoking(a) \in [Accounts -> AcctType]
  BY <1>1 DEF Revoking, AcctType, Cooldowns
<1>5. /\ [acct EXCEPT ![a].limited = TRUE] \in [Accounts -> AcctType]
      /\ [acct EXCEPT ![a].dictated = TRUE] \in [Accounts -> AcctType]
      /\ [acct EXCEPT ![a].enabled = FALSE] \in [Accounts -> AcctType]
  BY <1>1 DEF AcctType
<1> QED BY <1>2, <1>3, <1>4, <1>5

\* What a request may do to what is known of its account.
LEMMA AcctStep ==
  ASSUME LoopInv, NEW a \in Accounts,
         \/ UNCHANGED acct \/ acct' = AuthCooling(a, "auth-failure") \/ (\E why \in Cooldowns : acct' = Cooling(a, why))
         \/ acct' = Revoking(a)
         \/ acct' = [acct EXCEPT ![a].limited = TRUE] \/ acct' = [acct EXCEPT ![a].dictated = TRUE]
         \/ acct' = [acct EXCEPT ![a].enabled = FALSE]
  PROVE  acct' \in [Accounts -> AcctType]
<1>1. CASE UNCHANGED acct
  BY <1>1, Untouched
<1>2. CASE acct' = AuthCooling(a, "auth-failure")
  BY <1>2, CoolingTyped
<1>3. ASSUME NEW why \in Cooldowns, acct' = Cooling(a, why) PROVE acct' \in [Accounts -> AcctType]
  BY <1>3, CoolingTyped
<1>4. CASE acct' = Revoking(a)
  <2>1. Revoking(a) \in [Accounts -> AcctType]
    BY CoolingTyped
  <2> QED BY <1>4, <2>1
<1>5. CASE acct' = [acct EXCEPT ![a].limited = TRUE]
  <2>1. [acct EXCEPT ![a].limited = TRUE] \in [Accounts -> AcctType]
    BY CoolingTyped
  <2> QED BY <1>5, <2>1
<1>6. CASE acct' = [acct EXCEPT ![a].dictated = TRUE]
  <2>1. [acct EXCEPT ![a].dictated = TRUE] \in [Accounts -> AcctType]
    BY CoolingTyped
  <2> QED BY <1>6, <2>1
<1>7. CASE acct' = [acct EXCEPT ![a].enabled = FALSE]
  <2>1. [acct EXCEPT ![a].enabled = FALSE] \in [Accounts -> AcctType]
    BY CoolingTyped
  <2> QED BY <1>7, <2>1
<1> QED BY <1>1, <1>2, <1>3, <1>4, <1>5, <1>6, <1>7

LEMMA RefreshKeeps ==
  ASSUME LoopInv, NEW r \in Requests,
         \/ RefreshRestart(r) \/ RefusedLate(r) \/ RefreshUncoordinated(r) \/ RefreshRevoked(r)
         \/ \E retryable \in BOOLEAN : RefreshFailed(r, retryable)
         \/ CommitFailed(r)
  PROVE  LoopInv'
<1> DEFINE s == q[r]
           c == Current(s)
           w == Refunded(c)
<1>1. Refreshing(r)
  BY DEF RefreshRestart, RefusedLate, RefreshUncoordinated, RefreshRevoked, RefreshFailed, CommitFailed
<1>2. /\ s \in ReqType /\ ReqOK(s) /\ Attempting(s) /\ s.at \in Accounts /\ SharedOK
      /\ c \in ReqType /\ ReqOK(c) /\ Attempting(c) /\ c.at \in Accounts /\ c.at = s.at
      /\ w \in ReqType
      /\ \A f \in {"kind", "pend", "rejected", "transient", "limit", "unsure", "nays"} : w[f] = c[f]
      /\ \A a \in Accounts : w.pend[a] \subseteq DOMAIN Scopes[a]
  BY <1>1, RefreshFacts DEF LoopInv
<1>3. Refund(s) \/ Refund(c) => bucket' \in [Accounts -> 0..MaxTokens]
  BY <1>2, RefundTyped
<1>4. c.nays \subseteq c.rejected
  BY <1>2 DEF ReqOK
<1> HIDE DEF c, w
<1>5. ASSUME NEW n \in {w.transient, w.transient + 1}, NEW why \in Reasons
      PROVE  LET u == [w EXCEPT !.pc = "select", !.reason = why, !.transient = n] IN u \in ReqType /\ ReqOK(u)
  <2> DEFINE u == [w EXCEPT !.pc = "select", !.reason = why, !.transient = n]
  <2>0. n \in Nat
    BY <1>2 DEF ReqType
  <2>1. /\ u \in ReqType /\ u.pc = "select" /\ u.transient = n
        /\ \A f \in {"kind", "pend", "rejected", "limit", "unsure", "nays"} : u[f] = w[f]
    <3>1. u \in ReqType
      BY <1>2, <2>0 DEF ReqType, Pcs
    <3>2. /\ u.pc = "select" /\ u.transient = n
          /\ \A f \in {"kind", "pend", "rejected", "limit", "unsure", "nays"} : u[f] = w[f]
      BY <1>2 DEF ReqType
    <3> QED BY <3>1, <3>2
  <2> HIDE DEF u
  <2>2. ReqOK(u)
    BY <1>2, <1>4, <2>1, AttemptEnds
  <2> QED BY <2>1, <2>2 DEF u
<1>6. CASE RefreshRestart(r)
  <2>1. w.transient = w.transient /\ [w EXCEPT !.pc = "select", !.reason = "no-account", !.transient = w.transient]
                                   = [w EXCEPT !.pc = "select", !.reason = "no-account"]
    BY <1>2 DEF ReqType
  <2>2. /\ Becomes(r, [w EXCEPT !.pc = "select", !.reason = "no-account"]) /\ Refund(c)
        /\ releaseUnusedProbe(r, s.at) /\ UNCHANGED <<acct, circuit, managers>>
    BY <1>2, <1>6 DEF RefreshRestart, c, w
  <2>3. [w EXCEPT !.pc = "select", !.reason = "no-account"] \in ReqType /\ ReqOK([w EXCEPT !.pc = "select", !.reason = "no-account"])
    BY <1>5, <2>1 DEF Reasons
  <2> QED BY <1>3, <2>2, <2>3, RequestStep, SlotReleased, Untouched
<1>7. CASE RefusedLate(r)
  BY <1>7, AnswerOK, SlotReleased, Untouched DEF RefusedLate
<1>8. CASE RefreshUncoordinated(r)
  BY <1>2, <1>3, <1>8, AnswerRefundedOK, SlotReleased, Untouched DEF RefreshUncoordinated
<1>9. CASE RefreshRevoked(r)
  BY <1>2, <1>3, <1>9, AnswerRefundedOK, SlotAfterFailure, CoolingTyped DEF RefreshRevoked
<1>10. ASSUME NEW retryable \in BOOLEAN, RefreshFailed(r, retryable) PROVE LoopInv'
  <2>1. PICK n \in {w.transient, w.transient + 1} : Becomes(r, [w EXCEPT !.pc = "select", !.reason = "auth-failure", !.transient = n])
    <3>1. w.transient = (IF retryable THEN w.transient + 1 ELSE w.transient) \/ w.transient + 1 = (IF retryable THEN w.transient + 1 ELSE w.transient)
      OBVIOUS
    <3> QED BY <1>10, <3>1 DEF RefreshFailed, c, w
  <2>2. [w EXCEPT !.pc = "select", !.reason = "auth-failure", !.transient = n] \in ReqType
        /\ ReqOK([w EXCEPT !.pc = "select", !.reason = "auth-failure", !.transient = n])
    BY <1>5 DEF Reasons
  <2>3. Refund(c) /\ acct' = AuthCooling(s.at, "auth-failure") /\ recordFailure(s.at) /\ UNCHANGED managers
    BY <1>2, <1>10 DEF RefreshFailed, c
  <2> QED BY <1>2, <1>3, <2>1, <2>2, <2>3, RequestStep, SlotAfterFailure, CoolingTyped, Untouched
<1>11. CASE CommitFailed(r)
  <2> DEFINE u == [w EXCEPT !.pc = "select", !.reason = "auth-failure", !.transient = w.transient + 1]
  <2>1. Becomes(r, u)
    BY <1>11 DEF CommitFailed, c, w
  <2>2. u \in ReqType /\ ReqOK(u)
    BY <1>5 DEF Reasons
  <2>3. Refund(c) /\ acct' = Cooling(s.at, "auth-failure") /\ recordFailure(s.at) /\ UNCHANGED managers
    BY <1>2, <1>11 DEF CommitFailed, c
  <2>4. acct' \in [Accounts -> AcctType]
    BY <1>2, <2>3, CoolingTyped DEF Cooldowns
  <2> QED BY <1>2, <1>3, <2>1, <2>2, <2>3, <2>4, RequestStep, SlotAfterFailure, Untouched
<1> QED BY <1>6, <1>7, <1>8, <1>9, <1>10, <1>11

\* The place tried first is one of those left, and so are the others.
LEMMA ScopesLeftPlaces ==
  ASSUME NEW s \in ReqType, ReqOK(s), NEW a \in Accounts
  PROVE  /\ ScopesLeft(s, a) \subseteq DOMAIN Scopes[a] /\ ScopesLeft(s, a) \subseteq Nat
         /\ ScopesLeft(s, a) # {} => Scopes[a][Best(ScopesLeft(s, a))] \in Workspaces
<1>1. ScopesLeft(s, a) \subseteq DOMAIN Scopes[a] /\ ScopesLeft(s, a) \subseteq Nat
  BY PlacesAreNatural DEF ScopesLeft, Routable
<1> QED BY <1>1, BestIsOne, PlacesAreNatural

LEMMA NextWorkspaceOK ==
  ASSUME NEW s \in ReqType, s.at \in Accounts, NEW left, left \subseteq DOMAIN Scopes[s.at],
         \A a \in Accounts : s.pend[a] \subseteq DOMAIN Scopes[a]
  PROVE  LET u == NextWorkspace(s, left)
         IN  /\ u \in ReqType /\ \A a \in Accounts : u.pend[a] \subseteq DOMAIN Scopes[a]
             /\ \A f \in {"pc", "kind", "pin", "at", "rejected", "transient", "limit", "owed", "unsure", "nays"} : u[f] = s[f]
<1>1. left \in SUBSET Nat /\ Others(left) \in SUBSET Nat /\ Others(left) \subseteq left
  BY PlacesAreNatural DEF Others
<1>2. CASE Others(left) # {}
  <2> DEFINE u == [s EXCEPT !.pend[s.at] = Others(left), !.attempted = @ \ {s.at}]
  <2>1. u \in ReqType /\ u.pend = [s.pend EXCEPT ![s.at] = Others(left)]
        /\ \A f \in {"pc", "kind", "pin", "at", "rejected", "transient", "limit", "owed", "unsure", "nays"} : u[f] = s[f]
    BY <1>1 DEF ReqType
  <2>2. \A a \in Accounts : u.pend[a] \subseteq DOMAIN Scopes[a]
    BY <1>1, <2>1 DEF ReqType
  <2> QED BY <1>2, <2>1, <2>2 DEF NextWorkspace
<1>3. CASE Others(left) = {}
  <2> DEFINE u == [s EXCEPT !.pend[s.at] = left, !.blocked = @ \cup {s.at}]
  <2>1. u \in ReqType /\ u.pend = [s.pend EXCEPT ![s.at] = left]
        /\ \A f \in {"pc", "kind", "pin", "at", "rejected", "transient", "limit", "owed", "unsure", "nays"} : u[f] = s[f]
    BY <1>1 DEF ReqType
  <2>2. \A a \in Accounts : u.pend[a] \subseteq DOMAIN Scopes[a]
    BY <1>1, <2>1 DEF ReqType
  <2> QED BY <1>3, <2>1, <2>2 DEF NextWorkspace
<1> QED BY <1>2, <1>3

LEMMA PreparedKeeps ==
  ASSUME LoopInv, NEW r \in Requests, NotSendable(r) \/ SkipWorkspace(r) \/ Dispatch(r)
  PROVE  LoopInv'
<1> DEFINE s == q[r]
           c == Current(s)
           w == Refunded(c)
           left == ScopesLeft(c, c.at)
<1>1. Refreshing(r)
  BY DEF NotSendable, SkipWorkspace, Dispatch
<1>2. /\ s \in ReqType /\ ReqOK(s) /\ Attempting(s) /\ s.at \in Accounts /\ SharedOK
      /\ c \in ReqType /\ ReqOK(c) /\ Attempting(c) /\ c.pc = "refresh" /\ c.at \in Accounts /\ c.at = s.at
      /\ w \in ReqType /\ w.owed = 0 /\ w.at = c.at
      /\ \A f \in {"kind", "pin", "pend", "rejected", "transient", "limit", "unsure", "nays"} : w[f] = c[f]
      /\ \A a \in Accounts : w.pend[a] \subseteq DOMAIN Scopes[a]
  BY <1>1, RefreshFacts DEF LoopInv
<1>3. Refund(c) => bucket' \in [Accounts -> 0..MaxTokens]
  BY <1>2, RefundTyped
<1>4. c.nays \subseteq c.rejected
  BY <1>2 DEF ReqOK
<1>5. left \subseteq DOMAIN Scopes[c.at] /\ left \in SUBSET Nat /\ (left # {} => Scopes[c.at][Best(left)] \in Workspaces)
  BY <1>2, ScopesLeftPlaces
<1> HIDE DEF c, w, left
<1>6. CASE NotSendable(r)
  <2> DEFINE u(pc, tried, why) == [w EXCEPT !.pc = pc, !.attempted = tried, !.reason = why]
  <2>1. ASSUME NEW pc \in {"exhausted", "select"}, NEW tried \in SUBSET Accounts, NEW why \in Reasons
        PROVE  u(pc, tried, why) \in ReqType /\ ReqOK(u(pc, tried, why))
    <3>1. /\ u(pc, tried, why) \in ReqType /\ u(pc, tried, why).pc = pc
          /\ \A f \in {"kind", "pend", "rejected", "transient", "limit", "unsure", "nays"} : u(pc, tried, why)[f] = w[f]
      <4>0. w \in ReqType /\ pc \in Pcs
        BY <1>2 DEF Pcs
      <4>1. u(pc, tried, why) \in ReqType
        BY <4>0 DEF ReqType
      <4>2. /\ u(pc, tried, why).pc = pc
            /\ \A f \in {"kind", "pend", "rejected", "transient", "limit", "unsure", "nays"} : u(pc, tried, why)[f] = w[f]
        BY <1>2 DEF ReqType
      <4> QED BY <4>1, <4>2
    <3> HIDE DEF u
    <3> QED BY <1>2, <1>4, <3>1, AttemptEnds
  <2>2. w.attempted \in SUBSET Accounts /\ w.attempted \cup {c.at} \in SUBSET Accounts /\ w.reason \in Reasons
    BY <1>2 DEF ReqType
  <2>3. PICK pc \in {"exhausted", "select"}, tried \in SUBSET Accounts, why \in Reasons : Becomes(r, u(pc, tried, why))
    <3>1. PICK limited \in BOOLEAN :
             Becomes(r, [w EXCEPT !.pc = IF Pinned(c) THEN "exhausted" ELSE "select",
                                  !.attempted = IF limited THEN @ \cup {c.at} ELSE @,
                                  !.reason = IF limited THEN "rate-limit" ELSE @])
      BY <1>6 DEF NotSendable, c, w
    <3>2. /\ (IF Pinned(c) THEN "exhausted" ELSE "select") \in {"exhausted", "select"}
          /\ (IF limited THEN w.attempted \cup {c.at} ELSE w.attempted) \in SUBSET Accounts
          /\ (IF limited THEN "rate-limit" ELSE w.reason) \in Reasons
      BY <2>2 DEF Reasons
    <3>3. Becomes(r, u(IF Pinned(c) THEN "exhausted" ELSE "select",
                       IF limited THEN w.attempted \cup {c.at} ELSE w.attempted,
                       IF limited THEN "rate-limit" ELSE w.reason))
      BY <1>2, <3>1 DEF ReqType
    <3> HIDE DEF u
    <3> QED BY <3>2, <3>3
  <2> HIDE DEF u
  <2>4. Refund(c) /\ releaseUnusedProbe(r, s.at) /\ UNCHANGED <<acct, circuit, managers>>
    BY <1>2, <1>6 DEF NotSendable, c
  <2> QED BY <1>3, <2>1, <2>3, <2>4, RequestStep, SlotReleased, Untouched
<1>7. CASE SkipWorkspace(r)
  <2> DEFINE n == NextWorkspace(w, left)
             u == [n EXCEPT !.pc = "select"]
  <2>1. /\ n \in ReqType /\ \A a \in Accounts : n.pend[a] \subseteq DOMAIN Scopes[a]
        /\ \A f \in {"kind", "rejected", "transient", "limit", "unsure", "nays"} : n[f] = w[f]
    <3>1. w.at \in Accounts /\ left \subseteq DOMAIN Scopes[w.at]
      BY <1>2, <1>5
    <3> QED BY <1>2, <3>1, NextWorkspaceOK
  <2>2. Becomes(r, u) /\ Refund(c) /\ releaseUnusedProbe(r, s.at) /\ UNCHANGED <<acct, circuit, managers>>
    BY <1>2, <1>7 DEF SkipWorkspace, c, w, left
  <2> HIDE DEF n
  <2>3. /\ u \in ReqType /\ u.pc = "select"
        /\ \A f \in {"kind", "pend", "rejected", "transient", "limit", "unsure", "nays"} : u[f] = n[f]
    BY <2>1 DEF ReqType, Pcs
  <2>4. ReqOK(u)
    <3> HIDE DEF u
    <3> QED BY <1>2, <1>4, <2>1, <2>3, AttemptEnds
  <2> HIDE DEF u
  <2> QED BY <1>3, <2>2, <2>3, <2>4, RequestStep, SlotReleased, Untouched
<1>8. CASE Dispatch(r)
  <2> DEFINE ws == Scopes[c.at][Best(left)]
             u == [c EXCEPT !.pc = "sent", !.ws = ws, !.pend[c.at] = left]
  <2>1. /\ Becomes(r, u) /\ left # {} /\ ws \notin c.rejected
        /\ slot' = [slot EXCEPT ![s.at] = IF @ = r THEN "sent" ELSE @] /\ UNCHANGED <<acct, bucket, circuit, managers>>
    BY <1>2, <1>8 DEF Dispatch, Skipped, c, left
  <2>2. ws \in Workspaces
    BY <1>5, <2>1
  <2> HIDE DEF ws
  <2>3. /\ u \in ReqType /\ u.pc = "sent" /\ u.ws = ws /\ u.pend = [c.pend EXCEPT ![c.at] = left]
        /\ \A f \in {"kind", "pin", "at", "rejected", "transient", "limit", "owed", "unsure", "nays"} : u[f] = c[f]
    <3>1. ws \in Workspaces \cup {None} /\ [c.pend EXCEPT ![c.at] = left] \in [Accounts -> SUBSET Nat]
      BY <1>2, <1>5, <2>2 DEF ReqType
    <3>2. u = [c EXCEPT !.pc = "sent", !.ws = ws, !.pend = [c.pend EXCEPT ![c.at] = left]]
      BY <1>2 DEF ReqType
    <3> DEFINE pend == [c.pend EXCEPT ![c.at] = left]
    <3>3. u = [c EXCEPT !.pc = "sent", !.ws = ws, !.pend = pend] /\ pend \in [Accounts -> SUBSET Nat]
      BY <3>1, <3>2
    <3> HIDE DEF pend, u
    <3>0. c \in ReqType /\ "sent" \in Pcs
      BY <1>2 DEF Pcs
    <3>4. u \in ReqType
      BY <3>0, <3>1, <3>3 DEF ReqType
    <3>5. u.pc = "sent" /\ u.ws = ws /\ u.pend = pend
      BY <1>2, <3>3 DEF ReqType
    <3>6. \A f \in {"kind", "pin", "at", "rejected", "transient", "limit", "owed", "unsure", "nays"} : u[f] = c[f]
      BY <1>2, <3>3 DEF ReqType
    <3> QED BY <3>4, <3>5, <3>6 DEF pend
  <2>4. \A a \in Accounts : u.pend[a] \subseteq DOMAIN Scopes[a]
    BY <1>2, <1>5, <2>3 DEF ReqOK, ReqType
  <2>5. ReqOK(u)
    <3> HIDE DEF u
    <3> QED BY <1>2, <2>1, <2>2, <2>3, <2>4 DEF ReqOK, Attempting, Bypass, Pinned, Routed
  <2>6. SlotStep(r)
    BY <1>2, <2>1, SlotFacts DEF LoopInv, SharedOK, SlotsOK, SlotStep
  <2> HIDE DEF u
  <2> QED BY <2>1, <2>3, <2>5, <2>6, RequestStep, Untouched
<1> QED BY <1>6, <1>7, <1>8

-----------------------------------------------------------------------------
(* Upstream has the attempt. *)

LEMMA SentFacts ==
  ASSUME LoopInv, NEW r \in Requests, Sent(r)
  PROVE  LET s == q[r]
             w == Refunded(s)
         IN  /\ s \in ReqType /\ ReqOK(s) /\ Attempting(s) /\ s.pc = "sent" /\ s.at \in Accounts /\ s.ws \in Workspaces
             /\ s.nays \subseteq s.rejected /\ s.kind \in Kinds /\ s.transient \in Nat
             /\ w \in ReqType /\ w.owed = 0 /\ w.at = s.at
             /\ \A f \in {"pc", "kind", "pin", "at", "ws", "pend", "attempted", "blocked", "rejected", "transient",
                          "limit", "unsure", "nays"} : w[f] = s[f]
             /\ \A a \in Accounts : s.pend[a] \subseteq DOMAIN Scopes[a] /\ w.pend[a] \subseteq DOMAIN Scopes[a]
             /\ Refund(s) => bucket' \in [Accounts -> 0..MaxTokens]
<1> DEFINE s == q[r]
<1>1. s \in ReqType /\ ReqOK(s) /\ s.pc = "sent" /\ SharedOK
  BY DEF LoopInv, Sent
<1>2. Attempting(s) /\ s.at \in Accounts /\ s.ws \in Workspaces /\ s.nays \subseteq s.rejected /\ s.kind \in Kinds
      /\ \A a \in Accounts : s.pend[a] \subseteq DOMAIN Scopes[a]
  BY <1>1 DEF Attempting, ReqOK
<1>3. s.transient \in Nat
  BY <1>1 DEF ReqType
<1>4. /\ Refunded(s) \in ReqType /\ Refunded(s).owed = 0
      /\ \A f \in {"pc", "kind", "pin", "at", "ws", "pend", "attempted", "blocked", "rejected", "transient",
                   "limit", "unsure", "nays"} : Refunded(s)[f] = s[f]
  BY <1>1, <1>2, RefundedOK
<1>5. Refund(s) => bucket' \in [Accounts -> 0..MaxTokens]
  BY <1>1, <1>2, RefundTyped
<1> QED BY <1>1, <1>2, <1>3, <1>4, <1>5

\* The attempt is over and the request goes back to the selection.
LEMMA BackToSelection ==
  ASSUME NEW s \in ReqType, ReqOK(s), Attempting(s), NEW w \in ReqType,
         w.kind = s.kind, w.limit = s.limit, w.transient = s.transient,
         w.nays \subseteq w.rejected, w.unsure => s.unsure \/ mayResend(s),
         \A a \in Accounts : w.pend[a] \subseteq DOMAIN Scopes[a],
         NEW n \in {w.transient, w.transient + 1}, NEW why \in Reasons
  PROVE  LET u == [w EXCEPT !.pc = "select", !.transient = n, !.reason = why] IN u \in ReqType /\ ReqOK(u)
<1> DEFINE u == [w EXCEPT !.pc = "select", !.transient = n, !.reason = why]
<1>1. n \in Nat /\ "select" \in Pcs
  BY DEF ReqType, Pcs
<1>2. u \in ReqType
  BY <1>1 DEF ReqType
<1>3. u.pc = "select" /\ u.transient = n
  BY DEF ReqType
<1>4. \A f \in {"kind", "limit", "nays", "rejected", "unsure", "pend"} : u[f] = w[f]
  BY DEF ReqType
<1> HIDE DEF u
<1>5. ReqOK(u)
  BY <1>3, <1>4, AttemptEnds
<1> QED BY <1>2, <1>5 DEF u

LEMMA AnsweredKeeps ==
  ASSUME LoopInv, NEW r \in Requests, ClientGone(r) \/ ForwardAnswer(r) \/ Revoked(r)
  PROVE  LoopInv'
<1> DEFINE s == q[r]
<1>1. Sent(r)
  BY DEF ClientGone, ForwardAnswer, Revoked
<1>2. s.pc = "sent" /\ Attempting(s) /\ s.at \in Accounts /\ (Refund(s) => bucket' \in [Accounts -> 0..MaxTokens])
  BY <1>1, SentFacts
<1>3. CASE ClientGone(r)
  BY <1>1, <1>3, SentFacts, AnswerRefundedOK, SlotsUnchanged, Untouched DEF ClientGone
<1>4. CASE ForwardAnswer(r)
  BY <1>1, <1>4, SentFacts, AnswerOK, SlotsUnchanged, SharedTyped DEF ForwardAnswer, Forward
<1>5. CASE Revoked(r)
  <2>1. acct' \in [Accounts -> AcctType]
    <3>1. acct' = Revoking(s.at) \/ UNCHANGED acct
      BY <1>5 DEF Revoked
    <3> QED BY <1>2, <3>1, AcctStep
  <2>2. SlotStep(r)
    BY <1>1, <1>5, SentFacts, SlotAfterFailure, SlotsUnchanged DEF Revoked
  <2> QED BY <1>1, <1>5, <2>1, <2>2, SentFacts, AnswerRefundedOK DEF Revoked
<1> QED BY <1>3, <1>4, <1>5

LEMMA TransportKeeps ==
  ASSUME LoopInv, NEW r \in Requests, TransportError(r)
  PROVE  LoopInv'
<1> DEFINE s == q[r]
           w == Refunded(s)
           v == [w EXCEPT !.unsure = TRUE]
<1>1. /\ s \in ReqType /\ ReqOK(s) /\ Attempting(s) /\ s.pc = "sent" /\ s.at \in Accounts
      /\ s.nays \subseteq s.rejected /\ w \in ReqType
      /\ \A f \in {"kind", "pend", "rejected", "transient", "limit", "nays"} : w[f] = s[f]
      /\ \A a \in Accounts : w.pend[a] \subseteq DOMAIN Scopes[a]
      /\ bucket' \in [Accounts -> 0..MaxTokens]
  BY SentFacts DEF TransportError
<1>2. CASE ~mayResend(s)
  BY <1>1, <1>2, AnswerRefundedOK, SlotsUnchanged, Untouched DEF TransportError
<1>3. CASE mayResend(s)
  <2>1. Becomes(r, [Transient(w, "network-error") EXCEPT !.unsure = TRUE]) /\ acct' = Cooling(s.at, "network-error")
        /\ UNCHANGED <<circuit, slot, managers>>
    BY <1>3 DEF TransportError
  <2> HIDE DEF w
  <2> DEFINE u == [v EXCEPT !.pc = "select", !.transient = v.transient + 1, !.reason = "network-error"]
  <2>2. v \in ReqType /\ \A f \in {"kind", "pend", "rejected", "transient", "limit", "nays"} : v[f] = w[f]
    BY <1>1 DEF ReqType
  <2>3. Becomes(r, u)
    BY <1>1, <2>1 DEF Transient, ReqType
  <2> HIDE DEF v
  <2>4. v.nays \subseteq v.rejected /\ \A a \in Accounts : v.pend[a] \subseteq DOMAIN Scopes[a]
    BY <1>1, <2>2
  <2>5. u \in ReqType /\ ReqOK(u)
    <3>1. v.kind = s.kind /\ v.limit = s.limit /\ v.transient = s.transient /\ "network-error" \in Reasons
      BY <1>1, <2>2 DEF Reasons
    <3> QED BY <1>1, <1>3, <2>2, <2>4, <3>1, BackToSelection
  <2>6. acct' \in [Accounts -> AcctType]
    BY <1>1, <2>1, CoolingTyped DEF Cooldowns
  <2> HIDE DEF u
  <2> QED BY <1>1, <2>1, <2>3, <2>5, <2>6, RequestStep, SlotsUnchanged, Untouched
<1> QED BY <1>2, <1>3

LEMMA CapabilityKeeps ==
  ASSUME LoopInv, NEW r \in Requests, CapabilityRejected(r)
  PROVE  LoopInv'
<1> DEFINE s == q[r]
           w == Refunded(s)
           said == [w EXCEPT !.rejected = @ \cup {s.ws}, !.nays = @ \cup {s.ws}, !.pc = "select"]
           left == s.pend[s.at]
           u == NextWorkspace(said, left)
<1>1. /\ s \in ReqType /\ ReqOK(s) /\ Attempting(s) /\ s.pc = "sent" /\ s.at \in Accounts /\ s.ws \in Workspaces
      /\ s.nays \subseteq s.rejected /\ w \in ReqType /\ w.at = s.at
      /\ \A f \in {"kind", "pend", "rejected", "transient", "limit", "unsure", "nays"} : w[f] = s[f]
      /\ \A a \in Accounts : w.pend[a] \subseteq DOMAIN Scopes[a]
      /\ bucket' \in [Accounts -> 0..MaxTokens] /\ UNCHANGED <<acct, circuit, slot, managers>>
      /\ AnswerRefunded(r) \/ Becomes(r, u)
  BY SentFacts DEF CapabilityRejected
<1>2. CASE AnswerRefunded(r)
  BY <1>1, <1>2, AnswerRefundedOK, SlotsUnchanged, Untouched
<1>3. CASE Becomes(r, u)
  <2> HIDE DEF w
  <2>1. /\ said \in ReqType /\ said.pc = "select" /\ said.at = s.at /\ said.nays \subseteq said.rejected
        /\ \A f \in {"kind", "pend", "transient", "limit", "unsure"} : said[f] = w[f]
    <3>1. w.rejected \cup {s.ws} \in SUBSET Workspaces /\ w.nays \cup {s.ws} \in SUBSET Workspaces
      BY <1>1 DEF ReqType
    <3>2. said \in ReqType /\ said.pc = "select" /\ said.at = w.at
      BY <1>1, <3>1 DEF ReqType, Pcs
    <3>3. said.rejected = w.rejected \cup {s.ws} /\ said.nays = w.nays \cup {s.ws}
          /\ \A f \in {"kind", "pend", "transient", "limit", "unsure"} : said[f] = w[f]
      BY <1>1 DEF ReqType
    <3>4. said.nays \subseteq said.rejected
      BY <1>1, <3>3
    <3> QED BY <1>1, <3>2, <3>3, <3>4
  <2> HIDE DEF said
  <2>2. left \subseteq DOMAIN Scopes[said.at] /\ said.at \in Accounts /\ \A a \in Accounts : said.pend[a] \subseteq DOMAIN Scopes[a]
    BY <1>1, <2>1
  <2>3. /\ u \in ReqType /\ \A a \in Accounts : u.pend[a] \subseteq DOMAIN Scopes[a]
        /\ \A f \in {"pc", "kind", "rejected", "transient", "limit", "unsure", "nays"} : u[f] = said[f]
    BY <2>1, <2>2, NextWorkspaceOK
  <2> HIDE DEF u
  <2>4. ReqOK(u)
    BY <1>1, <2>1, <2>3, AttemptEnds
  <2> QED BY <1>1, <1>3, <2>3, <2>4, RequestStep, SlotsUnchanged, Untouched
<1> QED BY <1>1, <1>2, <1>3

LEMMA LimitKeeps ==
  ASSUME LoopInv, NEW r \in Requests, RateLimited(r) \/ CapacityOver(r)
  PROVE  LoopInv'
<1> DEFINE s == q[r]
           v == [s EXCEPT !.own = @ \cup {s.at}]
           u(n) == [v EXCEPT !.pc = "select", !.transient = n, !.reason = "rate-limit"]
<1>1. Sent(r)
  BY DEF RateLimited, CapacityOver
<1>2. /\ s \in ReqType /\ ReqOK(s) /\ Attempting(s) /\ s.pc = "sent" /\ s.at \in Accounts
      /\ s.nays \subseteq s.rejected /\ \A a \in Accounts : s.pend[a] \subseteq DOMAIN Scopes[a]
  BY <1>1, SentFacts
<1>3. CASE Answer(r) /\ UNCHANGED bucket /\ RateLimited(r)
  <2>1. acct' \in [Accounts -> AcctType] /\ bucket' \in [Accounts -> 0..MaxTokens] /\ SlotStep(r)
    <3>1. acct' = [acct EXCEPT ![s.at].dictated = TRUE] \/ UNCHANGED acct \/ acct' = [acct EXCEPT ![s.at].limited = TRUE]
      BY <1>3 DEF RateLimited
    <3>2. UNCHANGED <<circuit, slot>>
      BY <1>3 DEF RateLimited
    <3>3. acct' \in [Accounts -> AcctType]
      BY <1>2, <3>1, AcctStep
    <3> QED BY <1>2, <1>3, <3>2, <3>3, Untouched, SlotsUnchanged
  <2>2. pool' \subseteq Accounts /\ gen' \in 0..MaxSwaps /\ lifted' \subseteq Accounts /\ resets' \in 0..MaxResets
    BY <1>3 DEF RateLimited, LoopInv, SharedOK
  <2>3. q[r].owed \in {0, 1}
    BY <1>2 DEF ReqType
  <2> QED BY <1>3, <2>1, <2>2, <2>3, IdleOK, RequestStep DEF Answer
<1>4. ASSUME NEW n \in {s.transient, s.transient + 1}, Becomes(r, u(n)),
             acct' = [acct EXCEPT ![s.at].limited = TRUE], bucket' = [bucket EXCEPT ![s.at] = Drained(@)],
             lifted' = lifted \ {s.at}, UNCHANGED <<circuit, slot, pool, gen, resets>>
      PROVE  LoopInv'
  <2>1. /\ v \in ReqType
        /\ \A f \in {"kind", "pend", "rejected", "transient", "limit", "unsure", "nays"} : v[f] = s[f]
    BY <1>2 DEF ReqType
  <2> HIDE DEF v
  <2>2. u(n) \in ReqType /\ ReqOK(u(n))
    <3>1. /\ v.kind = s.kind /\ v.limit = s.limit /\ v.transient = s.transient /\ v.nays \subseteq v.rejected
          /\ (v.unsure => s.unsure) /\ (\A a \in Accounts : v.pend[a] \subseteq DOMAIN Scopes[a])
          /\ "rate-limit" \in Reasons
      BY <1>2, <2>1 DEF Reasons
    <3> QED BY <1>2, <1>4, <2>1, <3>1, BackToSelection
  <2>3. acct' \in [Accounts -> AcctType] /\ SlotStep(r)
    BY <1>2, <1>4, CoolingTyped, SlotsUnchanged
  <2>4. bucket' \in [Accounts -> 0..MaxTokens]
    BY <1>2, <1>4, DrainedTyped DEF LoopInv, SharedOK
  <2>5. pool' \subseteq Accounts /\ gen' \in 0..MaxSwaps /\ lifted' \subseteq Accounts /\ resets' \in 0..MaxResets
    BY <1>4 DEF LoopInv, SharedOK
  <2> HIDE DEF u
  <2> QED BY <1>4, <2>2, <2>3, <2>4, <2>5, RequestStep
<1>5. CASE RateLimited(r) /\ s.kind \notin OwnLimits
  <2>1. PICK n \in {s.transient, s.transient + 1} :
           Becomes(r, [s EXCEPT !.pc = "select", !.own = @ \cup {s.at}, !.reason = "rate-limit", !.transient = n])
    <3>1. (IF Pinned(s) THEN s.transient + 1 ELSE s.transient) \in {s.transient, s.transient + 1}
      OBVIOUS
    <3> QED BY <1>5, <3>1 DEF RateLimited
  <2>2. Becomes(r, u(n))
    <3>1. [s EXCEPT !.pc = "select", !.own = @ \cup {s.at}, !.reason = "rate-limit", !.transient = n] = u(n)
      BY <1>2 DEF ReqType
    <3> QED BY <2>1, <3>1
  <2> QED BY <1>4, <1>5, <2>2 DEF RateLimited
<1>6. CASE CapacityOver(r)
  <2>1. [Transient(s, "rate-limit") EXCEPT !.own = @ \cup {s.at}] = u(s.transient + 1)
    BY <1>2 DEF ReqType, Transient
  <2> QED BY <1>4, <1>6, <2>1 DEF CapacityOver
<1> QED BY <1>3, <1>5, <1>6 DEF RateLimited

LEMMA CapacityKeeps ==
  ASSUME LoopInv, NEW r \in Requests, AtCapacity(r) \/ Waited(r)
  PROVE  LoopInv'
<1> DEFINE s == q[r]
           w == Refunded(s)
<1>1. CASE AtCapacity(r)
  <2> DEFINE u(n, tried) == [w EXCEPT !.pc = "waiting", !.capacity = n, !.attempted = tried]
  <2>1. /\ s \in ReqType /\ ReqOK(s) /\ Attempting(s) /\ s.pc = "sent" /\ s.nays \subseteq s.rejected
        /\ w \in ReqType /\ w.owed = 0
        /\ \A f \in {"kind", "pend", "rejected", "transient", "limit", "unsure", "nays"} : w[f] = s[f]
        /\ \A a \in Accounts : w.pend[a] \subseteq DOMAIN Scopes[a]
        /\ bucket' \in [Accounts -> 0..MaxTokens] /\ UNCHANGED <<acct, circuit, slot, managers>>
    BY <1>1, SentFacts DEF AtCapacity, waitOutModelCapacity
  <2>2. Becomes(r, u(w.capacity + 1, w.attempted \ {s.at}))
    BY <1>1 DEF AtCapacity, waitOutModelCapacity
  <2> HIDE DEF w
  <2>3. w.capacity + 1 \in Nat /\ w.attempted \ {s.at} \in SUBSET Accounts
    BY <2>1 DEF ReqType
  <2>4. ASSUME NEW n \in Nat, NEW tried \in SUBSET Accounts PROVE u(n, tried) \in ReqType /\ ReqOK(u(n, tried))
    <3>1. w \in ReqType /\ "waiting" \in Pcs
      BY <2>1 DEF Pcs
    <3>2. u(n, tried) \in ReqType
      BY <3>1 DEF ReqType
    <3>3. /\ u(n, tried).pc = "waiting" /\ u(n, tried).owed = w.owed
          /\ \A f \in {"kind", "pend", "rejected", "transient", "limit", "unsure", "nays"} : u(n, tried)[f] = w[f]
      BY <3>1 DEF ReqType
    <3> HIDE DEF u
    <3>4. ReqOK(u(n, tried))
      BY <2>1, <3>3, AttemptEnds
    <3> QED BY <3>2, <3>4
  <2> HIDE DEF u
  <2> QED BY <2>1, <2>2, <2>3, <2>4, RequestStep, SlotsUnchanged, Untouched
<1>2. CASE Waited(r)
  <2>1. s \in ReqType /\ ReqOK(s) /\ s.pc = "waiting" /\ UNCHANGED shared
    BY <1>2 DEF Waited, LoopInv
  <2>2. CASE Answer(r)
    BY <2>1, <2>2, AnswerOK, SlotsUnchanged, SharedTyped
  <2>3. CASE Becomes(r, [s EXCEPT !.pc = "select"])
    <3> DEFINE u == [s EXCEPT !.pc = "select"]
    <3>1. u \in ReqType /\ u.pc = "select"
          /\ \A f \in {"kind", "pend", "rejected", "transient", "limit", "unsure", "nays"} : u[f] = s[f]
      BY <2>1 DEF ReqType, Pcs
    <3> HIDE DEF u
    <3>2. ReqOK(u)
      BY <2>1, <3>1, Between
    <3> QED BY <2>1, <2>3, <3>1, <3>2, RequestStep, SlotsUnchanged, SharedTyped DEF u
  <2> QED BY <1>2, <2>2, <2>3 DEF Waited
<1> QED BY <1>1, <1>2

LEMMA DisabledKeeps ==
  ASSUME LoopInv, NEW r \in Requests, WorkspaceDisabled(r) \/ AccountDisabled(r)
  PROVE  LoopInv'
<1> DEFINE s == q[r]
           w == Refunded(s)
<1>1. Sent(r) /\ Refund(s)
  BY DEF WorkspaceDisabled, AccountDisabled
<1>2. /\ s \in ReqType /\ ReqOK(s) /\ Attempting(s) /\ s.pc = "sent" /\ s.at \in Accounts /\ s.ws \in Workspaces
      /\ s.nays \subseteq s.rejected /\ w \in ReqType
      /\ \A f \in {"kind", "pend", "rejected", "transient", "limit", "unsure", "nays"} : w[f] = s[f]
      /\ \A a \in Accounts : s.pend[a] \subseteq DOMAIN Scopes[a] /\ w.pend[a] \subseteq DOMAIN Scopes[a]
      /\ bucket' \in [Accounts -> 0..MaxTokens]
  BY <1>1, SentFacts
<1>3. CASE WorkspaceDisabled(r)
  <2> DEFINE rest == Others(s.pend[s.at])
             v(tried, no) == [w EXCEPT !.pc = "select", !.pend[s.at] = rest, !.attempted = tried, !.blocked = no]
  <2>1. PICK tried \in SUBSET Accounts, no \in SUBSET Accounts : Becomes(r, v(tried, no))
    <3>1. w.attempted \in SUBSET Accounts /\ w.attempted \ {s.at} \in SUBSET Accounts
          /\ w.blocked \in SUBSET Accounts /\ w.blocked \cup {s.at} \in SUBSET Accounts
      BY <1>2 DEF ReqType
    <3>2. Becomes(r, v(IF rest # {} THEN w.attempted \ {s.at} ELSE w.attempted, IF rest # {} THEN w.blocked ELSE w.blocked \cup {s.at}))
      BY <1>3 DEF WorkspaceDisabled
    <3> HIDE DEF v, rest, w
    <3>3. (IF rest # {} THEN w.attempted \ {s.at} ELSE w.attempted) \in SUBSET Accounts
          /\ (IF rest # {} THEN w.blocked ELSE w.blocked \cup {s.at}) \in SUBSET Accounts
      BY <3>1
    <3> QED BY <3>2, <3>3
  <2>2. acct' = [acct EXCEPT ![s.at].dead = @ \cup {s.ws}] /\ UNCHANGED <<circuit, slot, managers>>
    BY <1>3 DEF WorkspaceDisabled
  <2>3. acct' \in [Accounts -> AcctType]
    BY <1>2, <2>2 DEF LoopInv, SharedOK, AcctType
  <2> HIDE DEF w
  <2>4. rest \in SUBSET Nat /\ rest \subseteq DOMAIN Scopes[s.at]
    BY <1>2, PlacesAreNatural DEF Others
  <2> HIDE DEF rest
  <2> DEFINE pend == [w.pend EXCEPT ![s.at] = rest]
             u == v(tried, no)
  <2>5. pend \in [Accounts -> SUBSET Nat] /\ \A a \in Accounts : pend[a] \subseteq DOMAIN Scopes[a]
    BY <1>2, <2>4 DEF ReqType
  <2>6. u = [w EXCEPT !.pc = "select", !.pend = pend, !.attempted = tried, !.blocked = no]
    BY <1>2 DEF ReqType
  <2> HIDE DEF pend, u
  <2>7. w \in ReqType /\ "select" \in Pcs
    BY <1>2 DEF Pcs
  <2>8. u \in ReqType
    BY <2>5, <2>6, <2>7 DEF ReqType
  <2>9. u.pc = "select" /\ u.pend = pend /\ \A f \in {"kind", "rejected", "transient", "limit", "unsure", "nays"} : u[f] = w[f]
    BY <2>6, <2>7 DEF ReqType
  <2>10. ReqOK(u)
    BY <1>2, <2>5, <2>9, AttemptEnds
  <2>11. Becomes(r, u)
    BY <2>1 DEF u
  <2> QED BY <1>2, <2>2, <2>3, <2>8, <2>10, <2>11, RequestStep, SlotsUnchanged, Untouched
<1>4. CASE AccountDisabled(r)
  <2> DEFINE u == [w EXCEPT !.pc = "select", !.transient = w.transient, !.reason = "deactivated"]
  <2>1. acct' \in [Accounts -> AcctType] /\ SlotStep(r) /\ UNCHANGED managers
    <3>1. /\ (acct' = [acct EXCEPT ![s.at].enabled = FALSE] /\ recordFailure(s.at)) \/ UNCHANGED <<circuit, slot, acct>>
          /\ UNCHANGED managers
      BY <1>4 DEF AccountDisabled
    <3>2. acct' \in [Accounts -> AcctType]
      BY <1>2, <3>1, AcctStep
    <3> QED BY <1>2, <3>1, <3>2, SlotAfterFailure, SlotsUnchanged
  <2>2. Becomes(r, [w EXCEPT !.pc = "select", !.reason = "deactivated"])
    BY <1>4 DEF AccountDisabled
  <2> HIDE DEF w
  <2>3. Becomes(r, u)
    BY <1>2, <2>2 DEF ReqType
  <2>4. u \in ReqType /\ ReqOK(u)
    BY <1>2, BackToSelection DEF Reasons
  <2> HIDE DEF u
  <2> QED BY <1>2, <2>1, <2>3, <2>4, RequestStep, Untouched
<1> QED BY <1>3, <1>4

LEMMA ErrorKeeps ==
  ASSUME LoopInv, NEW r \in Requests, Unauthorized(r) \/ ServerError(r)
  PROVE  LoopInv'
<1> DEFINE s == q[r]
           w == Refunded(s)
           u(why) == [w EXCEPT !.pc = "select", !.transient = w.transient + 1, !.reason = why]
<1>1. Sent(r) /\ Refund(s)
  BY DEF Unauthorized, ServerError
<1>2. /\ s \in ReqType /\ ReqOK(s) /\ Attempting(s) /\ s.pc = "sent" /\ s.at \in Accounts
      /\ s.nays \subseteq s.rejected /\ w \in ReqType
      /\ \A f \in {"kind", "pend", "rejected", "transient", "limit", "unsure", "nays"} : w[f] = s[f]
      /\ \A a \in Accounts : w.pend[a] \subseteq DOMAIN Scopes[a]
      /\ bucket' \in [Accounts -> 0..MaxTokens]
  BY <1>1, SentFacts
<1>3. \A why \in Reasons : u(why) \in ReqType /\ ReqOK(u(why))
  <2> HIDE DEF w
  <2> QED BY <1>2, BackToSelection
<1>4. CASE AnswerRefunded(r) /\ UNCHANGED <<acct, circuit, slot, managers>>
  BY <1>2, <1>4, AnswerRefundedOK, SlotsUnchanged, Untouched
<1>5. ASSUME NEW why \in {"auth-failure", "server-error"}, Becomes(r, Transient(w, why)), UNCHANGED managers,
             \/ (acct' = AuthCooling(s.at, "auth-failure") \/ acct' = Cooling(s.at, "server-error")) /\ recordFailure(s.at)
             \/ UNCHANGED <<acct, circuit, slot>>
      PROVE  LoopInv'
  <2>1. Becomes(r, u(why)) /\ why \in Reasons
    BY <1>5 DEF Transient, Reasons
  <2>2. acct' \in [Accounts -> AcctType]
    BY <1>2, <1>5, AcctStep DEF Cooldowns
  <2>3. SlotStep(r)
    BY <1>2, <1>5, SlotAfterFailure, SlotsUnchanged
  <2> HIDE DEF u
  <2> QED BY <1>2, <1>3, <1>5, <2>1, <2>2, <2>3, RequestStep, Untouched
<1>6. CASE Unauthorized(r)
  BY <1>4, <1>5, <1>6 DEF Unauthorized
<1>7. CASE ServerError(r)
  BY <1>5, <1>7 DEF ServerError
<1> QED BY <1>6, <1>7

-----------------------------------------------------------------------------
(* The answer streams, and the rest of the world. *)

LEMMA StreamKeeps ==
  ASSUME LoopInv, NEW r \in Requests,
         (\E nearExhaustion \in BOOLEAN : Headers(r, nearExhaustion)) \/ StreamDone(r) \/ StreamBroken(r) \/ StreamAbandoned(r)
  PROVE  LoopInv'
<1> DEFINE s == q[r]
<1>1. ASSUME NEW nearExhaustion \in BOOLEAN, Headers(r, nearExhaustion) PROVE LoopInv'
  <2> DEFINE u == [s EXCEPT !.pc = "stream"]
  <2>1. s \in ReqType /\ ReqOK(s) /\ s.pc = "sent" /\ s.at \in Accounts
    BY <1>1, SentFacts DEF Headers
  <2>2. u \in ReqType /\ u.pc = "stream"
        /\ \A f \in {"kind", "pin", "at", "pend", "rejected", "transient", "limit", "unsure", "nays"} : u[f] = s[f]
    BY <2>1 DEF ReqType, Pcs
  <2>3. Becomes(r, u) /\ (UNCHANGED acct \/ acct' = [acct EXCEPT ![s.at].limited = TRUE]) /\ UNCHANGED <<bucket, circuit, slot, managers>>
    BY <1>1 DEF Headers
  <2> HIDE DEF u
  <2>4. ReqOK(u)
    BY <2>1, <2>2 DEF ReqOK, Attempting, Pinned
  <2>5. acct' \in [Accounts -> AcctType]
    BY <2>1, <2>3, AcctStep
  <2> QED BY <2>1, <2>2, <2>3, <2>4, <2>5, RequestStep, SlotsUnchanged, Untouched
<1>2. CASE StreamDone(r) \/ StreamBroken(r) \/ StreamAbandoned(r)
  <2>1. s.pc = "stream" /\ s.at \in Accounts /\ Answer(r) /\ UNCHANGED <<bucket, managers>>
    BY <1>2 DEF StreamDone, StreamBroken, StreamAbandoned, Streaming, shared, managers, LoopInv, ReqOK
  <2>2. acct' \in [Accounts -> AcctType]
    <3>1. UNCHANGED acct \/ acct' = Cooling(s.at, "network-error")
      BY <1>2 DEF StreamDone, StreamBroken, StreamAbandoned, shared
    <3> QED BY <2>1, <3>1, AcctStep DEF Cooldowns
  <2>3. SlotStep(r)
    BY <1>2, <2>1, SlotAfterSuccess, SlotAfterFailure, SlotsUnchanged DEF StreamDone, StreamBroken, StreamAbandoned, shared
  <2> QED BY <2>1, <2>2, <2>3, AnswerOK, Untouched
<1> QED BY <1>1, <1>2

LEMMA WorldKeeps ==
  ASSUME LoopInv, World
  PROVE  LoopInv'
<1>1. UNCHANGED q
  BY DEF World, Expire, Refill, HalfOpen, Swap
<1>2. (\A r \in Requests : ReqOK(q[r]))' /\ (q \in [Requests -> ReqType])'
  BY <1>1 DEF LoopInv, ReqOK, Attempting, Bypass, Pinned, Routed
<1>3. ASSUME NEW a \in Accounts, Expire(a) \/ Refill(a) PROVE LoopInv'
  <2>1. acct' \in [Accounts -> AcctType]
    <3>1. /\ acct \in [Accounts -> AcctType]
          /\ \/ UNCHANGED acct \/ acct' = [acct EXCEPT ![a].cooling = "none"]
             \/ acct' = [acct EXCEPT ![a].limited = FALSE] \/ acct' = [acct EXCEPT ![a].dictated = FALSE]
      BY <1>3 DEF Expire, Refill, LoopInv, SharedOK
    <3>2. CASE acct' = [acct EXCEPT ![a].cooling = "none"]
      BY <3>1, <3>2 DEF AcctType, Cooldowns
    <3>3. CASE acct' = [acct EXCEPT ![a].limited = FALSE]
      BY <3>1, <3>3 DEF AcctType
    <3>4. CASE acct' = [acct EXCEPT ![a].dictated = FALSE]
      BY <3>1, <3>4 DEF AcctType
    <3> QED BY <3>1, <3>2, <3>3, <3>4
  <2>2. bucket' \in [Accounts -> 0..MaxTokens]
    <3>1. bucket \in [Accounts -> 0..MaxTokens] /\ MaxTokens \in Nat
      BY LoopAssumption DEF LoopInv, SharedOK
    <3>2. UNCHANGED bucket \/ (bucket[a] < MaxTokens /\ bucket' = [bucket EXCEPT ![a] = @ + 1])
      BY <1>3 DEF Expire, Refill
    <3> QED BY <3>1, <3>2
  <2>3. UNCHANGED <<circuit, slot, managers>>
    BY <1>3 DEF Expire, Refill
  <2>4. SharedOK' /\ SlotsOK'
    BY <1>1, <2>1, <2>2, <2>3 DEF LoopInv, SharedOK, SlotsOK, ProbeNotLeaked, managers
  <2> QED BY <1>2, <2>4 DEF LoopInv
<1>4. ASSUME NEW a \in Accounts, HalfOpen(a) PROVE LoopInv'
  <2>1. SharedOK' /\ SlotsOK'
    BY <1>1, <1>4, LoopAssumption DEF HalfOpen, LoopInv, SharedOK, SlotsOK, ProbeNotLeaked, managers
  <2> QED BY <1>2, <2>1 DEF LoopInv
<1>5. ASSUME NEW rows \in SUBSET Accounts, NEW back \in SUBSET rows, Swap(rows, back) PROVE LoopInv'
  <2>1. acct' \in [Accounts -> AcctType]
    <3>1. Fresh \in AcctType
      BY DEF Fresh, AcctType, Cooldowns
    <3> QED BY <1>5, <3>1 DEF Swap, LoopInv, SharedOK
  <2>2. gen' \in 0..MaxSwaps
    BY <1>5, LoopAssumption DEF Swap, LoopInv, SharedOK
  <2>3. SharedOK' /\ SlotsOK'
    BY <1>1, <1>5, <2>1, <2>2 DEF Swap, LoopInv, SharedOK, SlotsOK, ProbeNotLeaked
  <2> QED BY <1>2, <2>3 DEF LoopInv
<1> QED BY <1>3, <1>4, <1>5 DEF World

-----------------------------------------------------------------------------
(* The invariant and what it says. *)

LEMMA LoopInvInit == Init => LoopInv
<1> SUFFICES ASSUME Init PROVE LoopInv
  OBVIOUS
<1>1. q = [r \in Requests |-> Idle] /\ \A a \in Accounts : slot[a] = None
  BY DEF Init
<1>2. q \in [Requests -> ReqType] /\ \A r \in Requests : ReqOK(q[r])
  BY <1>1, IdleOK
<1>3. MaxTokens \in 0..MaxTokens /\ 0 \in 0..MaxSwaps /\ 0 \in 0..MaxResets
  BY LoopAssumption
<1>4. Fresh \in AcctType
  BY DEF Fresh, AcctType, Cooldowns
<1>5. SharedOK
  BY <1>3, <1>4 DEF Init, SharedOK
<1>6. SlotsOK
  BY <1>1, LoopAssumption DEF SlotsOK, ProbeNotLeaked
<1> QED BY <1>2, <1>5, <1>6 DEF LoopInv

LEMMA LoopInvNext == LoopInv /\ [Next]_vars => LoopInv'
<1> SUFFICES ASSUME LoopInv, [Next]_vars PROVE LoopInv'
  OBVIOUS
<1>1. CASE UNCHANGED vars
  BY <1>1 DEF vars, LoopInv, SharedOK, SlotsOK, ProbeNotLeaked, ReqOK, Attempting, Bypass, Pinned, Routed
<1>2. ASSUME NEW r \in Requests, Work(r) PROVE LoopInv'
  BY <1>2, SelectionKeeps, ReconcileKeeps, RecoverKeeps, ReloadKeeps, RecoverStaleKeeps, RefreshKeeps, PreparedKeeps,
     AnsweredKeeps, TransportKeeps, CapabilityKeeps, LimitKeeps, CapacityKeeps, DisabledKeeps, ErrorKeeps, StreamKeeps DEF Work
<1> QED BY <1>1, <1>2, ArrivalKeeps, WorldKeeps DEF Next

\* The inductive invariant of the request loop: what each request holds at each of
\* its steps, and that the shared buckets, circuits and slots agree with it.
THEOREM LoopInvariant == Spec => []LoopInv
BY LoopInvInit, LoopInvNext, PTL DEF Spec

\* Whatever fails, restarts or is replaced meanwhile, each attempt of
\* handleRequestInner settles what it took: the pool token is debited and given
\* back once, and the probe slot of a half-open circuit is not left behind.
THEOREM AttemptsAlwaysSettled == Spec => []AttemptsSettled
<1>1. LoopInv => AttemptsSettled
  <2> SUFFICES ASSUME LoopInv PROVE AttemptsSettled
    OBVIOUS
  <2>1. TypeOK
    <3>1. ASSUME NEW r \in Requests
          PROVE  /\ q[r].pc \in Pcs /\ q[r].kind \in Kinds \cup {None} /\ q[r].pin \in Pins \cup {None}
                 /\ q[r].rows \subseteq Accounts /\ q[r].attempted \subseteq Accounts
      BY DEF LoopInv, ReqType
    <3>2. ASSUME NEW r \in Requests
          PROVE  q[r].limit \in 1..(MaxAttempts + MaxPinned) /\ q[r].transient \in 0..(MaxAttempts + MaxPinned)
      BY DEF LoopInv, ReqOK, MostTries
    <3> QED BY <3>1, <3>2 DEF LoopInv, SharedOK, AcctType, TypeOK
  <2>2. TokenAccounting
    <3>1. ASSUME NEW r \in Requests PROVE q[r].owed \in {0, 1}
      BY DEF LoopInv, ReqType
    <3> QED BY <3>1 DEF TokenAccounting, LoopInv, ReqOK, Attempting
  <2>3. ProbeNotLeaked
    BY DEF LoopInv, SlotsOK
  <2> QED BY <2>1, <2>2, <2>3 DEF AttemptsSettled
<1> QED BY <1>1, LoopInvariant, PTL

\* A pinned request is served by its pin alone, however often the manager is
\* replaced under it, a call that creates something upstream is not sent again
\* after its answer was lost, and a workspace that rejected the request does not
\* get it again through another account.
THEOREM AlwaysPinnedAndOnce == Spec => []PinnedAndOnce
<1>1. LoopInv => PinnedAndOnce
  BY DEF LoopInv, ReqOK, Pinned, PinnedAndOnce, PinHonoured, NoReplay, WorkspaceOnce
<1> QED BY <1>1, LoopInvariant, PTL

-----------------------------------------------------------------------------
(* The plugin's fetch. *)

FetchPcs == {"new", "pick", "drained", "refresh", "send", "flight", "stream", "failover", "retried", "over"}

\* A fetch's record, field by field.
FetchType ==
  [pc : FetchPcs, key : Sessions \cup {Absent}, ver : Nat, pref : Nat, asked : BOOLEAN,
   blocked : SUBSET Positions, banned : SUBSET HostAccounts, count : Nat, tried : SUBSET Positions,
   at : HostAccounts \cup {Absent}, budget : 0..MaxOutbound, sends : Nat, same : Nat, resent : Nat,
   short : Nat, waits : Nat, empties : Nat, fallbacks : Nat, failovers : Nat, source : Nat,
   voices : SUBSET Nat, order : Seq(Nat), candidates : Seq(Nat), net : Int]

\* What the budget of a request may be at most.
MostSends == AtMost(OneAtLeast(Len(HostPool)) + SameRetries + MaxEmptyRetries + MaxFailovers, MaxOutbound)

\* An account is held, and a token of its bucket was taken for the request.
Holding(r) == r.pc \in {"refresh", "send", "flight", "stream", "failover", "retried"}
Paid(r) == r.pc \in {"send", "flight", "retried"}

\* What holds of every fetch, given the pool, the affinity version and the budget.
FetchOK(r, row, ver, most) ==
  /\ Holding(r) => r.at \in HostAccounts
  /\ r.pc \notin {"new", "over"} => r.key \in Sessions /\ r.ver \in 1..ver
  /\ r.pc \notin {"stream", "over"} => r.voices = {}
  /\ r.voices \subseteq {r.source}
  /\ r.sends + r.budget <= most /\ (r.sends > 0 => HostAccounts # {})
  /\ r.pc = "new" => r.sends = 0
  /\ row = HostPool => /\ r.banned = {HostPool[i] : i \in r.blocked}
                       /\ r.pc = "refresh" \/ Paid(r) => r.at \notin r.banned
  /\ r.resent = 0 => r.net >= (IF Paid(r) THEN 1 ELSE 0)
  /\ r.pc = "retried" => r.candidates # <<>>

\* A row of the manager: any value will do for its current workspace.
RowOK(a, x) ==
  /\ x = [index |-> x.index, ok |-> x.ok, on |-> x.on, fails |-> x.fails, spaces |-> x.spaces, space |-> x.space]
  /\ x.index \in Positions /\ x.ok \in BOOLEAN /\ x.on \in BOOLEAN /\ x.fails \in Nat
  /\ x.spaces \subseteq 1..HostWorkspaces[a]

RowsOK ==
  /\ hostRow = [a \in HostAccounts |-> hostRow[a]]
  /\ \A a \in HostAccounts : RowOK(a, hostRow[a])

\* The pool only shrinks, and its rows know their positions.
PoolOK ==
  /\ hostPool \in Seq(HostAccounts) /\ IsInjective(hostPool)
  /\ Len(hostPool) <= Len(HostPool) /\ (hostPool # HostPool => Len(hostPool) < Len(HostPool))
  /\ \A i \in DOMAIN hostPool : hostRow[hostPool[i]].index = i

EntryType == [at : Positions, ver : 1..stickyVersion, server : HostAccounts]

StickyOK ==
  /\ stickyVersion \in Nat /\ removedTwice \in BOOLEAN
  /\ sticky = [k \in Sessions |-> sticky[k]]
  /\ \A k \in Sessions : sticky[k] # Absent => sticky[k] \in EntryType
  /\ EntryLeadsToServer

BucketsOK ==
  /\ poolPause \in BOOLEAN /\ burst \subseteq Positions
  /\ refundable \in [HostAccounts -> Nat] /\ failoverMode \in FailoverModes

FetchInv ==
  /\ RowsOK /\ PoolOK /\ StickyOK /\ BucketsOK
  /\ fetches \in [Fetches -> FetchType]
  /\ \A f \in Fetches : FetchOK(fetches[f], hostPool, stickyVersion, MostSends)

-----------------------------------------------------------------------------
(* Lemmas on the operators of the fetch. *)

LEMMA PositionsAreNatural == Positions \subseteq Nat \ {0} /\ Len(HostPool) \in Nat
BY FetchAssumption, LenProperties DEF Positions

LEMMA BudgetBounds ==
  ASSUME NEW n \in Nat, n <= Len(HostPool), failoverMode \in FailoverModes
  PROVE  /\ AttemptBudget(n) \in 0..MaxOutbound /\ AttemptBudget(n) <= MostSends
         /\ MostSends \in Nat /\ SameRetries \in Nat
<1>1. SameRetries \in Nat
  BY FetchAssumption DEF SameRetries
<1>2. MaxEmptyRetries \in Nat /\ MaxFailovers \in Nat /\ MaxOutbound \in Nat /\ Len(HostPool) \in Nat
  BY FetchAssumption, PositionsAreNatural
<1> QED BY <1>1, <1>2 DEF AttemptBudget, MostSends, AtMost, OneAtLeast

LEMMA RowUpdates ==
  ASSUME NEW a \in HostAccounts, NEW x, RowOK(a, x)
  PROVE  /\ \A b \in BOOLEAN : RowOK(a, [x EXCEPT !.ok = b]) /\ RowOK(a, [x EXCEPT !.on = b])
         /\ \A n \in Nat : RowOK(a, [x EXCEPT !.fails = n])
         /\ \A i \in Positions : RowOK(a, [x EXCEPT !.index = i]) /\ [x EXCEPT !.index = i].index = i
         /\ \A w : RowOK(a, [x EXCEPT !.spaces = @ \ {w}]) /\ RowOK(a, [x EXCEPT !.space = w])
         /\ \A v : /\ [x EXCEPT !.ok = v].index = x.index /\ [x EXCEPT !.on = v].index = x.index
                   /\ [x EXCEPT !.fails = v].index = x.index /\ [x EXCEPT !.spaces = v].index = x.index
                   /\ [x EXCEPT !.space = v].index = x.index
<1> DEFINE y == [index |-> x.index, ok |-> x.ok, on |-> x.on, fails |-> x.fails, spaces |-> x.spaces, space |-> x.space]
<1>1. x = y
  BY DEF RowOK
<1>2. \A v : /\ [x EXCEPT !.ok = v] = [index |-> x.index, ok |-> v, on |-> x.on, fails |-> x.fails, spaces |-> x.spaces, space |-> x.space]
             /\ [x EXCEPT !.on = v] = [index |-> x.index, ok |-> x.ok, on |-> v, fails |-> x.fails, spaces |-> x.spaces, space |-> x.space]
             /\ [x EXCEPT !.fails = v] = [index |-> x.index, ok |-> x.ok, on |-> x.on, fails |-> v, spaces |-> x.spaces, space |-> x.space]
  BY <1>1
<1>3. \A v : /\ [x EXCEPT !.index = v] = [index |-> v, ok |-> x.ok, on |-> x.on, fails |-> x.fails, spaces |-> x.spaces, space |-> x.space]
             /\ [x EXCEPT !.spaces = v] = [index |-> x.index, ok |-> x.ok, on |-> x.on, fails |-> x.fails, spaces |-> v, space |-> x.space]
             /\ [x EXCEPT !.space = v] = [index |-> x.index, ok |-> x.ok, on |-> x.on, fails |-> x.fails, spaces |-> x.spaces, space |-> v]
  BY <1>1
<1>4. \A w : [x EXCEPT !.spaces = @ \ {w}] = [x EXCEPT !.spaces = x.spaces \ {w}]
  BY <1>1
<1> QED BY <1>2, <1>3, <1>4 DEF RowOK

\* A change of one row that leaves its position alone.
LEMMA RowChanges ==
  ASSUME RowsOK, PoolOK, NEW a \in HostAccounts, NEW x, RowOK(a, x), x.index = hostRow[a].index,
         hostRow' = [hostRow EXCEPT ![a] = x], hostPool' = hostPool
  PROVE  RowsOK' /\ PoolOK'
<1>1. \A b \in HostAccounts : hostRow'[b] = IF b = a THEN x ELSE hostRow[b]
  BY DEF RowsOK
<1>2. RowsOK'
  <2>1. hostRow' = [b \in HostAccounts |-> hostRow'[b]]
    BY DEF RowsOK
  <2>2. \A b \in HostAccounts : RowOK(b, hostRow'[b])
    BY <1>1 DEF RowsOK
  <2> QED BY <2>1, <2>2 DEF RowsOK, RowOK
<1>3. PoolOK'
  BY <1>1, ElementOfSeq DEF PoolOK
<1> QED BY <1>2, <1>3

LEMMA RowsStay ==
  ASSUME RowsOK, PoolOK, UNCHANGED <<hostRow, hostPool>>
  PROVE  RowsOK' /\ PoolOK'
BY DEF RowsOK, RowOK, PoolOK

LEMMA StickyStays ==
  ASSUME StickyOK, UNCHANGED <<sticky, stickyVersion, removedTwice, hostPool>>
  PROVE  StickyOK'
BY DEF StickyOK, EntryType, EntryLeadsToServer

LEMMA BucketsStay ==
  ASSUME BucketsOK, UNCHANGED <<pauses, refundable, failoverMode>>
  PROVE  BucketsOK'
BY DEF BucketsOK, pauses

LEMMA ForgetKeeps ==
  ASSUME StickyOK, NEW r, Forget(r), UNCHANGED <<stickyVersion, removedTwice, hostPool>>
  PROVE  StickyOK'
<1>1. sticky' = [k \in Sessions |-> sticky'[k]] /\ \A k \in Sessions : sticky'[k] \in {Absent, sticky[k]}
  BY DEF StickyOK, Forget
<1> QED BY <1>1 DEF StickyOK, EntryType, EntryLeadsToServer

LEMMA RememberKeeps ==
  ASSUME StickyOK, RowsOK, PoolOK, NEW r, NEW a \in HostAccounts, r.ver \in 1..stickyVersion, Remember(r, a),
         UNCHANGED <<stickyVersion, removedTwice, hostPool>>
  PROVE  StickyOK'
<1> DEFINE e == [at |-> hostRow[a].index, ver |-> r.ver, server |-> a]
<1>1. sticky' = [k \in Sessions |-> sticky'[k]] /\ \A k \in Sessions : sticky'[k] \in {e, sticky[k]}
  BY DEF StickyOK, Remember
<1>2. e \in EntryType
  BY DEF EntryType, RowsOK, RowOK
<1>3. \A i \in DOMAIN hostPool : hostPool[i] = e.server => e.at = i
  BY DEF PoolOK
<1> QED BY <1>1, <1>2, <1>3 DEF StickyOK, EntryType, EntryLeadsToServer

LEMMA RefundKeeps ==
  ASSUME BucketsOK, NEW r, r.at \in HostAccounts, FetchRefund(r),
         poolPause' \in BOOLEAN, burst' \subseteq Positions, UNCHANGED failoverMode
  PROVE  BucketsOK'
BY DEF BucketsOK, FetchRefund

LEMMA RefundedTyped ==
  ASSUME NEW r \in FetchType
  PROVE  \E n \in {r.net, r.net - 1} : FetchRefunded(r) = [r EXCEPT !.net = n]
<1>1. r = [r EXCEPT !.net = r.net]
  BY DEF FetchType
<1>2. [r EXCEPT !.net = @ - 1] = [r EXCEPT !.net = r.net - 1]
  BY DEF FetchType
<1> QED BY <1>1, <1>2 DEF FetchRefunded

\* A record is well-formed whatever else changes: the pool only shrinks, versions grow.
LEMMA FetchStaysOK ==
  ASSUME NEW r \in FetchType, NEW row, NEW next, NEW ver \in Nat, NEW later \in Nat, NEW most,
         FetchOK(r, row, ver, most), next = HostPool => row = HostPool, ver <= later
  PROVE  FetchOK(r, next, later, most)
<1>1. r.ver \in 1..ver => r.ver \in 1..later
  OBVIOUS
<1>2. r.pc \notin {"new", "over"} => r.key \in Sessions /\ r.ver \in 1..later
  BY <1>1 DEF FetchOK
<1> QED BY <1>2 DEF FetchOK

LEMMA Assembled ==
  ASSUME FetchInv, NEW f \in Fetches, NEW r \in FetchType, FetchBecomes(f, r),
         RowsOK', PoolOK', StickyOK', BucketsOK', hostPool' = HostPool => hostPool = HostPool,
         stickyVersion <= stickyVersion', UNCHANGED failoverMode,
         FetchOK(r, hostPool', stickyVersion', MostSends)
  PROVE  FetchInv'
<1>1. fetches' \in [Fetches -> FetchType] /\ \A g \in Fetches : fetches'[g] = IF g = f THEN r ELSE fetches[g]
  BY DEF FetchInv, FetchBecomes
<1>2. MostSends' = MostSends
  BY DEF MostSends, SameRetries
<1>3. stickyVersion \in Nat /\ stickyVersion' \in Nat
  BY DEF FetchInv, StickyOK
<1>4. \A g \in Fetches : FetchOK(fetches'[g], hostPool', stickyVersion', MostSends)
  BY <1>1, <1>3, FetchStaysOK DEF FetchInv
<1> HIDE DEF FetchType
<1>5. \A g \in Fetches : FetchOK(fetches[g], hostPool, stickyVersion, MostSends)'
  BY <1>2, <1>4 DEF FetchOK
<1>6. (fetches \in [Fetches -> FetchType])'
  BY <1>1
<1> QED BY <1>5, <1>6 DEF FetchInv

\* The same for the steps that leave pool and versions alone.
LEMMA Settles ==
  ASSUME FetchInv, NEW f \in Fetches, NEW r \in FetchType, FetchBecomes(f, r),
         RowsOK', PoolOK', StickyOK', BucketsOK', UNCHANGED <<hostPool, stickyVersion, failoverMode>>,
         FetchOK(r, hostPool, stickyVersion, MostSends)
  PROVE  FetchInv'
<1>1. stickyVersion <= stickyVersion'
  BY DEF FetchInv, StickyOK
<1> QED BY <1>1, Assembled

-----------------------------------------------------------------------------
(* Every step keeps the invariant. *)

\* A fetch that is over keeps what it held.
LEMMA OverKeeps ==
  ASSUME NEW r \in FetchType, NEW row, NEW ver, NEW most, FetchOK(r, row, ver, most)
  PROVE  [r EXCEPT !.pc = "over"] \in FetchType /\ FetchOK([r EXCEPT !.pc = "over"], row, ver, most)
<1> DEFINE s == [r EXCEPT !.pc = "over"]
<1>1. s \in FetchType
  BY DEF FetchType, FetchPcs
<1>2. /\ s.pc = "over" /\ s.voices = r.voices /\ s.source = r.source /\ s.sends = r.sends /\ s.budget = r.budget
      /\ s.banned = r.banned /\ s.blocked = r.blocked /\ s.resent = r.resent /\ s.net = r.net
  BY DEF FetchType
<1>3. r.net \in Int
  BY DEF FetchType
<1> QED BY <1>1, <1>2, <1>3 DEF FetchOK, Holding, Paid

\* What a rotation to the next account has to show.
LEMMA RotateKeeps ==
  ASSUME NEW r \in FetchType, NEW s \in FetchType, NEW row, NEW ver, NEW most, FetchOK(r, row, ver, most),
         r.pc \notin {"new", "stream", "over"}, s.pc \in {"pick", "drained"},
         s.key = r.key, s.ver = r.ver, s.voices = r.voices, s.source = r.source, s.sends = r.sends, s.budget = r.budget,
         s.banned = r.banned, s.blocked = r.blocked, s.resent = r.resent,
         s.net \in {r.net, r.net - 1}, s.net = r.net \/ Paid(r)
  PROVE  FetchOK(s, row, ver, most)
<1>1. r.net \in Int
  BY DEF FetchType
<1>2. r.resent = 0 => s.net >= 0
  BY <1>1 DEF FetchOK, Paid
<1> QED BY <1>2 DEF FetchOK, Holding, Paid

\* What another try with the same account has to show.
LEMMA RetryKeeps ==
  ASSUME NEW r \in FetchType, NEW s \in FetchType, NEW row, NEW ver, NEW most, FetchOK(r, row, ver, most),
         r.pc \in {"refresh", "flight"}, s.pc = "send", s.at = r.at,
         s.key = r.key, s.ver = r.ver, s.voices = r.voices, s.source = r.source, s.sends = r.sends, s.budget = r.budget,
         s.banned = r.banned, s.blocked = r.blocked, s.resent = 0 => s.resent = r.resent /\ s.net >= 1
  PROVE  FetchOK(s, row, ver, most)
BY DEF FetchOK, Holding, Paid

LEMMA RefusedKeeps ==
  ASSUME FetchInv, NEW f \in Fetches, FetchRefused(f)
  PROVE  FetchInv'
<1> DEFINE r == fetches[f]
           s == [r EXCEPT !.pc = "over"]
<1>1. r \in FetchType /\ FetchOK(r, hostPool, stickyVersion, MostSends)
  BY DEF FetchInv
<1>2. s \in FetchType /\ FetchOK(s, hostPool, stickyVersion, MostSends)
  BY <1>1, OverKeeps
<1>3. RowsOK' /\ PoolOK' /\ StickyOK' /\ BucketsOK'
  BY RowsStay, StickyStays, BucketsStay DEF FetchInv, FetchRefused
<1> HIDE DEF r, s
<1> QED BY <1>2, <1>3, Settles DEF FetchRefused, Over, r, s

LEMMA StartsKeeps ==
  ASSUME FetchInv, NEW f \in Fetches, NEW key \in Sessions, NEW blocked \in SUBSET (Blockable \cap DOMAIN hostPool),
         FetchStarts(f, key, blocked)
  PROVE  FetchInv'
<1> DEFINE r == fetches[f]
           s == [Traversal(r) EXCEPT
                   !.ver = stickyVersion + 1, !.key = key,
                   !.pref = IF sticky[key] = Absent THEN 0 ELSE sticky[key].at,
                   !.blocked = blocked, !.banned = {hostPool[i] : i \in blocked}, !.budget = AttemptBudget(Len(hostPool))]
<1>1. r \in FetchType /\ FetchOK(r, hostPool, stickyVersion, MostSends)
  BY DEF FetchInv
<1>2. r.pc = "new" /\ r.sends = 0 /\ r.voices = {} /\ r.net \in Int
  BY <1>1 DEF FetchStarts, FetchOK, FetchType
<1>3. Len(hostPool) \in Nat /\ Len(hostPool) <= Len(HostPool) /\ failoverMode \in FailoverModes /\ hostPool \in Seq(HostAccounts)
  BY LenProperties DEF FetchInv, PoolOK, BucketsOK
<1>4. AttemptBudget(Len(hostPool)) \in 0..MaxOutbound /\ AttemptBudget(Len(hostPool)) <= MostSends
  BY <1>3, BudgetBounds
<1>5. blocked \in SUBSET Positions /\ {hostPool[i] : i \in blocked} \in SUBSET HostAccounts
  <2>1. DOMAIN hostPool = 1..Len(hostPool) /\ \A i \in DOMAIN hostPool : hostPool[i] \in HostAccounts
    BY <1>3, LenProperties, ElementOfSeq
  <2>2. DOMAIN hostPool \subseteq Positions
    BY <1>3, <2>1, PositionsAreNatural DEF Positions
  <2> QED BY <2>1, <2>2
<1>6. (IF sticky[key] = Absent THEN 0 ELSE sticky[key].at) \in Nat
  BY PositionsAreNatural DEF FetchInv, StickyOK, EntryType
<1>7. stickyVersion \in Nat
  BY DEF FetchInv, StickyOK
<1>8. s \in FetchType
  <2>1. Traversal(r) \in FetchType
    BY <1>1, <1>3 DEF Traversal, FetchType, FetchPcs
  <2>2. ASSUME NEW u \in FetchType, NEW p \in Nat, NEW v \in Nat, NEW b \in SUBSET Positions, NEW d \in SUBSET HostAccounts, NEW n \in 0..MaxOutbound
        PROVE  [u EXCEPT !.ver = v, !.key = key, !.pref = p, !.blocked = b, !.banned = d, !.budget = n] \in FetchType
    BY DEF FetchType
  <2> DEFINE u == Traversal(r)
             d == {hostPool[i] : i \in blocked}
             p == IF sticky[key] = Absent THEN 0 ELSE sticky[key].at
             n == AttemptBudget(Len(hostPool))
  <2>3. u \in FetchType /\ d \in SUBSET HostAccounts /\ p \in Nat /\ n \in 0..MaxOutbound
        /\ stickyVersion + 1 \in Nat /\ blocked \in SUBSET Positions
    BY <1>4, <1>5, <1>6, <1>7, <2>1
  <2> HIDE DEF u, d, p, n
  <2>4. [u EXCEPT !.ver = stickyVersion + 1, !.key = key, !.pref = p, !.blocked = blocked, !.banned = d, !.budget = n] \in FetchType
    BY <2>2, <2>3
  <2> QED BY <2>4 DEF u, d, p, n
<1>9. /\ s.pc = "pick" /\ s.key = key /\ s.ver = stickyVersion + 1 /\ s.voices = {} /\ s.source = r.source
      /\ s.sends = 0 /\ s.budget = AttemptBudget(Len(hostPool)) /\ s.blocked = blocked
      /\ s.banned = {hostPool[i] : i \in blocked} /\ s.resent = r.resent /\ s.net = r.net
  BY <1>1, <1>2 DEF Traversal, FetchType
<1>10. FetchOK(s, hostPool, stickyVersion + 1, MostSends)
  <2>1. r.resent = 0 => r.net >= 0
    BY <1>1, <1>2 DEF FetchOK, Paid
  <2>2. stickyVersion + 1 \in 1..(stickyVersion + 1)
    BY <1>7
  <2>3. 0 + AttemptBudget(Len(hostPool)) <= MostSends
    BY <1>4
  <2> HIDE DEF s
  <2> QED BY <1>9, <2>1, <2>2, <2>3 DEF FetchOK, Holding, Paid
<1>11. RowsOK' /\ PoolOK' /\ BucketsOK'
  BY RowsStay, BucketsStay DEF FetchInv, FetchStarts
<1>12. StickyOK'
  BY <1>7 DEF FetchInv, FetchStarts, StickyOK, EntryType, EntryLeadsToServer
<1>13. FetchBecomes(f, s) /\ stickyVersion' = stickyVersion + 1 /\ hostPool' = hostPool /\ failoverMode' = failoverMode
  BY DEF FetchStarts
<1>14. stickyVersion <= stickyVersion'
  BY <1>7, <1>13
<1> HIDE DEF r, s
<1> QED BY <1>8, <1>10, <1>11, <1>12, <1>13, <1>14, Assembled

\* The policy's decision holds for as long as the pool is the one it was made of.
LEMMA NotBanned ==
  ASSUME NEW r \in FetchType, NEW ver, NEW most, FetchOK(r, hostPool, ver, most),
         NEW i \in DOMAIN hostPool, i \notin r.blocked, hostPool = HostPool
  PROVE  hostPool[i] \notin r.banned
<1>1. r.banned = {HostPool[j] : j \in r.blocked}
  BY DEF FetchOK
<1>2. r.blocked \subseteq DOMAIN HostPool
  BY FetchAssumption, LenProperties DEF FetchType, Positions
<1> QED BY <1>1, <1>2, FetchAssumption DEF IsInjective

LEMMA PicksKeeps ==
  ASSUME FetchInv, NEW f \in Fetches, FetchPicks(f)
  PROVE  FetchInv'
<1> DEFINE r == fetches[f]
<1>1. r \in FetchType /\ FetchOK(r, hostPool, stickyVersion, MostSends) /\ r.pc = "pick"
  BY DEF FetchInv, FetchPicks
<1>2. RowsOK' /\ PoolOK' /\ BucketsOK'
  BY RowsStay, BucketsStay DEF FetchInv, FetchPicks
<1>3. StickyOK'
  BY ForgetKeeps, StickyStays DEF FetchInv, FetchPicks
<1>4. CASE FetchBecomes(f, [r EXCEPT !.pc = "drained"])
  <2> DEFINE s == [r EXCEPT !.pc = "drained"]
  <2>1. s \in FetchType
    BY <1>1 DEF FetchType, FetchPcs
  <2>2. /\ s.pc = "drained" /\ s.key = r.key /\ s.ver = r.ver /\ s.voices = r.voices /\ s.source = r.source /\ s.sends = r.sends
        /\ s.budget = r.budget /\ s.banned = r.banned /\ s.blocked = r.blocked /\ s.resent = r.resent /\ s.net = r.net
    BY <1>1 DEF FetchType
  <2> HIDE DEF r, s
  <2>3. FetchOK(s, hostPool, stickyVersion, MostSends)
    BY <1>1, <2>1, <2>2, RotateKeeps
  <2> QED BY <1>2, <1>3, <1>4, <2>1, <2>3, Settles DEF FetchPicks, s
<1>5. ASSUME NEW i \in Selectable(r), FetchBecomes(f, [r EXCEPT !.pc = "refresh", !.at = hostPool[i], !.tried = @ \cup {i}, !.asked = TRUE])
      PROVE  FetchInv'
  <2> DEFINE s == [r EXCEPT !.pc = "refresh", !.at = hostPool[i], !.tried = @ \cup {i}, !.asked = TRUE]
  <2>1. i \in DOMAIN hostPool /\ i \notin r.blocked
    BY DEF Selectable, Available
  <2>2. hostPool \in Seq(HostAccounts) /\ Len(hostPool) <= Len(HostPool)
    BY DEF FetchInv, PoolOK
  <2>3. hostPool[i] \in HostAccounts /\ i \in Positions
    BY <2>1, <2>2, LenProperties, ElementOfSeq, PositionsAreNatural DEF Positions
  <2>4. s \in FetchType
    <3>1. r.tried \cup {i} \in SUBSET Positions
      BY <1>1, <2>3 DEF FetchType
    <3> QED BY <1>1, <2>3, <3>1 DEF FetchType, FetchPcs
  <2>5. /\ s.pc = "refresh" /\ s.at = hostPool[i] /\ s.key = r.key /\ s.ver = r.ver /\ s.voices = r.voices /\ s.source = r.source
        /\ s.sends = r.sends /\ s.budget = r.budget /\ s.banned = r.banned /\ s.blocked = r.blocked /\ s.resent = r.resent /\ s.net = r.net
    BY <1>1 DEF FetchType
  <2>6. hostPool = HostPool => hostPool[i] \notin r.banned
    BY <1>1, <2>1, NotBanned
  <2>7. FetchOK(s, hostPool, stickyVersion, MostSends)
    <3> HIDE DEF r, s
    <3> QED BY <1>1, <2>3, <2>5, <2>6 DEF FetchOK, Holding, Paid
  <2> HIDE DEF r, s
  <2> QED BY <1>2, <1>3, <1>5, <2>4, <2>7, Settles DEF FetchPicks, s
<1> QED BY <1>4, <1>5 DEF FetchPicks

LEMMA TraversalTyped ==
  ASSUME FetchInv, NEW r \in FetchType
  PROVE  /\ Traversal(r) \in FetchType /\ Traversal(r).pc = "pick"
         /\ Traversal(r).key = r.key /\ Traversal(r).ver = r.ver /\ Traversal(r).voices = r.voices /\ Traversal(r).source = r.source
         /\ Traversal(r).sends = r.sends /\ Traversal(r).budget = r.budget /\ Traversal(r).banned = r.banned
         /\ Traversal(r).blocked = r.blocked /\ Traversal(r).resent = r.resent /\ Traversal(r).net = r.net
<1>1. Len(hostPool) \in Nat
  BY LenProperties DEF FetchInv, PoolOK
<1> QED BY <1>1 DEF Traversal, FetchType, FetchPcs

LEMMA DrainedKeeps ==
  ASSUME FetchInv, NEW f \in Fetches, FetchDrained(f)
  PROVE  FetchInv'
<1> DEFINE r == fetches[f]
<1>1. r \in FetchType /\ FetchOK(r, hostPool, stickyVersion, MostSends) /\ r.pc = "drained"
  BY DEF FetchInv, FetchDrained
<1>2. RowsOK' /\ PoolOK' /\ StickyOK'
  BY RowsStay, StickyStays DEF FetchInv, FetchDrained
<1>3. CASE FetchBecomes(f, [Traversal(r) EXCEPT !.waits = AtMost(@ + 1, MaxPoolWaits)]) /\ UNCHANGED pauses
  <2> DEFINE t == Traversal(r)
             s == [t EXCEPT !.waits = AtMost(@ + 1, MaxPoolWaits)]
  <2>1. t \in FetchType
    BY <1>1, TraversalTyped
  <2>2. s \in FetchType
    <3> HIDE DEF t
    <3>1. AtMost(t.waits + 1, MaxPoolWaits) \in Nat
      <4>1. t.waits \in Nat /\ MaxPoolWaits \in Nat
        BY <2>1, FetchAssumption DEF FetchType
      <4> QED BY <4>1 DEF AtMost
    <3> QED BY <2>1, <3>1 DEF FetchType
  <2>3. /\ s.pc = t.pc /\ s.key = t.key /\ s.ver = t.ver /\ s.voices = t.voices /\ s.source = t.source /\ s.sends = t.sends
        /\ s.budget = t.budget /\ s.banned = t.banned /\ s.blocked = t.blocked /\ s.resent = t.resent /\ s.net = t.net
    <3> HIDE DEF t
    <3> QED BY <2>1 DEF FetchType
  <2> HIDE DEF s
  <2>4. FetchOK(s, hostPool, stickyVersion, MostSends)
    <3> HIDE DEF r
    <3> QED BY <1>1, <2>2, <2>3, TraversalTyped, RotateKeeps
  <2>5. BucketsOK'
    BY <1>3, BucketsStay DEF FetchInv, FetchDrained
  <2> HIDE DEF t
  <2> QED BY <1>2, <1>3, <2>2, <2>4, <2>5, Settles DEF FetchDrained, s, t
<1>4. CASE Over(f) /\ poolPause' \in BOOLEAN /\ UNCHANGED burst
  <2>1. BucketsOK'
    BY <1>4 DEF FetchInv, FetchDrained, BucketsOK
  <2>2. [r EXCEPT !.pc = "over"] \in FetchType /\ FetchOK([r EXCEPT !.pc = "over"], hostPool, stickyVersion, MostSends)
    BY <1>1, OverKeeps
  <2> HIDE DEF r
  <2> QED BY <1>2, <1>4, <2>1, <2>2, Settles DEF FetchDrained, Over, r
<1>5. \/ FetchBecomes(f, [Traversal(r) EXCEPT !.waits = AtMost(@ + 1, MaxPoolWaits)]) /\ UNCHANGED pauses
      \/ Over(f) /\ poolPause' \in BOOLEAN /\ UNCHANGED burst
  BY DEF FetchDrained
<1> QED BY <1>3, <1>4, <1>5

-----------------------------------------------------------------------------
(* Answers: what they do to the request is a rotation, another try or an end. *)

\* u is the request r, perhaps with a token given back or other counters.
Kin(r, u) ==
  /\ u \in FetchType /\ u.pc = r.pc /\ u.at = r.at /\ u.key = r.key /\ u.ver = r.ver
  /\ u.voices = r.voices /\ u.source = r.source /\ u.sends = r.sends /\ u.budget = r.budget
  /\ u.banned = r.banned /\ u.blocked = r.blocked /\ u.resent = r.resent /\ u.candidates = r.candidates
  /\ u.net \in {r.net, r.net - 1}

LEMMA KinKnown ==
  ASSUME NEW r \in FetchType
  PROVE  /\ Kin(r, r) /\ Kin(r, FetchRefunded(r))
         /\ Kin(r, [FetchRefunded(r) EXCEPT !.empties = @ + 1])
         /\ \A T \in SUBSET Positions : Kin(r, [r EXCEPT !.tried = T]) /\ [r EXCEPT !.tried = T].net = r.net
<1>1. Kin(r, r)
  BY DEF Kin
<1>2. ASSUME NEW n \in {r.net, r.net - 1} PROVE Kin(r, [r EXCEPT !.net = n])
  <2>1. r.net \in Int
    BY DEF FetchType
  <2>2. n \in Int
    BY <2>1
  <2>3. [r EXCEPT !.net = n] \in FetchType
    BY <2>2 DEF FetchType
  <2>4. [r EXCEPT !.net = n].net = n
    BY DEF FetchType
  <2>5. LET u == [r EXCEPT !.net = n] IN
          /\ u.pc = r.pc /\ u.at = r.at /\ u.key = r.key /\ u.ver = r.ver /\ u.voices = r.voices /\ u.source = r.source
          /\ u.sends = r.sends /\ u.budget = r.budget /\ u.banned = r.banned /\ u.blocked = r.blocked
          /\ u.resent = r.resent /\ u.candidates = r.candidates
    BY DEF FetchType
  <2> QED BY <2>3, <2>4, <2>5 DEF Kin
<1>3. PICK n \in {r.net, r.net - 1} : FetchRefunded(r) = [r EXCEPT !.net = n]
  BY RefundedTyped
<1>4. Kin(r, FetchRefunded(r))
  BY <1>2, <1>3
<1>5. Kin(r, [FetchRefunded(r) EXCEPT !.empties = @ + 1])
  <2> DEFINE u == FetchRefunded(r)
  <2>1. Kin(r, u)
    BY <1>4
  <2> HIDE DEF u
  <2>2. u \in FetchType
    BY <2>1 DEF Kin
  <2>3. [u EXCEPT !.empties = @ + 1] \in FetchType
    <3>1. u.empties \in Nat
      BY <2>2 DEF FetchType
    <3>2. u.empties + 1 \in Nat
      BY <3>1
    <3> QED BY <2>2, <3>2 DEF FetchType
  <2>4. LET v == [u EXCEPT !.empties = @ + 1] IN
          /\ v.pc = u.pc /\ v.at = u.at /\ v.key = u.key /\ v.ver = u.ver /\ v.voices = u.voices /\ v.source = u.source
          /\ v.sends = u.sends /\ v.budget = u.budget /\ v.banned = u.banned /\ v.blocked = u.blocked
          /\ v.resent = u.resent /\ v.candidates = u.candidates /\ v.net = u.net
    BY <2>2 DEF FetchType
  <2>5. Kin(r, [u EXCEPT !.empties = @ + 1])
    BY <2>1, <2>3, <2>4 DEF Kin
  <2> QED BY <2>5 DEF u
<1>6. ASSUME NEW T \in SUBSET Positions PROVE Kin(r, [r EXCEPT !.tried = T]) /\ [r EXCEPT !.tried = T].net = r.net
  BY DEF Kin, FetchType
<1> QED BY <1>1, <1>4, <1>5, <1>6

LEMMA KinRotates ==
  ASSUME NEW r \in FetchType, NEW u, Kin(r, u), NEW row, NEW ver, NEW most, FetchOK(r, row, ver, most),
         r.pc \notin {"new", "stream", "over"}, u.net = r.net \/ Paid(r)
  PROVE  [u EXCEPT !.pc = "pick"] \in FetchType /\ FetchOK([u EXCEPT !.pc = "pick"], row, ver, most)
<1> DEFINE s == [u EXCEPT !.pc = "pick"]
<1>1. u \in FetchType
  BY DEF Kin
<1>2. s \in FetchType
  BY <1>1 DEF FetchType, FetchPcs
<1>3. /\ s.pc = "pick" /\ s.key = u.key /\ s.ver = u.ver /\ s.voices = u.voices /\ s.source = u.source /\ s.sends = u.sends
      /\ s.budget = u.budget /\ s.banned = u.banned /\ s.blocked = u.blocked /\ s.resent = u.resent /\ s.net = u.net
  BY <1>1 DEF FetchType
<1> HIDE DEF s
<1>4. FetchOK(s, row, ver, most)
  BY <1>2, <1>3, RotateKeeps DEF Kin
<1> QED BY <1>2, <1>4 DEF s

LEMMA KinRetries ==
  ASSUME NEW r \in FetchType, NEW u, Kin(r, u), NEW row, NEW ver, NEW most, FetchOK(r, row, ver, most), r.pc = "flight"
  PROVE  LET s == [u EXCEPT !.pc = "send", !.same = @ + 1, !.resent = 1] IN s \in FetchType /\ FetchOK(s, row, ver, most)
<1> DEFINE s == [u EXCEPT !.pc = "send", !.same = @ + 1, !.resent = 1]
<1>1. u \in FetchType
  BY DEF Kin
<1>2. s \in FetchType
  <2>1. u.same \in Nat
    BY <1>1 DEF FetchType
  <2>2. u.same + 1 \in Nat
    BY <2>1
  <2> QED BY <1>1, <2>2 DEF FetchType, FetchPcs
<1>3. /\ s.pc = "send" /\ s.at = u.at /\ s.key = u.key /\ s.ver = u.ver /\ s.voices = u.voices /\ s.source = u.source /\ s.sends = u.sends
      /\ s.budget = u.budget /\ s.banned = u.banned /\ s.blocked = u.blocked /\ s.resent = 1
  BY <1>1 DEF FetchType
<1> HIDE DEF s
<1>4. FetchOK(s, row, ver, most)
  BY <1>2, <1>3, RetryKeeps DEF Kin
<1> QED BY <1>2, <1>4 DEF s

LEMMA KinEnds ==
  ASSUME NEW r \in FetchType, NEW u, Kin(r, u), NEW row, NEW ver, NEW most, FetchOK(r, row, ver, most), r.pc = "flight"
  PROVE  [u EXCEPT !.pc = "over"] \in FetchType /\ FetchOK([u EXCEPT !.pc = "over"], row, ver, most)
<1> DEFINE s == [u EXCEPT !.pc = "over"]
<1>1. u \in FetchType
  BY DEF Kin
<1>2. s \in FetchType
  BY <1>1 DEF FetchType, FetchPcs
<1>3. /\ s.pc = "over" /\ s.voices = u.voices /\ s.source = u.source /\ s.sends = u.sends
      /\ s.budget = u.budget /\ s.banned = u.banned /\ s.blocked = u.blocked /\ s.resent = u.resent /\ s.net = u.net
  BY <1>1 DEF FetchType
<1> HIDE DEF s
<1>4. r.net \in Int
  BY DEF FetchType
<1>5. FetchOK(s, row, ver, most)
  BY <1>3, <1>4 DEF Kin, FetchOK, Holding, Paid
<1> QED BY <1>2, <1>5 DEF s

LEMMA UnusableKeeps ==
  ASSUME RowsOK, PoolOK, NEW a \in HostAccounts, hostRow' = Unusable(a), hostPool' = hostPool
  PROVE  RowsOK' /\ PoolOK'
<1> DEFINE x == [hostRow[a] EXCEPT !.ok = FALSE]
<1>1. RowOK(a, hostRow[a])
  BY DEF RowsOK
<1>2. RowOK(a, x) /\ x.index = hostRow[a].index
  BY <1>1, RowUpdates
<1>3. hostRow' = [hostRow EXCEPT ![a] = x]
  BY DEF Unusable
<1> HIDE DEF x
<1> QED BY <1>2, <1>3, RowChanges

\* The state every answer starts from.
LEMMA HeldFacts ==
  ASSUME FetchInv, NEW f \in Fetches, Holding(fetches[f])
  PROVE  /\ fetches[f] \in FetchType /\ FetchOK(fetches[f], hostPool, stickyVersion, MostSends)
         /\ fetches[f].at \in HostAccounts /\ fetches[f].ver \in 1..stickyVersion /\ fetches[f].key \in Sessions
         /\ RowsOK /\ PoolOK /\ StickyOK /\ BucketsOK
BY DEF FetchInv, FetchOK, Holding

LEMMA SkipsKeeps ==
  ASSUME FetchInv, NEW f \in Fetches, NEW cools \in BOOLEAN, FetchSkips(f, cools)
  PROVE  FetchInv'
<1> DEFINE r == fetches[f]
<1>1. r.pc = "refresh" /\ Holding(r)
  BY DEF FetchSkips, Holding
<1>2. [r EXCEPT !.pc = "pick"] \in FetchType /\ FetchOK([r EXCEPT !.pc = "pick"], hostPool, stickyVersion, MostSends)
  BY <1>1, HeldFacts, KinKnown, KinRotates
<1>3. RowsOK' /\ PoolOK'
  BY <1>1, HeldFacts, UnusableKeeps, RowsStay DEF FetchSkips
<1>4. StickyOK' /\ BucketsOK'
  BY <1>1, HeldFacts, StickyStays, BucketsStay DEF FetchSkips
<1>5. FetchBecomes(f, [r EXCEPT !.pc = "pick"])
  BY DEF FetchSkips, Rotate
<1> HIDE DEF r
<1> QED BY <1>2, <1>3, <1>4, <1>5, Settles DEF FetchSkips

LEMMA AdmitsKeeps ==
  ASSUME FetchInv, NEW f \in Fetches, FetchAdmits(f)
  PROVE  FetchInv'
<1> DEFINE r == fetches[f]
           s == [r EXCEPT !.pc = "send", !.same = 0, !.short = 0, !.net = @ + 1]
<1>1. r.pc = "refresh" /\ Holding(r)
  BY DEF FetchAdmits, Holding
<1>2. r \in FetchType /\ FetchOK(r, hostPool, stickyVersion, MostSends) /\ r.at \in HostAccounts
  BY <1>1, HeldFacts
<1>3. r.net \in Int /\ (r.resent = 0 => r.net >= 0)
  BY <1>1, <1>2 DEF FetchType, FetchOK, Paid
<1>4. s \in FetchType
  <2>1. r.net + 1 \in Int
    BY <1>3
  <2> QED BY <1>2, <2>1 DEF FetchType, FetchPcs
<1>5. /\ s.pc = "send" /\ s.at = r.at /\ s.key = r.key /\ s.ver = r.ver /\ s.voices = r.voices /\ s.source = r.source /\ s.sends = r.sends
      /\ s.budget = r.budget /\ s.banned = r.banned /\ s.blocked = r.blocked /\ s.resent = r.resent /\ s.net = r.net + 1
  BY <1>2 DEF FetchType
<1>6. RowsOK' /\ PoolOK' /\ StickyOK'
  BY <1>1, HeldFacts, RowsStay, StickyStays DEF FetchAdmits
<1>7. BucketsOK'
  BY <1>1, <1>2, HeldFacts DEF FetchAdmits, BucketsOK, pauses
<1>8. FetchBecomes(f, s) /\ UNCHANGED <<hostPool, stickyVersion, failoverMode>>
  BY DEF FetchAdmits
<1> HIDE DEF r, s
<1>9. FetchOK(s, hostPool, stickyVersion, MostSends)
  BY <1>1, <1>2, <1>3, <1>4, <1>5, RetryKeeps
<1> QED BY <1>4, <1>6, <1>7, <1>8, <1>9, Settles

LEMMA SpentTyped ==
  ASSUME NEW r \in FetchType, r.budget > 0
  PROVE  /\ Spend(r) \in FetchType /\ Spend(r) = [r EXCEPT !.budget = r.budget - 1, !.sends = r.sends + 1]
         /\ [r EXCEPT !.budget = @ - 1] \in FetchType /\ [r EXCEPT !.budget = @ - 1] = [r EXCEPT !.budget = r.budget - 1]
<1>1. r.budget - 1 \in 0..MaxOutbound /\ r.sends + 1 \in Nat
  <2>1. r.budget \in 0..MaxOutbound /\ r.sends \in Nat
    BY DEF FetchType
  <2>2. MaxOutbound \in Nat
    BY FetchAssumption
  <2> QED BY <2>1, <2>2
<1>2. Spend(r) = [r EXCEPT !.budget = r.budget - 1, !.sends = r.sends + 1] /\ [r EXCEPT !.budget = @ - 1] = [r EXCEPT !.budget = r.budget - 1]
  BY DEF Spend, FetchType
<1> QED BY <1>1, <1>2 DEF FetchType

LEMMA SendsKeeps ==
  ASSUME FetchInv, NEW f \in Fetches, FetchSends(f)
  PROVE  FetchInv'
<1> DEFINE r == fetches[f]
<1>1. r.pc = "send" /\ Holding(r)
  BY DEF FetchSends, Holding
<1>2. r \in FetchType /\ FetchOK(r, hostPool, stickyVersion, MostSends) /\ r.at \in HostAccounts
  BY <1>1, HeldFacts
<1>3. RowsOK' /\ PoolOK' /\ StickyOK' /\ BucketsOK'
  BY <1>1, HeldFacts, RowsStay, StickyStays, BucketsStay DEF FetchSends
<1>4. CASE r.budget = 0 /\ Over(f)
  <2>1. [r EXCEPT !.pc = "over"] \in FetchType /\ FetchOK([r EXCEPT !.pc = "over"], hostPool, stickyVersion, MostSends)
    BY <1>2, OverKeeps
  <2> HIDE DEF r
  <2> QED BY <1>3, <1>4, <2>1, Settles DEF FetchSends, Over, r
<1>5. CASE r.budget # 0 /\ FetchBecomes(f, [Spend(r) EXCEPT !.pc = "flight"])
  <2> DEFINE t == Spend(r)
             s == [t EXCEPT !.pc = "flight"]
  <2>1. r.budget \in Nat /\ r.sends \in Nat /\ r.budget > 0
    <3>1. r.budget \in 0..MaxOutbound /\ r.sends \in Nat
      BY <1>2 DEF FetchType
    <3>2. MaxOutbound \in Nat
      BY FetchAssumption
    <3> QED BY <1>5, <3>1, <3>2
  <2>2. t \in FetchType /\ t = [r EXCEPT !.budget = r.budget - 1, !.sends = r.sends + 1]
    BY <1>2, <2>1, SpentTyped
  <2>3. s \in FetchType
    <3>1. t \in FetchType
      BY <2>2
    <3> HIDE DEF t
    <3> QED BY <3>1 DEF FetchType, FetchPcs
  <2>4. s = [r EXCEPT !.budget = r.budget - 1, !.sends = r.sends + 1, !.pc = "flight"]
    BY <2>2
  <2>5. /\ s.pc = "flight" /\ s.at = r.at /\ s.key = r.key /\ s.ver = r.ver /\ s.voices = r.voices /\ s.source = r.source
        /\ s.sends = r.sends + 1 /\ s.budget = r.budget - 1
        /\ s.banned = r.banned /\ s.blocked = r.blocked /\ s.resent = r.resent /\ s.net = r.net
    <3> HIDE DEF s, r
    <3> QED BY <1>2, <2>4 DEF FetchType
  <2>6. MostSends \in Nat
    BY BudgetBounds, PositionsAreNatural DEF FetchInv, BucketsOK
  <2> HIDE DEF s, r
  <2>7. FetchOK(s, hostPool, stickyVersion, MostSends)
    BY <1>1, <1>2, <2>1, <2>5, <2>6 DEF FetchOK, Holding, Paid
  <2> HIDE DEF t
  <2> QED BY <1>3, <1>5, <2>3, <2>7, Settles DEF FetchSends, s, t
<1> QED BY <1>4, <1>5 DEF FetchSends

LEMMA FlightFacts ==
  ASSUME FetchInv, NEW f \in Fetches, InFlight(f)
  PROVE  LET r == fetches[f]  u == FetchRefunded(r) IN
         /\ r.pc = "flight" /\ Holding(r) /\ Paid(r) /\ r \in FetchType /\ FetchOK(r, hostPool, stickyVersion, MostSends)
         /\ r.at \in HostAccounts /\ r.ver \in 1..stickyVersion
         /\ RowsOK /\ PoolOK /\ StickyOK /\ BucketsOK /\ poolPause \in BOOLEAN /\ burst \subseteq Positions
         /\ Kin(r, r) /\ Kin(r, u) /\ u.at = r.at
BY HeldFacts, KinKnown DEF InFlight, Holding, Paid, Kin, BucketsOK

LEMMA NetworkKeeps ==
  ASSUME FetchInv, NEW f \in Fetches, FetchNetworkError(f)
  PROVE  FetchInv'
<1> DEFINE r == fetches[f]
           u == FetchRefunded(r)
<1>1. InFlight(f)
  BY DEF FetchNetworkError
<1>2. BucketsOK'
  BY <1>1, FlightFacts, RefundKeeps DEF FetchNetworkError, pauses
<1>3. CASE RetrySame(f, u) /\ UNCHANGED <<hostRow, sticky>>
  <2>1. RowsOK' /\ PoolOK' /\ StickyOK'
    BY <1>1, <1>3, FlightFacts, RowsStay, StickyStays DEF FetchNetworkError
  <2> QED BY <1>1, <1>2, <1>3, <2>1, FlightFacts, KinRetries, Settles DEF FetchNetworkError, RetrySame
<1>4. CASE Rotate(f, u) /\ hostRow' = Unusable(u.at) /\ Forget(u)
  <2>1. RowsOK' /\ PoolOK' /\ StickyOK'
    BY <1>1, <1>4, FlightFacts, UnusableKeeps, ForgetKeeps DEF FetchNetworkError
  <2> QED BY <1>1, <1>2, <1>4, <2>1, FlightFacts, KinRotates, Settles DEF FetchNetworkError, Rotate
<1> QED BY <1>3, <1>4 DEF FetchNetworkError

LEMMA AbortedKeeps ==
  ASSUME FetchInv, NEW f \in Fetches, FetchAborted(f)
  PROVE  FetchInv'
<1> DEFINE r == fetches[f]
           u == FetchRefunded(r)
<1>1. InFlight(f)
  BY DEF FetchAborted
<1>2. BucketsOK'
  BY <1>1, FlightFacts, RefundKeeps DEF FetchAborted, pauses
<1>3. RowsOK' /\ PoolOK' /\ StickyOK'
  BY <1>1, FlightFacts, RowsStay, ForgetKeeps DEF FetchAborted
<1> QED BY <1>1, <1>2, <1>3, FlightFacts, KinEnds, Settles DEF FetchAborted

LEMMA ServerErrorKeeps ==
  ASSUME FetchInv, NEW f \in Fetches, NEW hint \in BOOLEAN, FetchServerError(f, hint)
  PROVE  FetchInv'
<1> DEFINE r == fetches[f]
           u == FetchRefunded(r)
<1>1. InFlight(f)
  BY DEF FetchServerError
<1>2. hostRow[u.at].index \in Positions
  BY <1>1, FlightFacts DEF RowsOK, RowOK
<1>3. burst' \subseteq Positions
  BY <1>1, <1>2, FlightFacts DEF FetchServerError
<1>4. BucketsOK'
  BY <1>1, <1>3, FlightFacts, RefundKeeps DEF FetchServerError
<1>5. CASE RetrySame(f, u) /\ UNCHANGED <<hostRow, sticky>>
  <2>1. RowsOK' /\ PoolOK' /\ StickyOK'
    BY <1>1, <1>5, FlightFacts, RowsStay, StickyStays DEF FetchServerError
  <2> QED BY <1>1, <1>4, <1>5, <2>1, FlightFacts, KinRetries, Settles DEF FetchServerError, RetrySame
<1>6. CASE Rotate(f, u) /\ hostRow' = Unusable(u.at) /\ Forget(u)
  <2>1. RowsOK' /\ PoolOK' /\ StickyOK'
    BY <1>1, <1>6, FlightFacts, UnusableKeeps, ForgetKeeps DEF FetchServerError
  <2> QED BY <1>1, <1>4, <1>6, <2>1, FlightFacts, KinRotates, Settles DEF FetchServerError, Rotate
<1> QED BY <1>5, <1>6 DEF FetchServerError

LEMMA LimitedKeeps ==
  ASSUME FetchInv, NEW f \in Fetches, NEW brief \in BOOLEAN, FetchLimited(f, brief)
  PROVE  FetchInv'
<1> DEFINE r == fetches[f]
<1>1. InFlight(f)
  BY DEF FetchLimited
<1>2. BucketsOK'
  BY <1>1, FlightFacts, BucketsStay DEF FetchLimited
<1>3. RowsOK' /\ PoolOK'
  BY <1>1, FlightFacts, UnusableKeeps DEF FetchLimited
<1>4. CASE FetchBecomes(f, [r EXCEPT !.pc = "send", !.short = @ + 1]) /\ UNCHANGED sticky
  <2> DEFINE s == [r EXCEPT !.pc = "send", !.short = @ + 1]
  <2>1. r \in FetchType /\ FetchOK(r, hostPool, stickyVersion, MostSends) /\ r.pc = "flight"
    BY <1>1, FlightFacts
  <2>2. s \in FetchType
    <3>1. r.short \in Nat
      BY <2>1 DEF FetchType
    <3>2. r.short + 1 \in Nat
      BY <3>1
    <3> QED BY <2>1, <3>2 DEF FetchType, FetchPcs
  <2>3. /\ s.pc = "send" /\ s.at = r.at /\ s.key = r.key /\ s.ver = r.ver /\ s.voices = r.voices /\ s.source = r.source
        /\ s.sends = r.sends /\ s.budget = r.budget /\ s.banned = r.banned /\ s.blocked = r.blocked
        /\ s.resent = r.resent /\ s.net = r.net
    BY <2>1 DEF FetchType
  <2>4. r.resent = 0 => r.net >= 1
    BY <2>1 DEF FetchOK, Paid
  <2> HIDE DEF r, s
  <2>5. FetchOK(s, hostPool, stickyVersion, MostSends)
    BY <2>1, <2>2, <2>3, <2>4, RetryKeeps
  <2>6. StickyOK'
    BY <1>1, <1>4, FlightFacts, StickyStays DEF FetchLimited
  <2> QED BY <1>2, <1>3, <1>4, <2>2, <2>5, <2>6, Settles DEF FetchLimited, s
<1>5. CASE Rotate(f, r) /\ Forget(r)
  <2>1. StickyOK'
    BY <1>1, <1>5, FlightFacts, ForgetKeeps DEF FetchLimited
  <2> QED BY <1>1, <1>2, <1>3, <1>5, <2>1, FlightFacts, KinRotates, Settles DEF FetchLimited, Rotate
<1> QED BY <1>4, <1>5 DEF FetchLimited

LEMMA UnsupportedKeeps ==
  ASSUME FetchInv, NEW f \in Fetches, NEW forced \in BOOLEAN, FetchUnsupported(f, forced)
  PROVE  FetchInv'
<1> DEFINE r == fetches[f]
           u == FetchRefunded(r)
<1>1. InFlight(f) /\ RowsOK' /\ PoolOK'
  BY FlightFacts, RowsStay DEF FetchUnsupported
<1>2. CASE FetchRefund(r) /\ Rotate(f, u) /\ Forget(r)
  <2>1. StickyOK' /\ BucketsOK'
    BY <1>1, <1>2, FlightFacts, ForgetKeeps, RefundKeeps DEF FetchUnsupported, pauses
  <2> QED BY <1>1, <1>2, <2>1, FlightFacts, KinRotates, Settles DEF FetchUnsupported, Rotate
<1>3. CASE FetchRefund(r) /\ FetchBecomes(f, [Traversal(u) EXCEPT !.fallbacks = AtMost(@ + 1, MaxFallbacks)]) /\ UNCHANGED sticky
  <2> DEFINE t == Traversal(u)
             s == [t EXCEPT !.fallbacks = AtMost(@ + 1, MaxFallbacks)]
  <2>1. u \in FetchType
    BY <1>1, FlightFacts DEF Kin
  <2>2. t \in FetchType
    BY <2>1, TraversalTyped
  <2>3. s \in FetchType
    <3> HIDE DEF t
    <3>1. t.fallbacks \in Nat
      BY <2>2 DEF FetchType
    <3>2. AtMost(t.fallbacks + 1, MaxFallbacks) \in Nat
      BY <3>1, FetchAssumption DEF AtMost
    <3> QED BY <2>2, <3>2 DEF FetchType
  <2>4. /\ s.pc = t.pc /\ s.key = t.key /\ s.ver = t.ver /\ s.voices = t.voices /\ s.source = t.source /\ s.sends = t.sends
        /\ s.budget = t.budget /\ s.banned = t.banned /\ s.blocked = t.blocked /\ s.resent = t.resent /\ s.net = t.net
    <3> HIDE DEF t
    <3> QED BY <2>2 DEF FetchType
  <2>5. /\ t.pc = "pick" /\ t.key = u.key /\ t.ver = u.ver /\ t.voices = u.voices /\ t.source = u.source /\ t.sends = u.sends
        /\ t.budget = u.budget /\ t.banned = u.banned /\ t.blocked = u.blocked /\ t.resent = u.resent /\ t.net = u.net
    BY <2>1, TraversalTyped
  <2> HIDE DEF s, t, u
  <2>6. FetchOK(s, hostPool, stickyVersion, MostSends)
    <3>1. Kin(r, u) /\ r \in FetchType /\ FetchOK(r, hostPool, stickyVersion, MostSends) /\ r.pc = "flight" /\ Paid(r)
      BY <1>1, FlightFacts DEF u
    <3> HIDE DEF r
    <3> QED BY <2>3, <2>4, <2>5, <3>1, RotateKeeps DEF Kin
  <2>7. StickyOK' /\ BucketsOK'
    BY <1>1, <1>3, FlightFacts, StickyStays, RefundKeeps DEF FetchUnsupported, pauses
  <2> QED BY <1>1, <1>3, <2>3, <2>6, <2>7, Settles DEF FetchUnsupported, s, t, u
<1>4. CASE Over(f) /\ UNCHANGED <<refundable, sticky>>
  <2>1. StickyOK' /\ BucketsOK'
    BY <1>1, <1>4, FlightFacts, StickyStays, BucketsStay DEF FetchUnsupported
  <2> QED BY <1>1, <1>4, <2>1, FlightFacts, KinEnds, Settles DEF FetchUnsupported, Over
<1> QED BY <1>2, <1>3, <1>4 DEF FetchUnsupported

LEMMA RejectedKeeps ==
  ASSUME FetchInv, NEW f \in Fetches, FetchRejected(f)
  PROVE  FetchInv'
<1>1. InFlight(f) /\ RowsOK' /\ PoolOK' /\ StickyOK' /\ BucketsOK'
  BY FlightFacts, RowsStay, StickyStays, BucketsStay DEF FetchRejected
<1> QED BY <1>1, FlightFacts, KinEnds, Settles DEF FetchRejected, Over

LEMMA EmptyKeeps ==
  ASSUME FetchInv, NEW f \in Fetches, FetchEmpty(f)
  PROVE  FetchInv'
<1> DEFINE r == fetches[f]
           u == [FetchRefunded(r) EXCEPT !.empties = @ + 1]
<1>1. InFlight(f)
  BY DEF FetchEmpty
<1>2. Kin(r, u) /\ u.at = r.at
  BY <1>1, FlightFacts, KinKnown DEF Kin
<1> HIDE DEF u
<1>3. BucketsOK' /\ RowsOK' /\ PoolOK'
  BY <1>1, <1>2, FlightFacts, RefundKeeps, RowsStay DEF FetchEmpty, pauses, u
<1>4. CASE RetrySame(f, u) /\ UNCHANGED sticky
  <2>1. StickyOK'
    BY <1>1, <1>4, FlightFacts, StickyStays DEF FetchEmpty
  <2> QED BY <1>1, <1>2, <1>3, <1>4, <2>1, FlightFacts, KinRetries, Settles DEF FetchEmpty, RetrySame
<1>5. CASE Rotate(f, u) /\ Forget(u)
  <2>1. StickyOK'
    BY <1>1, <1>5, FlightFacts, ForgetKeeps DEF FetchEmpty
  <2> QED BY <1>1, <1>2, <1>3, <1>5, <2>1, FlightFacts, KinRotates, Settles DEF FetchEmpty, Rotate
<1> QED BY <1>4, <1>5 DEF FetchEmpty, u

\* A change of any rows that leaves the positions alone.
LEMMA RowsChange ==
  ASSUME RowsOK, PoolOK, hostRow' = [b \in HostAccounts |-> hostRow'[b]], hostPool' = hostPool,
         \A b \in HostAccounts : RowOK(b, hostRow'[b]) /\ hostRow'[b].index = hostRow[b].index
  PROVE  RowsOK' /\ PoolOK'
<1>1. RowsOK'
  BY DEF RowsOK, RowOK
<1>2. PoolOK'
  BY ElementOfSeq DEF PoolOK
<1> QED BY <1>1, <1>2

LEMMA WorkspaceGoneKeeps ==
  ASSUME FetchInv, NEW f \in Fetches, FetchWorkspaceGone(f)
  PROVE  FetchInv'
<1> DEFINE r == fetches[f]
           a == r.at
           off == [hostRow EXCEPT ![a].spaces = @ \ {hostRow[a].space}]
           x == [hostRow[a] EXCEPT !.spaces = @ \ {hostRow[a].space}]
<1>1. InFlight(f) /\ BucketsOK' /\ a \in HostAccounts /\ RowsOK /\ PoolOK
  BY FlightFacts, BucketsStay DEF FetchWorkspaceGone
<1>2. RowOK(a, x) /\ x.index = hostRow[a].index
  BY <1>1, RowUpdates DEF RowsOK
<1>3. off = [b \in HostAccounts |-> off[b]] /\ \A b \in HostAccounts : off[b] = IF b = a THEN x ELSE hostRow[b]
  BY <1>1 DEF RowsOK
<1>4. \A b \in HostAccounts : RowOK(b, off[b]) /\ off[b].index = hostRow[b].index
  BY <1>1, <1>2, <1>3 DEF RowsOK
<1> HIDE DEF off, x
<1>5. CASE HostWorkspaces[a] = 0
  <2>1. RowsOK' /\ PoolOK' /\ StickyOK'
    BY <1>1, <1>5, FlightFacts, RowsStay, StickyStays DEF FetchWorkspaceGone
  <2>2. Rotate(f, r) \/ Over(f)
    BY <1>5 DEF FetchWorkspaceGone
  <2>3. CASE Rotate(f, r)
    BY <1>1, <2>1, <2>3, FlightFacts, KinRotates, Settles DEF FetchWorkspaceGone, Rotate
  <2>4. CASE Over(f)
    BY <1>1, <2>1, <2>4, FlightFacts, KinEnds, Settles DEF FetchWorkspaceGone, Over
  <2> QED BY <2>2, <2>3, <2>4
<1>6. ASSUME NEW w, hostRow' = [off EXCEPT ![a].space = w], UNCHANGED <<hostPool, sticky>>,
             Rotate(f, [r EXCEPT !.tried = @ \ {hostRow[a].index}])
      PROVE  FetchInv'
  <2> DEFINE y == [off[a] EXCEPT !.space = w]
  <2>1. RowOK(a, y) /\ y.index = hostRow[a].index
    <3> DEFINE z == off[a]
    <3>1. RowOK(a, z) /\ z.index = hostRow[a].index
      BY <1>1, <1>4
    <3> HIDE DEF z
    <3>2. RowOK(a, [z EXCEPT !.space = w]) /\ [z EXCEPT !.space = w].index = z.index
      BY <1>1, <3>1, RowUpdates
    <3> QED BY <3>1, <3>2 DEF z
  <2>2. hostRow' = [b \in HostAccounts |-> hostRow'[b]] /\ \A b \in HostAccounts : hostRow'[b] = IF b = a THEN y ELSE off[b]
    BY <1>1, <1>3, <1>6
  <2> HIDE DEF y
  <2>3. RowsOK' /\ PoolOK'
    BY <1>1, <1>4, <1>6, <2>1, <2>2, RowsChange
  <2>4. StickyOK'
    BY <1>1, <1>6, FlightFacts, StickyStays DEF FetchWorkspaceGone
  <2> DEFINE T == r.tried \ {hostRow[a].index}
             u == [r EXCEPT !.tried = T]
  <2>5. T \in SUBSET Positions /\ u = [r EXCEPT !.tried = @ \ {hostRow[a].index}]
    BY <1>1, FlightFacts DEF FetchType
  <2>6. r \in FetchType
    BY <1>1, FlightFacts
  <2> HIDE DEF T
  <2>7. Kin(r, u) /\ u.net = r.net
    BY <2>5, <2>6, KinKnown
  <2> HIDE DEF u
  <2> QED BY <1>1, <1>6, <2>3, <2>4, <2>5, <2>7, FlightFacts, KinRotates, Settles DEF FetchWorkspaceGone, Rotate
<1>7. CASE hostRow' = Disabled(off, hostRow[a].index) /\ Rotate(f, r) /\ Forget(r)
  <2>1. hostPool' = hostPool /\ UNCHANGED <<stickyVersion, removedTwice>>
    BY DEF FetchWorkspaceGone
  <2>2. RowsOK' /\ PoolOK'
    <3> DEFINE i == hostRow[a].index
    <3>1. CASE i \in DOMAIN hostPool
      <4> DEFINE c == hostPool[i]
                 y == [off[c] EXCEPT !.on = FALSE]
      <4>1. c \in HostAccounts
        BY <1>1, <3>1, ElementOfSeq, LenProperties DEF PoolOK
      <4> HIDE DEF c
      <4>2. RowOK(c, y) /\ y.index = hostRow[c].index
        <5> DEFINE z == off[c]
        <5>1. RowOK(c, z) /\ z.index = hostRow[c].index
          BY <1>4, <4>1
        <5> HIDE DEF z
        <5>2. RowOK(c, [z EXCEPT !.on = FALSE]) /\ [z EXCEPT !.on = FALSE].index = z.index
          BY <4>1, <5>1, RowUpdates
        <5> QED BY <5>1, <5>2 DEF z
      <4>3. hostRow' = [b \in HostAccounts |-> hostRow'[b]] /\ \A b \in HostAccounts : hostRow'[b] = IF b = c THEN y ELSE off[b]
        BY <1>3, <1>7, <3>1 DEF Disabled, c
      <4> HIDE DEF y
      <4> QED BY <1>1, <1>4, <2>1, <4>2, <4>3, RowsChange
    <3>2. CASE i \notin DOMAIN hostPool
      <4>1. hostRow' = off
        BY <1>7, <3>2 DEF Disabled
      <4> QED BY <1>1, <1>3, <1>4, <2>1, <4>1, RowsChange
    <3> QED BY <3>1, <3>2
  <2>3. StickyOK'
    BY <1>1, <1>7, <2>1, FlightFacts, ForgetKeeps
  <2> QED BY <1>1, <1>7, <2>2, <2>3, FlightFacts, KinRotates, Settles DEF FetchWorkspaceGone, Rotate
<1> QED BY <1>5, <1>6, <1>7 DEF FetchWorkspaceGone, off

LEMMA SucceedsKeeps ==
  ASSUME FetchInv, NEW f \in Fetches, NEW streams \in BOOLEAN, FetchSucceeds(f, streams)
  PROVE  FetchInv'
<1> DEFINE r == fetches[f]
           x == [hostRow[r.at] EXCEPT !.fails = IF hostRow[r.at].ok THEN 0 ELSE @]
<1>1. InFlight(f)
  BY DEF FetchSucceeds
<1>2. RowsOK' /\ PoolOK'
  <2>1. RowOK(r.at, hostRow[r.at])
    BY <1>1, FlightFacts DEF RowsOK
  <2>2. (IF hostRow[r.at].ok THEN 0 ELSE hostRow[r.at].fails) \in Nat
    BY <2>1 DEF RowOK
  <2>3. RowOK(r.at, x) /\ x.index = hostRow[r.at].index
    BY <1>1, <2>1, <2>2, FlightFacts, RowUpdates
  <2>4. hostRow' = [hostRow EXCEPT ![r.at] = x] /\ hostPool' = hostPool
    BY DEF FetchSucceeds
  <2> HIDE DEF x
  <2> QED BY <1>1, <2>3, <2>4, FlightFacts, RowChanges
<1>3. StickyOK'
  BY <1>1, FlightFacts, RememberKeeps DEF FetchSucceeds
<1>4. BucketsOK'
  BY <1>1, FlightFacts DEF FetchSucceeds, BucketsOK
<1>5. CASE Over(f)
  BY <1>1, <1>2, <1>3, <1>4, <1>5, FlightFacts, KinEnds, Settles DEF FetchSucceeds, Over
<1>6. ASSUME NEW c \in Candidates(r), FetchBecomes(f, [r EXCEPT !.pc = "stream", !.source = @ + 1, !.order = c])
      PROVE  FetchInv'
  <2> DEFINE s == [r EXCEPT !.pc = "stream", !.source = @ + 1, !.order = c]
  <2>1. r \in FetchType /\ FetchOK(r, hostPool, stickyVersion, MostSends) /\ r.pc = "flight" /\ r.at \in HostAccounts
    BY <1>1, FlightFacts
  <2>2. c \in Seq(Nat)
    <3>1. hostRow[r.at].index \in Nat
      BY <1>1, <2>1, FlightFacts, PositionsAreNatural DEF RowsOK, RowOK
    <3>2. DOMAIN hostPool \subseteq Nat
      <4>1. hostPool \in Seq(HostAccounts)
        BY <1>1, FlightFacts DEF PoolOK
      <4> QED BY <4>1, LenProperties
    <3>3. \A i \in Nat : <<i>> \in Seq(Nat) /\ \A j \in Nat : <<i, j>> \in Seq(Nat)
      OBVIOUS
    <3>4. c = <<hostRow[r.at].index>> \/ \E j \in DOMAIN hostPool : c = <<hostRow[r.at].index, j>>
      BY DEF Candidates
    <3> HIDE DEF r
    <3> QED BY <3>1, <3>2, <3>3, <3>4
  <2>3. s \in FetchType
    <3>1. r.source \in Nat
      BY <2>1 DEF FetchType
    <3>2. r.source + 1 \in Nat
      BY <3>1
    <3> QED BY <2>1, <2>2, <3>2 DEF FetchType, FetchPcs
  <2>4. /\ s.pc = "stream" /\ s.at = r.at /\ s.key = r.key /\ s.ver = r.ver /\ s.voices = r.voices /\ s.sends = r.sends
        /\ s.budget = r.budget /\ s.banned = r.banned /\ s.blocked = r.blocked /\ s.resent = r.resent /\ s.net = r.net
    BY <2>1 DEF FetchType
  <2>5. r.net \in Int /\ r.voices = {}
    BY <2>1 DEF FetchType, FetchOK
  <2> HIDE DEF r, s
  <2>6. FetchOK(s, hostPool, stickyVersion, MostSends)
    BY <2>1, <2>4, <2>5 DEF FetchOK, Holding, Paid
  <2> QED BY <1>2, <1>3, <1>4, <1>6, <2>3, <2>6, Settles DEF FetchSucceeds, s
<1> QED BY <1>5, <1>6 DEF FetchSucceeds

-----------------------------------------------------------------------------
(* Streams and their failover. *)

LEMMA ChunkKeeps ==
  ASSUME FetchInv, NEW f \in Fetches, StreamChunk(f)
  PROVE  FetchInv'
<1> DEFINE r == fetches[f]
           s == [r EXCEPT !.voices = @ \cup {r.source}]
<1>1. r.pc = "stream" /\ Holding(r) /\ r.source \notin r.voices
  BY DEF StreamChunk, Holding
<1>2. r \in FetchType /\ FetchOK(r, hostPool, stickyVersion, MostSends)
  BY <1>1, HeldFacts
<1>3. RowsOK' /\ PoolOK' /\ StickyOK' /\ BucketsOK'
  BY <1>1, HeldFacts, RowsStay, StickyStays, BucketsStay DEF StreamChunk
<1>4. r.source \in Nat /\ r.voices \in SUBSET Nat /\ r.voices \subseteq {r.source}
  BY <1>2 DEF FetchType, FetchOK
<1>5. s \in FetchType
  <2>1. r.voices \cup {r.source} \in SUBSET Nat
    BY <1>4
  <2> QED BY <1>2, <2>1 DEF FetchType
<1>6. /\ s.pc = "stream" /\ s.at = r.at /\ s.key = r.key /\ s.ver = r.ver /\ s.voices = r.voices \cup {r.source} /\ s.source = r.source
      /\ s.sends = r.sends /\ s.budget = r.budget /\ s.banned = r.banned /\ s.blocked = r.blocked
      /\ s.resent = r.resent /\ s.net = r.net
  BY <1>1, <1>2 DEF FetchType
<1>7. FetchBecomes(f, s) /\ UNCHANGED <<hostPool, stickyVersion, failoverMode>>
  BY DEF StreamChunk
<1> HIDE DEF r, s
<1>8. FetchOK(s, hostPool, stickyVersion, MostSends)
  BY <1>1, <1>2, <1>4, <1>6 DEF FetchOK, Holding, Paid
<1> QED BY <1>3, <1>5, <1>7, <1>8, Settles

LEMMA EndsKeeps ==
  ASSUME FetchInv, NEW f \in Fetches, StreamEnds(f)
  PROVE  FetchInv'
<1>1. Holding(fetches[f])
  BY DEF StreamEnds, Holding
<1>2. RowsOK' /\ PoolOK' /\ StickyOK' /\ BucketsOK'
  BY <1>1, HeldFacts, RowsStay, StickyStays, BucketsStay DEF StreamEnds
<1> QED BY <1>1, <1>2, HeldFacts, OverKeeps, Settles DEF StreamEnds, Over

LEMMA BreaksKeeps ==
  ASSUME FetchInv, NEW f \in Fetches, StreamBreaks(f)
  PROVE  FetchInv'
<1> DEFINE r == fetches[f]
           s == [r EXCEPT !.pc = "failover", !.failovers = @ + 1, !.candidates = r.order]
<1>1. r.pc = "stream" /\ Holding(r)
  BY DEF StreamBreaks, Holding
<1>2. r \in FetchType /\ FetchOK(r, hostPool, stickyVersion, MostSends)
  BY <1>1, HeldFacts
<1>3. RowsOK' /\ PoolOK' /\ StickyOK' /\ BucketsOK'
  BY <1>1, HeldFacts, RowsStay, StickyStays, BucketsStay DEF StreamBreaks
<1>4. CASE MayFailOver(r) /\ FetchBecomes(f, s)
  <2>1. s \in FetchType
    <3>1. r.failovers \in Nat
      BY <1>2 DEF FetchType
    <3>2. r.failovers + 1 \in Nat
      BY <3>1
    <3>3. r.order \in Seq(Nat)
      BY <1>2 DEF FetchType
    <3> QED BY <1>2, <3>2, <3>3 DEF FetchType, FetchPcs
  <2>2. /\ s.pc = "failover" /\ s.at = r.at /\ s.key = r.key /\ s.ver = r.ver /\ s.voices = r.voices /\ s.source = r.source
        /\ s.sends = r.sends /\ s.budget = r.budget /\ s.banned = r.banned /\ s.blocked = r.blocked
        /\ s.resent = r.resent /\ s.net = r.net
    BY <1>2 DEF FetchType
  <2>3. r.voices = {}
    BY <1>4 DEF MayFailOver
  <2> HIDE DEF r, s
  <2>4. FetchOK(s, hostPool, stickyVersion, MostSends)
    BY <1>1, <1>2, <2>2, <2>3 DEF FetchOK, Holding, Paid
  <2> QED BY <1>3, <1>4, <2>1, <2>4, Settles DEF StreamBreaks
<1>5. CASE Over(f)
  BY <1>2, <1>3, <1>5, OverKeeps, Settles DEF StreamBreaks, Over
<1> QED BY <1>4, <1>5 DEF StreamBreaks

LEMMA TailTyped ==
  ASSUME NEW r \in FetchType, r.candidates # <<>>
  PROVE  FetchSkipped(r) \in FetchType /\ FetchSkipped(r) = [r EXCEPT !.pc = "failover", !.candidates = Tail(r.candidates)]
<1>1. r.candidates \in Seq(Nat)
  BY DEF FetchType
<1>2. Tail(r.candidates) \in Seq(Nat)
  BY <1>1, HeadTailProperties
<1>3. FetchSkipped(r) = [r EXCEPT !.pc = "failover", !.candidates = Tail(r.candidates)]
  BY DEF FetchSkipped, FetchType
<1> QED BY <1>2, <1>3 DEF FetchType, FetchPcs

\* A failover that passes over a candidate, perhaps after it was counted or failed.
LEMMA FailoverMoves ==
  ASSUME NEW r \in FetchType, NEW u \in FetchType, NEW row, NEW ver, NEW most, FetchOK(r, row, ver, most),
         r.pc \in {"failover", "retried"}, u.candidates # <<>>,
         u.at = r.at, u.key = r.key, u.ver = r.ver, u.voices = r.voices, u.source = r.source, u.sends = r.sends,
         u.budget <= r.budget, u.banned = r.banned, u.blocked = r.blocked, u.resent = r.resent,
         u.net = r.net \/ (r.pc = "retried" /\ u.net = r.net - 1), most \in Nat
  PROVE  FetchSkipped(u) \in FetchType /\ FetchOK(FetchSkipped(u), row, ver, most)
<1> DEFINE s == FetchSkipped(u)
<1>1. s \in FetchType /\ s = [u EXCEPT !.pc = "failover", !.candidates = Tail(u.candidates)]
  BY TailTyped
<1>2. /\ s.pc = "failover" /\ s.at = u.at /\ s.key = u.key /\ s.ver = u.ver /\ s.voices = u.voices /\ s.source = u.source
      /\ s.sends = u.sends /\ s.budget = u.budget /\ s.banned = u.banned /\ s.blocked = u.blocked
      /\ s.resent = u.resent /\ s.net = u.net
  BY <1>1 DEF FetchType
<1>3. /\ r.net \in Int /\ r.sends \in Nat
      /\ r.budget \in 0..MaxOutbound /\ u.budget \in 0..MaxOutbound /\ MaxOutbound \in Nat
  BY FetchAssumption DEF FetchType
<1>4. r.sends + u.budget <= most
  BY <1>3 DEF FetchOK
<1>5. r.resent = 0 => u.net >= 0
  BY <1>3 DEF FetchOK, Paid
<1> HIDE DEF s
<1>6. FetchOK(s, row, ver, most)
  BY <1>2, <1>4, <1>5 DEF FetchOK, Holding, Paid
<1> QED BY <1>1, <1>6 DEF s

LEMMA FailoverSkipsKeeps ==
  ASSUME FetchInv, NEW f \in Fetches, FailoverSkips(f)
  PROVE  FetchInv'
<1> DEFINE r == fetches[f]
<1>1. r.pc = "failover" /\ Holding(r)
  BY DEF FailoverSkips, Holding
<1>2. r \in FetchType /\ FetchOK(r, hostPool, stickyVersion, MostSends)
  BY <1>1, HeldFacts
<1>3. RowsOK' /\ PoolOK' /\ StickyOK' /\ BucketsOK' /\ UNCHANGED <<hostPool, stickyVersion, failoverMode>>
  BY <1>1, HeldFacts, RowsStay, StickyStays, BucketsStay DEF FailoverSkips
<1>4. MostSends \in Nat
  BY BudgetBounds, PositionsAreNatural DEF FetchInv, BucketsOK
<1>5. r.budget \in 0..MaxOutbound /\ MaxOutbound \in Nat
  BY <1>2, FetchAssumption DEF FetchType
<1>6. CASE Over(f)
  <2>1. [r EXCEPT !.pc = "over"] \in FetchType /\ FetchOK([r EXCEPT !.pc = "over"], hostPool, stickyVersion, MostSends)
    BY <1>2, OverKeeps
  <2> HIDE DEF r
  <2> QED BY <1>3, <1>6, <2>1, Settles DEF Over, r
<1>7. CASE r.candidates # <<>> /\ FetchBecomes(f, FetchSkipped(r))
  <2>1. FetchSkipped(r) \in FetchType /\ FetchOK(FetchSkipped(r), hostPool, stickyVersion, MostSends)
    BY <1>1, <1>2, <1>4, <1>5, <1>7, FailoverMoves
  <2> HIDE DEF r
  <2> QED BY <1>3, <1>7, <2>1, Settles
<1>8. CASE r.candidates # <<>> /\ r.budget > 0 /\ FetchBecomes(f, FetchSkipped([r EXCEPT !.budget = @ - 1]))
  <2> DEFINE u == [r EXCEPT !.budget = @ - 1]
  <2>1. u \in FetchType /\ u = [r EXCEPT !.budget = r.budget - 1]
    BY <1>2, <1>8, SpentTyped
  <2>2. /\ u.candidates = r.candidates /\ u.at = r.at /\ u.key = r.key /\ u.ver = r.ver /\ u.voices = r.voices /\ u.source = r.source
        /\ u.sends = r.sends /\ u.budget = r.budget - 1 /\ u.banned = r.banned /\ u.blocked = r.blocked
        /\ u.resent = r.resent /\ u.net = r.net
    BY <1>2, <2>1 DEF FetchType
  <2>3. u.budget <= r.budget
    BY <1>5, <2>2
  <2> HIDE DEF u, r
  <2>4. FetchSkipped(u) \in FetchType /\ FetchOK(FetchSkipped(u), hostPool, stickyVersion, MostSends)
    BY <1>1, <1>2, <1>4, <1>8, <2>1, <2>2, <2>3, FailoverMoves
  <2> QED BY <1>3, <1>8, <2>4, Settles DEF u
<1> QED BY <1>6, <1>7, <1>8 DEF FailoverSkips

LEMMA FailoverSendsKeeps ==
  ASSUME FetchInv, NEW f \in Fetches, FailoverSends(f)
  PROVE  FetchInv'
<1> DEFINE r == fetches[f]
           i == Head(r.candidates)
           t == Spend(r)
           s == [t EXCEPT !.pc = "retried", !.at = hostPool[i], !.net = @ + 1]
<1>1. r.pc = "failover" /\ Holding(r) /\ r.candidates # <<>> /\ i \notin r.blocked /\ i \in DOMAIN hostPool /\ r.budget > 0
  BY DEF FailoverSends, Holding, Available
<1>2. r \in FetchType /\ FetchOK(r, hostPool, stickyVersion, MostSends) /\ PoolOK /\ BucketsOK
  BY <1>1, HeldFacts
<1>3. hostPool[i] \in HostAccounts
  BY <1>1, <1>2, ElementOfSeq, LenProperties DEF PoolOK
<1>4. hostPool = HostPool => hostPool[i] \notin r.banned
  BY <1>1, <1>2, NotBanned
<1>5. RowsOK' /\ PoolOK' /\ StickyOK'
  BY <1>1, HeldFacts, RowsStay, StickyStays DEF FailoverSends
<1>6. BucketsOK'
  BY <1>2, <1>3 DEF FailoverSends, BucketsOK, pauses
<1>7. FetchBecomes(f, s) /\ UNCHANGED <<hostPool, stickyVersion, failoverMode>>
  BY DEF FailoverSends
<1>8. t \in FetchType /\ t = [r EXCEPT !.budget = r.budget - 1, !.sends = r.sends + 1]
  BY <1>1, <1>2, SpentTyped
<1>9. /\ r.net \in Int /\ r.sends \in Nat /\ r.budget \in 0..MaxOutbound /\ MaxOutbound \in Nat
      /\ (r.resent = 0 => r.net >= 0) /\ MostSends \in Nat
  <2>1. r.net \in Int /\ r.sends \in Nat /\ r.budget \in 0..MaxOutbound /\ MaxOutbound \in Nat
    BY <1>2, FetchAssumption DEF FetchType
  <2>2. r.resent = 0 => r.net >= 0
    BY <1>1, <1>2 DEF FetchOK, Paid
  <2> QED BY <1>2, <2>1, <2>2, BudgetBounds, PositionsAreNatural DEF BucketsOK
<1> HIDE DEF i
<1>10. /\ t.net = r.net /\ t.at = r.at /\ t.key = r.key /\ t.ver = r.ver /\ t.voices = r.voices /\ t.source = r.source
       /\ t.sends = r.sends + 1 /\ t.budget = r.budget - 1 /\ t.banned = r.banned /\ t.blocked = r.blocked
       /\ t.resent = r.resent /\ t.candidates = r.candidates
  <2>1. t = [r EXCEPT !.budget = r.budget - 1, !.sends = r.sends + 1] /\ r \in FetchType
    BY <1>2, <1>8
  <2> HIDE DEF t, r
  <2> QED BY <2>1 DEF FetchType
<1>11. t \in FetchType
  BY <1>8
<1> HIDE DEF t
<1>12. s \in FetchType
  <2>1. t.net + 1 \in Int
    BY <1>9, <1>10
  <2> QED BY <1>3, <1>11, <2>1 DEF FetchType, FetchPcs
<1>13. /\ s.pc = "retried" /\ s.at = hostPool[i] /\ s.key = t.key /\ s.ver = t.ver /\ s.voices = t.voices /\ s.source = t.source
       /\ s.sends = t.sends /\ s.budget = t.budget /\ s.banned = t.banned /\ s.blocked = t.blocked
       /\ s.resent = t.resent /\ s.net = t.net + 1 /\ s.candidates = t.candidates
  BY <1>11 DEF FetchType
<1> HIDE DEF s, r
<1>14. s.sends + s.budget <= MostSends
  BY <1>2, <1>9, <1>10, <1>13 DEF FetchOK
<1>15. s.resent = 0 => s.net >= 1
  BY <1>9, <1>10, <1>13
<1>16. FetchOK(s, hostPool, stickyVersion, MostSends)
  BY <1>1, <1>2, <1>3, <1>4, <1>10, <1>13, <1>14, <1>15 DEF FetchOK, Holding, Paid
<1> QED BY <1>5, <1>6, <1>7, <1>12, <1>16, Settles

LEMMA FailoverFailsKeeps ==
  ASSUME FetchInv, NEW f \in Fetches, NEW how \in {"limited", "failed", "error"}, FailoverFails(f, how)
  PROVE  FetchInv'
<1> DEFINE r == fetches[f]
           u == FetchRefunded(r)
<1>1. r.pc = "retried" /\ Holding(r)
  BY DEF FailoverFails, Holding
<1>2. r \in FetchType /\ FetchOK(r, hostPool, stickyVersion, MostSends) /\ r.at \in HostAccounts /\ r.candidates # <<>>
  BY <1>1, HeldFacts DEF FetchOK
<1>3. RowsOK' /\ PoolOK'
  BY <1>1, <1>2, HeldFacts, UnusableKeeps, RowsStay DEF FailoverFails
<1>4. StickyOK' /\ UNCHANGED <<hostPool, stickyVersion, failoverMode>>
  BY <1>1, HeldFacts, StickyStays DEF FailoverFails
<1>5. MostSends \in Nat
  BY BudgetBounds, PositionsAreNatural DEF FetchInv, BucketsOK
<1>6. r.budget \in 0..MaxOutbound /\ MaxOutbound \in Nat
  BY <1>2, FetchAssumption DEF FetchType
<1>7. CASE FetchRefund(r) /\ FetchBecomes(f, FetchSkipped(u))
  <2>1. Kin(r, u)
    BY <1>2, KinKnown
  <2>2. BucketsOK'
    <3>1. BucketsOK /\ poolPause \in BOOLEAN /\ burst \subseteq Positions
      BY <1>1, HeldFacts DEF BucketsOK
    <3> QED BY <1>2, <1>7, <3>1, RefundKeeps DEF FailoverFails, pauses
  <2> HIDE DEF u, r
  <2>3. FetchSkipped(u) \in FetchType /\ FetchOK(FetchSkipped(u), hostPool, stickyVersion, MostSends)
    <3>1. u.budget <= r.budget
      BY <1>6, <2>1 DEF Kin
    <3>2. u.net = r.net \/ (r.pc = "retried" /\ u.net = r.net - 1)
      BY <1>1, <2>1 DEF Kin
    <3> QED BY <1>1, <1>2, <1>5, <2>1, <3>1, <3>2, FailoverMoves DEF Kin
  <2> QED BY <1>3, <1>4, <1>7, <2>2, <2>3, Settles
<1>8. CASE UNCHANGED refundable /\ FetchBecomes(f, FetchSkipped(r))
  <2>1. BucketsOK'
    BY <1>1, <1>8, HeldFacts, BucketsStay DEF FailoverFails
  <2> HIDE DEF r
  <2>2. FetchSkipped(r) \in FetchType /\ FetchOK(FetchSkipped(r), hostPool, stickyVersion, MostSends)
    BY <1>1, <1>2, <1>5, <1>6, FailoverMoves
  <2> QED BY <1>3, <1>4, <1>8, <2>1, <2>2, Settles
<1> QED BY <1>7, <1>8 DEF FailoverFails

LEMMA FailoverSucceedsKeeps ==
  ASSUME FetchInv, NEW f \in Fetches, FailoverSucceeds(f)
  PROVE  FetchInv'
<1> DEFINE r == fetches[f]
           s == [r EXCEPT !.pc = "stream", !.source = @ + 1]
<1>1. r.pc = "retried" /\ Holding(r)
  BY DEF FailoverSucceeds, Holding
<1>2. r \in FetchType /\ FetchOK(r, hostPool, stickyVersion, MostSends) /\ r.at \in HostAccounts /\ r.ver \in 1..stickyVersion
  BY <1>1, HeldFacts
<1>3. RowsOK' /\ PoolOK' /\ StickyOK' /\ BucketsOK'
  BY <1>1, <1>2, HeldFacts, RowsStay, RememberKeeps, BucketsStay DEF FailoverSucceeds
<1>4. s \in FetchType
  <2>1. r.source \in Nat
    BY <1>2 DEF FetchType
  <2>2. r.source + 1 \in Nat
    BY <2>1
  <2> QED BY <1>2, <2>2 DEF FetchType, FetchPcs
<1>5. /\ s.pc = "stream" /\ s.at = r.at /\ s.key = r.key /\ s.ver = r.ver /\ s.voices = r.voices /\ s.sends = r.sends
      /\ s.budget = r.budget /\ s.banned = r.banned /\ s.blocked = r.blocked /\ s.resent = r.resent /\ s.net = r.net
  BY <1>2 DEF FetchType
<1>6. r.net \in Int /\ r.voices = {}
  BY <1>1, <1>2 DEF FetchType, FetchOK
<1>7. FetchBecomes(f, s) /\ UNCHANGED <<hostPool, stickyVersion, failoverMode>>
  BY DEF FailoverSucceeds
<1> HIDE DEF r, s
<1>8. FetchOK(s, hostPool, stickyVersion, MostSends)
  BY <1>1, <1>2, <1>5, <1>6 DEF FetchOK, Holding, Paid
<1> QED BY <1>3, <1>4, <1>7, <1>8, Settles

-----------------------------------------------------------------------------
(* Removal of an account, and time. *)

LEMMA Shortened ==
  ASSUME PoolOK, NEW p \in DOMAIN hostPool
  PROVE  LET new == RemoveAt(hostPool, p) IN
         /\ new \in Seq(HostAccounts) /\ Len(new) = Len(hostPool) - 1
         /\ \A i \in 1..Len(new) : new[i] = hostPool[IF i < p THEN i ELSE i + 1]
<1> DEFINE n == Len(hostPool)
           left == SubSeq(hostPool, 1, p - 1)
           right == SubSeq(hostPool, p + 1, n)
<1>1. n \in Nat /\ p \in 1..n /\ hostPool \in Seq(HostAccounts) /\ \A i \in 1..n : hostPool[i] \in HostAccounts
  BY LenProperties, ElementOfSeq DEF PoolOK
<1>2. left \in Seq(HostAccounts) /\ Len(left) = p - 1 /\ \A i \in 1..(p - 1) : left[i] = hostPool[i]
  <2>1. \A i \in 1..(p - 1) : hostPool[i] \in HostAccounts
    BY <1>1
  <2>2. 1 \in Int /\ p - 1 \in Int
    BY <1>1
  <2>3. /\ left \in Seq(HostAccounts) /\ Len(left) = (IF 1 <= p - 1 THEN (p - 1) - 1 + 1 ELSE 0)
        /\ \A i \in 1..((p - 1) - 1 + 1) : left[i] = hostPool[1 + i - 1]
    BY <2>1, <2>2, SubSeqProperties
  <2> HIDE DEF left
  <2> QED BY <1>1, <2>3
<1>3. right \in Seq(HostAccounts) /\ Len(right) = n - p /\ \A i \in 1..(n - p) : right[i] = hostPool[p + i]
  <2>1. \A i \in (p + 1)..n : hostPool[i] \in HostAccounts
    BY <1>1
  <2>2. p + 1 \in Int /\ n \in Int
    BY <1>1
  <2>3. /\ right \in Seq(HostAccounts) /\ Len(right) = (IF p + 1 <= n THEN n - (p + 1) + 1 ELSE 0)
        /\ \A i \in 1..(n - (p + 1) + 1) : right[i] = hostPool[(p + 1) + i - 1]
    BY <2>1, <2>2, SubSeqProperties
  <2> HIDE DEF right
  <2> QED BY <1>1, <2>3
<1> HIDE DEF left, right
<1>4. /\ left \o right \in Seq(HostAccounts) /\ Len(left \o right) = Len(left) + Len(right)
      /\ \A i \in 1..(Len(left) + Len(right)) : (left \o right)[i] = IF i <= Len(left) THEN left[i] ELSE right[i - Len(left)]
  BY <1>2, <1>3, ConcatProperties
<1> HIDE DEF n
<1>7. Len(left) + Len(right) = n - 1
  BY <1>1, <1>2, <1>3
<1> DEFINE both == left \o right
<1>8. both \in Seq(HostAccounts) /\ Len(both) = n - 1 /\ \A i \in 1..(n - 1) : both[i] = IF i <= p - 1 THEN left[i] ELSE right[i - (p - 1)]
  BY <1>2, <1>4, <1>7
<1> HIDE DEF both
<1>5. \A i \in 1..(n - 1) : both[i] = hostPool[IF i < p THEN i ELSE i + 1]
  <2> TAKE i \in 1..(n - 1)
  <2>1. CASE i < p
    BY <1>1, <1>2, <1>8, <2>1
  <2>2. CASE ~(i < p)
    <3>1. i - (p - 1) \in 1..(n - p) /\ ~(i <= p - 1) /\ p + (i - (p - 1)) = i + 1
      BY <1>1, <2>2
    <3>2. both[i] = right[i - (p - 1)]
      BY <1>8, <3>1
    <3>3. right[i - (p - 1)] = hostPool[p + (i - (p - 1))]
      BY <1>3, <3>1
    <3> QED BY <2>2, <3>1, <3>2, <3>3
  <2> QED BY <2>1, <2>2
<1>6. RemoveAt(hostPool, p) = both
  BY DEF RemoveAt, both, left, right, n
<1> QED BY <1>5, <1>6, <1>8 DEF n

\* removeAccount keeps the positions right, and the entries with them.
LEMMA RemovalKeeps ==
  ASSUME RowsOK, PoolOK, StickyOK, NEW a \in HostAccounts, NEW key, RemoveAccount(a),
         removedTwice' = (removedTwice \/ \A i \in DOMAIN hostPool : hostPool[i] # a),
         sticky' = [k \in Sessions |-> IF k = key THEN Absent ELSE Reindexed(sticky[k], hostRow[a].index)],
         UNCHANGED stickyVersion
  PROVE  RowsOK' /\ PoolOK' /\ StickyOK' /\ (hostPool' = HostPool => hostPool = HostPool)
<1> DEFINE p == hostRow[a].index
<1>1. /\ p \in Positions /\ p \in Nat \ {0} /\ Len(hostPool) \in Nat /\ Len(HostPool) \in Nat
      /\ DOMAIN hostPool = 1..Len(hostPool) /\ hostPool \in Seq(HostAccounts)
  BY PositionsAreNatural, LenProperties DEF RowsOK, RowOK, PoolOK
<1>2. RowOK(a, [hostRow[a] EXCEPT !.fails = @ + 1]) /\ [hostRow[a] EXCEPT !.fails = @ + 1].index = p
  <2> DEFINE x == hostRow[a]
  <2>1. RowOK(a, x)
    BY DEF RowsOK
  <2> HIDE DEF x
  <2>2. x.fails + 1 \in Nat /\ x.fails \in Nat
    BY <2>1 DEF RowOK
  <2>3. [x EXCEPT !.fails = @ + 1] = [x EXCEPT !.fails = x.fails + 1]
    BY <2>1 DEF RowOK
  <2>4. RowOK(a, [x EXCEPT !.fails = @ + 1]) /\ [x EXCEPT !.fails = @ + 1].index = x.index
    BY <2>1, <2>2, <2>3, RowUpdates
  <2> QED BY <2>4 DEF x
<1>3. removedTwice' \in BOOLEAN
  BY DEF StickyOK
<1>4. sticky' = [k \in Sessions |-> sticky'[k]] /\ \A k \in Sessions : sticky'[k] # Absent => sticky'[k] \in EntryType
  <2>1. ASSUME NEW k \in Sessions, sticky[k] # Absent, sticky[k].at > p
        PROVE  [sticky[k] EXCEPT !.at = @ - 1] \in EntryType
    <3> DEFINE e == sticky[k]
    <3>1. e \in EntryType /\ e.at > p
      BY <2>1 DEF StickyOK
    <3> HIDE DEF e
    <3>2. e.at \in 1..Len(HostPool)
      BY <3>1 DEF EntryType, Positions
    <3>3. e.at - 1 \in Positions
      BY <1>1, <3>1, <3>2 DEF Positions
    <3>4. [e EXCEPT !.at = @ - 1] \in EntryType
      BY <3>1, <3>3 DEF EntryType
    <3> QED BY <3>4 DEF e
  <2>2. \A k \in Sessions : sticky'[k] # Absent => sticky'[k] \in EntryType
    <3> HIDE DEF p
    <3> TAKE k \in Sessions
    <3>1. sticky[k] # Absent => sticky[k] \in EntryType
      BY DEF StickyOK
    <3>2. \/ sticky'[k] \in {Absent, sticky[k]} /\ (sticky[k] = Absent => sticky'[k] = Absent)
          \/ (sticky[k] # Absent /\ sticky[k].at > p /\ sticky'[k] = [sticky[k] EXCEPT !.at = @ - 1])
      BY DEF Reindexed, p
    <3> QED BY <2>1, <3>1, <3>2 DEF p
  <2> QED BY <2>2
<1>5. (\A k \in Sessions : sticky[k] # Absent => sticky[k] \in EntryType)' /\ (stickyVersion \in Nat)'
  BY <1>4 DEF EntryType, StickyOK
<1>6. CASE \E i \in DOMAIN hostPool : hostPool[i] = a
  <2> DEFINE new == RemoveAt(hostPool, p)
  <2>1. p \in DOMAIN hostPool /\ hostPool[p] = a
    BY <1>6 DEF PoolOK
  <2>2. hostPool' = new
    BY <1>6 DEF RemoveAccount
  <2>3. /\ new \in Seq(HostAccounts) /\ Len(new) = Len(hostPool) - 1
        /\ \A i \in 1..Len(new) : new[i] = hostPool[IF i < p THEN i ELSE i + 1]
    BY <2>1, Shortened
  <2> HIDE DEF new
  <2>4. DOMAIN new = 1..Len(new) /\ Len(new) \in Nat /\ Len(new) < Len(HostPool)
    BY <1>1, <2>1, <2>3, LenProperties DEF PoolOK
  <2>5. ASSUME NEW i \in DOMAIN new, NEW j \in DOMAIN new, new[i] = new[j] PROVE i = j
    <3>1. (IF i < p THEN i ELSE i + 1) \in DOMAIN hostPool /\ (IF j < p THEN j ELSE j + 1) \in DOMAIN hostPool
      BY <1>1, <2>3, <2>4, <2>5
    <3>2. (IF i < p THEN i ELSE i + 1) = (IF j < p THEN j ELSE j + 1)
      BY <2>3, <2>4, <2>5, <3>1 DEF PoolOK, IsInjective
    <3> QED BY <1>1, <2>4, <3>2
  <2>6. \A i \in DOMAIN new : (CHOOSE j \in DOMAIN new : new[j] = new[i]) = i
    BY <2>5
  <2>7. hostRow' = [b \in HostAccounts |->
            IF \E i \in DOMAIN new : new[i] = b
            THEN [hostRow[b] EXCEPT !.index = CHOOSE i \in DOMAIN new : new[i] = b]
            ELSE IF b = a THEN [hostRow[b] EXCEPT !.fails = @ + 1] ELSE hostRow[b]]
    BY <1>6, <2>2 DEF RemoveAccount
  <2>8. ASSUME NEW i \in DOMAIN new
        PROVE  RowOK(new[i], hostRow'[new[i]]) /\ hostRow'[new[i]].index = i
    <3> DEFINE b == new[i]
    <3>1. b \in HostAccounts /\ i \in Positions
      BY <1>1, <2>3, <2>4, ElementOfSeq DEF Positions
    <3>2. (CHOOSE j \in DOMAIN new : new[j] = b) = i
      BY <2>6
    <3>3. hostRow'[b] = [hostRow[b] EXCEPT !.index = i]
      BY <2>7, <3>1, <3>2
    <3> HIDE DEF b
    <3>4. RowOK(b, [hostRow[b] EXCEPT !.index = i]) /\ [hostRow[b] EXCEPT !.index = i].index = i
      BY <3>1, RowUpdates DEF RowsOK
    <3> QED BY <3>3, <3>4 DEF b
  <2>9. RowsOK'
    <3>1. ASSUME NEW b \in HostAccounts PROVE RowOK(b, hostRow'[b])
      <4>1. CASE \E i \in DOMAIN new : new[i] = b
        BY <2>8, <4>1
      <4>2. CASE (~ \E i \in DOMAIN new : new[i] = b) /\ b = a
        BY <1>2, <2>7, <4>2
      <4>3. CASE (~ \E i \in DOMAIN new : new[i] = b) /\ b # a
        BY <2>7, <4>3 DEF RowsOK
      <4> QED BY <4>1, <4>2, <4>3
    <3>2. hostRow' = [b \in HostAccounts |-> hostRow'[b]]
      BY <2>7
    <3> QED BY <3>1, <3>2 DEF RowsOK, RowOK
  <2>10. PoolOK'
    <3>1. IsInjective(new)
      BY <2>5 DEF IsInjective
    <3>2. (Len(hostPool) <= Len(HostPool))' /\ (Len(hostPool) < Len(HostPool))' /\ (hostPool \in Seq(HostAccounts))'
      BY <1>1, <2>2, <2>3, <2>4
    <3>3. IsInjective(hostPool)' /\ (\A i \in DOMAIN hostPool : hostRow[hostPool[i]].index = i)'
      BY <2>2, <2>8, <3>1 DEF IsInjective
    <3> QED BY <3>2, <3>3 DEF PoolOK
  <2>11. EntryLeadsToServer'
    <3> SUFFICES ASSUME NEW k \in Sessions, sticky'[k] # Absent, ~removedTwice', NEW i \in DOMAIN new, new[i] = sticky'[k].server
                 PROVE  sticky'[k].at = i
      BY <2>2 DEF EntryLeadsToServer
    <3> DEFINE e == sticky[k]
               j == IF i < p THEN i ELSE i + 1
    <3>1. e # Absent /\ e.at # p /\ sticky'[k] = IF e.at > p THEN [e EXCEPT !.at = e.at - 1] ELSE e
      BY DEF Reindexed
    <3>2. e \in EntryType /\ ~removedTwice
      BY <3>1 DEF StickyOK
    <3> HIDE DEF e
    <3>3. sticky'[k].server = e.server /\ sticky'[k].at = IF e.at > p THEN e.at - 1 ELSE e.at
      BY <3>1, <3>2 DEF EntryType
    <3>4. j \in DOMAIN hostPool /\ hostPool[j] = e.server
      BY <1>1, <2>3, <2>4, <3>3
    <3> HIDE DEF j
    <3>5. e.at = j
      BY <3>1, <3>2, <3>4 DEF StickyOK, EntryLeadsToServer, e
    <3> QED BY <1>1, <2>4, <3>1, <3>3, <3>5 DEF j
  <2>12. hostPool' = HostPool => hostPool = HostPool
    BY <1>1, <2>2, <2>4
  <2> QED BY <1>3, <1>4, <1>5, <2>9, <2>10, <2>11, <2>12 DEF StickyOK
<1>7. CASE ~ \E i \in DOMAIN hostPool : hostPool[i] = a
  <2>1. hostPool' = hostPool /\ hostRow' = [hostRow EXCEPT ![a].fails = @ + 1] /\ removedTwice'
    BY <1>7 DEF RemoveAccount
  <2>2. RowsOK' /\ PoolOK'
    <3> DEFINE x == [hostRow[a] EXCEPT !.fails = @ + 1]
    <3>1. hostRow' = [hostRow EXCEPT ![a] = x]
      BY <2>1
    <3>2. RowOK(a, x) /\ x.index = hostRow[a].index
      BY <1>2
    <3> HIDE DEF x
    <3> QED BY <2>1, <3>1, <3>2, RowChanges
  <2>3. EntryLeadsToServer'
    BY <2>1 DEF EntryLeadsToServer
  <2> QED BY <1>3, <1>4, <1>5, <2>1, <2>2, <2>3 DEF StickyOK
<1> QED BY <1>6, <1>7

LEMMA RefreshFailsKeeps ==
  ASSUME FetchInv, NEW f \in Fetches, NEW retryable \in BOOLEAN, FetchRefreshFails(f, retryable)
  PROVE  FetchInv'
<1> DEFINE r == fetches[f]
           a == r.at
           s == [r EXCEPT !.pc = "pick"]
<1>1. r.pc = "refresh" /\ Holding(r)
  BY DEF FetchRefreshFails, Holding
<1>2. /\ r \in FetchType /\ FetchOK(r, hostPool, stickyVersion, MostSends) /\ a \in HostAccounts
      /\ RowsOK /\ PoolOK /\ StickyOK /\ BucketsOK
  BY <1>1, HeldFacts
<1>3. s \in FetchType /\ FetchOK(s, hostPool, stickyVersion, MostSends)
  BY <1>1, <1>2, KinKnown, KinRotates
<1>4. FetchBecomes(f, s) /\ UNCHANGED <<stickyVersion, failoverMode>> /\ BucketsOK'
  BY <1>2, BucketsStay DEF FetchRefreshFails, Rotate
<1>5. CASE retryable \/ hostRow[a].fails + 1 < MaxAuthFailures
  <2> DEFINE x == [hostRow[a] EXCEPT !.ok = FALSE]
             n == IF retryable THEN x.fails ELSE x.fails + 1
             y == [x EXCEPT !.fails = n]
  <2>1. RowOK(a, x) /\ x.index = hostRow[a].index
    BY <1>2, RowUpdates DEF RowsOK
  <2>2. hostRow' = [hostRow EXCEPT ![a] = y] /\ Forget(r) /\ UNCHANGED <<hostPool, removedTwice>>
    BY <1>2, <1>5 DEF FetchRefreshFails, Unusable, RowsOK
  <2> HIDE DEF x
  <2>3. x.fails \in Nat
    BY <2>1 DEF RowOK
  <2>4. n \in Nat
    BY <2>3
  <2> HIDE DEF n
  <2>5. RowOK(a, y) /\ y.index = hostRow[a].index
    BY <1>2, <2>1, <2>4, RowUpdates
  <2> HIDE DEF y
  <2>6. RowsOK' /\ PoolOK' /\ StickyOK'
    BY <1>2, <1>4, <2>2, <2>5, RowChanges, ForgetKeeps
  <2> HIDE DEF r, s
  <2> QED BY <1>3, <1>4, <2>2, <2>6, Settles
<1>6. CASE ~(retryable \/ hostRow[a].fails + 1 < MaxAuthFailures)
  <2>1. /\ RemoveAccount(a) /\ removedTwice' = (removedTwice \/ \A i \in DOMAIN hostPool : hostPool[i] # a)
        /\ sticky' = [k \in Sessions |-> IF k = r.key THEN Absent ELSE Reindexed(sticky[k], hostRow[a].index)]
    BY <1>6 DEF FetchRefreshFails
  <2>2. RowsOK' /\ PoolOK' /\ StickyOK' /\ (hostPool' = HostPool => hostPool = HostPool)
    BY <1>2, <1>4, <2>1, RemovalKeeps
  <2>3. stickyVersion <= stickyVersion' /\ stickyVersion \in Nat /\ stickyVersion' = stickyVersion
    BY <1>2, <1>4 DEF StickyOK
  <2> HIDE DEF r, s
  <2>4. FetchOK(s, hostPool', stickyVersion', MostSends)
    BY <1>3, <2>2, <2>3, FetchStaysOK
  <2> QED BY <1>3, <1>4, <2>2, <2>3, <2>4, Assembled
<1> QED BY <1>5, <1>6

LEMMA TimeKeeps ==
  ASSUME FetchInv, TimeHeals
  PROVE  FetchInv'
<1>1. UNCHANGED <<hostPool, stickyVersion, refundable, failoverMode, removedTwice, fetches>> /\ RowsOK /\ PoolOK /\ StickyOK /\ BucketsOK
  BY DEF TimeHeals, FetchInv
<1>2. RowsOK' /\ PoolOK'
  <2>1. ASSUME NEW a \in HostAccounts, hostRow' = [hostRow EXCEPT ![a].ok = TRUE] PROVE RowsOK' /\ PoolOK'
    <3> DEFINE x == [hostRow[a] EXCEPT !.ok = TRUE]
    <3>1. hostRow' = [hostRow EXCEPT ![a] = x] /\ RowOK(a, x) /\ x.index = hostRow[a].index
      BY <1>1, <2>1, RowUpdates DEF RowsOK
    <3> HIDE DEF x
    <3> QED BY <1>1, <3>1, RowChanges
  <2>2. CASE UNCHANGED hostRow
    BY <1>1, <2>2, RowsStay
  <2> QED BY <2>1, <2>2 DEF TimeHeals
<1>3. StickyOK'
  <2>1. ASSUME NEW k \in Sessions, sticky' = [sticky EXCEPT ![k] = Absent] PROVE StickyOK'
    <3>1. Forget([key |-> k])
      BY <2>1 DEF Forget
    <3> QED BY <1>1, <3>1, ForgetKeeps
  <2>2. CASE UNCHANGED sticky
    BY <1>1, <2>2, StickyStays
  <2> QED BY <2>1, <2>2 DEF TimeHeals
<1>4. BucketsOK'
  BY <1>1 DEF TimeHeals, BucketsOK, pauses
<1>5. MostSends' = MostSends
  BY <1>1 DEF MostSends, SameRetries
<1>6. \A f \in Fetches : FetchOK(fetches[f], hostPool, stickyVersion, MostSends)'
  BY <1>1, <1>5 DEF FetchInv, FetchOK
<1>7. (fetches \in [Fetches -> FetchType])'
  BY <1>1 DEF FetchInv
<1> QED BY <1>2, <1>3, <1>4, <1>6, <1>7 DEF FetchInv

-----------------------------------------------------------------------------
(* The invariant and what it says. *)

LEMMA FetchInvInit == FetchInit => FetchInv
<1> SUFFICES ASSUME FetchInit PROVE FetchInv
  OBVIOUS
<1>1. HostPool \in Seq(HostAccounts) /\ IsInjective(HostPool) /\ HostWorkspaces \in [HostAccounts -> Nat]
      /\ DOMAIN HostPool = Positions /\ Len(HostPool) \in Nat
  BY FetchAssumption, LenProperties DEF Positions
<1>2. \A a \in HostAccounts : (CHOOSE i \in Positions : HostPool[i] = a) \in Positions
  BY <1>1 DEF HostAccounts
<1>3. RowsOK
  <2>1. \A a \in HostAccounts : RowOK(a, hostRow[a])
    BY <1>2 DEF FetchInit, RowOK
  <2> QED BY <2>1 DEF FetchInit, RowsOK
<1>4. PoolOK
  <2>1. \A i \in DOMAIN HostPool : (CHOOSE j \in Positions : HostPool[j] = HostPool[i]) = i
    BY <1>1 DEF IsInjective
  <2>2. \A i \in DOMAIN HostPool : HostPool[i] \in HostAccounts
    BY DEF HostAccounts
  <2>3. \A i \in DOMAIN hostPool : hostRow[hostPool[i]].index = i
    BY <2>1, <2>2 DEF FetchInit
  <2> QED BY <1>1, <2>3 DEF FetchInit, PoolOK
<1>5. StickyOK
  BY DEF FetchInit, StickyOK, EntryLeadsToServer
<1>6. BucketsOK
  BY DEF FetchInit, BucketsOK
<1>7. NewFetch \in FetchType
  <2>1. 0 \in 0..MaxOutbound
    BY FetchAssumption
  <2> QED BY <2>1 DEF NewFetch, FetchType, FetchPcs
<1>8. MostSends \in Nat
  BY <1>6, <1>1, BudgetBounds DEF BucketsOK
<1>9. FetchOK(NewFetch, hostPool, stickyVersion, MostSends)
  BY <1>8 DEF NewFetch, FetchOK, Holding, Paid
<1> QED BY <1>3, <1>4, <1>5, <1>6, <1>7, <1>9 DEF FetchInit, FetchInv

LEMMA FetchInvNext == FetchInv /\ [FetchNext]_fetchVars => FetchInv'
<1> SUFFICES ASSUME FetchInv, [FetchNext]_fetchVars PROVE FetchInv'
  OBVIOUS
<1>1. CASE UNCHANGED fetchVars
  <2>1. RowsOK' /\ PoolOK' /\ StickyOK' /\ BucketsOK'
    BY <1>1, RowsStay, StickyStays, BucketsStay DEF fetchVars, FetchInv
  <2>2. MostSends' = MostSends
    BY <1>1 DEF fetchVars, MostSends, SameRetries
  <2>3. \A f \in Fetches : FetchOK(fetches[f], hostPool, stickyVersion, MostSends)'
    BY <1>1, <2>2 DEF fetchVars, FetchInv, FetchOK
  <2>4. (fetches \in [Fetches -> FetchType])'
    BY <1>1 DEF fetchVars, FetchInv
  <2> QED BY <2>1, <2>3, <2>4 DEF FetchInv
<1>2. ASSUME NEW f \in Fetches, FetchStep(f) PROVE FetchInv'
  BY <1>2, RefusedKeeps, StartsKeeps, PicksKeeps, DrainedKeeps, RefreshFailsKeeps, SkipsKeeps, AdmitsKeeps, SendsKeeps,
     NetworkKeeps, AbortedKeeps, ServerErrorKeeps, LimitedKeeps, UnsupportedKeeps, WorkspaceGoneKeeps, RejectedKeeps,
     EmptyKeeps, SucceedsKeeps, ChunkKeeps, EndsKeeps, BreaksKeeps, FailoverSkipsKeeps, FailoverSendsKeeps,
     FailoverFailsKeeps, FailoverSucceedsKeeps DEF FetchStep
<1> QED BY <1>1, <1>2, TimeKeeps DEF FetchNext

\* The inductive invariant of the plugin's fetch: what each request holds at each of
\* its steps, and that rows and affinity entries know the positions of a shrinking pool.
THEOREM FetchInvariant == FetchSpec => []FetchInv
BY FetchInvInit, FetchInvNext, PTL DEF FetchSpec

\* However requests interleave and accounts leave the pool, a request of the plugin's
\* fetch reads one upstream response, sends no more than its budget, goes to no account
\* the policy barred for it while the pool stands, and gives back no token it does not
\* hold but on a retry; an affinity entry leads to the account that served the session.
THEOREM FetchIsSafe == FetchSpec => []FetchSafe
<1>1. FetchInv => FetchSafe
  <2> SUFFICES ASSUME FetchInv PROVE FetchSafe
    OBVIOUS
  <2>1. \A f \in Fetches : fetches[f] \in FetchType /\ FetchOK(fetches[f], hostPool, stickyVersion, MostSends)
    BY DEF FetchInv
  <2>2. RowsOK /\ PoolOK /\ StickyOK /\ BucketsOK /\ stickyVersion \in Nat
    BY DEF FetchInv, StickyOK
  <2>3. FetchTypeOK
    <3>1. \A i \in DOMAIN hostPool : hostPool[i] \in HostAccounts /\ hostRow[hostPool[i]].index = i
      BY <2>2, ElementOfSeq, LenProperties DEF PoolOK
    <3>2. \A k \in Sessions : sticky[k] # Absent => sticky[k].at \in Positions /\ sticky[k].ver \in 1..stickyVersion
      BY <2>2 DEF StickyOK, EntryType
    <3>3. \A f \in Fetches : /\ fetches[f].pc \in FetchPcs
                             /\ fetches[f].tried \subseteq Positions /\ fetches[f].budget \in 0..MaxOutbound
      BY <2>1 DEF FetchType
    <3>4. removedTwice \in BOOLEAN
      BY <2>2 DEF StickyOK
    <3> QED BY <2>2, <3>1, <3>2, <3>3, <3>4 DEF FetchTypeOK, RowsOK, RowOK, BucketsOK, FetchPcs
  <2>4. OneVoice
    <3>1. ASSUME NEW f \in Fetches PROVE Cardinality(fetches[f].voices) <= 1
      <4>1. fetches[f].voices \subseteq {fetches[f].source}
        BY <2>1 DEF FetchOK
      <4>2. fetches[f].voices = {} \/ fetches[f].voices = {fetches[f].source}
        BY <4>1
      <4>3. Cardinality({}) = 0 /\ Cardinality({fetches[f].source}) = 1
        BY FS_EmptySet, FS_Singleton
      <4> QED BY <4>2, <4>3
    <3> QED BY <3>1 DEF OneVoice
  <2>5. WithinBudget
    <3> DEFINE extra == SameRetries + MaxEmptyRetries + MaxFailovers
    <3>1. extra \in Nat /\ MaxOutbound \in Nat /\ Len(HostPool) \in Nat /\ SameRetries \in Nat /\ MaxEmptyRetries \in Nat /\ MaxFailovers \in Nat
      BY <2>2, BudgetBounds, PositionsAreNatural, FetchAssumption DEF BucketsOK
    <3>2. HostAccounts # {} => Len(HostPool) # 0
      BY FetchAssumption, LenProperties DEF HostAccounts
    <3>3. ASSUME NEW f \in Fetches
          PROVE  fetches[f].sends <= AtMost(Len(HostPool) + SameRetries + MaxEmptyRetries + MaxFailovers, MaxOutbound)
      <4>1. fetches[f].sends \in Nat /\ fetches[f].budget \in 0..MaxOutbound
        BY <2>1 DEF FetchType
      <4>2. fetches[f].sends <= MostSends /\ (fetches[f].sends > 0 => Len(HostPool) # 0)
        <5>1. MostSends \in Nat
          BY <2>2, BudgetBounds, PositionsAreNatural DEF BucketsOK
        <5>2. fetches[f].sends + fetches[f].budget <= MostSends /\ (fetches[f].sends > 0 => HostAccounts # {})
          BY <2>1 DEF FetchOK
        <5> QED BY <3>1, <3>2, <4>1, <5>1, <5>2
      <4>3. CASE fetches[f].sends = 0
        BY <3>1, <4>3 DEF AtMost
      <4>4. CASE fetches[f].sends > 0
        BY <3>1, <4>1, <4>2, <4>4 DEF AtMost, MostSends, OneAtLeast
      <4> QED BY <4>1, <4>3, <4>4
    <3> QED BY <3>3 DEF WithinBudget
  <2>6. BlockedOnlyAfterRemoval
    BY <2>1 DEF BlockedOnlyAfterRemoval, FetchOK, Paid
  <2>7. RefundsCovered
    <3>1. ASSUME NEW f \in Fetches, fetches[f].net < 0 PROVE fetches[f].resent > 0
      <4>1. fetches[f].net \in Int /\ fetches[f].resent \in Nat
        BY <2>1 DEF FetchType
      <4>2. fetches[f].resent # 0
        BY <2>1, <3>1, <4>1 DEF FetchOK
      <4> QED BY <4>1, <4>2
    <3> QED BY <3>1 DEF RefundsCovered
  <2> QED BY <2>2, <2>3, <2>4, <2>5, <2>6, <2>7 DEF FetchSafe, StickyOK
<1> QED BY <1>1, FetchInvariant, PTL
=============================================================================

------------------------------- MODULE SignIn -------------------------------
(***************************************************************************)
(* One sign-in: by browser, with a callback server on both loopback        *)
(* families of one registered port, by pasting the callback URL, or by     *)
(* device code.  Several logins may run at once and compete for the port;  *)
(* a redirect reaches whoever holds the family the browser tries.          *)
(***************************************************************************)
EXTENDS Integers, FiniteSets

CONSTANTS Logins,      \* concurrent sign-ins, each with its own state value
          Families,    \* OAUTH_BIND_HOSTS
          Free, Foreign, Unavailable, NoCode,
          MaxWaitPolls,   \* iterations of waitForCode
          DeviceBudget    \* polls that fit before the device code's deadline

ASSUME SignAssumption ==
  /\ Logins \cap {Free, Foreign, Unavailable, NoCode} = {}
  /\ Unavailable \notin {Free, Foreign}

VARIABLES sign,      \* the sign-ins
          port,      \* who listens on each family
          redirects  \* logins whose user may be sent back to the callback address

signVars == <<sign, port, redirects>>

FlowAtRest == [pc |-> "start", bound |-> {}, failed |-> {}, inUse |-> FALSE,
          captured |-> NoCode, code |-> NoCode, polls |-> 0]

SignInit ==
  /\ sign = [l \in Logins |-> FlowAtRest]
  /\ port \in [Families -> {Free, Foreign, Unavailable}]
  /\ redirects = {}

\* The listeners of a login are closed.
Closed(l) == [f \in Families |-> IF port[f] = l THEN Free ELSE port[f]]

\* createAuthorizationFlow: the browser opens, so a redirect may come; a device
\* sign-in asks for a user code instead.
SignBegins(l) == \E mode \in {"browser", "manual", "device"} :
  /\ sign[l].pc = "start"
  /\ sign' = [sign EXCEPT ![l].pc = CASE mode = "browser" -> "binding" [] mode = "manual" -> "prompt"
                                      [] OTHER -> "usercode"]
  /\ UNCHANGED <<port, redirects>>

\* One listener settles: the family is taken by someone, cannot be bound, or is ours.
BindSettles(l, f) ==
  /\ sign[l].pc = "binding" /\ f \notin sign[l].bound \cup sign[l].failed
  /\ \/ /\ port[f] = Free
        /\ port' = [port EXCEPT ![f] = l]
        /\ sign' = [sign EXCEPT ![l].bound = @ \cup {f}]
     \/ /\ port[f] \in ({Foreign} \cup Logins) \ {l}
        /\ sign' = [sign EXCEPT ![l].failed = @ \cup {f}, ![l].inUse = TRUE]
        /\ UNCHANGED port
     \/ /\ port[f] = Unavailable
        /\ sign' = [sign EXCEPT ![l].failed = @ \cup {f}]
        /\ UNCHANGED port
  /\ UNCHANGED redirects

\* A holder on any family makes the port useless, as does no listener at all.
PortUselessIfUnbound(l) == sign[l].bound = {}
PortUseless(l) == sign[l].inUse \/ sign[l].bound = {}

\* What was bound is released and the code has to be pasted.
BindGivesUpHolding(l) ==
  /\ sign' = [sign EXCEPT ![l].pc = "prompt"]
  /\ UNCHANGED port
BindGivesUp(l) ==
  /\ sign' = [sign EXCEPT ![l].pc = "prompt", ![l].bound = {}]
  /\ port' = Closed(l)

BindEnds(l) ==
  /\ sign[l].pc = "binding" /\ sign[l].bound \cup sign[l].failed = Families
  /\ IF PortUseless(l)
     THEN BindGivesUp(l) /\ UNCHANGED redirects
     ELSE /\ sign' = [sign EXCEPT ![l].pc = "waiting"]
          /\ redirects' = redirects \cup {l}
          /\ UNCHANGED port

\* The user approves in a browser and is sent back to the registered address,
\* again for every reload.  The request handler refuses another login's state and
\* keeps the first code.
AcceptsAny(l, m) == sign[l].captured = NoCode
Accepts(l, m) == m = l /\ sign[l].captured = NoCode
RedirectArrives(m, f) ==
  /\ m \in redirects /\ port[f] \in Logins
  /\ sign' = IF Accepts(port[f], m) THEN [sign EXCEPT ![port[f]].captured = m] ELSE sign
  /\ UNCHANGED <<port, redirects>>

\* waitForCode: the captured code ends it and the listeners close; after the last
\* poll the code has to be pasted, with the listeners still open.
WaitEnds(l) ==
  /\ sign[l].pc = "waiting" /\ sign[l].captured # NoCode
  /\ sign' = [sign EXCEPT ![l].pc = "exchange", ![l].code = sign[l].captured, ![l].bound = {}]
  /\ port' = Closed(l)
  /\ UNCHANGED redirects
WaitPollsForever(l) ==
  /\ sign[l].pc = "waiting" /\ sign[l].captured = NoCode
  /\ sign' = [sign EXCEPT ![l].polls = (@ + 1) % MaxWaitPolls]
  /\ UNCHANGED <<port, redirects>>
WaitPolls(l) ==
  /\ sign[l].pc = "waiting" /\ sign[l].captured = NoCode
  /\ sign' = IF sign[l].polls + 1 = MaxWaitPolls THEN [sign EXCEPT ![l].pc = "prompt"]
             ELSE [sign EXCEPT ![l].polls = @ + 1]
  /\ UNCHANGED <<port, redirects>>

\* The pasted callback: a URL with this login's state, another login's, none at
\* all, or a cancellation.  Every way out closes the listeners.
Classified(l, m) == IF m = l THEN "exchange" ELSE "failed"
PastesCode(l, m) ==
  /\ sign[l].pc = "prompt"
  /\ sign' = [sign EXCEPT ![l].pc = Classified(l, m), ![l].bound = {},
                          ![l].code = IF Classified(l, m) = "exchange" THEN m ELSE @]
  /\ port' = Closed(l)
  /\ UNCHANGED redirects
PastesNothing(l) == \E out \in {"failed", "cancelled"} :
  /\ sign[l].pc = "prompt"
  /\ sign' = [sign EXCEPT ![l].pc = out, ![l].bound = {}]
  /\ port' = Closed(l)
  /\ UNCHANGED redirects

\* The device sign-in: a user code, then polls until the user approves, the
\* server refuses, or the deadline has passed.
UserCodeAnswers(l) == \E next \in {"polling", "failed"} :
  /\ sign[l].pc = "usercode"
  /\ sign' = [sign EXCEPT ![l].pc = next, ![l].polls = 0]
  /\ UNCHANGED <<port, redirects>>
DevicePending(l) ==
  /\ sign[l].pc = "polling"
  /\ sign' = IF sign[l].polls >= DeviceBudget THEN [sign EXCEPT ![l].pc = "failed"]
             ELSE [sign EXCEPT ![l].polls = @ + 1]
  /\ UNCHANGED <<port, redirects>>
DeviceAnswers(l) == \E next \in {"exchange", "failed"} :
  /\ sign[l].pc = "polling"
  /\ sign' = [sign EXCEPT ![l].pc = next, ![l].code = IF next = "exchange" THEN l ELSE @]
  /\ UNCHANGED <<port, redirects>>

\* The code is exchanged for tokens, or the exchange fails.
Exchanges(l) == \E out \in {"signedIn", "failed"} :
  /\ sign[l].pc = "exchange"
  /\ sign' = [sign EXCEPT ![l].pc = out]
  /\ UNCHANGED <<port, redirects>>

\* A process that is not a login gives its family up.
ForeignLeaves(f) ==
  /\ port[f] = Foreign
  /\ port' = [port EXCEPT ![f] = Free]
  /\ UNCHANGED <<sign, redirects>>

OwnStep(l) ==
  \/ \E f \in Families : BindSettles(l, f)
  \/ BindEnds(l) \/ WaitEnds(l) \/ WaitPolls(l)
  \/ UserCodeAnswers(l) \/ DevicePending(l) \/ DeviceAnswers(l) \/ Exchanges(l)
SignNext ==
  \/ \E l \in Logins : SignBegins(l) \/ OwnStep(l) \/ PastesNothing(l) \/ \E m \in Logins : PastesCode(l, m)
  \/ \E m \in Logins : \E f \in Families : RedirectArrives(m, f)
  \/ \E f \in Families : ForeignLeaves(f)

SignSpec == SignInit /\ [][SignNext]_signVars

-----------------------------------------------------------------------------
\* A login exchanges only a code that was issued for its own state, whoever held
\* the port when the redirect came and whatever was pasted.
OwnCodeOnly == \A l \in Logins : sign[l].pc \in {"exchange", "signedIn"} => sign[l].code = l

\* A login that found a family taken holds neither while its user pastes, and a
\* login that is over holds none: another login can have the port.
PortReleased ==
  \A l \in Logins :
    (\/ sign[l].pc \in {"exchange", "signedIn", "failed", "cancelled"}
     \/ sign[l].pc = "prompt" /\ sign[l].inUse /\ sign[l].polls = 0) => \A f \in Families : port[f] # l

\* Two logins never both wait for a redirect: a browser that tries the other
\* family first would be sent to the wrong one.
OneListener == \A l, m \in Logins : sign[l].pc = "waiting" /\ sign[m].pc = "waiting" => l = m

\* Sign-ins stay apart: each exchanges its own code, and the port goes to one of them.
SignInsApart == OwnCodeOnly /\ PortReleased /\ OneListener

\* Waiting for a redirect or for the device approval ends without the user.
SignInWaitsEnd == \A l \in Logins : sign[l].pc \in {"waiting", "polling"} ~> sign[l].pc \notin {"waiting", "polling"}
=============================================================================

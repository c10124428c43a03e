------------------------------- MODULE Relays -------------------------------
(***************************************************************************)
(* The relay of native Responses WebSockets (lib/runtime/responses-        *)
(* websocket.ts): one client connection queues its creates and serves them *)
(* one at a time through the HTTP router, which picks a credential; every  *)
(* credential has one upstream socket that is reused, aged and replaced.   *)
(* Upstream sockets close at any moment, the client cancels, interrupts    *)
(* and disconnects.  A response is named by its create.                    *)
(***************************************************************************)
EXTENDS Integers, Sequences, FiniteSets, SequencesExt

CONSTANTS
  Creates,         \* response.create events
  OAuthKeys,       \* subscription credentials
  ApiKeys,         \* API credentials
  MaxQueued,       \* creates queued at once
  MaxSockets,      \* bound on upstream sockets
  MaxRoutes,       \* bound on credentials the router tries for a create
  MaxCancels,      \* bound on cancellations
  NoCreate

ASSUME RelayAssumption == NoCreate \notin Creates

Credentials == OAuthKeys \cup ApiKeys

VARIABLES
  queue,        \* accepted creates with the generation they were accepted in
  generation,
  current,      \* the create being served
  previous,     \* create |-> the create it continues
  channels,     \* credential |-> socket, 0 for none
  sockets,      \* open upstream sockets
  lastSocket,   \* number of the newest socket
  owners,       \* create |-> socket its response came from, 0 for none
  chains,       \* creates whose response is remembered for continuation
  httpOnly,     \* API credentials backed off to HTTP
  disconnects,  \* recent disconnects of this conversation, at most two
  interrupts,   \* create |-> the state of its interrupt
  closed,
  result,       \* create |-> what the client has been told
  ambiguous,    \* history: creates whose socket closed after they were sent
  withdrawn,    \* history: creates accepted before a cancellation that came in time
  sends,        \* history: create |-> upstream sends, with the socket and whether as a delta
  answers       \* history: create |-> answers to its interrupt

relayQueue == <<queue, generation, current, previous>>
relaySockets == <<channels, sockets, lastSocket, owners, httpOnly, disconnects>>
relayHistory == <<ambiguous, withdrawn, sends>>
interrupting == <<interrupts, answers>>
relayVars == <<relayQueue, relaySockets, chains, interrupting, closed, result, relayHistory>>

Free == [create |-> NoCreate, at |-> "none", key |-> NoCreate, socket |-> 0, routes |-> 0, aborted |-> FALSE]

RelayInit ==
  /\ queue = <<>> /\ generation = 0 /\ current = Free /\ previous = [c \in Creates |-> NoCreate]
  /\ channels = [k \in Credentials |-> 0] /\ sockets = {} /\ lastSocket = 0
  /\ owners = [c \in Creates |-> 0] /\ chains = {} /\ httpOnly = {} /\ disconnects = 0
  /\ interrupts = [c \in Creates |-> "none"] /\ answers = [c \in Creates |-> 0] /\ closed = FALSE
  /\ result = [c \in Creates |-> "new"] /\ ambiguous = {} /\ withdrawn = {} /\ sends = [c \in Creates |-> <<>>]

Ended(c, how) == current' = Free /\ result' = [result EXCEPT ![c] = how]
HasPrevious(c) == previous[c] # NoCreate
ChannelSockets == {channels[k] : k \in Credentials}

-----------------------------------------------------------------------------
(* The client. *)

ClientCreates(c, prev) ==
  /\ ~closed /\ result[c] = "new"
  /\ prev # NoCreate => result[prev] = "done"
  /\ IF Len(queue) < MaxQueued
     THEN /\ queue' = Append(queue, [create |-> c, gen |-> generation])
          /\ previous' = [previous EXCEPT ![c] = prev] /\ result' = [result EXCEPT ![c] = "queued"]
     ELSE result' = [result EXCEPT ![c] = "queue full"] /\ UNCHANGED <<queue, previous>>
  /\ UNCHANGED <<generation, current, relaySockets, chains, interrupting, closed, relayHistory>>

\* response.cancel: queued creates are invalidated, the current one is aborted,
\* all channels are terminated.
ClientCancels ==
  /\ ~closed /\ generation < MaxCancels /\ generation' = generation + 1
  /\ current' = [current EXCEPT !.aborted = current.at # "none"]
  /\ sockets' = sockets \ ChannelSockets
  /\ withdrawn' = withdrawn \cup {queue[i].create : i \in DOMAIN queue}
                            \cup (IF current.at \in {"route", "open"} THEN {current.create} ELSE {})
  /\ UNCHANGED <<queue, previous, channels, lastSocket, owners, httpOnly, disconnects, chains, interrupting, closed, result,
                 ambiguous, sends>>

ClientCloses ==
  /\ ~closed /\ closed' = TRUE /\ sockets' = sockets \ ChannelSockets
  /\ current' = [current EXCEPT !.aborted = current.at # "none"]
  /\ channels' = [k \in Credentials |-> 0] /\ owners' = [c \in Creates |-> 0] /\ chains' = {}
  /\ interrupts' = [c \in Creates |-> IF interrupts[c] = "asked" THEN "dropped" ELSE interrupts[c]]
  /\ UNCHANGED <<queue, generation, previous, lastSocket, httpOnly, disconnects, answers, result, relayHistory>>

-----------------------------------------------------------------------------
(* The queue: serve(). *)

\* Mutant of Withdrawn: the generation is not looked at.
WithdrawnNever(q) == closed

Withdrawn(q) == closed \/ q.gen # generation

\* A create withdrawn in the queue ends without an answer; one whose previous
\* response is not remembered is refused.
QueueDrops ==
  LET q == Head(queue) IN
  /\ queue # <<>> /\ current.at = "none" /\ queue' = Tail(queue)
  /\ \/ Withdrawn(q) /\ result' = [result EXCEPT ![q.create] = "skipped"]
     \/ /\ ~Withdrawn(q) /\ HasPrevious(q.create) /\ previous[q.create] \notin chains
        /\ result' = [result EXCEPT ![q.create] = "not found"]
  /\ UNCHANGED <<generation, current, previous, relaySockets, chains, interrupting, closed, relayHistory>>

QueueServes ==
  LET q == Head(queue) IN
  /\ queue # <<>> /\ current.at = "none" /\ ~Withdrawn(q)
  /\ HasPrevious(q.create) => previous[q.create] \in chains
  /\ queue' = Tail(queue) /\ current' = [Free EXCEPT !.create = q.create, !.at = "route"]
  /\ UNCHANGED <<generation, previous, relaySockets, chains, interrupting, closed, result, relayHistory>>

-----------------------------------------------------------------------------
(* SocketSession.fetch, called by the router for one credential. *)

\* The channel to reuse: open, and for an API credential young enough.
Reusable(k) == IF channels[k] \in sockets THEN {channels[k]} \cup (IF k \in ApiKeys THEN {0} ELSE {}) ELSE {0}

\* Mutant of SendsDelta: any remembered owner will do.
SendsDeltaAnywhere(c, s) == HasPrevious(c) /\ owners[previous[c]] # 0

\* Only the socket that produced the previous response knows it.
SendsDelta(c, s) == HasPrevious(c) /\ owners[previous[c]] = s

Send(c, s) == sends' = [sends EXCEPT ![c] = Append(@, [socket |-> s, delta |-> SendsDelta(c, s)])]

\* A socket that is replaced loses the responses it owned.
Disowned(k, s) == IF s # 0 THEN owners ELSE [c \in Creates |-> IF owners[c] = channels[k] THEN 0 ELSE owners[c]]

RouteCancelled ==
  /\ current.at = "route" /\ current.aborted /\ Ended(current.create, "cancelled")
  /\ UNCHANGED <<queue, generation, previous, relaySockets, chains, interrupting, closed, relayHistory>>

RouterPicks(k) ==
  /\ current.at = "route" /\ ~current.aborted /\ current.routes < MaxRoutes
  /\ \/ /\ disconnects >= 2 \/ k \in httpOnly              \* HTTP recovery
        /\ current' = [current EXCEPT !.at = "http", !.routes = @ + 1]
        /\ UNCHANGED <<relaySockets, sends, result>>
     \/ /\ disconnects < 2 /\ k \notin httpOnly
        /\ \E s \in Reusable(k) :
             /\ owners' = Disowned(k, s)
             /\ sockets' = IF s = 0 THEN sockets \ {channels[k]} ELSE sockets
             /\ channels' = [channels EXCEPT ![k] = s]
             /\ \/ s # 0 /\ current' = [current EXCEPT !.at = "sent", !.key = k, !.socket = s, !.routes = @ + 1]
                   /\ Send(current.create, s) /\ UNCHANGED result
                \/ s = 0 /\ current' = [current EXCEPT !.at = "open", !.key = k, !.routes = @ + 1] /\ UNCHANGED <<sends, result>>
                \/ \* a tool result without its call cannot be sent elsewhere
                   /\ HasPrevious(current.create) /\ owners'[previous[current.create]] # s
                   /\ Ended(current.create, "not found") /\ UNCHANGED sends
        /\ UNCHANGED <<lastSocket, httpOnly, disconnects>>
  /\ UNCHANGED <<queue, generation, previous, chains, interrupting, closed, ambiguous, withdrawn>>

\* The router gives up, or no credential is left.
RouterGivesUp ==
  /\ current.at = "route" /\ Ended(current.create, "failed")
  /\ UNCHANGED <<queue, generation, previous, relaySockets, chains, interrupting, closed, relayHistory>>

\* The handshake: an abort terminates the opening socket before the create is sent.
SocketOpens ==
  /\ current.at = "open" /\ ~current.aborted /\ lastSocket < MaxSockets
  /\ lastSocket' = lastSocket + 1 /\ sockets' = sockets \cup {lastSocket'}
  /\ channels' = [channels EXCEPT ![current.key] = lastSocket'] /\ Send(current.create, lastSocket')
  /\ current' = [current EXCEPT !.at = "sent", !.socket = lastSocket']
  /\ UNCHANGED <<queue, generation, previous, owners, httpOnly, disconnects, chains, interrupting, closed, result, ambiguous, withdrawn>>

\* A rejected API handshake falls back to HTTP; a subscription's goes back to the router.
HandshakeFails ==
  /\ current.at = "open"
  /\ \/ current.aborted /\ Ended(current.create, "cancelled") /\ UNCHANGED httpOnly
     \/ ~current.aborted /\ current' = [current EXCEPT !.at = "route"] /\ UNCHANGED <<result, httpOnly>>
     \/ /\ ~current.aborted /\ current.key \in ApiKeys /\ httpOnly' = httpOnly \cup {current.key}
        /\ current' = [current EXCEPT !.at = "http"] /\ UNCHANGED result
  /\ UNCHANGED <<queue, generation, previous, channels, sockets, lastSocket, owners, disconnects, chains, interrupting, closed, relayHistory>>

HttpAnswers ==
  /\ current.at = "http"
  /\ \/ current.aborted /\ Ended(current.create, "cancelled") /\ UNCHANGED chains
     \/ ~current.aborted /\ Ended(current.create, "done") /\ chains' = chains \cup {current.create}
     \/ ~current.aborted /\ Ended(current.create, "failed") /\ UNCHANGED chains
  /\ UNCHANGED <<queue, generation, previous, relaySockets, interrupting, closed, relayHistory>>

-----------------------------------------------------------------------------
(* Events of the socket the current create was sent on. *)

Alive == current.at \in {"sent", "stream"} /\ current.socket \in sockets

\* An error event before anything else is an HTTP status to the router.
ErrorEvent ==
  /\ Alive /\ current.at = "sent" /\ current' = [current EXCEPT !.at = "route"]
  /\ UNCHANGED <<queue, generation, previous, relaySockets, chains, interrupting, closed, result, relayHistory>>

FirstEvent ==
  /\ Alive /\ current.at = "sent" /\ current' = [current EXCEPT !.at = "stream"]
  /\ owners' = [owners EXCEPT ![current.create] = current.socket]
  /\ UNCHANGED <<queue, generation, previous, channels, sockets, lastSocket, httpOnly, disconnects, chains, interrupting, closed,
                 result, relayHistory>>

\* How a response ends: a completed and an interrupted one are remembered, for the
\* client may continue either, and only a completed one clears the disconnects.
Endings == {"completed", "interrupted", "failed"}

TerminalEvent(ending) ==
  /\ Alive /\ current.at = "stream"
  /\ ending = "interrupted" => interrupts[current.create] # "none"
  /\ Ended(current.create, IF ending = "failed" THEN "failed" ELSE "done")
  /\ disconnects' = IF ending = "completed" THEN 0 ELSE disconnects
  /\ chains' = IF ending = "failed" THEN chains ELSE chains \cup {current.create}
  /\ UNCHANGED <<queue, generation, previous, channels, sockets, lastSocket, owners, httpOnly, interrupting, closed, relayHistory>>

\* An upstream socket closes; the create it carries is noticed by CurrentCloses.
SocketCloses(s) ==
  /\ s \in sockets /\ sockets' = sockets \ {s}
  /\ UNCHANGED <<relayQueue, channels, lastSocket, owners, httpOnly, disconnects, chains, interrupting, closed, result, relayHistory>>

\* Mutant of CloseResult: the router is told that the connection failed.
CloseResultRetry == "route"

\* A sent create is never handed back to the router.
CloseResult == "none"

CurrentCloses ==
  /\ current.at \in {"sent", "stream"} /\ current.socket \notin sockets
  /\ channels' = [channels EXCEPT ![current.key] = 0]
  /\ IF current.aborted
     THEN Ended(current.create, "cancelled") /\ UNCHANGED <<httpOnly, disconnects, ambiguous>>
     ELSE /\ ambiguous' = ambiguous \cup {current.create}
          /\ httpOnly' = IF current.key \in ApiKeys THEN httpOnly \cup {current.key} ELSE httpOnly
          /\ disconnects' = IF disconnects < 2 THEN disconnects + 1 ELSE 2
          /\ IF CloseResult = "none" THEN Ended(current.create, "disconnected")
             ELSE current' = [current EXCEPT !.at = "route"] /\ UNCHANGED result
  /\ UNCHANGED <<queue, generation, previous, sockets, lastSocket, owners, chains, interrupting, closed, withdrawn, sends>>

\* Sixty seconds later.
BackoffEnds ==
  /\ (httpOnly # {} \/ disconnects > 0) /\ httpOnly' = {} /\ disconnects' = 0
  /\ UNCHANGED <<relayQueue, channels, sockets, lastSocket, owners, chains, interrupting, closed, result, relayHistory>>

-----------------------------------------------------------------------------
(* response.interrupt *)

Answer(c, state) ==
  /\ interrupts' = [interrupts EXCEPT ![c] = state] /\ answers' = [answers EXCEPT ![c] = @ + 1]
  /\ UNCHANGED <<relayQueue, relaySockets, chains, closed, result, relayHistory>>

Interruptible(c) == owners[c] # 0 /\ owners[c] \in sockets

ClientInterrupts(c) ==
  /\ ~closed /\ interrupts[c] = "none" /\ (owners[c] # 0 \/ result[c] \in {"done", "disconnected"})
  /\ IF Interruptible(c)
     THEN interrupts' = [interrupts EXCEPT ![c] = "asked"]
          /\ UNCHANGED <<relayQueue, relaySockets, chains, answers, closed, result, relayHistory>>
     ELSE Answer(c, "failed")

\* Mutant of InterruptPending: the listener outlives its answer.
InterruptPendingForever(c) == interrupts[c] \in {"asked", "failed", "accepted"}

InterruptPending(c) == interrupts[c] = "asked"

\* The acknowledgement of the socket that was asked, its close, or a time-out.
InterruptAccepted(c) == ~closed /\ InterruptPending(c) /\ owners[c] \in sockets /\ Answer(c, "accepted")
InterruptFails(c) == ~closed /\ InterruptPending(c) /\ answers[c] < 2 /\ Answer(c, "failed")

RelayNext ==
  \/ \E c \in Creates :
       \/ \E p \in (Creates \ {c}) \cup {NoCreate} : ClientCreates(c, p)
       \/ ClientInterrupts(c) \/ InterruptAccepted(c) \/ InterruptFails(c)
  \/ \E k \in Credentials : RouterPicks(k)
  \/ \E s \in sockets : SocketCloses(s)
  \/ \E ending \in Endings : TerminalEvent(ending)
  \/ ClientCancels \/ ClientCloses \/ QueueDrops \/ QueueServes \/ RouteCancelled \/ RouterGivesUp \/ SocketOpens
  \/ HandshakeFails \/ HttpAnswers \/ ErrorEvent \/ FirstEvent \/ CurrentCloses \/ BackoffEnds

RelaySpec == RelayInit /\ [][RelayNext]_relayVars

-----------------------------------------------------------------------------
(* Properties. *)

\* A create whose socket closed after it was sent is never sent again, by any
\* transport or credential: its generation may have started.
NeverReplayed ==
  \A c \in ambiguous : sends'[c] = sends[c] /\ ~(current'.create = c /\ current'.at \in {"route", "open", "http"})

\* A create that was queued or being routed when the client cancelled is not
\* sent upstream afterwards.
CancelledNotSent == \A c \in withdrawn : sends'[c] = sends[c]

\* A continuation is sent as a delta only on the socket that produced the
\* previous response; on any other, or on its successor, the whole input goes.
DeltaStaysHome ==
  \A c \in Creates : \A i \in DOMAIN sends[c] : sends[c][i].delta =>
    /\ sends[previous[c]] # <<>>
    /\ sends[c][i].socket = sends[previous[c]][Len(sends[previous[c]])].socket

\* An interrupt is answered at most once, although its acknowledgement, its
\* time-out and the close of its socket race.
InterruptAnsweredOnce == \A c \in Creates : answers[c] <= 1

\* Continuations and interrupts reach the socket that they are about, once.
RelaysFaithful == DeltaStaysHome /\ InterruptAnsweredOnce

-----------------------------------------------------------------------------
(***************************************************************************)
(* lib/runtime/realtime-calls.ts: the proxy remembers which account made a *)
(* voice call, and relays the call's sideband socket under that account.   *)
(* The upstream handshake ends before the local upgrade is accepted;       *)
(* frames that arrive in between are held, and a slow reader pauses the    *)
(* other side.  Frames are modelled from upstream to the client; the other *)
(* direction runs the same forwarder and has nothing to hold.              *)
(***************************************************************************)

CONSTANTS Sidebands, CallIds, NoCall,
          MaxCalls,    \* calls the registry remembers
          CallTtl,     \* ticks an entry lives
          HoldLimit,   \* frames held before the pair is piped
          HighWater, LowWater,
          MaxFrames    \* frames upstream sends on one socket

ASSUME VoiceAssumption == LowWater \in Nat /\ HighWater \in Nat /\ LowWater <= HighWater

VARIABLES registry,   \* the remembered calls, oldest first, each with the ticks it has left
          sidebands,
          used,       \* call -> ticks left since it was created, joined or dropped
          evicted,    \* calls dropped to make room
          relayClosed,
          overflowed  \* frames beyond the hold limit came before the pair was piped

voiceVars == <<registry, sidebands, used, evicted, relayClosed, overflowed>>

Unjoined == [at |-> "idle", call |-> NoCall, gone |-> FALSE, sent |-> 0,
             wire |-> <<>>, queue |-> <<>>, got |-> <<>>, paused |-> FALSE]

VoiceInit ==
  /\ registry = <<>>
  /\ sidebands = [s \in Sidebands |-> Unjoined]
  /\ used = [c \in CallIds |-> 0]
  /\ evicted = {} /\ relayClosed = FALSE /\ overflowed = {}

-----------------------------------------------------------------------------
(* RealtimeCallRegistry. *)

Known == {registry[i].call : i \in DOMAIN registry}

\* remember: the entry moves to the end with a new lifetime; the oldest make room.
Remembered(c) ==
  Append(SelectSeq(registry, LAMBDA e : e.call # c), [call |-> c, left |-> CallTtl])
Remembers(c) ==
  LET all == Remembered(c)
      over == IF Len(all) > MaxCalls THEN Len(all) - MaxCalls ELSE 0
  IN /\ registry' = SubSeq(all, over + 1, Len(all))
     /\ evicted' = (evicted \ {c}) \cup {all[i].call : i \in 1..over}

\* prune: each entry expires on its own; every reader prunes first.
VoiceTick ==
  /\ \E c \in CallIds : used[c] > 0
  /\ used' = [c \in CallIds |-> IF used[c] > 0 THEN used[c] - 1 ELSE 0]
  /\ registry' = SelectSeq([i \in DOMAIN registry |-> [registry[i] EXCEPT !.left = @ - 1]],
                           LAMBDA e : e.left > 0)
  /\ UNCHANGED <<sidebands, evicted, relayClosed, overflowed>>

\* A POST that creates a call succeeded; the proxy records its account.
CallCreated(c) ==
  /\ ~relayClosed /\ used[c] = 0 /\ c \notin Known
  /\ \A s \in Sidebands : sidebands[s].call # c
  /\ Remembers(c)
  /\ used' = [used EXCEPT ![c] = CallTtl]
  /\ UNCHANGED <<sidebands, relayClosed, overflowed>>

-----------------------------------------------------------------------------
(* handleUpgrade. *)

\* The call is known: the upstream handshake starts with the account that made it.
Upgrade(s, c) ==
  /\ sidebands[s].at = "idle" /\ c \in Known /\ ~relayClosed
  /\ sidebands' = [sidebands EXCEPT ![s] = [Unjoined EXCEPT !.at = "handshake", !.call = c]]
  /\ UNCHANGED <<registry, used, evicted, relayClosed, overflowed>>

HandshakeOpens(s) ==
  /\ sidebands[s].at = "handshake"
  /\ sidebands' = [sidebands EXCEPT ![s].at = "opened"]
  /\ UNCHANGED <<registry, used, evicted, relayClosed, overflowed>>
\* Upstream refuses, fails or does not answer, or the client leaves: terminated.
SidebandRefused(s) ==
  /\ sidebands[s].at = "handshake"
  /\ sidebands' = [sidebands EXCEPT ![s] = Unjoined]
  /\ UNCHANGED <<registry, used, evicted, relayClosed, overflowed>>
\* The client leaves after the handshake and before the upgrade.
ClientGone(s) ==
  /\ sidebands[s].at = "opened" /\ ~sidebands[s].gone
  /\ sidebands' = [sidebands EXCEPT ![s].gone = TRUE]
  /\ UNCHANGED <<registry, used, evicted, relayClosed, overflowed>>

\* createBackpressuredForwarder: reading stops above the high water mark.
PausesNever(waiting) == FALSE
Pauses(waiting) == Len(waiting) > HighWater

\* The pair is piped: the call lives on, and the held frames go out first.
MayPipeAnyway(s) == ~sidebands[s].gone
MayPipe(s) == ~sidebands[s].gone /\ ~relayClosed
HeldIsDropped(v) == [v EXCEPT !.at = "piped", !.wire = <<>>]
HeldGoesOut(v) == [v EXCEPT !.at = "piped", !.queue = v.wire, !.wire = <<>>, !.paused = Pauses(v.wire)]
pipe(s) ==
  /\ sidebands[s].at = "opened" /\ MayPipe(s)
  /\ Remembers(sidebands[s].call)
  /\ used' = [used EXCEPT ![sidebands[s].call] = CallTtl]
  /\ sidebands' = [sidebands EXCEPT ![s] = HeldGoesOut(sidebands[s])]
  /\ UNCHANGED <<relayClosed, overflowed>>
\* The client left or the relay closed meanwhile.
NotPiped(s) ==
  /\ sidebands[s].at = "opened" /\ ~MayPipe(s)
  /\ sidebands' = [sidebands EXCEPT ![s] = Unjoined]
  /\ UNCHANGED <<registry, used, evicted, relayClosed, overflowed>>

-----------------------------------------------------------------------------
(* Frames. *)

\* Upstream sends; before the pair is piped the relay holds a limited number.
UpstreamSends(s) ==
  LET v == sidebands[s]
      full == v.at = "opened" /\ Len(v.wire) >= HoldLimit
  IN
    /\ v.at \in {"opened", "piped"} /\ v.sent < MaxFrames
    /\ sidebands' = [sidebands EXCEPT ![s].sent = @ + 1, ![s].wire = IF full THEN @ ELSE Append(@, v.sent + 1)]
    /\ overflowed' = IF full THEN overflowed \cup {s} ELSE overflowed
    /\ UNCHANGED <<registry, used, evicted, relayClosed>>

\* A frame is read and queued towards the client.
ForwardsFrame(s) ==
  LET v == sidebands[s]
      queued == Append(v.queue, Head(v.wire))
  IN
    /\ v.at = "piped" /\ ~v.paused /\ v.wire # <<>>
    /\ sidebands' = [sidebands EXCEPT ![s].wire = Tail(@), ![s].queue = queued, ![s].paused = Pauses(queued)]
    /\ UNCHANGED <<registry, used, evicted, relayClosed, overflowed>>

\* A frame is flushed; reading resumes at the low water mark.
ResumesBelow(waiting) == Len(waiting) < LowWater
Resumes(waiting) == Len(waiting) <= LowWater
FlushesFrame(s) ==
  LET v == sidebands[s] IN
    /\ v.at = "piped" /\ v.queue # <<>>
    /\ sidebands' = [sidebands EXCEPT ![s].queue = Tail(@), ![s].got = Append(@, Head(v.queue)),
                                      ![s].paused = @ /\ ~Resumes(Tail(v.queue))]
    /\ UNCHANGED <<registry, used, evicted, relayClosed, overflowed>>

\* Either side closes or fails: the pair goes and the call stays joinable.
RefreshesNot(s) == FALSE
Refreshes(s) == ~relayClosed
SidebandEnds(s) ==
  /\ sidebands[s].at = "piped"
  /\ IF Refreshes(s) THEN Remembers(sidebands[s].call) ELSE UNCHANGED <<registry, evicted>>
  /\ used' = [used EXCEPT ![sidebands[s].call] = CallTtl]
  /\ sidebands' = [sidebands EXCEPT ![s] = Unjoined]
  /\ overflowed' = overflowed \ {s}
  /\ UNCHANGED relayClosed

\* The proxy stops: every pair is terminated and the registry cleared.
RelayCloses ==
  /\ ~relayClosed /\ relayClosed' = TRUE
  /\ registry' = <<>>
  /\ sidebands' = [s \in Sidebands |-> IF sidebands[s].at = "piped" THEN Unjoined ELSE sidebands[s]]
  /\ UNCHANGED <<used, evicted, overflowed>>

VoiceNext ==
  \/ VoiceTick \/ RelayCloses
  \/ \E c \in CallIds : CallCreated(c)
  \/ \E s \in Sidebands :
       \/ \E c \in CallIds : Upgrade(s, c)
       \/ HandshakeOpens(s) \/ SidebandRefused(s) \/ ClientGone(s) \/ pipe(s) \/ NotPiped(s)
       \/ UpstreamSends(s) \/ ForwardsFrame(s) \/ FlushesFrame(s) \/ SidebandEnds(s)

VoiceSpec == VoiceInit /\ [][VoiceNext]_voiceVars

-----------------------------------------------------------------------------
\* Every frame upstream sent is delivered or on its way, in order, across the hand-over
\* from the handshake to the pipe, unless more came early than the relay holds.
FramesComplete ==
  \A s \in Sidebands : LET v == sidebands[s] IN
    v.at = "piped" /\ s \notin overflowed => v.got \o v.queue \o v.wire = [i \in 1..v.sent |-> i]

\* A side that was paused still has a flush to come that resumes it.
PausedIsResumed == \A s \in Sidebands : sidebands[s].paused => sidebands[s].queue # <<>>

\* What waits for a slow client never exceeds the high water mark by more than a
\* frame, or the frames held for it.
QueueBounded == \A s \in Sidebands : Len(sidebands[s].queue) <= IF HighWater + 1 > HoldLimit THEN HighWater + 1 ELSE HoldLimit

\* A call can be joined again for its whole lifetime after its creation, its last
\* connection or its last drop, unless newer calls took its place.
StaysJoinable ==
  \A c \in CallIds : used[c] > 0 /\ c \notin evicted /\ ~relayClosed => c \in Known

\* Once the relay is closed nothing is relayed, not even a socket whose handshake was
\* under way.
ClosedRelaysNothing == relayClosed => \A s \in Sidebands : sidebands[s].at # "piped"
=============================================================================

----------------------------- MODULE AutoChecks -----------------------------
(***************************************************************************)
(* The checks a router runs by itself, which consume quota or money: the   *)
(* subscription check, which may start an unused account's windows, and    *)
(* the daily API capability check.  Routers share a history of attempts in *)
(* a file; an attempt is recorded before the request is sent.  A behaviour *)
(* is about one kind of check and one account or API route.  Time is in    *)
(* units of which an interval has CheckInterval, and the future skew, beyond    *)
(* which a stamp is taken for a relic of a clock set back, has Skew.       *)
(***************************************************************************)
EXTENDS Integers, FiniteSets

CONSTANTS NoTime,
          Routers,
          CheckInterval,   \* between checks of one account
          Skew,
          PreparationRetry,
          MaxNow,          \* bound on time
          MaxUpsets        \* bound on what goes wrong or is changed: restarts,
                           \* stops, consent, the clock set back, a damaged file

ASSUME CheckAssumption ==
  /\ NoTime \notin Nat /\ NoTime \notin Routers
  /\ CheckInterval \in Nat \ {0} /\ Skew \in Nat /\ PreparationRetry \in Nat
  /\ MaxNow \in Nat /\ MaxUpsets \in Nat

VARIABLES kind,     \* "subscription" or "api"
          now,      \* the wall clock, and how often it was set back
          history,  \* the file: the last attempt, the live router that made it; or broken
          consent,  \* the user's opt-in
          upsets,   \* how many upsets there were
          router,   \* router[p]: its timer, its run, the stamp of its attempt
                    \* and when it was recorded
          billed    \* requests sent

checkVars == <<kind, now, history, consent, upsets, router, billed>>

NoAttempt == [at |-> NoTime, by |-> NoTime, epoch |-> 0, broken |-> FALSE]
Off == [up |-> FALSE, pc |-> "idle", due |-> NoTime, aborted |-> FALSE,
        started |-> 0, claim |-> 0, claimed |-> 0, late |-> FALSE]

Upset == upsets < MaxUpsets /\ upsets' = upsets + 1

CheckInit ==
  /\ kind \in {"subscription", "api"}
  /\ now = [t |-> 0, epoch |-> 0]
  /\ history = NoAttempt
  /\ consent = TRUE /\ upsets = 0
  /\ router = [p \in Routers |-> Off]
  /\ billed = {}

-----------------------------------------------------------------------------
(* The timer: ticks do not overlap, and stopping ends them *)

RearmsAlways(p, due) ==
  router' = [router EXCEPT ![p] = [Off EXCEPT !.up = TRUE, !.due = due,
                                              !.aborted = router[p].aborted]]

\* Nothing is scheduled once stopped.
Rearms(p, due) ==
  router' = [router EXCEPT ![p] =
    [Off EXCEPT !.up = TRUE, !.aborted = router[p].aborted,
                !.due = IF router[p].aborted THEN NoTime ELSE due]]

Starts(p) ==
  /\ ~router[p].up
  /\ router' = [router EXCEPT ![p] = [Off EXCEPT !.up = TRUE, !.due = now.t]]
  /\ UNCHANGED <<kind, now, history, consent, upsets, billed>>

Ticks(p) ==
  /\ router[p].up /\ router[p].due # NoTime /\ router[p].due <= now.t
  /\ router' = [router EXCEPT ![p].pc = "loading", ![p].due = NoTime,
                              ![p].started = now.t]
  /\ UNCHANGED <<kind, now, history, consent, upsets, billed>>

\* stop() clears the timer, aborts the run and waits for it.
Stops(p) ==
  /\ router[p].up /\ ~router[p].aborted
  /\ router' = [router EXCEPT ![p].aborted = TRUE,
                              ![p].due = NoTime]
  /\ Upset
  /\ UNCHANGED <<kind, now, history, consent, billed>>

Stopped(p) == router[p].aborted /\ router[p].pc = "idle"

Crashes(p) ==
  /\ router[p].up
  /\ router' = [router EXCEPT ![p] = Off]
  /\ history' = [history EXCEPT !.by = IF @ = p THEN NoTime ELSE @]
  /\ Upset
  /\ UNCHANGED <<kind, now, consent, billed>>

-----------------------------------------------------------------------------
(* Attempts *)

ThrottledLoosely(last) ==
  last.at # NoTime /\ last.at <= now.t + Skew /\ now.t - last.at < CheckInterval - 1

Throttled(last) ==
  last.at # NoTime /\ last.at <= now.t + Skew /\ now.t - last.at < CheckInterval

Attempt(p, at) == [at |-> at, by |-> p, epoch |-> now.epoch, broken |-> FALSE]

NextSubscriptionFromStart(p) == router[p].started + CheckInterval

\* The next tick comes an interval after the run's end.
NextSubscription(p) == now.t + CheckInterval

\* The API check follows the claim's deadline, if it has one.
NextApi(deadline) ==
  LET wait == deadline - now.t
  IN  now.t + (IF wait < 0 THEN 0 ELSE IF wait > CheckInterval THEN CheckInterval ELSE wait)

NextDue(p) ==
  IF kind = "subscription" THEN NextSubscription(p) ELSE NextApi(router[p].claim + CheckInterval)

\* A run that made no attempt: the API check counts the interval from its start.
NextIdle(p) ==
  IF kind = "subscription" THEN NextSubscription(p) ELSE NextApi(router[p].started + CheckInterval)

\* The subscription check holds the file lock for the whole run, and a second
\* router gives up at once.  An unreadable history ends the run.
SubscriptionLock == \E p \in Routers : router[p].pc \in {"refresh", "revalidate", "send", "read"}

ChecksSubscription(p) ==
  /\ kind = "subscription" /\ router[p].pc = "loading"
  /\ IF ~consent \/ router[p].aborted \/ SubscriptionLock \/ history.broken \/ Throttled(history)
     THEN Rearms(p, NextSubscription(p)) /\ UNCHANGED history
     ELSE /\ history' = Attempt(p, now.t)
          /\ router' = [router EXCEPT ![p].pc = "refresh", ![p].claim = now.t,
                                      ![p].claimed = now.t]
  /\ UNCHANGED <<kind, now, consent, upsets, billed>>

\* A history or an attempt that cannot be read or written stops the run.
HistoryFails(p) ==
  /\ router[p].pc \in {"loading", "claim"}
  /\ Rearms(p, NextIdle(p))
  /\ UNCHANGED <<kind, now, history, consent, upsets, billed>>

PreparesRoute(p) ==
  /\ kind = "api" /\ router[p].pc = "loading"
  /\ \/ consent /\ ~router[p].aborted /\ router' = [router EXCEPT ![p].pc = "claim"]
     \/ Rearms(p, IF consent /\ ~router[p].aborted THEN now.t + PreparationRetry ELSE NextIdle(p))
  /\ UNCHANGED <<kind, now, history, consent, upsets, billed>>

\* The claim is committed under the lock and names the pass.  A history that
\* cannot be understood is replaced, and its checks put off for an interval.
ClaimedAt(p) == IF router[p].started < now.t THEN router[p].started ELSE now.t

ClaimsRoute(p) ==
  /\ router[p].pc = "claim"
  /\ \/ /\ ~consent \/ router[p].aborted
        /\ Rearms(p, NextIdle(p)) /\ UNCHANGED history
     \/ /\ consent /\ ~router[p].aborted /\ history.broken
        /\ history' = Attempt(p, now.t) /\ Rearms(p, now.t + CheckInterval)
     \/ /\ consent /\ ~router[p].aborted /\ ~history.broken /\ Throttled(history)
        /\ Rearms(p, NextApi(history.at + CheckInterval)) /\ UNCHANGED history
     \/ /\ consent /\ ~router[p].aborted /\ ~history.broken /\ ~Throttled(history)
        /\ history' = Attempt(p, ClaimedAt(p))
        /\ router' = [router EXCEPT ![p].pc = "revalidate", ![p].claim = ClaimedAt(p),
                                    ![p].claimed = now.t]
  /\ UNCHANGED <<kind, now, consent, upsets, billed>>

-----------------------------------------------------------------------------
(* The request *)

Refreshes(p) ==
  /\ router[p].pc = "refresh"
  /\ \/ router' = [router EXCEPT ![p].pc = "revalidate"]
     \/ Rearms(p, NextDue(p))
  /\ UNCHANGED <<kind, now, history, consent, upsets, billed>>

StillWantedOnce(p) == ~router[p].aborted

\* The account or route is read again: still there, opted in and unchanged.
StillWanted(p) == consent /\ ~router[p].aborted

Revalidates(p) ==
  /\ router[p].pc = "revalidate"
  /\ IF StillWanted(p) THEN router' = [router EXCEPT ![p].pc = "send"]
     ELSE Rearms(p, NextDue(p))
  /\ UNCHANGED <<kind, now, history, consent, upsets, billed>>

Sends(p) ==
  /\ router[p].pc = "send"
  /\ IF router[p].aborted THEN Rearms(p, NextDue(p)) /\ UNCHANGED billed
     ELSE /\ billed' = billed \cup {[claim |-> router[p].claim, claimed |-> router[p].claimed,
                                     epoch |-> now.epoch, n |-> Cardinality(billed)]}
          /\ router' = [router EXCEPT ![p].pc = "read"]
  /\ UNCHANGED <<kind, now, history, consent, upsets>>

\* Answered, failed or aborted: an attempt is not retried before its interval.
Ends(p) ==
  /\ router[p].pc = "read"
  /\ Rearms(p, NextDue(p))
  /\ UNCHANGED <<kind, now, history, consent, upsets, billed>>

-----------------------------------------------------------------------------
(* Around it *)

\* A pass does not stand still, before it claims, for a whole interval.
TimePasses ==
  /\ now.t < MaxNow
  /\ \A p \in Routers : router[p].pc \in {"loading", "claim"} => now.t + 1 - router[p].started < CheckInterval
  /\ now' = [now EXCEPT !.t = @ + 1]
  /\ UNCHANGED <<kind, history, consent, upsets, router, billed>>

\* The clock is set back beyond the skew; timers are not affected by that.
ClockSetBack ==
  /\ now.epoch = 0 /\ now.t > Skew
  /\ \A p \in Routers : router[p].due = NoTime /\ router[p].pc = "idle"
  /\ now' = [t |-> now.t - Skew - 1, epoch |-> 1]
  /\ Upset
  /\ UNCHANGED <<kind, history, consent, router, billed>>

\* The user opts out, or in again; a request on its way has seen the old word.
ConsentChanges ==
  /\ consent' = ~consent
  /\ router' = [p \in Routers |-> [router[p] EXCEPT !.late = consent /\ router[p].pc = "send"]]
  /\ Upset
  /\ UNCHANGED <<kind, now, history, billed>>

HistoryDamaged ==
  /\ ~history.broken /\ history.at # NoTime
  /\ \A p \in Routers : router[p].pc = "idle"
  /\ history' = [history EXCEPT !.broken = TRUE]
  /\ Upset
  /\ UNCHANGED <<kind, now, consent, router, billed>>

CheckNext ==
  \/ \E p \in Routers :
       \/ Starts(p) \/ Ticks(p) \/ Stops(p) \/ Crashes(p) \/ HistoryFails(p)
       \/ ChecksSubscription(p) \/ PreparesRoute(p) \/ ClaimsRoute(p)
       \/ Refreshes(p) \/ Revalidates(p) \/ Sends(p) \/ Ends(p)
  \/ TimePasses \/ ClockSetBack \/ ConsentChanges \/ HistoryDamaged

CheckSpec == CheckInit /\ [][CheckNext]_checkVars

-----------------------------------------------------------------------------
(* Properties *)

\* However many routers run, crash and restart, an account or route is billed
\* at most once for an interval ("competing routers cannot double-prime"): the
\* attempt behind a request was recorded an interval or more after the stamp of
\* every earlier one, and no two carry the same stamp.
SpacedRequests ==
  \A a, b \in billed :
    a # b /\ a.epoch = b.epoch /\ a.claim <= b.claim =>
      a.claim < b.claim /\ b.claimed - a.claim >= CheckInterval

\* A user who opts out while the account's token is refreshed, or while the
\* claim is made, is not billed for that run.
ConsentHonoured ==
  \A p \in Routers : router[p].pc = "send" /\ router'[p].pc = "read" =>
    consent \/ router[p].late

\* After stop() nothing is running and no timer is left that would tick.
QuietAfterStop ==
  \A p \in Routers : Stopped(p) => router[p].due = NoTime

\* A router's own tick is never inside the limit its previous run set: a run
\* that finds the account checked too recently owes that to another router, or
\* to a router that died (startAutomaticAccountChecks; a fixed interval ticked
\* just inside the limit and skipped every other check).
OwnTickEffective ==
  \A p \in Routers : router[p].pc \in {"loading", "claim"} /\ history.by = p
                       /\ history.epoch = now.epoch => ~Throttled(history)

\* The checks a router runs by itself are spaced, effective and end with it.
ChecksSpaced == SpacedRequests /\ QuietAfterStop /\ OwnTickEffective
=============================================================================

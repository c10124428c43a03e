--------------------------- MODULE CircuitBreaker ---------------------------
(***************************************************************************)
(* lib/circuit-breaker.ts: one account's breaker, shared by concurrent     *)
(* proxy requests.  Each method runs to completion (no await), so it is    *)
(* one action; the requests interleave between admission and outcome, and  *)
(* the clock may move in between.  Time is counted in ticks.               *)
(***************************************************************************)
EXTENDS Integers, Sequences, FiniteSets

CONSTANTS
  Requests,
  Threshold,     \* failureThreshold
  Window,        \* failureWindowMs
  ResetTimeout,  \* resetTimeoutMs
  MaxProbes,     \* halfOpenMaxAttempts
  MaxTime,       \* bound on the clock
  MaxFailures,   \* bound on recorded failures
  MaxWindows     \* bound on probe windows

ASSUME BreakerAssumption ==
  /\ IsFiniteSet(Requests)
  /\ {Threshold, ResetTimeout, MaxProbes} \subseteq Nat \ {0}
  /\ {Window, MaxTime, MaxFailures, MaxWindows} \subseteq Nat

VARIABLES
  now, state, failures, lastStateChange, halfOpenAttempts,
  probeWindow,  \* identity of the current window object
  req,          \* what each request is doing
  probe,        \* window a request's unreleased probe belongs to, 0 for none
  log,          \* times of all failures since the breaker last closed
  tripped       \* time of the last trip, -1 once the breaker closed again

breaker == <<state, failures, lastStateChange, halfOpenAttempts, probeWindow>>
requests == <<req, probe>>
history == <<log, tripped>>
vars == <<now, breaker, requests, history>>

TypeOK ==
  /\ now \in 0..MaxTime
  /\ state \in {"closed", "open", "half-open"}
  /\ failures \in Seq(0..MaxTime)
  /\ lastStateChange \in 0..now
  /\ halfOpenAttempts \in 0..MaxProbes
  /\ probeWindow \in 1..MaxWindows
  /\ req \in [Requests -> {"idle", "running"}]
  /\ probe \in [Requests -> 0..probeWindow]
  /\ log \in Seq(0..MaxTime) /\ tripped \in -1..MaxTime

Init ==
  /\ now = 0 /\ state = "closed" /\ failures = <<>> /\ lastStateChange = 0
  /\ halfOpenAttempts = 0 /\ probeWindow = 1
  /\ req = [r \in Requests |-> "idle"] /\ probe = [r \in Requests |-> 0]
  /\ log = <<>> /\ tripped = -1

-----------------------------------------------------------------------------
(* Private helpers. *)

Recent(times) == SelectSeq(times, LAMBDA t : t >= now - Window)

\* Mutant of pruneFailures.
pruneNothing == failures

pruneFailures == Recent(failures)

Waited(at) == at - lastStateChange >= ResetTimeout

\* A new window object, with a given number of attempts taken in it.
NewWindow(attempts) ==
  /\ probeWindow < MaxWindows
  /\ probeWindow' = probeWindow + 1
  /\ lastStateChange' = now
  /\ halfOpenAttempts' = attempts

\* Mutant of transitionToOpen: the wait is counted from an earlier change.
transitionToOpenStale ==
  /\ state' = "open" /\ halfOpenAttempts' = 0
  /\ probeWindow < MaxWindows /\ probeWindow' = probeWindow + 1
  /\ UNCHANGED lastStateChange

transitionToOpen ==
  /\ state' = "open" /\ NewWindow(0)

resetToClosed ==
  /\ state' = "closed" /\ failures' = <<>> /\ NewWindow(0)
  /\ log' = <<>> /\ tripped' = -1

-----------------------------------------------------------------------------
(* tryCanExecute. *)

Admitted(r, w) ==
  /\ req' = [req EXCEPT ![r] = "running"]
  /\ probe' = [probe EXCEPT ![r] = w]

AdmitClosed(r) ==
  /\ req[r] = "idle" /\ state = "closed"
  /\ Admitted(r, 0)
  /\ UNCHANGED <<now, breaker, history>>

\* Mutant of StartsWindow: an exhausted window never restarts.
StartsWindowOnce ==
  \/ state = "open" /\ Waited(now)
  \/ state = "half-open" /\ halfOpenAttempts = 0

\* The first probe of a window: the open wait is over, all probes of the
\* window were released, or an exhausted window has waited long enough.
StartsWindow ==
  \/ state = "open" /\ Waited(now)
  \/ state = "half-open" /\ halfOpenAttempts = 0
  \/ state = "half-open" /\ halfOpenAttempts >= MaxProbes /\ Waited(now)

AdmitFirstProbe(r) ==
  /\ req[r] = "idle" /\ StartsWindow
  /\ state' = "half-open"
  /\ NewWindow(1)
  /\ Admitted(r, probeWindow')
  /\ UNCHANGED <<now, failures, history>>

AdmitNextProbe(r) ==
  /\ req[r] = "idle" /\ state = "half-open"
  /\ halfOpenAttempts \in 1..(MaxProbes - 1)
  /\ halfOpenAttempts' = halfOpenAttempts + 1
  /\ Admitted(r, probeWindow)
  /\ UNCHANGED <<now, state, failures, lastStateChange, probeWindow, history>>

\* isAvailable(at) and getTimeUntilAvailable().
isAvailable(at) ==
  CASE state = "open" -> Waited(at)
    [] state = "half-open" -> halfOpenAttempts < MaxProbes \/ Waited(at)
    [] OTHER -> TRUE

getTimeUntilAvailable ==
  IF state = "open" \/ (state = "half-open" /\ halfOpenAttempts >= MaxProbes)
  THEN LET left == ResetTimeout - (now - lastStateChange) IN IF left > 0 THEN left ELSE 0
  ELSE 0

-----------------------------------------------------------------------------
(* How a request ends. *)

Ends(r) ==
  /\ req[r] = "running"
  /\ req' = [req EXCEPT ![r] = "idle"]
  /\ probe' = [probe EXCEPT ![r] = 0]

recordSuccess(r) ==
  /\ Ends(r)
  /\ \/ state = "half-open" /\ resetToClosed
     \/ /\ state = "closed"
        /\ failures' = pruneFailures
        /\ UNCHANGED <<state, lastStateChange, halfOpenAttempts, probeWindow, history>>
     \/ state = "open" /\ UNCHANGED <<breaker, history>>
  /\ UNCHANGED now

\* Mutant of recordFailure: opens one failure too late.
recordFailureLate(r) ==
  /\ Ends(r) /\ Len(log) < MaxFailures
  /\ failures' = Append(pruneFailures, now)
  /\ log' = Append(log, now)
  /\ \/ /\ state = "half-open" \/ (state = "closed" /\ Len(failures') > Threshold)
        /\ transitionToOpen /\ tripped' = now
     \/ /\ state = "open" \/ (state = "closed" /\ Len(failures') <= Threshold)
        /\ UNCHANGED <<state, lastStateChange, halfOpenAttempts, probeWindow, tripped>>
  /\ UNCHANGED now

recordFailure(r) ==
  /\ Ends(r) /\ Len(log) < MaxFailures
  /\ failures' = Append(pruneFailures, now)
  /\ log' = Append(log, now)
  /\ \/ /\ state = "half-open" \/ (state = "closed" /\ Len(failures') >= Threshold)
        /\ transitionToOpen /\ tripped' = now
     \/ /\ state = "open" \/ (state = "closed" /\ Len(failures') < Threshold)
        /\ UNCHANGED <<state, lastStateChange, halfOpenAttempts, probeWindow, tripped>>
  /\ UNCHANGED now

\* Mutant of Release: the window of the probe is not compared.
ReleaseAnyWindow(r) ==
  /\ Ends(r) /\ probe[r] # 0
  /\ halfOpenAttempts' = IF state = "half-open" THEN halfOpenAttempts - 1 ELSE halfOpenAttempts
  /\ UNCHANGED <<now, state, failures, lastStateChange, probeWindow, history>>

\* release() of a probe that was never dispatched.
Release(r) ==
  /\ Ends(r) /\ probe[r] # 0
  /\ halfOpenAttempts' = IF state = "half-open" /\ probe[r] = probeWindow
                         THEN halfOpenAttempts - 1 ELSE halfOpenAttempts
  /\ UNCHANGED <<now, state, failures, lastStateChange, probeWindow, history>>

\* A dispatched request ends in a way that is neither (a rate limit, a client
\* that went away): the breaker hears nothing.
EndSilently(r) ==
  /\ Ends(r)
  /\ UNCHANGED <<now, breaker, history>>

\* resetAllCircuitBreakers.
reset ==
  /\ resetToClosed
  /\ UNCHANGED <<now, requests>>

Tick ==
  /\ now < MaxTime
  /\ now' = now + 1
  /\ UNCHANGED <<breaker, requests, history>>

Admit(r) == AdmitClosed(r) \/ AdmitFirstProbe(r) \/ AdmitNextProbe(r)

Next ==
  \/ \E r \in Requests :
       \/ Admit(r) \/ recordSuccess(r) \/ recordFailure(r) \/ Release(r) \/ EndSilently(r)
  \/ reset \/ Tick

Spec == Init /\ [][Next]_vars

-----------------------------------------------------------------------------
(* Properties. *)

\* In a half-open window at most halfOpenMaxAttempts requests probe the account
\* at once: releases of earlier windows, silent ends and the window's own
\* restart never hand out a slot that a running probe still occupies.
ProbeBound ==
  /\ state = "half-open" =>
       Cardinality({r \in Requests : probe[r] = probeWindow}) <= halfOpenAttempts
  /\ halfOpenAttempts <= MaxProbes

\* The breaker is closed exactly as long as fewer than failureThreshold of the
\* failures since it last closed lie within failureWindowMs, although the list
\* it keeps is pruned at different moments than the threshold is tested.
ClosedMeansFewFailures ==
  state = "closed" => Len(Recent(log)) < Threshold

\* A closed breaker opens only when failureThreshold failures really happened
\* within failureWindowMs of now: failures that recordSuccess and recordFailure
\* should have pruned never count towards a trip.
TripsOnlyOnThreshold ==
  state = "closed" /\ state' = "open" => Len(SelectSeq(log', LAMBDA t : t >= now - Window)) >= Threshold

\* Once tripped, no request reaches the account for resetTimeoutMs unless a
\* probe succeeded or the operator reset the breaker, whatever requests that
\* were admitted before the trip report in the meantime.
TripHolds ==
  \A r \in Requests :
    req[r] = "idle" /\ req'[r] = "running" /\ tripped >= 0
      => now - tripped >= ResetTimeout

\* isAvailable, which selection reads, predicts tryCanExecute, and after the
\* wait that getTimeUntilAvailable announces the account is available, even if
\* all probes of a window ended silently: a half-open breaker never wedges.
AvailabilityIsFaithful ==
  /\ isAvailable(now) <=> \/ state = "closed" \/ StartsWindow
                          \/ state = "half-open" /\ halfOpenAttempts \in 1..(MaxProbes - 1)
  /\ isAvailable(now + getTimeUntilAvailable)

\* The breaker admits at most its probes, and announces truthfully when it lets
\* requests pass.
BreakerFaithful == ProbeBound /\ AvailabilityIsFaithful

=============================================================================

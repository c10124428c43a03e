-------------------------- MODULE TransactionMutex --------------------------
(***************************************************************************)
(* What withFileTransactionLock promises its callers: each call runs its   *)
(* action at most once, alone, except that calls made from inside the      *)
(* action (reentrant ones) run as guests of the holder.                    *)
(***************************************************************************)
CONSTANT Calls
VARIABLES holders, guests, over

Init == holders = {} /\ guests = {} /\ over = {}

Fresh(c) == c \notin holders \cup guests \cup over

Enter(c) ==
  /\ Fresh(c) /\ holders = {}
  /\ holders' = {c}
  /\ UNCHANGED <<guests, over>>

Join(c) ==
  /\ Fresh(c) /\ holders # {}
  /\ guests' = guests \cup {c}
  /\ UNCHANGED <<holders, over>>

\* Calls end: one that is through or gives up, or all those of a process that
\* dies.  Guests do not outlive the holder.
Finish(S) ==
  /\ S \cap over = {} /\ S # {}
  /\ over' = over \cup S
  /\ holders' = holders \ S
  /\ guests' = guests \ S
  /\ holders' = {} => guests' = {}

Next ==
  \/ \E c \in Calls : Enter(c) \/ Join(c)
  \/ \E S \in SUBSET Calls : Finish(S)

Spec == Init /\ [][Next]_<<holders, guests, over>>
=============================================================================

------------------------------- MODULE Delivery -------------------------------
(***************************************************************************)
(* What the way of an event to its destinations promises, whatever queues,   *)
(* processes and retries it consists of: an event is taken once, before it   *)
(* is answered; it is in the pipeline's care until it is done, unless it was *)
(* lost before that; nobody who listens all the while is left out, and       *)
(* nobody is bothered more often than the event was handed out.              *)
(***************************************************************************)
EXTENDS Naturals

CONSTANTS Messages, Notes

VARIABLES
  stage,        \* of every event: new, taken, waiting, done or lost
  answered,     \* the events Twitch has been told are taken
  owed,         \* who has listened to an event since it waits
  tried,        \* attempts per event and destination
  rounds        \* how often an event was handed out

vars == <<stage, answered, owed, tried, rounds>>

Become(m, from, to) == stage[m] = from /\ stage' = [stage EXCEPT ![m] = to]

\* Who stops listening is owed nothing any more.
OwedLess == \A m \in Messages : owed'[m] \subseteq owed[m]

-----------------------------------------------------------------------------

Init ==
  /\ stage = [m \in Messages |-> "new"]
  /\ answered = {}
  /\ owed = [m \in Messages |-> {}]
  /\ tried = [x \in Messages \X Notes |-> 0]
  /\ rounds = [m \in Messages |-> 0]

Accept(m) ==
  /\ Become(m, "new", "taken")
  /\ UNCHANGED <<answered, owed, tried, rounds>>

\* Only of an event that is not new is the sender told that it need not come again.
Answer(m) ==
  /\ stage[m] # "new"
  /\ answered' = answered \cup {m}
  /\ UNCHANGED <<stage, owed, tried, rounds>>

Enqueue(m) ==
  /\ Become(m, "taken", "waiting")
  /\ \E N \in SUBSET Notes : owed' = [owed EXCEPT ![m] = N]
  /\ rounds' = [rounds EXCEPT ![m] = 1]
  /\ UNCHANGED <<answered, tried>>

\* What was taken and does not wait yet is all that can be lost.
Lose ==
  /\ stage' = [m \in Messages |-> IF stage[m] = "taken" THEN "lost" ELSE stage[m]]
  /\ UNCHANGED <<answered, owed, tried, rounds>>

\* The events of M are handed out once more.
Repeat(M) ==
  /\ \A m \in M : stage[m] = "waiting"
  /\ rounds' = [m \in Messages |-> IF m \in M THEN rounds[m] + 1 ELSE rounds[m]]
  /\ UNCHANGED <<stage, answered, owed, tried>>

Attempt(m, N) ==
  /\ stage[m] = "waiting"
  /\ \A n \in N : tried[<<m, n>>] < rounds[m]
  /\ tried' = [x \in Messages \X Notes |->
                 tried[x] + IF x[1] = m /\ x[2] \in N THEN 1 ELSE 0]
  /\ UNCHANGED <<stage, answered, owed, rounds>>

Release ==
  /\ OwedLess
  /\ UNCHANGED <<stage, answered, tried, rounds>>

Finish(m) ==
  /\ Become(m, "waiting", "done")
  /\ OwedLess
  /\ \A n \in owed'[m] : tried[<<m, n>>] > 0
  /\ UNCHANGED <<answered, tried, rounds>>

Next ==
  \/ \E m \in Messages : Accept(m) \/ Answer(m) \/ Enqueue(m) \/ Finish(m)
  \/ \E m \in Messages : \E N \in SUBSET Notes : Attempt(m, N)
  \/ \E M \in SUBSET Messages : Repeat(M)
  \/ Lose \/ Release

Spec == Init /\ [][Next]_vars
=============================================================================

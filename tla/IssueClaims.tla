---------------------------- MODULE IssueClaims ----------------------------
(***************************************************************************)
(* What the scheduler promises about one issue: the life cycle of its      *)
(* claim.  A free issue is claimed by starting a worker.  When the worker  *)
(* is over the claim waits in a queue with an attempt number; it is then   *)
(* taken out, one at a time, to be restarted, queued again or given up,    *)
(* unless the operator withdraws it from the queue.  There is no lock, no  *)
(* task and no stale answer here.                                          *)
(***************************************************************************)
EXTENDS Integers, FiniteSets

CONSTANTS Issues, MaxConcurrent, MaxAttempts

VARIABLES phase, tries

vars == <<phase, tries>>

In(p) == {i \in Issues : phase[i] = p}

SlotFree == Cardinality(In("running")) < MaxConcurrent

Init ==
  /\ phase = [i \in Issues |-> "free"]
  /\ tries = [i \in Issues |-> 0]

Move(i, from, to, n) ==
  /\ phase[i] = from
  /\ phase' = [phase EXCEPT ![i] = to]
  /\ tries' = [tries EXCEPT ![i] = n]

\* One more failure: back to the queue, or given up past the budget.
OneMoreTry(i, from) ==
  \/ tries[i] + 1 <= MaxAttempts /\ Move(i, from, "queued", tries[i] + 1)
  \/ tries[i] + 1 > MaxAttempts  /\ Move(i, from, "free", 0)

Claim(i)    == SlotFree /\ Move(i, "free", "running", 0)
Finish(i)   == Move(i, "running", "queued", 1)
Fail(i)     == OneMoreTry(i, "running")
Take(i)     == In("held") = {} /\ Move(i, "queued", "held", tries[i])
Restart(i)  == SlotFree /\ Move(i, "held", "running", tries[i])
PutBack(i)  == Move(i, "held", "queued", tries[i])
Postpone(i) == OneMoreTry(i, "held")
GiveUp(i)   == Move(i, "held", "free", 0)
Withdraw(i) == Move(i, "queued", "free", 0)

Next == \E i \in Issues :
  \/ Claim(i) \/ Finish(i) \/ Fail(i) \/ Take(i)
  \/ Restart(i) \/ PutBack(i) \/ Postpone(i) \/ GiveUp(i) \/ Withdraw(i)

Spec == Init /\ [][Next]_vars
=============================================================================

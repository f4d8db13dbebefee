---------------------------- MODULE SessionUsage ----------------------------
(***************************************************************************)
(* How the events of an agent reach the scheduler's state and its token    *)
(* totals, for one issue: the turns of its worker runs (run_worker), the   *)
(* task that consumes the events of a turn and applies them                *)
(* (apply_agent_event in src/orchestrator/tick.rs), and the backend that   *)
(* emits them and keeps the usage of the last finished step.               *)
(*                                                                         *)
(* A run may still be working, or a consumer still be draining, when the   *)
(* scheduler has removed the entry or dispatched the issue again: events   *)
(* go to whatever entry is on file.  The three counters of a usage move    *)
(* together and are one number here.  What is only displayed (texts, names *)
(* of events, the tokens a finished step reports) is left out.             *)
(***************************************************************************)
EXTENDS Integers, Sequences

CONSTANTS
  MaxRuns,    \* runs of the issue
  MaxTurns,   \* turns of all runs
  MaxSteps,   \* steps of a turn
  MaxTokens,  \* tokens a step may use
  Cap         \* events the channel of a turn holds (1024)

ASSUME UsageAssumption ==
  /\ MaxRuns \in Nat /\ MaxTurns \in Nat
  /\ MaxSteps \in Nat /\ MaxTokens \in Nat /\ Cap \in Nat

Runs == 1..MaxRuns

VARIABLES
  entry,      \* the run whose entry is in `running`, or 0
  sess,       \* the entry's session: whose it is and last_reported tokens
  surplus,    \* cli_totals less the tokens that all steps have used
  pc,         \* where each run is
  turns,      \* turns begun
  step,       \* the step its turn is at
  usage,      \* TurnResult.usage of its turn: 0 is None
  counted,    \* already_counted, as the run has read it
  chan,       \* the events of its turn not yet consumed
  held,       \* the usage event a consumer has read `last` for
  \* what really happened, to state the properties with
  tally,      \* what has been added to cli_totals for the run's turn
  astray      \* an event was applied to an entry that is not its run's, a usage
              \* without a session, or a turn's usage was not of its last step;
              \* surplus and tally are 0 from then on

stateVars == <<entry, sess>>
runVars == <<pc, turns, step, usage, counted>>
countVars == <<surplus, tally, astray>>
vars == <<stateVars, runVars, chan, held, countVars>>

NoSession == [run |-> 0, last |-> 0]
NoStep == [number |-> 0, tokens |-> 0, reported |-> 0, done |-> FALSE]
NotHeld == [busy |-> FALSE, n |-> 0, last |-> 0]

Init ==
  /\ entry = 0 /\ sess = NoSession /\ surplus = 0
  /\ pc = [r \in Runs |-> "new"] /\ turns = 0
  /\ step = [r \in Runs |-> NoStep] /\ usage = [r \in Runs |-> 0]
  /\ counted = [r \in Runs |-> FALSE]
  /\ chan = [r \in Runs |-> <<>>] /\ held = [r \in Runs |-> NotHeld]
  /\ tally = [r \in Runs |-> 0] /\ astray = FALSE

Goto(r, l) == pc' = [pc EXCEPT ![r] = l]

\* The turn's variables go out of scope.
TurnGone(r) ==
  /\ step' = [step EXCEPT ![r] = NoStep]
  /\ usage' = [usage EXCEPT ![r] = 0]
  /\ tally' = [tally EXCEPT ![r] = 0]

\* n tokens are added to cli_totals for run r; the step was, or was not, where
\* it belongs.
Count(r, n, where) ==
  /\ astray' = (astray \/ ~where)
  /\ surplus' = IF astray' THEN 0 ELSE surplus + n
  /\ tally' = IF astray' THEN [s \in Runs |-> 0] ELSE [tally EXCEPT ![r] = @ + n]

\* n tokens are used.
Spend(n) == surplus' = IF astray THEN 0 ELSE surplus - n

\* The saturating subtraction of the counters.
Delta(n, last) == IF n > last THEN n - last ELSE 0

-----------------------------------------------------------------------------
(* The scheduler.                                                          *)

\* A new entry has no session.
Dispatch(r) ==
  /\ pc[r] = "new" /\ entry = 0
  /\ \A s \in Runs : s < r => pc[s] # "new"
  /\ entry' = r /\ sess' = NoSession
  /\ Goto(r, "idle")
  /\ UNCHANGED <<turns, step, usage, counted, chan, held, countVars>>

\* The run's exit, reconciliation, or the stall check, at any time.
RemoveEntry ==
  /\ entry # 0
  /\ entry' = 0 /\ sess' = NoSession
  /\ UNCHANGED <<runVars, chan, held, countVars>>

-----------------------------------------------------------------------------
(* The worker and its backend.                                             *)

BeginTurn(r) ==
  /\ pc[r] = "idle" /\ turns < MaxTurns
  /\ turns' = turns + 1
  /\ Goto(r, "turn")
  /\ UNCHANGED <<stateVars, step, usage, counted, chan, held, countVars>>

\* The backend waits for room.
Emit(r, k, n) ==
  /\ Len(chan[r]) < Cap
  /\ chan' = [chan EXCEPT ![r] = Append(@, [kind |-> k, n |-> n])]

StepStart(r) ==
  /\ pc[r] = "turn" /\ step[r].number < MaxSteps
  /\ Emit(r, "start", 0)
  /\ step' = [step EXCEPT ![r] = [NoStep EXCEPT !.number = step[r].number + 1]]
  /\ UNCHANGED <<stateVars, pc, turns, usage, counted, held, countVars>>

\* The tokens of the step so far; also from an agent that announces no steps.
TokenUsage(r) ==
  /\ pc[r] = "turn" /\ ~step[r].done
  /\ \E n \in 1..MaxTokens :
       /\ n > step[r].tokens
       /\ Emit(r, "usage", n)
       /\ step' = [step EXCEPT ![r].tokens = n, ![r].reported = n]
       /\ Spend(n - step[r].tokens)
  /\ UNCHANGED <<stateVars, pc, turns, usage, counted, held, tally, astray>>

\* With the step's tokens; without, the local backend forgets an earlier
\* step's and the mock backend keeps them.
StepFinish(r) ==
  /\ pc[r] = "turn" /\ ~step[r].done
  /\ \E n \in {0} \cup (step[r].tokens..MaxTokens) :
       /\ step' = [step EXCEPT ![r].done = (n > 0), ![r].tokens = IF n = 0 THEN @ ELSE n]
       /\ Spend(Delta(n, step[r].tokens))
       /\ \/ usage' = [usage EXCEPT ![r] = n]
          \/ n = 0 /\ UNCHANGED usage
  /\ UNCHANGED <<stateVars, pc, turns, counted, chan, held, tally, astray>>

\* run_turn returns well, and the consumer is awaited ...
TurnEnds(r) ==
  /\ pc[r] = "turn"
  /\ Goto(r, "draining")
  /\ Count(r, 0, usage[r] = 0 \/ step[r].done)
  /\ UNCHANGED <<stateVars, turns, step, usage, counted, chan, held>>

\* ... or with an error, and the consumer is left to itself.
TurnFails(r) ==
  /\ pc[r] = "turn"
  /\ Goto(r, "gone")
  /\ TurnGone(r)
  /\ UNCHANGED <<stateVars, turns, counted, chan, held, surplus, astray>>

\* seeded fault: the consumer is not awaited
DrainedEarly(r) ==
  /\ pc[r] = "draining"
  /\ counted' = [counted EXCEPT ![r] = sess.last > 0]
  /\ Goto(r, "result")
  /\ UNCHANGED <<stateVars, turns, step, usage, chan, held, countVars>>

\* The consumer has ended; already_counted is read.
Drained(r) ==
  /\ pc[r] = "draining" /\ chan[r] = <<>> /\ ~held[r].busy
  /\ counted' = [counted EXCEPT ![r] = sess.last > 0]
  /\ Goto(r, "result")
  /\ UNCHANGED <<stateVars, turns, step, usage, chan, held, countVars>>

\* The turn's usage counts if no usage event has.
Fallback(r) ==
  /\ pc[r] = "result"
  /\ sess' = IF counted[r] \/ sess = NoSession \/ usage[r] = 0 THEN sess
             ELSE [sess EXCEPT !.last = usage[r]]
  /\ Count(r, IF counted[r] THEN 0 ELSE usage[r], entry = r)
  /\ counted' = [counted EXCEPT ![r] = FALSE]
  /\ Goto(r, "metadata")
  /\ UNCHANGED <<entry, turns, step, usage, chan, held>>

\* The session becomes that of the turn; then another turn or the run's end.
Metadata(r) ==
  /\ pc[r] = "metadata"
  /\ sess' = CASE entry = 0 -> sess
               [] entry # 0 /\ sess = NoSession -> [run |-> r, last |-> usage[r]]
               [] OTHER -> [sess EXCEPT !.run = r]
  /\ astray' = (astray \/ entry # r)
  /\ surplus' = IF astray' THEN 0 ELSE surplus
  /\ TurnGone(r)
  /\ Goto(r, "idle") \/ Goto(r, "gone")
  /\ UNCHANGED <<entry, turns, counted, chan, held>>

-----------------------------------------------------------------------------
(* The consumer of the events of a turn: apply_agent_event.                *)

Consume(r, k) ==
  /\ chan[r] # <<>> /\ Head(chan[r]).kind = k /\ ~held[r].busy
  /\ chan' = [chan EXCEPT ![r] = Tail(@)]

\* seeded fault: the session is created whatever has become of the entry
ApplyStartAnyway(r) ==
  /\ Consume(r, "start")
  /\ sess' = [run |-> r, last |-> 0]
  /\ Count(r, 0, entry \in {0, r})
  /\ UNCHANGED <<entry, runVars, held>>

\* A new step: the counters start again from zero.
ApplyStart(r) ==
  /\ Consume(r, "start")
  /\ sess' = IF entry = 0 THEN sess ELSE [run |-> r, last |-> 0]
  /\ Count(r, 0, entry = r)
  /\ UNCHANGED <<entry, runVars, held>>

\* The last reported tokens are read under one lock, 0 without a session ...
ReadUsage(r) ==
  /\ Consume(r, "usage")
  /\ held' = [held EXCEPT ![r] = [busy |-> TRUE, n |-> Head(chan[r]).n,
                                  last |-> sess.last]]
  /\ Count(r, 0, entry = r /\ sess # NoSession)
  /\ UNCHANGED <<stateVars, runVars>>

\* seeded fault: the new value is not kept as the last reported one
AddUsageForgetting(r) ==
  /\ held[r].busy
  /\ Count(r, Delta(held[r].n, held[r].last), entry = r)
  /\ held' = [held EXCEPT ![r] = NotHeld]
  /\ UNCHANGED <<stateVars, runVars, chan>>

\* ... and the difference is added under another.
AddUsage(r) ==
  /\ held[r].busy
  /\ Count(r, Delta(held[r].n, held[r].last), entry = r)
  /\ sess' = IF entry = 0 \/ sess = NoSession THEN sess
             ELSE [sess EXCEPT !.last = held[r].n]
  /\ held' = [held EXCEPT ![r] = NotHeld]
  /\ UNCHANGED <<entry, runVars, chan>>

Consumer(r) == ApplyStart(r) \/ ReadUsage(r) \/ AddUsage(r)

Next ==
  \/ RemoveEntry
  \/ \E r \in Runs :
       \/ Dispatch(r) \/ BeginTurn(r) \/ StepStart(r) \/ TokenUsage(r)
       \/ StepFinish(r) \/ TurnEnds(r) \/ TurnFails(r) \/ Drained(r) \/ Fallback(r)
       \/ Metadata(r) \/ Consumer(r)

Spec == Init /\ [][Next]_vars

-----------------------------------------------------------------------------
Sessions == [run : Runs \cup {0}, last : 0..MaxTokens]
Steps == [number : 0..MaxSteps, tokens : 0..MaxTokens, reported : 0..MaxTokens, done : BOOLEAN]
Events == [kind : {"start", "usage"}, n : 0..MaxTokens]
Holdings == [busy : BOOLEAN, n : 0..MaxTokens, last : 0..MaxTokens]

\* Every variable keeps its type.
TypeOK ==
  /\ entry \in Runs \cup {0} /\ surplus \in Int
  /\ sess \in Sessions
  /\ pc \in [Runs -> {"new", "idle", "turn", "draining", "result", "metadata", "gone"}]
  /\ turns \in 0..MaxTurns
  /\ step \in [Runs -> Steps]
  /\ usage \in [Runs -> 0..MaxTokens] /\ counted \in [Runs -> BOOLEAN]
  /\ chan \in [Runs -> Seq(Events)] /\ \A r \in Runs : Len(chan[r]) <= Cap
  /\ held \in [Runs -> Holdings]
  /\ tally \in [Runs -> Nat] /\ astray \in BOOLEAN

\* Tokens are not counted twice, by the events and by the fallback or by two
\* events, as long as no event of a run met another's entry, or none, and no
\* turn ended in a step that has not told its usage.
NeverCountedTwice == surplus <= 0

\* When a turn that announces its steps is over, what its last step used is
\* counted: as far as usage events have reported it, or, without any, as the
\* turn's result says.
LastStepIsCounted ==
  \A r \in Runs :
    pc[r] = "metadata" /\ step[r].number > 0 =>
      \/ astray
      \/ tally[r] >= IF step[r].reported > 0 THEN step[r].reported ELSE usage[r]

\* The session shown for an entry is that of the entry's own run, and there is
\* none without an entry.
SessionIsOwn == entry = 0 \/ ~astray => sess.run \in {0, entry}

\* The session and the tallies of an entry are its own run's, although a
\* consumer is not stopped with its run (tick.rs, state.rs).
UsageInv == TypeOK /\ SessionIsOwn
=============================================================================

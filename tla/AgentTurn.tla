----------------------------- MODULE AgentTurn -----------------------------
(***************************************************************************)
(* The turns of the local and the mock backend for one issue               *)
(* (src/agent/backend/local.rs, mock.rs): the prompt file, the command the *)
(* adapter builds, the agent it starts, the lines the agent writes on its  *)
(* two outputs, what the adapter makes of them (src/agent/cli/), and the   *)
(* verdict on the turn.                                                    *)
(*                                                                         *)
(* Two runs of the issue may overlap, the older one a run whose entry the  *)
(* scheduler has let go; they share the workspace and so the prompt file.  *)
(* A prompt is the number of its turn.  Texts and tokens are left out; the *)
(* pid registry and the watchdog are the matter of Processes: here an      *)
(* agent may end at any time.                                              *)
(***************************************************************************)
EXTENDS Naturals, Sequences

CONSTANTS
  MaxRuns,     \* runs of the issue
  Kinds,       \* the adapters the operator may choose
  MaxTurns,    \* turns of all runs
  MaxLines,    \* lines of all turns that say something; idle ones never end
  Complaints   \* what a line on stderr may contain: sets of Words

Words == {"rate limit", "unauthorized", "account required", "permission denied",
          "--dangerously-skip-permissions"}

ASSUME TurnAssumption ==
  /\ Kinds \subseteq {"opencode", "claude", "pidev", "mock"}
  /\ MaxRuns \in Nat /\ MaxTurns \in Nat /\ MaxLines \in Nat
  /\ Complaints \subseteq SUBSET Words

Runs == 1..MaxRuns

VARIABLES
  kind,       \* the adapter of cli.command
  turns,      \* turns begun
  pc,         \* where each run is
  cur,        \* its turn
  file,       \* the turn whose prompt the prompt file holds, or 0
  agent,      \* its state and the prompt it was given
  out, err,   \* the lines in its pipes
  left,       \* the lines still to be said
  cancelled,  \* the run's flag
  success,
  task,       \* the stderr reader is at work
  slot,       \* detected_stderr_error
  verdict,    \* what run_turn has returned
  \* what really happened, to state the properties with
  report,     \* the verdict the agent last gave of itself
  signal,     \* the first failure it has told on stderr
  mixed       \* two runs have been in a turn at the same time

turnVars == <<turns, cur>>
pipeVars == <<out, err, left>>
stderrVars == <<task, slot>>
truthVars == <<report, signal, mixed>>
vars == <<kind, turnVars, pc, file, agent, pipeVars, cancelled, success,
          stderrVars, verdict, truthVars>>

NoAgent == [state |-> "none", prompt |-> 0]

Init ==
  /\ kind \in Kinds
  /\ turns = 0 /\ cur = [r \in Runs |-> 0]
  /\ pc = [r \in Runs |-> "idle"]
  /\ file = 0
  /\ agent = [r \in Runs |-> NoAgent]
  /\ out = [r \in Runs |-> <<>>] /\ err = [r \in Runs |-> <<>>]
  /\ left = MaxLines
  /\ cancelled = [r \in Runs |-> FALSE]
  /\ success = [r \in Runs |-> FALSE]
  /\ task = [r \in Runs |-> FALSE] /\ slot = [r \in Runs |-> "none"]
  /\ verdict = [r \in Runs |-> "none"]
  /\ report = [r \in Runs |-> "none"] /\ signal = [r \in Runs |-> "none"]
  /\ mixed = FALSE

Goto(r, l) == pc' = [pc EXCEPT ![r] = l]

InTurn(r) == pc[r] \in {"launching", "reading", "draining", "reaping"}

-----------------------------------------------------------------------------
(* What the agents write, and what the adapters make of it.                *)

Line(t, s) == [type |-> t, stop |-> s]

\* The lines that matter; "idle" ones do not, or are not even JSON.
Lines ==
  CASE kind = "opencode" ->
         {Line("step_start", "")} \cup
         {Line("step_finish", s) : s \in {"stop", "tool-calls", "error"}}
    [] kind = "claude" ->
         {Line("system", "init")} \cup
         {Line("result", s) : s \in {"success", "is_error", "error_max_turns"}}
    [] kind = "pidev" ->
         {Line("session", "")} \cup
         {Line("turn_end", s) : s \in {"stop", "aborted", "error"}} \cup
         {Line("agent_end", s) : s \in {"stop", "aborted", "error"}}
    [] kind = "mock" ->
         {Line("step_start", "")} \cup
         {Line("step_finish", s) : s \in {"stop", "tool-calls", "error"}}

Idle == Line("idle", "")

\* pi's end of a run that has no message of the assistant.
Wordless == IF kind = "pidev" THEN {Line("agent_end", "")} ELSE {}

\* What the agent means by a line.
Meant(l) ==
  CASE l.stop \in {"stop", "tool-calls", "success"} -> "good"
    [] l.stop \in {"error", "is_error", "error_max_turns", "aborted"} -> "bad"
    [] l \in Wordless -> "wordless"
    [] OTHER -> "none"

\* parse_stdout_line: an event and, of a finish, its reason.
Parse(l) ==
  CASE l.type = "step_start" -> <<"start", "">>
    [] l.type = "step_finish" -> <<"finish", l.stop>>
    [] l.type = "system" /\ l.stop = "init" -> <<"start", "">>
    [] l.type = "result" ->
         <<"finish", IF l.stop = "success" THEN "stop" ELSE "error">>
    [] l.type = "session" -> <<"start", "">>
    [] l.type \in {"turn_end", "agent_end"} ->
         <<"finish", IF l.stop \in {"error", "aborted"} THEN "error" ELSE "stop">>
    [] OTHER -> <<"other", "">>

StopShaped(reason) == reason \in {"stop", "tool-calls"}

\* The reading loop's variables.
Fold(r, event) ==
  success' = IF event[1] = "finish"
                THEN [success EXCEPT ![r] = StopShaped(event[2])] ELSE success

\* classify_stderr_line
Classify(line) ==
  CASE "rate limit" \in line -> "TurnFailed"
    [] "unauthorized" \in line /\ "rate limit" \notin line -> "SessionStartFailed"
    [] /\ "account required" \in line
       /\ line \cap {"rate limit", "unauthorized"} = {} -> "UserInputRequired"
    [] line = {"permission denied"} -> "TurnFailed"
    [] OTHER -> "none"

FirstOf(was, new) == IF was = "none" THEN new ELSE was

-----------------------------------------------------------------------------
(* run_turn of the local backend.                                          *)

BeginTurn(r) ==
  /\ pc[r] = "idle" /\ turns < MaxTurns
  /\ \A s \in Runs : s < r => cur[s] > 0
  /\ turns' = turns + 1 /\ cur' = [cur EXCEPT ![r] = turns + 1]
  /\ Goto(r, "preparing")
  /\ UNCHANGED <<kind, file, agent, pipeVars, cancelled, success, stderrVars,
                 verdict, truthVars>>

Fail(r, e) == /\ verdict' = [verdict EXCEPT ![r] = e]
              /\ Goto(r, "judged")

\* The workspace is missing or not the issue's, or the file cannot be written;
\* for the mock, there is no script or it does not parse.
RefuseTurn(r) ==
  /\ pc[r] = "preparing"
  /\ Fail(r, "refused")
  /\ UNCHANGED <<kind, turnVars, file, agent, pipeVars, cancelled, success,
                 stderrVars, truthVars>>

WritePrompt(r) ==
  /\ pc[r] = "preparing" /\ kind # "mock"
  /\ file' = cur[r]
  /\ mixed' = (mixed \/ \E s \in Runs \ {r} : InTurn(s))
  /\ Goto(r, "launching")
  /\ UNCHANGED <<kind, turnVars, agent, pipeVars, cancelled, success,
                 stderrVars, verdict, report, signal>>

\* The home directory or the process cannot be made; the file stays.
LaunchFails(r) ==
  /\ pc[r] = "launching"
  /\ Fail(r, "launch")
  /\ UNCHANGED <<kind, turnVars, file, agent, pipeVars, cancelled, success,
                 stderrVars, truthVars>>

\* bash is started, and the reader of its stderr.
Spawn(r) ==
  /\ pc[r] = "launching"
  /\ agent' = [agent EXCEPT ![r] = [NoAgent EXCEPT !.state = "booting"]]
  /\ task' = [task EXCEPT ![r] = TRUE]
  /\ Goto(r, "reading")
  /\ UNCHANGED <<kind, turnVars, file, pipeVars, cancelled, success, slot,
                 verdict, truthVars>>

Killed(r) == agent' = [agent EXCEPT ![r].state = "gone"]

ReadLine(r) ==
  /\ pc[r] = "reading" /\ out[r] # <<>>
  /\ Fold(r, Parse(Head(out[r])))
  /\ out' = [out EXCEPT ![r] = Tail(@)]
  /\ UNCHANGED <<kind, turnVars, pc, file, agent, err, left, cancelled,
                 stderrVars, verdict, truthVars>>

\* seeded fault: the file is left to the next turn
GiveUpLeaving(r, e) ==
  /\ Killed(r)
  /\ task' = [task EXCEPT ![r] = FALSE]
  /\ Fail(r, e)
  /\ UNCHANGED <<kind, turnVars, file, pipeVars, cancelled, success, slot, truthVars>>

\* The turn is given up: the group is killed, nobody reads its stderr.
GiveUp(r, e) ==
  /\ Killed(r)
  /\ task' = [task EXCEPT ![r] = FALSE]
  /\ file' = 0
  /\ Fail(r, e)
  /\ UNCHANGED <<kind, turnVars, pipeVars, cancelled, success, slot,
                 truthVars>>

\* No line for read_timeout.
ReadTimeout(r) ==
  /\ pc[r] = "reading" /\ out[r] = <<>>
  /\ GiveUp(r, "TurnReadTimeout")

\* seeded fault: turn_timeout starts again with every line
TotalTimeoutPerLine(r) ==
  /\ pc[r] = "reading" /\ out[r] = <<>>
  /\ GiveUp(r, "TurnTotalTimeout")

TotalTimeout(r) ==
  /\ pc[r] = "reading"
  /\ GiveUp(r, "TurnTotalTimeout")

\* stdout is at its end: the agent is gone, or has closed it.
EndOfOutput(r) ==
  /\ pc[r] = "reading" /\ out[r] = <<>> /\ agent[r].state \in {"closed", "gone"}
  /\ Killed(r)
  /\ Goto(r, "draining")
  /\ UNCHANGED <<kind, turnVars, file, pipeVars, cancelled, success,
                 stderrVars, verdict, truthVars>>

\* The stderr reader has ended, or 100 ms are over.
Drained(r) ==
  /\ pc[r] = "draining"
  /\ Goto(r, "reaping")
  /\ UNCHANGED <<kind, turnVars, file, agent, pipeVars, cancelled, success,
                 stderrVars, verdict, truthVars>>

\* The child is reaped, or 5 s are over; the file goes; a failure told on
\* stderr comes before the events.
Judge(r) ==
  /\ pc[r] = "reaping"
  /\ file' = 0
  /\ Fail(r, CASE slot[r] # "none" -> slot[r]
               [] slot[r] = "none" /\ success[r] -> "Succeeded"
               [] OTHER -> "Failed")
  /\ UNCHANGED <<kind, turnVars, agent, pipeVars, cancelled, success,
                 stderrVars, truthVars>>

\* What ends with the turn.
TurnGone(r) ==
  /\ agent' = [agent EXCEPT ![r] = NoAgent]
  /\ out' = [out EXCEPT ![r] = <<>>] /\ err' = [err EXCEPT ![r] = <<>>]
  /\ slot' = [slot EXCEPT ![r] = "none"]
  /\ task' = [task EXCEPT ![r] = FALSE]
  /\ report' = [report EXCEPT ![r] = "none"]
  /\ signal' = [signal EXCEPT ![r] = "none"]

\* seeded fault: `success` is kept from turn to turn
ReturnKeeping(r) ==
  /\ pc[r] = "judged"
  /\ Goto(r, IF verdict[r] = "Succeeded" THEN "idle" ELSE "over")
  /\ verdict' = [verdict EXCEPT ![r] = IF @ = "launch" THEN @ ELSE "none"]
  /\ TurnGone(r)
  /\ UNCHANGED <<kind, turnVars, file, left, cancelled, success, mixed>>

\* Only after a success is there another turn.  That a launch has failed is kept.
Return(r) ==
  /\ pc[r] = "judged"
  /\ Goto(r, IF verdict[r] = "Succeeded" THEN "idle" ELSE "over")
  /\ verdict' = [verdict EXCEPT ![r] = IF @ = "launch" THEN @ ELSE "none"]
  /\ success' = [success EXCEPT ![r] = FALSE]
  /\ TurnGone(r)
  /\ UNCHANGED <<kind, turnVars, file, left, cancelled, mixed>>

-----------------------------------------------------------------------------
(* The reader of stderr.                                                   *)

StderrLine(r) ==
  /\ task[r] /\ err[r] # <<>>
  /\ slot' = [slot EXCEPT ![r] = FirstOf(@, Classify(Head(err[r])))]
  /\ err' = [err EXCEPT ![r] = Tail(@)]
  /\ UNCHANGED <<kind, turnVars, pc, file, agent, out, left, cancelled,
                 success, task, verdict, truthVars>>

-----------------------------------------------------------------------------
(* run_turn of the mock backend: the script is played.                     *)

ReadScript(r) ==
  /\ pc[r] = "preparing" /\ kind = "mock"
  /\ Goto(r, "script")
  /\ UNCHANGED <<kind, turnVars, file, agent, pipeVars, cancelled, success,
                 stderrVars, verdict, truthVars>>

\* The flag is looked at before each event.
ScriptEvent(r) ==
  /\ pc[r] = "script" /\ left > 0
  /\ IF cancelled[r]
     THEN /\ Fail(r, "TurnCancelled")
          /\ UNCHANGED <<left, success, report>>
     ELSE \E l \in Lines \cup {Line("sleep", "")} :
            /\ success' = IF l.type = "step_finish"
                          THEN [success EXCEPT ![r] = StopShaped(l.stop)] ELSE success
            /\ left' = left - 1
            /\ report' = IF Meant(l) = "none" THEN report
                         ELSE [report EXCEPT ![r] = Meant(l)]
            /\ UNCHANGED <<pc, verdict>>
  /\ UNCHANGED <<kind, turnVars, file, agent, out, err, cancelled, stderrVars,
                 signal, mixed>>

\* It may end at any event.
ScriptEnds(r) ==
  /\ pc[r] = "script"
  /\ Fail(r, IF success[r] THEN "Succeeded" ELSE "Failed")
  /\ UNCHANGED <<kind, turnVars, file, agent, pipeVars, cancelled, success,
                 stderrVars, truthVars>>

-----------------------------------------------------------------------------
(* The agent, and the flag.                                                *)

\* bash reads the prompt file.
AgentBoots(r) ==
  /\ agent[r].state = "booting"
  /\ agent' = [agent EXCEPT ![r] = [state |-> "running", prompt |-> file]]
  /\ UNCHANGED <<kind, turnVars, pc, file, pipeVars, cancelled, success,
                 stderrVars, verdict, truthVars>>

AgentWrites(r) ==
  /\ agent[r].state = "running" /\ out[r] = <<>>
  /\ \E l \in Lines \cup {Idle} \cup (IF report[r] = "none" THEN Wordless ELSE {}) :
       /\ l # Idle => left > 0
       /\ left' = IF l = Idle THEN left ELSE left - 1
       /\ out' = [out EXCEPT ![r] = Append(@, l)]
       /\ report' = IF Meant(l) = "none" THEN report
                    ELSE [report EXCEPT ![r] = Meant(l)]
  /\ UNCHANGED <<kind, turnVars, pc, file, agent, err, cancelled, success,
                 stderrVars, verdict, signal, mixed>>

AgentComplains(r) ==
  /\ agent[r].state \in {"running", "closed"} /\ left > 0
  /\ \E line \in Complaints :
       /\ err' = [err EXCEPT ![r] = Append(@, line)]
       /\ signal' = [signal EXCEPT ![r] = FirstOf(@, Classify(line))]
  /\ left' = left - 1
  /\ UNCHANGED <<kind, turnVars, pc, file, agent, out, cancelled, success,
                 stderrVars, verdict, report, mixed>>

\* It closes its stdout, or it ends, by itself or killed by the watchdog.
AgentEnds(r) ==
  /\ \/ agent[r].state = "running" /\ agent' = [agent EXCEPT ![r].state = "closed"]
     \/ agent[r].state \in {"booting", "running", "closed"} /\ Killed(r)
  /\ UNCHANGED <<kind, turnVars, pc, file, pipeVars, cancelled, success,
                 stderrVars, verdict, truthVars>>

\* As far as it matters here: while the mock plays.
Cancel(r) ==
  /\ pc[r] = "script" /\ ~cancelled[r]
  /\ cancelled' = [cancelled EXCEPT ![r] = TRUE]
  /\ UNCHANGED <<kind, turnVars, pc, file, agent, pipeVars, success,
                 stderrVars, verdict, truthVars>>

-----------------------------------------------------------------------------
\* What the backend does without waiting for the agent.
Backend(r) ==
  \/ RefuseTurn(r) \/ ReadScript(r) \/ WritePrompt(r) \/ LaunchFails(r) \/ Spawn(r)
  \/ Drained(r) \/ Judge(r) \/ Return(r) \/ ScriptEvent(r) \/ ScriptEnds(r)

Next ==
  \E r \in Runs :
    \/ BeginTurn(r) \/ Backend(r)
    \/ ReadLine(r) \/ ReadTimeout(r) \/ TotalTimeout(r) \/ EndOfOutput(r)
    \/ StderrLine(r)
    \/ AgentBoots(r) \/ AgentWrites(r) \/ AgentComplains(r) \/ AgentEnds(r)
    \/ Cancel(r)

Spec == Init /\ [][Next]_vars

\* Tasks that are ready are polled, and timers fire.
Fairness == \A r \in Runs : WF_vars(Backend(r)) /\ WF_vars(TotalTimeout(r))

FairSpec == Spec /\ Fairness

-----------------------------------------------------------------------------
Verdicts == {"none", "refused", "launch", "TurnReadTimeout", "TurnTotalTimeout",
             "TurnCancelled", "Succeeded", "Failed", "TurnFailed",
             "SessionStartFailed", "UserInputRequired"}

LineTypes == {"step_start", "step_finish", "system", "result", "session",
              "turn_end", "agent_end", "idle"}
Stops == {"", "init", "stop", "tool-calls", "error", "success", "is_error",
          "error_max_turns", "aborted"}
Agents == [state : {"none", "booting", "running", "closed", "gone"},
           prompt : 0..MaxTurns]

\* Every variable keeps its type.
TypeOK ==
  /\ kind \in Kinds
  /\ turns \in 0..MaxTurns /\ cur \in [Runs -> 0..MaxTurns]
  /\ pc \in [Runs -> {"idle", "preparing", "launching", "reading", "draining",
                      "reaping", "judged", "script", "over"}]
  /\ file \in 0..MaxTurns
  /\ agent \in [Runs -> Agents]
  /\ out \in [Runs -> Seq([type : LineTypes, stop : Stops])]
  /\ err \in [Runs -> Seq(Complaints)]
  /\ left \in 0..MaxLines
  /\ cancelled \in [Runs -> BOOLEAN]
  /\ success \in [Runs -> BOOLEAN]
  /\ task \in [Runs -> BOOLEAN]
  /\ slot \in [Runs -> Verdicts] /\ verdict \in [Runs -> Verdicts]
  /\ report \in [Runs -> {"none", "good", "bad", "wordless"}]
  /\ signal \in [Runs -> Verdicts] /\ mixed \in BOOLEAN

\* A turn is judged as the agent means it: it succeeds only if the last report
\* of the agent on itself is good, whatever it said before, in this turn or in
\* another, and however it is spelt (pi's end without a message is good), and
\* fails only if that is bad or there was none; a verdict of stderr is the first
\* failure the agent has told there, never a later one.
VerdictIsTheAgents ==
  \A r \in Runs : pc[r] = "judged" =>
    /\ verdict[r] = "Succeeded" => report[r] \in {"good", "wordless"}
    /\ verdict[r] = "Failed" => report[r] \in {"bad", "none"}
    /\ verdict[r] \in {"TurnFailed", "SessionStartFailed", "UserInputRequired"} =>
         verdict[r] = signal[r]

\* An agent works on the prompt of its turn, as long as the turns of two runs
\* of the issue have not overlapped.
AgentGetsItsPrompt ==
  \A r \in Runs : agent[r].state = "running" /\ ~mixed => agent[r].prompt = cur[r]

\* A prompt file is one of a turn under way, or of one that could not launch.
PromptFileIsRemoved ==
  file # 0 =>
    \/ \E r \in Runs : InTurn(r)
    \/ \E r \in Runs : cur[r] = file /\ verdict[r] = "launch"

\* The file a prompt is passed in is there for its turn, and for it alone: each
\* agent reads its own, and none is left behind (local.rs).
TurnsInv == TypeOK /\ AgentGetsItsPrompt /\ PromptFileIsRemoved

\* A turn ends, however long its agent keeps silent or talks.
TurnsReturn == \A r \in Runs : pc[r] = "reading" ~> pc[r] = "judged"
=============================================================================

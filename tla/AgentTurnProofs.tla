--------------------------- MODULE AgentTurnProofs ---------------------------
(***************************************************************************)
(* The safety properties of AgentTurn, for any number of runs, turns and   *)
(* lines and for every adapter: one inductive invariant, TurnsIInv.  Those *)
(* of Processes, which has its own state, follow in the last section.      *)
(***************************************************************************)
EXTENDS AgentTurn, Processes, TLAPS

\* An agent is there only while its output is read.
AgentsAreRead ==
  \A r \in Runs : agent[r].state \in {"booting", "running", "closed"} => pc[r] = "reading"

\* Two runs in a turn are noticed.
Alone == ~mixed => \A r, s \in Runs : InTurn(r) /\ InTurn(s) => r = s

\* Who is in a turn alone finds its own prompt in the file.
FileIsOwn == ~mixed => \A r \in Runs : InTurn(r) => file = cur[r]

\* A prompt file belongs to a run that is in its turn or could not launch.
FileHasOwner ==
  file # 0 => \E r \in Runs : cur[r] = file /\ (InTurn(r) \/ verdict[r] = "launch")

VerdictsEndTurns ==
  \A r \in Runs : verdict[r] # "none" => pc[r] \in {"judged", "over"}

AllLines == Lines \cup {Idle} \cup Wordless

\* `success` says what the agent's last report was.
AsReported(r) == success[r] <=> report[r] \in {"good", "wordless"}

\* Unless that report is still in the pipe.
ReportIsHeard(r) ==
  \/ out[r] = <<>> /\ AsReported(r)
  \/ \E l \in AllLines :
       /\ out[r] = <<l>>
       /\ IF Meant(l) = "none" THEN AsReported(r) ELSE report[r] = Meant(l)

\* Nothing is left in the pipe before the agent is started and after it has
\* ended; a script is only played by the mock.
PipesAreEmpty ==
  \A r \in Runs :
    /\ pc[r] \in {"idle", "preparing", "script", "draining", "reaping"} => out[r] = <<>>
    /\ pc[r] = "script" => kind = "mock"

Failures == {"TurnFailed", "SessionStartFailed", "UserInputRequired"}

\* The slot holds the first failure told on stderr, or it is still to be read.
FailureIsHeard(r) ==
  \/ slot[r] \in Failures /\ slot[r] = signal[r]
  \/ /\ slot[r] = "none" /\ signal[r] = "none"
     /\ \A i \in 1..Len(err[r]) : Classify(err[r][i]) = "none"
  \/ /\ slot[r] = "none" /\ signal[r] \in Failures
     /\ \E i \in 1..Len(err[r]) : /\ Classify(err[r][i]) = signal[r]
                                  /\ \A j \in 1..(i - 1) : Classify(err[r][j]) = "none"

FileInv == Alone /\ FileIsOwn /\ FileHasOwner /\ VerdictsEndTurns

TurnsIInv ==
  /\ TypeOK /\ AgentsAreRead /\ FileInv /\ AgentGetsItsPrompt
  /\ PipesAreEmpty
  /\ \A r \in Runs : ReportIsHeard(r)
  /\ \A r \in Runs : FailureIsHeard(r)
  /\ VerdictIsTheAgents

-----------------------------------------------------------------------------
\* A step is one of one run.
Step(r) ==
  \/ BeginTurn(r) \/ Backend(r)
  \/ ReadLine(r) \/ ReadTimeout(r) \/ TotalTimeout(r) \/ EndOfOutput(r)
  \/ StderrLine(r)
  \/ AgentBoots(r) \/ AgentWrites(r) \/ AgentComplains(r) \/ AgentEnds(r)
  \/ Cancel(r)

\* Its lines: the adapter takes of a finish what the agent means by it.
LEMMA LineMeaning ==
  ASSUME kind \in Kinds, NEW l \in AllLines
  PROVE  /\ l.type \in LineTypes /\ l.stop \in Stops
         /\ l = Line(l.type, l.stop)
         /\ Meant(l) \in {"none", "good", "bad", "wordless"}
         /\ (Parse(l)[1] = "finish") <=> (Meant(l) # "none")
         /\ Meant(l) # "none" =>
              (StopShaped(Parse(l)[2]) <=> Meant(l) \in {"good", "wordless"})
<1> DEFINE Shape ==
      /\ l = Line(l.type, l.stop) /\ l.type \in LineTypes /\ l.stop \in Stops
      /\ \/ l.type = "step_start" /\ l.stop = ""
         \/ l.type = "step_finish" /\ l.stop \in {"stop", "tool-calls", "error"}
         \/ l.type = "system" /\ l.stop = "init"
         \/ l.type = "result" /\ l.stop \in {"success", "is_error", "error_max_turns"}
         \/ l.type = "session" /\ l.stop = ""
         \/ l.type \in {"turn_end", "agent_end"} /\ l.stop \in {"stop", "aborted", "error"}
         \/ l.type = "idle" /\ l.stop = ""
         \/ l.type = "agent_end" /\ l.stop = "" /\ l \in Wordless
<1>0. kind \in {"opencode", "claude", "pidev", "mock"}
  BY TurnAssumption
<1>1. ASSUME l \in Wordless PROVE Shape /\ l.type = "agent_end" /\ l.stop = ""
  <2>1. l = Line("agent_end", "")
    BY <1>1 DEF Wordless
  <2> QED
    BY <1>1, <2>1 DEF Line, LineTypes, Stops
<1>2. Shape
  <2>1. CASE l \in Lines
    <3>1. CASE kind = "opencode"
      <4>1. l \in {Line("step_start", "")} \cup
                 {Line("step_finish", s) : s \in {"stop", "tool-calls", "error"}}
        BY <2>1, <3>1 DEF Lines
      <4>2. \/ l = Line("step_start", "")
            \/ \E s \in {"stop", "tool-calls", "error"} : l = Line("step_finish", s)
        BY <4>1
      <4>3. CASE l = Line("step_start", "")
        BY <4>3 DEF Line, LineTypes, Stops
      <4>4. ASSUME NEW s \in {"stop", "tool-calls", "error"}, l = Line("step_finish", s)
            PROVE  Shape
        BY <4>4 DEF Line, LineTypes, Stops
      <4> QED
        BY <4>2, <4>3, <4>4
    <3>2. CASE kind = "mock"
      <4>1. l \in {Line("step_start", "")} \cup
                 {Line("step_finish", s) : s \in {"stop", "tool-calls", "error"}}
        BY <2>1, <3>2 DEF Lines
      <4>2. \/ l = Line("step_start", "")
            \/ \E s \in {"stop", "tool-calls", "error"} : l = Line("step_finish", s)
        BY <4>1
      <4>3. CASE l = Line("step_start", "")
        BY <4>3 DEF Line, LineTypes, Stops
      <4>4. ASSUME NEW s \in {"stop", "tool-calls", "error"}, l = Line("step_finish", s)
            PROVE  Shape
        BY <4>4 DEF Line, LineTypes, Stops
      <4> QED
        BY <4>2, <4>3, <4>4
    <3>3. CASE kind = "claude"
      <4>1. l \in {Line("system", "init")} \cup
                 {Line("result", s) : s \in {"success", "is_error", "error_max_turns"}}
        BY <2>1, <3>3 DEF Lines
      <4>2. \/ l = Line("system", "init")
            \/ \E s \in {"success", "is_error", "error_max_turns"} : l = Line("result", s)
        BY <4>1
      <4>3. CASE l = Line("system", "init")
        BY <4>3 DEF Line, LineTypes, Stops
      <4>4. ASSUME NEW s \in {"success", "is_error", "error_max_turns"}, l = Line("result", s)
            PROVE  Shape
        BY <4>4 DEF Line, LineTypes, Stops
      <4> QED
        BY <4>2, <4>3, <4>4
    <3>4. CASE kind = "pidev"
      <4>1. l \in {Line("session", "")} \cup
                 {Line("turn_end", s) : s \in {"stop", "aborted", "error"}} \cup
                 {Line("agent_end", s) : s \in {"stop", "aborted", "error"}}
        BY <2>1, <3>4 DEF Lines
      <4>2. \/ l = Line("session", "")
            \/ \E s \in {"stop", "aborted", "error"} : l = Line("turn_end", s)
            \/ \E s \in {"stop", "aborted", "error"} : l = Line("agent_end", s)
        BY <4>1
      <4>3. CASE l = Line("session", "")
        BY <4>3 DEF Line, LineTypes, Stops
      <4>4. ASSUME NEW s \in {"stop", "aborted", "error"}, l = Line("turn_end", s)
            PROVE  Shape
        BY <4>4 DEF Line, LineTypes, Stops
      <4>5. ASSUME NEW s \in {"stop", "aborted", "error"}, l = Line("agent_end", s)
            PROVE  Shape
        BY <4>5 DEF Line, LineTypes, Stops
      <4> QED
        BY <4>2, <4>3, <4>4, <4>5
    <3> QED
      BY <1>0, <3>1, <3>2, <3>3, <3>4
  <2>2. CASE l = Idle
    BY <2>2 DEF Idle, Line, LineTypes, Stops
  <2> QED
    BY <1>1, <2>1, <2>2 DEF AllLines
<1>4. CASE l \in Wordless
  BY <1>1, <1>4 DEF Meant, Parse, StopShaped
<1>5. CASE l \notin Wordless
  BY <1>2, <1>5 DEF Meant, Parse, StopShaped
<1> QED
  BY <1>2, <1>4, <1>5

\* A line on stderr is a failure or nothing.
LEMMA ClassifyType ==
  \A line : Classify(line) \in Failures \cup {"none"}
BY DEF Classify, Failures

\* Every variable that a run has of its own is that of a run.
LEMMA FunctionTypes ==
  ASSUME TypeOK
  PROVE  /\ DOMAIN cur = Runs /\ DOMAIN pc = Runs /\ DOMAIN agent = Runs /\ DOMAIN out = Runs
         /\ DOMAIN err = Runs /\ DOMAIN cancelled = Runs /\ DOMAIN success = Runs
         /\ DOMAIN task = Runs /\ DOMAIN slot = Runs /\ DOMAIN verdict = Runs
         /\ DOMAIN report = Runs /\ DOMAIN signal = Runs
BY DEF TypeOK


\* An agent has a state and a prompt.
LEMMA AgentType ==
  ASSUME TypeOK, NEW r \in Runs
  PROVE  /\ [agent[r] EXCEPT !.state = "gone"].state = "gone"
         /\ [agent[r] EXCEPT !.state = "closed"].state = "closed"
         /\ [NoAgent EXCEPT !.state = "booting"].state = "booting"
BY DEF TypeOK, Agents, NoAgent

\* A step of one run leaves the others' variables alone.
LEMMA OthersRest ==
  ASSUME TypeOK, NEW r \in Runs, Step(r), NEW s \in Runs, s # r
  PROVE  /\ cur'[s] = cur[s] /\ pc'[s] = pc[s] /\ agent'[s] = agent[s] /\ out'[s] = out[s]
         /\ err'[s] = err[s] /\ success'[s] = success[s] /\ slot'[s] = slot[s]
         /\ verdict'[s] = verdict[s] /\ report'[s] = report[s] /\ signal'[s] = signal[s]
<1> USE FunctionTypes
<1>1. pc'[s] = pc[s] /\ cur'[s] = cur[s]
  BY DEF Step, Backend, turnVars, pipeVars, stderrVars, truthVars, Goto, Fail, Killed,
     GiveUp, TurnGone, BeginTurn, RefuseTurn, ReadScript, WritePrompt, LaunchFails, Spawn,
     Drained, Judge, Return, ScriptEvent, ScriptEnds, ReadLine, ReadTimeout, TotalTimeout,
     EndOfOutput, StderrLine, AgentBoots, AgentWrites, AgentComplains, AgentEnds, Cancel
<1>2. agent'[s] = agent[s]
  BY DEF Step, Backend, turnVars, pipeVars, stderrVars, truthVars, Goto, Fail, Killed,
     GiveUp, TurnGone, BeginTurn, RefuseTurn, ReadScript, WritePrompt, LaunchFails, Spawn,
     Drained, Judge, Return, ScriptEvent, ScriptEnds, ReadLine, ReadTimeout, TotalTimeout,
     EndOfOutput, StderrLine, AgentBoots, AgentWrites, AgentComplains, AgentEnds, Cancel
<1>3. out'[s] = out[s] /\ err'[s] = err[s]
  BY DEF Step, Backend, turnVars, pipeVars, stderrVars, truthVars, Goto, Fail, Killed,
     GiveUp, TurnGone, BeginTurn, RefuseTurn, ReadScript, WritePrompt, LaunchFails, Spawn,
     Drained, Judge, Return, ScriptEvent, ScriptEnds, ReadLine, ReadTimeout, TotalTimeout,
     EndOfOutput, StderrLine, AgentBoots, AgentWrites, AgentComplains, AgentEnds, Cancel
<1>4. success'[s] = success[s] /\ slot'[s] = slot[s]
  BY DEF Step, Backend, turnVars, pipeVars, stderrVars, truthVars, Goto, Fail, Killed,
     GiveUp, TurnGone, BeginTurn, RefuseTurn, ReadScript, WritePrompt, LaunchFails, Spawn,
     Drained, Judge, Return, ScriptEvent, ScriptEnds, ReadLine, ReadTimeout, TotalTimeout,
     EndOfOutput, StderrLine, AgentBoots, AgentWrites, AgentComplains, AgentEnds, Cancel, Fold
<1>5. verdict'[s] = verdict[s]
  BY DEF Step, Backend, turnVars, pipeVars, stderrVars, truthVars, Goto, Fail, Killed,
     GiveUp, TurnGone, BeginTurn, RefuseTurn, ReadScript, WritePrompt, LaunchFails, Spawn,
     Drained, Judge, Return, ScriptEvent, ScriptEnds, ReadLine, ReadTimeout, TotalTimeout,
     EndOfOutput, StderrLine, AgentBoots, AgentWrites, AgentComplains, AgentEnds, Cancel
<1>6. report'[s] = report[s] /\ signal'[s] = signal[s]
  BY DEF Step, Backend, turnVars, pipeVars, stderrVars, truthVars, Goto, Fail, Killed,
     GiveUp, TurnGone, BeginTurn, RefuseTurn, ReadScript, WritePrompt, LaunchFails, Spawn,
     Drained, Judge, Return, ScriptEvent, ScriptEnds, ReadLine, ReadTimeout, TotalTimeout,
     EndOfOutput, StderrLine, AgentBoots, AgentWrites, AgentComplains, AgentEnds, Cancel
<1> QED
  BY <1>1, <1>2, <1>3, <1>4, <1>5, <1>6

\* The types are kept.
LEMMA TypeStep ==
  ASSUME TypeOK, NEW r \in Runs, Step(r)
  PROVE  TypeOK'
<1>0. MaxRuns \in Nat /\ MaxTurns \in Nat /\ MaxLines \in Nat
  BY TurnAssumption
<1>1. kind' \in Kinds /\ mixed' \in BOOLEAN
  BY DEF TypeOK, Step, Backend, turnVars, pipeVars, stderrVars, truthVars, Goto, Fail,
     Killed, GiveUp, TurnGone, BeginTurn, RefuseTurn, ReadScript, WritePrompt, LaunchFails,
     Spawn, Drained, Judge, Return, ScriptEvent, ScriptEnds, ReadLine, ReadTimeout,
     TotalTimeout, EndOfOutput, StderrLine, AgentBoots, AgentWrites, AgentComplains, AgentEnds,
     Cancel
<1>2. turns' \in 0..MaxTurns /\ cur' \in [Runs -> 0..MaxTurns]
  <2>1. \/ UNCHANGED <<turns, cur>>
        \/ /\ turns < MaxTurns /\ turns' = turns + 1
           /\ cur' = [cur EXCEPT ![r] = turns + 1]
    BY DEF Step, Backend, turnVars, pipeVars, stderrVars, truthVars, Goto, Fail, Killed,
       GiveUp, TurnGone, BeginTurn, RefuseTurn, ReadScript, WritePrompt, LaunchFails, Spawn,
       Drained, Judge, Return, ScriptEvent, ScriptEnds, ReadLine, ReadTimeout, TotalTimeout,
       EndOfOutput, StderrLine, AgentBoots, AgentWrites, AgentComplains, AgentEnds, Cancel
  <2>2. turns \in 0..MaxTurns /\ cur \in [Runs -> 0..MaxTurns]
    BY DEF TypeOK
  <2> QED
    BY <1>0, <2>1, <2>2
<1>3. pc' \in [Runs -> {"idle", "preparing", "launching", "reading", "draining",
                        "reaping", "judged", "script", "over"}]
  <2> DEFINE Places == {"idle", "preparing", "launching", "reading", "draining",
                        "reaping", "judged", "script", "over"}
  <2>1. pc' = pc \/ \E l \in Places : pc' = [pc EXCEPT ![r] = l]
    BY DEF Step, Backend, turnVars, pipeVars, stderrVars, truthVars, Goto, Fail, Killed,
       GiveUp, TurnGone, BeginTurn, RefuseTurn, ReadScript, WritePrompt, LaunchFails, Spawn,
       Drained, Judge, Return, ScriptEvent, ScriptEnds, ReadLine, ReadTimeout, TotalTimeout,
       EndOfOutput, StderrLine, AgentBoots, AgentWrites, AgentComplains, AgentEnds, Cancel
  <2>2. pc \in [Runs -> Places]
    BY DEF TypeOK
  <2> QED
    BY <2>1, <2>2
<1>4. file' \in 0..MaxTurns
  <2>1. file' \in {file, 0, cur[r]}
    BY DEF Step, Backend, turnVars, pipeVars, stderrVars, truthVars, Goto, Fail, Killed,
       GiveUp, TurnGone, BeginTurn, RefuseTurn, ReadScript, WritePrompt, LaunchFails, Spawn,
       Drained, Judge, Return, ScriptEvent, ScriptEnds, ReadLine, ReadTimeout, TotalTimeout,
       EndOfOutput, StderrLine, AgentBoots, AgentWrites, AgentComplains, AgentEnds, Cancel
  <2> QED
    BY <1>0, <2>1 DEF TypeOK
<1>5. agent' \in [Runs -> Agents]
  <2>1. NoAgent \in Agents /\ [NoAgent EXCEPT !.state = "booting"] \in Agents
    BY <1>0 DEF NoAgent, Agents
  <2>2. [state |-> "running", prompt |-> file] \in Agents
    BY DEF TypeOK, Agents
  <2>3. \A a \in Agents : [a EXCEPT !.state = "gone"] \in Agents /\ [a EXCEPT !.state = "closed"] \in Agents
    BY DEF Agents
  <2>4. agent \in [Runs -> Agents]
    BY DEF TypeOK
  <2>5. \/ agent' = agent
        \/ \E a \in Agents : agent' = [agent EXCEPT ![r] = a]
    BY <2>1, <2>2, <2>3, <2>4 DEF Step, Backend, turnVars, pipeVars, stderrVars, truthVars,
       Goto, Fail, Killed, GiveUp, TurnGone, BeginTurn, RefuseTurn, ReadScript, WritePrompt,
       LaunchFails, Spawn, Drained, Judge, Return, ScriptEvent, ScriptEnds, ReadLine,
       ReadTimeout, TotalTimeout, EndOfOutput, StderrLine, AgentBoots, AgentWrites,
       AgentComplains, AgentEnds, Cancel
  <2> QED
    BY <2>4, <2>5
<1>6. left' \in 0..MaxLines
  <2>1. left \in 0..MaxLines
    BY DEF TypeOK
  <2>2. left' = left \/ (left > 0 /\ left' = left - 1)
    BY DEF Step, Backend, turnVars, pipeVars, stderrVars, truthVars, Goto, Fail, Killed,
       GiveUp, TurnGone, BeginTurn, RefuseTurn, ReadScript, WritePrompt, LaunchFails, Spawn,
       Drained, Judge, Return, ScriptEvent, ScriptEnds, ReadLine, ReadTimeout, TotalTimeout,
       EndOfOutput, StderrLine, AgentBoots, AgentWrites, AgentComplains, AgentEnds, Cancel
  <2> QED
    BY <1>0, <2>1, <2>2
<1>7. cancelled' \in [Runs -> BOOLEAN] /\ task' \in [Runs -> BOOLEAN]
  BY DEF TypeOK, Step, Backend, turnVars, pipeVars, stderrVars, truthVars, Goto, Fail,
     Killed, GiveUp, TurnGone, BeginTurn, RefuseTurn, ReadScript, WritePrompt, LaunchFails,
     Spawn, Drained, Judge, Return, ScriptEvent, ScriptEnds, ReadLine, ReadTimeout,
     TotalTimeout, EndOfOutput, StderrLine, AgentBoots, AgentWrites, AgentComplains, AgentEnds,
     Cancel
<1>8. success' \in [Runs -> BOOLEAN]
  <2>1. \A x : StopShaped(x) \in BOOLEAN
    BY DEF StopShaped
  <2>2. success' = success \/ \E x \in BOOLEAN : success' = [success EXCEPT ![r] = x]
    BY <2>1 DEF Step, Backend, turnVars, pipeVars, stderrVars, truthVars, Goto, Fail,
       Killed, GiveUp, TurnGone, BeginTurn, RefuseTurn, ReadScript, WritePrompt, LaunchFails,
       Spawn, Drained, Judge, Return, ScriptEvent, ScriptEnds, ReadLine, ReadTimeout,
       TotalTimeout, EndOfOutput, StderrLine, AgentBoots, AgentWrites, AgentComplains,
       AgentEnds, Cancel, Fold
  <2>3. success \in [Runs -> BOOLEAN]
    BY DEF TypeOK
  <2> QED
    BY <2>2, <2>3
<1>91. slot[r] \in Verdicts /\ verdict[r] \in Verdicts /\ signal[r] \in Verdicts
  BY DEF TypeOK
<1>9. verdict' \in [Runs -> Verdicts]
  <2>1. verdict' = verdict \/ \E x \in Verdicts : verdict' = [verdict EXCEPT ![r] = x]
    BY <1>91 DEF Step, Backend, turnVars, pipeVars, stderrVars, truthVars, Goto, Fail,
       Killed, GiveUp, TurnGone, BeginTurn, RefuseTurn, ReadScript, WritePrompt, LaunchFails,
       Spawn, Drained, Judge, Return, ScriptEvent, ScriptEnds, ReadLine, ReadTimeout,
       TotalTimeout, EndOfOutput, StderrLine, AgentBoots, AgentWrites, AgentComplains,
       AgentEnds, Cancel, Verdicts
  <2>2. verdict \in [Runs -> Verdicts]
    BY DEF TypeOK
  <2> QED
    BY <2>1, <2>2
<1>10. slot' \in [Runs -> Verdicts]
  <2>1. slot' = slot \/ \E x \in Verdicts : slot' = [slot EXCEPT ![r] = x]
    BY <1>91, ClassifyType DEF Step, Backend, turnVars, pipeVars, stderrVars, truthVars,
       Goto, Fail, Killed, GiveUp, TurnGone, BeginTurn, RefuseTurn, ReadScript, WritePrompt,
       LaunchFails, Spawn, Drained, Judge, Return, ScriptEvent, ScriptEnds, ReadLine,
       ReadTimeout, TotalTimeout, EndOfOutput, StderrLine, AgentBoots, AgentWrites,
       AgentComplains, AgentEnds, Cancel, FirstOf, Failures, Verdicts
  <2>2. slot \in [Runs -> Verdicts]
    BY DEF TypeOK
  <2> QED
    BY <2>1, <2>2
<1>11. signal' \in [Runs -> Verdicts]
  <2>1. signal' = signal \/ \E x \in Verdicts : signal' = [signal EXCEPT ![r] = x]
    BY <1>91, ClassifyType DEF Step, Backend, turnVars, pipeVars, stderrVars, truthVars,
       Goto, Fail, Killed, GiveUp, TurnGone, BeginTurn, RefuseTurn, ReadScript, WritePrompt,
       LaunchFails, Spawn, Drained, Judge, Return, ScriptEvent, ScriptEnds, ReadLine,
       ReadTimeout, TotalTimeout, EndOfOutput, StderrLine, AgentBoots, AgentWrites,
       AgentComplains, AgentEnds, Cancel, FirstOf, Failures, Verdicts
  <2>2. signal \in [Runs -> Verdicts]
    BY DEF TypeOK
  <2> QED
    BY <2>1, <2>2
<1>12. report' \in [Runs -> {"none", "good", "bad", "wordless"}]
  BY DEF TypeOK, Step, Backend, turnVars, pipeVars, stderrVars, truthVars, Goto, Fail,
     Killed, GiveUp, TurnGone, BeginTurn, RefuseTurn, ReadScript, WritePrompt, LaunchFails,
     Spawn, Drained, Judge, Return, ScriptEvent, ScriptEnds, ReadLine, ReadTimeout,
     TotalTimeout, EndOfOutput, StderrLine, AgentBoots, AgentWrites, AgentComplains, AgentEnds,
     Cancel, Meant
<1>13. out' \in [Runs -> Seq([type : LineTypes, stop : Stops])]
  <2> DEFINE T == [type : LineTypes, stop : Stops]
  <2>1. out \in [Runs -> Seq(T)] /\ kind \in Kinds
    BY DEF TypeOK
  <2>2. \A l \in AllLines : l \in T
    BY <2>1, LineMeaning DEF Line
  <2>3. \/ out' = out
        \/ out' = [out EXCEPT ![r] = <<>>]
        \/ out[r] # <<>> /\ out' = [out EXCEPT ![r] = Tail(@)]
        \/ \E l \in AllLines : out' = [out EXCEPT ![r] = Append(@, l)]
    BY DEF AllLines, Step, Backend, turnVars, pipeVars, stderrVars, truthVars, Goto, Fail,
       Killed, GiveUp, TurnGone, BeginTurn, RefuseTurn, ReadScript, WritePrompt, LaunchFails,
       Spawn, Drained, Judge, Return, ScriptEvent, ScriptEnds, ReadLine, ReadTimeout,
       TotalTimeout, EndOfOutput, StderrLine, AgentBoots, AgentWrites, AgentComplains,
       AgentEnds, Cancel
  <2> HIDE DEF T
  <2>4. <<>> \in Seq(T) /\ out[r] \in Seq(T)
    BY <2>1
  <2>5. out[r] # <<>> => Tail(out[r]) \in Seq(T)
    BY <2>4
  <2>6. \A l \in AllLines : Append(out[r], l) \in Seq(T)
    BY <2>2, <2>4
  <2>7. out' = out \/ \E x \in Seq(T) : out' = [out EXCEPT ![r] = x]
    BY <2>3, <2>4, <2>5, <2>6
  <2>8. out' \in [Runs -> Seq(T)]
    BY <2>1, <2>7
  <2> QED
    BY <2>8 DEF T
<1>14. err' \in [Runs -> Seq(Complaints)]
  <2>1. err \in [Runs -> Seq(Complaints)]
    BY DEF TypeOK
  <2>2. \/ err' = err
        \/ err' = [err EXCEPT ![r] = <<>>]
        \/ err[r] # <<>> /\ err' = [err EXCEPT ![r] = Tail(@)]
        \/ \E l \in Complaints : err' = [err EXCEPT ![r] = Append(@, l)]
    BY DEF Step, Backend, turnVars, pipeVars, stderrVars, truthVars, Goto, Fail, Killed,
       GiveUp, TurnGone, BeginTurn, RefuseTurn, ReadScript, WritePrompt, LaunchFails, Spawn,
       Drained, Judge, Return, ScriptEvent, ScriptEnds, ReadLine, ReadTimeout, TotalTimeout,
       EndOfOutput, StderrLine, AgentBoots, AgentWrites, AgentComplains, AgentEnds, Cancel
  <2>3. <<>> \in Seq(Complaints) /\ err[r] \in Seq(Complaints)
    BY <2>1
  <2>4. err[r] # <<>> => Tail(err[r]) \in Seq(Complaints)
    BY <2>3
  <2>5. \A l \in Complaints : Append(err[r], l) \in Seq(Complaints)
    BY <2>3
  <2>6. err' = err \/ \E x \in Seq(Complaints) : err' = [err EXCEPT ![r] = x]
    BY <2>2, <2>3, <2>4, <2>5
  <2> QED
    BY <2>1, <2>6
<1> QED
  BY <1>1, <1>2, <1>3, <1>4, <1>5, <1>6, <1>7, <1>8, <1>9, <1>10, <1>11, <1>12, <1>13, <1>14
     DEF TypeOK

-----------------------------------------------------------------------------
\* The agent: it is there only while its output is read, and once.
LEMMA AgentStep ==
  ASSUME TypeOK, AgentsAreRead, NEW r \in Runs, Step(r)
  PROVE  AgentsAreRead'
<1> DEFINE Live(s) == agent[s].state \in {"booting", "running", "closed"}
<1>1. agent \in [Runs -> Agents] /\ pc \in [Runs -> {"idle", "preparing", "launching", "reading",
                     "draining", "reaping", "judged", "script", "over"}]
  BY DEF TypeOK
<1>2. ASSUME NEW s \in Runs, s # r, Live(s)'
      PROVE  pc'[s] = "reading"
  BY <1>2, OthersRest DEF AgentsAreRead
<1>3. ASSUME Live(r)'
      PROVE  pc'[r] = "reading"
  <2>1. CASE Spawn(r)
    BY <1>1, <2>1 DEF Spawn, Goto
  <2>2. CASE AgentBoots(r) \/ AgentEnds(r) \/ AgentWrites(r) \/ AgentComplains(r)
    BY <1>1, <2>2 DEF AgentBoots, AgentEnds, AgentWrites, AgentComplains, AgentsAreRead
  <2>3. CASE EndOfOutput(r) \/ ReadTimeout(r) \/ TotalTimeout(r) \/ Return(r)
    BY <1>1, <1>3, <2>3 DEF EndOfOutput, ReadTimeout, TotalTimeout, GiveUp, Killed, Return, TurnGone,
                            NoAgent, Agents
  <2>4. CASE ReadLine(r) \/ StderrLine(r)
    BY <1>3, <2>4 DEF ReadLine, StderrLine, AgentsAreRead
  <2>5. CASE \/ BeginTurn(r) \/ RefuseTurn(r) \/ ReadScript(r) \/ WritePrompt(r) \/ LaunchFails(r)
             \/ Drained(r) \/ Judge(r) \/ ScriptEvent(r) \/ ScriptEnds(r) \/ Cancel(r)
    BY <1>3, <2>5 DEF BeginTurn, RefuseTurn, ReadScript, WritePrompt, LaunchFails, Drained, Judge,
                      ScriptEvent, ScriptEnds, Cancel, AgentsAreRead
  <2> QED
    BY <2>1, <2>2, <2>3, <2>4, <2>5 DEF Step, Backend
<1> QED
  BY <1>2, <1>3 DEF AgentsAreRead

\* The verdict is given at the end of a turn.
LEMMA VerdictStep ==
  ASSUME TypeOK, VerdictsEndTurns, NEW r \in Runs, Step(r)
  PROVE  VerdictsEndTurns'
<1>1. verdict \in [Runs -> Verdicts] /\ DOMAIN pc = Runs
  BY DEF TypeOK
<1>2. ASSUME NEW s \in Runs, s # r, verdict'[s] # "none"
      PROVE  pc'[s] \in {"judged", "over"}
  BY <1>2, OthersRest DEF VerdictsEndTurns
<1>3. \/ verdict'[r] = verdict[r] /\ pc'[r] = pc[r]
      \/ pc[r] \in {"idle", "preparing", "launching", "reading", "draining", "reaping", "script"}
         /\ verdict'[r] = verdict[r]
      \/ pc'[r] \in {"judged", "over"}
      \/ verdict'[r] = "none"
  BY <1>1 DEF Step, Backend, turnVars, pipeVars, stderrVars, truthVars, Goto, Fail, Killed,
     GiveUp, TurnGone, BeginTurn, RefuseTurn, ReadScript, WritePrompt, LaunchFails, Spawn,
     Drained, Judge, Return, ScriptEvent, ScriptEnds, ReadLine, ReadTimeout, TotalTimeout,
     EndOfOutput, StderrLine, AgentBoots, AgentWrites, AgentComplains, AgentEnds, Cancel
<1> QED
  BY <1>1, <1>2, <1>3 DEF VerdictsEndTurns

-----------------------------------------------------------------------------
\* The prompt file: how a step of run r moves it.
FileRests(r) ==
  /\ UNCHANGED <<file, cur, mixed>>
  /\ InTurn(r) <=> pc'[r] \in {"launching", "reading", "draining", "reaping"}
  /\ verdict[r] = "launch" => verdict'[r] = "launch"

FileGoes(r) ==
  /\ file' = 0 /\ UNCHANGED <<cur, mixed>>
  /\ InTurn(r)
  /\ pc'[r] = "judged"

LEMMA FileMoves ==
  ASSUME TypeOK, VerdictsEndTurns, NEW r \in Runs, Step(r)
  PROVE  FileRests(r) \/ FileGoes(r) \/ BeginTurn(r) \/ WritePrompt(r) \/ LaunchFails(r)
<1>1. /\ DOMAIN pc = Runs /\ DOMAIN verdict = Runs
      /\ verdict[r] = "launch" => pc[r] \in {"judged", "over"}
  BY FunctionTypes DEF VerdictsEndTurns
<1>2. CASE RefuseTurn(r) \/ ReadScript(r) \/ ScriptEvent(r) \/ ScriptEnds(r) \/ Cancel(r)
  BY <1>1, <1>2 DEF RefuseTurn, ReadScript, ScriptEvent, ScriptEnds, Cancel, Goto, Fail, InTurn,
                    FileRests, turnVars, truthVars
<1>3. CASE Spawn(r) \/ Drained(r) \/ EndOfOutput(r) \/ Return(r)
  BY <1>1, <1>3 DEF Spawn, Drained, EndOfOutput, Return, Goto, InTurn, FileRests, turnVars,
                    truthVars
<1>4. CASE Judge(r) \/ ReadTimeout(r) \/ TotalTimeout(r)
  BY <1>1, <1>4 DEF Judge, ReadTimeout, TotalTimeout, GiveUp, Goto, Fail, InTurn, FileGoes,
                    turnVars, truthVars
<1>5. CASE \/ ReadLine(r) \/ StderrLine(r) \/ AgentBoots(r) \/ AgentWrites(r)
           \/ AgentComplains(r) \/ AgentEnds(r)
  BY <1>5 DEF ReadLine, StderrLine, AgentBoots, AgentWrites, AgentComplains, AgentEnds, InTurn,
              FileRests, turnVars, truthVars
<1> QED
  BY <1>2, <1>3, <1>4, <1>5 DEF Step, Backend

\* As long as no two turns overlap, who is in a turn is alone and finds its
\* own prompt in the file; and a file that is there is somebody's.
LEMMA FileStep ==
  ASSUME TypeOK, FileInv, NEW r \in Runs, Step(r)
  PROVE  Alone' /\ FileIsOwn' /\ FileHasOwner'
<1> DEFINE Places == {"launching", "reading", "draining", "reaping"}
<1> USE DEF FileInv
<1>1. \A s \in Runs : s # r => cur'[s] = cur[s] /\ pc'[s] = pc[s] /\ verdict'[s] = verdict[s]
  BY OthersRest
<1>2. DOMAIN pc = Runs /\ DOMAIN verdict = Runs /\ DOMAIN cur = Runs
  BY FunctionTypes
<1> SUFFICES /\ ~mixed' => \A s, t \in Runs : pc'[s] \in Places /\ pc'[t] \in Places => s = t
             /\ ~mixed' => \A s \in Runs : pc'[s] \in Places => file' = cur'[s]
             /\ file' # 0 => \E s \in Runs : cur'[s] = file' /\ (pc'[s] \in Places \/ verdict'[s] = "launch")
  BY DEF Alone, FileIsOwn, FileHasOwner, InTurn
<1>3. /\ ~mixed => \A s, t \in Runs : pc[s] \in Places /\ pc[t] \in Places => s = t
      /\ ~mixed => \A s \in Runs : pc[s] \in Places => file = cur[s]
      /\ file # 0 => \E s \in Runs : cur[s] = file /\ (pc[s] \in Places \/ verdict[s] = "launch")
  BY DEF Alone, FileIsOwn, FileHasOwner, InTurn
<1>4. CASE FileRests(r)
  <2>1. /\ UNCHANGED <<file, cur, mixed>>
        /\ pc[r] \in Places <=> pc'[r] \in Places
        /\ verdict[r] = "launch" => verdict'[r] = "launch"
    BY <1>4 DEF FileRests, InTurn
  <2> HIDE DEF Places
  <2> QED
    BY <1>1, <1>3, <2>1
<1>5. CASE FileGoes(r)
  <2>1. /\ file' = 0 /\ UNCHANGED <<cur, mixed>>
        /\ pc[r] \in Places /\ pc'[r] \notin Places
    BY <1>5 DEF FileGoes, InTurn
  <2> HIDE DEF Places
  <2> QED
    BY <1>1, <1>3, <2>1
<1>6. CASE BeginTurn(r)
  <2>1. /\ UNCHANGED <<file, mixed, verdict>>
        /\ pc[r] \notin Places /\ pc'[r] \notin Places /\ pc[r] = "idle"
    BY <1>2, <1>6 DEF BeginTurn, Goto, truthVars
  <2>2. verdict[r] # "launch"
    BY <2>1 DEF VerdictsEndTurns
  <2> HIDE DEF Places
  <2> QED
    BY <1>1, <1>3, <2>1, <2>2
<1>7. CASE WritePrompt(r)
  <2>1. /\ UNCHANGED cur /\ file' = cur[r]
        /\ pc'[r] \in Places
        /\ ~mixed' => ~mixed /\ \A s \in Runs \ {r} : pc[s] \notin Places
    BY <1>2, <1>7 DEF WritePrompt, Goto, turnVars, InTurn
  <2> HIDE DEF Places
  <2> QED
    BY <1>1, <1>3, <2>1
<1>8. CASE LaunchFails(r)
  <2>1. /\ UNCHANGED <<file, cur, mixed>>
        /\ pc[r] \in Places /\ pc'[r] \notin Places /\ verdict'[r] = "launch"
    BY <1>2, <1>8 DEF LaunchFails, Fail, Goto, turnVars, truthVars
  <2> HIDE DEF Places
  <2> QED
    BY <1>1, <1>3, <2>1
<1> QED
  BY <1>4, <1>5, <1>6, <1>7, <1>8, FileMoves

\* So the agent reads the prompt of its turn.
LEMMA PromptStep ==
  ASSUME TypeOK, AgentsAreRead, FileInv, AgentGetsItsPrompt, NEW r \in Runs, Step(r)
  PROVE  AgentGetsItsPrompt'
<1> SUFFICES ASSUME NEW s \in Runs, agent'[s].state = "running", ~mixed'
             PROVE  agent'[s].prompt = cur'[s]
  BY DEF AgentGetsItsPrompt
<1>1. ~mixed
  BY DEF Step, Backend, turnVars, pipeVars, stderrVars, truthVars, Goto, Fail, Killed,
     GiveUp, TurnGone, BeginTurn, RefuseTurn, ReadScript, WritePrompt, LaunchFails, Spawn,
     Drained, Judge, Return, ScriptEvent, ScriptEnds, ReadLine, ReadTimeout, TotalTimeout,
     EndOfOutput, StderrLine, AgentBoots, AgentWrites, AgentComplains, AgentEnds, Cancel
<1>2. agent[s].state = "running" => pc[s] = "reading" /\ agent[s].prompt = cur[s]
  BY <1>1 DEF AgentsAreRead, AgentGetsItsPrompt
<1>3. CASE s # r
  BY <1>2, <1>3, OthersRest
<1>4. CASE s = r
  <2>1. CASE AgentBoots(r)
    <3>1. agent'[r].prompt = file /\ cur' = cur /\ agent[r].state = "booting"
      BY <2>1, FunctionTypes DEF AgentBoots, turnVars
    <3>2. InTurn(r)
      BY <3>1 DEF AgentsAreRead, InTurn
    <3> QED
      BY <1>1, <1>4, <3>1, <3>2 DEF FileInv, FileIsOwn
  <2>2. CASE BeginTurn(r)
    BY <1>2, <1>4, <2>2 DEF BeginTurn
  <2>3. CASE ~AgentBoots(r) /\ ~BeginTurn(r)
    <3>1. cur' = cur
      BY <2>3 DEF Step, Backend, turnVars, pipeVars, stderrVars, truthVars, Goto, Fail,
         Killed, GiveUp, TurnGone, BeginTurn, RefuseTurn, ReadScript, WritePrompt, LaunchFails,
         Spawn, Drained, Judge, Return, ScriptEvent, ScriptEnds, ReadLine, ReadTimeout,
         TotalTimeout, EndOfOutput, StderrLine, AgentBoots, AgentWrites, AgentComplains,
         AgentEnds, Cancel
    <3>2. agent' = agent \/ agent'[r].state # "running"
      <4>1. CASE Spawn(r) \/ Return(r)
        BY <4>1, FunctionTypes, AgentType DEF NoAgent, Spawn, Return, TurnGone
      <4>2. CASE EndOfOutput(r) \/ ReadTimeout(r) \/ TotalTimeout(r) \/ AgentEnds(r)
        <5>1. agent' = agent \/ \E x \in {"gone", "closed"} : agent' = [agent EXCEPT ![r].state = x]
          BY <4>2 DEF EndOfOutput, ReadTimeout, TotalTimeout, AgentEnds, GiveUp, Killed
        <5> QED
          BY <5>1 DEF TypeOK, Agents
      <4>3. ~Spawn(r) /\ ~Return(r) /\ ~EndOfOutput(r) /\ ~ReadTimeout(r) /\ ~TotalTimeout(r)
              /\ ~AgentEnds(r) => agent' = agent
        BY <2>3 DEF Step, Backend, RefuseTurn, ReadScript, WritePrompt, LaunchFails, Drained,
                    Judge, ScriptEvent, ScriptEnds, Cancel, ReadLine, StderrLine, AgentWrites,
                    AgentComplains
      <4> QED
        BY <4>1, <4>2, <4>3
    <3> QED
      BY <1>2, <1>4, <3>1, <3>2
  <2> QED
    BY <2>1, <2>2, <2>3
<1> QED
  BY <1>3, <1>4

-----------------------------------------------------------------------------
\* The pipe of stdout: how a step of run r moves it, the report and `success`.
LEMMA PipeStep ==
  ASSUME TypeOK, AgentsAreRead, PipesAreEmpty, NEW r \in Runs, Step(r)
  PROVE  PipesAreEmpty'
<1> DEFINE Empty == {"idle", "preparing", "script", "draining", "reaping"}
<1>1. kind' = kind
  BY DEF Step, Backend, turnVars, pipeVars, stderrVars, truthVars, Goto, Fail, Killed,
     GiveUp, TurnGone, BeginTurn, RefuseTurn, ReadScript, WritePrompt, LaunchFails, Spawn,
     Drained, Judge, Return, ScriptEvent, ScriptEnds, ReadLine, ReadTimeout, TotalTimeout,
     EndOfOutput, StderrLine, AgentBoots, AgentWrites, AgentComplains, AgentEnds, Cancel
<1>2. \A s \in Runs : s # r => out'[s] = out[s] /\ pc'[s] = pc[s]
  BY OthersRest
<1>3. DOMAIN pc = Runs /\ DOMAIN out = Runs
  BY FunctionTypes
<1>4. ASSUME pc'[r] \in Empty
      PROVE  out'[r] = <<>>
  <2>1. CASE AgentWrites(r)
    BY <1>4, <2>1 DEF AgentWrites, AgentsAreRead
  <2>2. CASE Return(r) \/ EndOfOutput(r)
    BY <1>3, <2>2 DEF Return, TurnGone, EndOfOutput, pipeVars
  <2>3. CASE ReadLine(r)
    BY <1>4, <2>3 DEF ReadLine
  <2>4. CASE ~AgentWrites(r) /\ ~Return(r) /\ ~EndOfOutput(r) /\ ~ReadLine(r)
    <3>1. out' = out
      BY <2>4 DEF Step, Backend, turnVars, pipeVars, stderrVars, truthVars, Goto, Fail,
         Killed, GiveUp, TurnGone, BeginTurn, RefuseTurn, ReadScript, WritePrompt, LaunchFails,
         Spawn, Drained, Judge, Return, ScriptEvent, ScriptEnds, ReadLine, ReadTimeout,
         TotalTimeout, EndOfOutput, StderrLine, AgentBoots, AgentWrites, AgentComplains,
         AgentEnds, Cancel
    <3>2. pc[r] \in Empty
      BY <1>3, <1>4, <2>4 DEF Step, Backend, turnVars, pipeVars, stderrVars, truthVars,
         Goto, Fail, Killed, GiveUp, TurnGone, BeginTurn, RefuseTurn, ReadScript, WritePrompt,
         LaunchFails, Spawn, Drained, Judge, Return, ScriptEvent, ScriptEnds, ReadLine,
         ReadTimeout, TotalTimeout, EndOfOutput, StderrLine, AgentBoots, AgentWrites,
         AgentComplains, AgentEnds, Cancel
    <3> QED
      BY <3>1, <3>2 DEF PipesAreEmpty
  <2> QED
    BY <2>1, <2>2, <2>3, <2>4
<1>5. ASSUME pc'[r] = "script"
      PROVE  kind = "mock"
  <2>1. pc[r] = "script" \/ kind = "mock"
    BY <1>3, <1>5 DEF Step, Backend, turnVars, pipeVars, stderrVars, truthVars, Goto, Fail,
       Killed, GiveUp, TurnGone, BeginTurn, RefuseTurn, ReadScript, WritePrompt, LaunchFails,
       Spawn, Drained, Judge, Return, ScriptEvent, ScriptEnds, ReadLine, ReadTimeout,
       TotalTimeout, EndOfOutput, StderrLine, AgentBoots, AgentWrites, AgentComplains,
       AgentEnds, Cancel
  <2> QED
    BY <2>1 DEF PipesAreEmpty
<1> QED
  BY <1>1, <1>2, <1>4, <1>5 DEF PipesAreEmpty

\* What a line means does not change.
LEMMA LinesStay ==
  ASSUME kind' = kind
  PROVE  AllLines' = AllLines /\ \A l : Meant(l)' = Meant(l)
<1>1. Lines' = Lines /\ Wordless' = Wordless
  BY DEF Lines, Wordless
<1> QED
  BY <1>1 DEF AllLines, Meant

\* An event of a script is taken for what it means.
LEMMA EventMeaning ==
  ASSUME kind = "mock", NEW l \in Lines \cup {Line("sleep", "")}
  PROVE  /\ (l.type = "step_finish") <=> (Meant(l) # "none")
         /\ Meant(l) # "none" => (StopShaped(l.stop) <=> Meant(l) \in {"good", "wordless"})
<1>1. Wordless = {}
  BY DEF Wordless
<1>2. CASE l = Line("sleep", "")
  BY <1>1, <1>2 DEF Line, Meant
<1>3. CASE l \in Lines
  <2>1. l \in {Line("step_start", "")} \cup
             {Line("step_finish", s) : s \in {"stop", "tool-calls", "error"}}
    BY <1>3 DEF Lines
  <2>2. \/ l = Line("step_start", "")
        \/ \E s \in {"stop", "tool-calls", "error"} : l = Line("step_finish", s)
    BY <2>1
  <2>3. CASE l = Line("step_start", "")
    BY <1>1, <2>3 DEF Line, Meant
  <2>4. ASSUME NEW s \in {"stop", "tool-calls", "error"}, l = Line("step_finish", s)
        PROVE  /\ (l.type = "step_finish") <=> (Meant(l) # "none")
               /\ Meant(l) # "none" => (StopShaped(l.stop) <=> Meant(l) \in {"good", "wordless"})
    BY <1>1, <2>4 DEF Line, Meant, StopShaped
  <2> QED
    BY <2>2, <2>3, <2>4
<1> QED
  BY <1>2, <1>3

\* `success` follows the reports.
LEMMA ReportStep ==
  ASSUME TypeOK, PipesAreEmpty, NEW r \in Runs, Step(r), \A s \in Runs : ReportIsHeard(s)
  PROVE  \A s \in Runs : ReportIsHeard(s)'
<1>1. kind' = kind
  BY DEF Step, Backend, turnVars, pipeVars, stderrVars, truthVars, Goto, Fail, Killed,
     GiveUp, TurnGone, BeginTurn, RefuseTurn, ReadScript, WritePrompt, LaunchFails, Spawn,
     Drained, Judge, Return, ScriptEvent, ScriptEnds, ReadLine, ReadTimeout, TotalTimeout,
     EndOfOutput, StderrLine, AgentBoots, AgentWrites, AgentComplains, AgentEnds, Cancel
<1>2. AllLines' = AllLines /\ \A l : Meant(l)' = Meant(l)
  BY <1>1, LinesStay
<1>3. /\ DOMAIN out = Runs /\ DOMAIN success = Runs /\ DOMAIN report = Runs
      /\ \A s \in Runs : success[s] \in BOOLEAN /\ kind \in Kinds
  BY DEF TypeOK
<1> DEFINE Good(s) == success[s] <=> report[s] \in {"good", "wordless"}
           Heard(s) == \/ out[s] = <<>> /\ Good(s)
                       \/ \E l \in AllLines :
                            /\ out[s] = <<l>>
                            /\ IF Meant(l) = "none" THEN Good(s) ELSE report[s] = Meant(l)
           HeardNext(s) ==
             \/ out'[s] = <<>> /\ Good(s)'
             \/ \E l \in AllLines :
                  /\ out'[s] = <<l>>
                  /\ IF Meant(l) = "none" THEN Good(s)' ELSE report'[s] = Meant(l)
<1>4. \A s \in Runs : Heard(s)
  BY DEF ReportIsHeard, AsReported
<1> SUFFICES \A s \in Runs : HeardNext(s)
  BY <1>2 DEF ReportIsHeard, AsReported
<1>5. \A s \in Runs : s # r => out'[s] = out[s] /\ success'[s] = success[s] /\ report'[s] = report[s]
  BY OthersRest
<1>6. \A s \in Runs : s # r => HeardNext(s)
  BY <1>4, <1>5
<1>7. HeardNext(r)
  <2>1. CASE ReadLine(r)
    <3>1. PICK l \in AllLines : /\ out[r] = <<l>>
                                /\ IF Meant(l) = "none" THEN Good(r) ELSE report[r] = Meant(l)
      BY <1>4, <2>1 DEF ReadLine
    <3>2. out'[r] = <<>> /\ report' = report /\ Head(out[r]) = l
      BY <1>3, <2>1, <3>1 DEF ReadLine, truthVars
    <3>3. CASE Meant(l) = "none"
      <4>1. success' = success
        BY <1>3, <2>1, <3>2, <3>3, LineMeaning DEF ReadLine, Fold
      <4> QED
        BY <3>1, <3>2, <3>3, <4>1
    <3>4. CASE Meant(l) # "none"
      <4>1. success'[r] = StopShaped(Parse(l)[2])
        BY <1>3, <2>1, <3>2, <3>4, LineMeaning DEF ReadLine, Fold
      <4>2. StopShaped(Parse(l)[2]) <=> Meant(l) \in {"good", "wordless"}
        BY <1>3, <3>4, LineMeaning
      <4> QED
        BY <3>1, <3>2, <3>4, <4>1, <4>2
    <3> QED
      BY <3>3, <3>4
  <2>2. CASE Return(r)
    BY <1>3, <2>2 DEF Return, TurnGone
  <2>3. CASE AgentWrites(r)
    <3>1. PICK l \in AllLines :
            /\ out' = [out EXCEPT ![r] = Append(@, l)]
            /\ report' = IF Meant(l) = "none" THEN report ELSE [report EXCEPT ![r] = Meant(l)]
      BY <2>3 DEF AgentWrites, AllLines
    <3>2. out[r] = <<>> /\ success' = success
      BY <2>3 DEF AgentWrites
    <3>3. Good(r)
      BY <1>4, <3>2
    <3>4. out'[r] = <<l>>
      BY <1>3, <3>1, <3>2
    <3>5. IF Meant(l) = "none" THEN report' = report ELSE report'[r] = Meant(l)
      BY <1>3, <3>1
    <3> QED
      BY <3>2, <3>3, <3>4, <3>5
  <2>4. CASE ScriptEvent(r)
    <3>1. out[r] = <<>> /\ kind = "mock" /\ out' = out
      BY <2>4 DEF ScriptEvent, PipesAreEmpty
    <3>2. Good(r)
      BY <1>4, <3>1
    <3>3. CASE UNCHANGED <<success, report>>
      BY <3>1, <3>2, <3>3
    <3>4. CASE ~UNCHANGED <<success, report>>
      <4>1. PICK l \in Lines \cup {Line("sleep", "")} :
              /\ success' = IF l.type = "step_finish"
                            THEN [success EXCEPT ![r] = StopShaped(l.stop)] ELSE success
              /\ report' = IF Meant(l) = "none" THEN report
                           ELSE [report EXCEPT ![r] = Meant(l)]
        BY <2>4, <3>4 DEF ScriptEvent
      <4>2. /\ (l.type = "step_finish") <=> (Meant(l) # "none")
            /\ Meant(l) # "none" => (StopShaped(l.stop) <=> Meant(l) \in {"good", "wordless"})
        BY <3>1, EventMeaning
      <4>3. CASE Meant(l) = "none"
        BY <3>1, <3>2, <4>1, <4>2, <4>3
      <4>4. CASE Meant(l) # "none"
        <5>1. success'[r] = StopShaped(l.stop) /\ report'[r] = Meant(l)
          BY <1>3, <4>1, <4>2, <4>4
        <5> QED
          BY <3>1, <4>2, <4>4, <5>1
      <4> QED
        BY <4>3, <4>4
    <3> QED
      BY <3>3, <3>4
  <2>5. CASE ~ReadLine(r) /\ ~Return(r) /\ ~AgentWrites(r) /\ ~ScriptEvent(r)
    <3>1. UNCHANGED <<out, success, report>>
      BY <2>5 DEF Step, Backend, turnVars, pipeVars, stderrVars, truthVars, Goto, Fail,
         Killed, GiveUp, TurnGone, BeginTurn, RefuseTurn, ReadScript, WritePrompt, LaunchFails,
         Spawn, Drained, Judge, Return, ScriptEvent, ScriptEnds, ReadLine, ReadTimeout,
         TotalTimeout, EndOfOutput, StderrLine, AgentBoots, AgentWrites, AgentComplains,
         AgentEnds, Cancel
    <3> QED
      BY <1>4, <3>1
  <2> QED
    BY <2>1, <2>2, <2>3, <2>4, <2>5
<1> QED
  BY <1>6, <1>7

-----------------------------------------------------------------------------
\* The first failure told on stderr is the one that counts.
LEMMA FailureStep ==
  ASSUME TypeOK, NEW r \in Runs, Step(r), \A s \in Runs : FailureIsHeard(s)
  PROVE  \A s \in Runs : FailureIsHeard(s)'
<1>1. \A s \in Runs : s # r => err'[s] = err[s] /\ slot'[s] = slot[s] /\ signal'[s] = signal[s]
  BY OthersRest
<1>2. \A s \in Runs : s # r => FailureIsHeard(s)'
  BY <1>1 DEF FailureIsHeard
<1>3. DOMAIN err = Runs /\ DOMAIN slot = Runs /\ DOMAIN signal = Runs
  BY FunctionTypes
<1>4. "none" \notin Failures
  BY DEF Failures
<1>5. FailureIsHeard(r)
  OBVIOUS
<1>6. err[r] \in Seq(Complaints)
  BY DEF TypeOK
<1>7. FailureIsHeard(r)'
  <2>1. CASE StderrLine(r)
    <3> DEFINE q == err[r]
    <3>1. q # <<>> /\ err'[r] = Tail(q) /\ signal' = signal
          /\ slot'[r] = FirstOf(slot[r], Classify(Head(q)))
      BY <1>3, <2>1 DEF StderrLine, truthVars
    <3>2. /\ Len(q) \in Nat /\ Len(q) > 0 /\ Head(q) = q[1] /\ Len(Tail(q)) = Len(q) - 1
          /\ \A i \in 1..Len(Tail(q)) : Tail(q)[i] = q[i + 1]
      BY <1>6, <3>1
    <3>3. CASE slot[r] # "none"
      <4>1. slot[r] \in Failures /\ slot[r] = signal[r] /\ slot'[r] = slot[r]
        BY <1>5, <3>1, <3>3 DEF FailureIsHeard, FirstOf
      <4> QED
        BY <3>1, <4>1 DEF FailureIsHeard
    <3>4. CASE slot[r] = "none" /\ signal[r] = "none"
      <4>1. \A i \in 1..Len(q) : Classify(q[i]) = "none"
        BY <1>4, <1>5, <3>4 DEF FailureIsHeard
      <4>2. slot'[r] = "none"
        BY <3>1, <3>2, <3>4, <4>1 DEF FirstOf
      <4>3. \A i \in 1..Len(Tail(q)) : Classify(Tail(q)[i]) = "none"
        BY <3>2, <4>1
      <4> QED
        BY <3>1, <3>4, <4>2, <4>3 DEF FailureIsHeard
    <3>5. CASE slot[r] = "none" /\ signal[r] # "none"
      <4>1. signal[r] \in Failures
        BY <1>5, <3>5 DEF FailureIsHeard
      <4>2. PICK k \in 1..Len(q) : /\ Classify(q[k]) = signal[r]
                                   /\ \A j \in 1..(k - 1) : Classify(q[j]) = "none"
        BY <1>5, <3>5 DEF FailureIsHeard
      <4>3. CASE k = 1
        <5>1. slot'[r] = signal[r]
          BY <3>1, <3>2, <3>5, <4>2, <4>3 DEF FirstOf
        <5> QED
          BY <3>1, <4>1, <5>1 DEF FailureIsHeard
      <4>4. CASE k # 1
        <5>1. 1 \in 1..(k - 1)
          BY <3>2, <4>4
        <5>2. slot'[r] = "none"
          BY <3>1, <3>2, <3>5, <4>2, <5>1 DEF FirstOf
        <5>3. (k - 1) \in 1..Len(Tail(q)) /\ Tail(q)[k - 1] = q[k]
          BY <3>2, <4>4
        <5>4. \A j \in 1..((k - 1) - 1) : Classify(Tail(q)[j]) = "none"
          <6>1. \A j \in 1..((k - 1) - 1) : j \in 1..Len(Tail(q)) /\ (j + 1) \in 1..(k - 1)
            BY <3>2, <4>4
          <6> QED
            BY <3>2, <4>2, <6>1
        <5> QED
          BY <3>1, <4>1, <4>2, <5>2, <5>3, <5>4 DEF FailureIsHeard
      <4> QED
        BY <4>3, <4>4
    <3> QED
      BY <3>3, <3>4, <3>5
  <2>2. CASE AgentComplains(r)
    <3>1. PICK line \in Complaints :
            /\ err' = [err EXCEPT ![r] = Append(@, line)]
            /\ signal' = [signal EXCEPT ![r] = FirstOf(@, Classify(line))]
      BY <2>2 DEF AgentComplains
    <3> DEFINE q == err[r]
               n == Len(q)
    <3>2. slot' = slot /\ err'[r] = Append(q, line) /\ signal'[r] = FirstOf(signal[r], Classify(line))
      BY <1>3, <2>2, <3>1 DEF AgentComplains, stderrVars
    <3>3. /\ n \in Nat /\ Len(Append(q, line)) = n + 1 /\ Append(q, line)[n + 1] = line
          /\ \A i \in 1..n : Append(q, line)[i] = q[i]
      BY <1>6
    <3>4. CASE slot[r] # "none"
      <4>1. slot[r] \in Failures /\ slot[r] = signal[r]
        BY <1>5, <3>4 DEF FailureIsHeard
      <4>2. signal'[r] = signal[r]
        BY <1>4, <3>2, <4>1 DEF FirstOf
      <4> QED
        BY <3>2, <4>1, <4>2 DEF FailureIsHeard
    <3>5. CASE slot[r] = "none" /\ signal[r] # "none"
      <4>1. signal[r] \in Failures /\ signal'[r] = signal[r]
        BY <1>5, <3>2, <3>5 DEF FailureIsHeard, FirstOf
      <4>2. PICK k \in 1..n : /\ Classify(q[k]) = signal[r]
                              /\ \A j \in 1..(k - 1) : Classify(q[j]) = "none"
        BY <1>5, <3>5 DEF FailureIsHeard
      <4>3. k \in 1..(n + 1) /\ \A j \in 1..(k - 1) : j \in 1..n
        BY <3>3
      <4>4. /\ Classify(Append(q, line)[k]) = signal[r]
            /\ \A j \in 1..(k - 1) : Classify(Append(q, line)[j]) = "none"
        BY <3>3, <4>2, <4>3
      <4> QED
        BY <3>2, <3>3, <3>5, <4>1, <4>3, <4>4 DEF FailureIsHeard
    <3>6. CASE slot[r] = "none" /\ signal[r] = "none"
      <4>1. \A i \in 1..n : Classify(q[i]) = "none"
        BY <1>4, <1>5, <3>6 DEF FailureIsHeard
      <4>2. signal'[r] = Classify(line)
        BY <3>2, <3>6 DEF FirstOf
      <4>3. \A i \in 1..n : Classify(Append(q, line)[i]) = "none"
        BY <3>3, <4>1
      <4>4. CASE Classify(line) = "none"
        <5>1. \A i \in 1..(n + 1) : Classify(Append(q, line)[i]) = "none"
          BY <3>3, <4>3, <4>4
        <5> QED
          BY <3>2, <3>3, <3>6, <4>2, <4>4, <5>1 DEF FailureIsHeard
      <4>5. CASE Classify(line) # "none"
        <5>1. Classify(line) \in Failures
          BY <4>5, ClassifyType
        <5>2. (n + 1) \in 1..(n + 1) /\ (n + 1) - 1 = n
          BY <3>3
        <5> QED
          BY <3>2, <3>3, <3>6, <4>2, <4>3, <5>1, <5>2 DEF FailureIsHeard
      <4> QED
        BY <4>4, <4>5
    <3> QED
      BY <3>4, <3>5, <3>6
  <2>3. CASE Return(r)
    <3>1. err'[r] = <<>> /\ slot'[r] = "none" /\ signal'[r] = "none"
      BY <1>3, <2>3 DEF Return, TurnGone
    <3> QED
      BY <3>1 DEF FailureIsHeard
  <2>4. CASE ~StderrLine(r) /\ ~AgentComplains(r) /\ ~Return(r)
    <3>1. UNCHANGED <<err, slot, signal>>
      BY <2>4 DEF Step, Backend, turnVars, pipeVars, stderrVars, truthVars, Goto, Fail,
         Killed, GiveUp, TurnGone, BeginTurn, RefuseTurn, ReadScript, WritePrompt, LaunchFails,
         Spawn, Drained, Judge, Return, ScriptEvent, ScriptEnds, ReadLine, ReadTimeout,
         TotalTimeout, EndOfOutput, StderrLine, AgentBoots, AgentWrites, AgentComplains,
         AgentEnds, Cancel
    <3> QED
      BY <1>5, <3>1 DEF FailureIsHeard
  <2> QED
    BY <2>1, <2>2, <2>3, <2>4
<1> QED
  BY <1>2, <1>7

\* The verdict is that of the agent.
LEMMA TruthStep ==
  ASSUME TypeOK, AgentsAreRead, PipesAreEmpty, VerdictIsTheAgents, NEW r \in Runs, Step(r),
         \A s \in Runs : ReportIsHeard(s), \A s \in Runs : FailureIsHeard(s)
  PROVE  VerdictIsTheAgents'
<1>1. /\ DOMAIN pc = Runs /\ DOMAIN verdict = Runs /\ success[r] \in BOOLEAN
      /\ report[r] \in {"none", "good", "bad", "wordless"}
  BY DEF TypeOK
<1>2. \A s \in Runs : s # r => /\ pc'[s] = pc[s] /\ verdict'[s] = verdict[s]
                               /\ report'[s] = report[s] /\ signal'[s] = signal[s]
  BY OthersRest
<1>3. ASSUME pc'[r] = "judged"
      PROVE  /\ verdict'[r] = "Succeeded" => report'[r] \in {"good", "wordless"}
             /\ verdict'[r] = "Failed" => report'[r] \in {"bad", "none"}
             /\ verdict'[r] \in Failures => verdict'[r] = signal'[r]
  <2>1. CASE pc[r] = "judged"
    <3>1. agent[r].state \notin {"booting", "running", "closed"}
      BY <2>1 DEF AgentsAreRead
    <3>2. UNCHANGED <<verdict, report, signal>>
      BY <1>1, <1>3, <2>1, <3>1 DEF Step, Backend, turnVars, pipeVars, stderrVars,
         truthVars, Goto, Fail, Killed, GiveUp, TurnGone, BeginTurn, RefuseTurn, ReadScript,
         WritePrompt, LaunchFails, Spawn, Drained, Judge, Return, ScriptEvent, ScriptEnds,
         ReadLine, ReadTimeout, TotalTimeout, EndOfOutput, StderrLine, AgentBoots, AgentWrites,
         AgentComplains, AgentEnds, Cancel
    <3> QED
      BY <2>1, <3>2 DEF VerdictIsTheAgents, Failures
  <2>2. CASE RefuseTurn(r) \/ LaunchFails(r)
    BY <1>1, <2>2 DEF RefuseTurn, LaunchFails, Fail, Failures
  <2>3. CASE ReadTimeout(r) \/ TotalTimeout(r)
    BY <1>1, <2>3 DEF ReadTimeout, TotalTimeout, GiveUp, Fail, Failures
  <2>4. CASE ScriptEvent(r) /\ cancelled[r]
    BY <1>1, <2>4 DEF ScriptEvent, Fail, Failures
  <2>5. CASE ScriptEnds(r)
    <3>1. AsReported(r)
      BY <2>5 DEF ScriptEnds, PipesAreEmpty, ReportIsHeard
    <3> QED
      BY <1>1, <2>5, <3>1 DEF ScriptEnds, Fail, AsReported, Failures, truthVars
  <2>6. CASE Judge(r)
    <3>1. AsReported(r)
      BY <2>6 DEF Judge, PipesAreEmpty, ReportIsHeard
    <3>2. slot[r] = "none" \/ (slot[r] \in Failures /\ slot[r] = signal[r])
      BY DEF FailureIsHeard
    <3>3. UNCHANGED <<report, signal>>
      BY <2>6 DEF Judge, truthVars
    <3>4. CASE slot[r] # "none"
      <4>1. verdict'[r] = slot[r]
        BY <1>1, <2>6, <3>4 DEF Judge, Fail
      <4> QED
        BY <3>2, <3>3, <3>4, <4>1 DEF Failures
    <3>5. CASE slot[r] = "none"
      <4>1. verdict'[r] = IF success[r] THEN "Succeeded" ELSE "Failed"
        BY <1>1, <2>6, <3>5 DEF Judge, Fail
      <4> QED
        BY <1>1, <3>1, <3>3, <4>1 DEF AsReported, Failures
    <3> QED
      BY <3>4, <3>5
  <2>7. \/ pc[r] = "judged" \/ RefuseTurn(r) \/ LaunchFails(r) \/ ReadTimeout(r) \/ TotalTimeout(r)
        \/ (ScriptEvent(r) /\ cancelled[r]) \/ ScriptEnds(r) \/ Judge(r)
    BY <1>1, <1>3 DEF Step, Backend, BeginTurn, ReadScript, WritePrompt, Spawn, Drained, Return,
                      ScriptEvent, ReadLine, EndOfOutput, StderrLine, AgentBoots, AgentWrites,
                      AgentComplains, AgentEnds, Cancel, Goto
  <2> QED
    BY <2>1, <2>2, <2>3, <2>4, <2>5, <2>6, <2>7
<1> QED
  BY <1>2, <1>3 DEF VerdictIsTheAgents, Failures

-----------------------------------------------------------------------------
\* Before the first turn the invariant holds.
LEMMA InitInv ==
  Init => TurnsIInv
<1> SUFFICES ASSUME Init PROVE TurnsIInv
  OBVIOUS
<1> USE DEF Init
<1>0. MaxRuns \in Nat /\ MaxTurns \in Nat /\ MaxLines \in Nat
  BY TurnAssumption
<1>1. TypeOK
  <2>1. NoAgent \in Agents
    BY <1>0 DEF NoAgent, Agents
  <2>2. agent \in [Runs -> Agents]
    BY <2>1
  <2>3. out \in [Runs -> Seq([type : LineTypes, stop : Stops])] /\ err \in [Runs -> Seq(Complaints)]
    OBVIOUS
  <2>4. /\ turns \in 0..MaxTurns /\ file \in 0..MaxTurns /\ left \in 0..MaxLines
        /\ cur \in [Runs -> 0..MaxTurns]
    BY <1>0
  <2>5. /\ slot \in [Runs -> Verdicts] /\ verdict \in [Runs -> Verdicts]
        /\ signal \in [Runs -> Verdicts]
    BY DEF Verdicts
  <2>6. /\ kind \in Kinds /\ mixed \in BOOLEAN
        /\ pc \in [Runs -> {"idle", "preparing", "launching", "reading", "draining",
                            "reaping", "judged", "script", "over"}]
        /\ report \in [Runs -> {"none", "good", "bad", "wordless"}]
        /\ cancelled \in [Runs -> BOOLEAN] /\ success \in [Runs -> BOOLEAN]
        /\ task \in [Runs -> BOOLEAN]
    OBVIOUS
  <2> QED
    BY <2>2, <2>3, <2>4, <2>5, <2>6 DEF TypeOK
<1>2. AgentsAreRead /\ AgentGetsItsPrompt
  BY DEF AgentsAreRead, AgentGetsItsPrompt, NoAgent
<1>3. FileInv
  BY DEF FileInv, Alone, FileIsOwn, FileHasOwner, VerdictsEndTurns, InTurn
<1>4. PipesAreEmpty /\ VerdictIsTheAgents
  BY DEF PipesAreEmpty, VerdictIsTheAgents
<1>5. \A r \in Runs : ReportIsHeard(r) /\ FailureIsHeard(r)
  BY DEF ReportIsHeard, AsReported, FailureIsHeard
<1> QED
  BY <1>1, <1>2, <1>3, <1>4, <1>5 DEF TurnsIInv

\* And every step keeps it.
LEMMA NextInv ==
  TurnsIInv /\ [Next]_vars => TurnsIInv'
<1> SUFFICES ASSUME TurnsIInv, [Next]_vars PROVE TurnsIInv'
  OBVIOUS
<1> USE DEF TurnsIInv
<1>1. CASE UNCHANGED vars
  <2>1. UNCHANGED <<kind, turns, cur, pc, file, agent, out, err, left, cancelled, success, task,
                    slot, verdict, report, signal, mixed>>
    BY <1>1 DEF vars, turnVars, pipeVars, stderrVars, truthVars
  <2>2. TypeOK'
    BY <2>1 DEF TypeOK
  <2>3. AgentsAreRead' /\ AgentGetsItsPrompt' /\ FileInv'
    BY <2>1 DEF AgentsAreRead, AgentGetsItsPrompt, FileInv, Alone, FileIsOwn, FileHasOwner,
                VerdictsEndTurns, InTurn
  <2>4. PipesAreEmpty' /\ VerdictIsTheAgents'
    BY <2>1 DEF PipesAreEmpty, VerdictIsTheAgents
  <2>5. \A r \in Runs : ReportIsHeard(r)'
    BY <2>1, LinesStay DEF ReportIsHeard, AsReported
  <2>6. \A r \in Runs : FailureIsHeard(r)'
    BY <2>1 DEF FailureIsHeard
  <2> QED
    BY <2>2, <2>3, <2>4, <2>5, <2>6
<1>2. CASE Next
  <2>1. PICK r \in Runs : Step(r)
    BY <1>2 DEF Next, Step
  <2>2. TypeOK' /\ AgentsAreRead' /\ AgentGetsItsPrompt'
    BY <2>1, TypeStep, AgentStep, PromptStep
  <2>3. FileInv'
    BY <2>1, FileStep, VerdictStep DEF FileInv
  <2>4. PipesAreEmpty' /\ VerdictIsTheAgents'
    BY <2>1, PipeStep, TruthStep
  <2>5. \A s \in Runs : ReportIsHeard(s)' /\ FailureIsHeard(s)'
    BY <2>1, ReportStep, FailureStep
  <2> QED
    BY <2>2, <2>3, <2>4, <2>5
<1> QED
  BY <1>1, <1>2

\* The inductive invariant of the turns holds in every behaviour, for any
\* number of runs and lines and for every adapter (local.rs, mock.rs, cli/).
THEOREM TurnsIInvHolds == Spec => []TurnsIInv
BY InitInv, NextInv, PTL DEF Spec

\* Every variable keeps its type; an agent reads the prompt of its turn, as long
\* as the turns of two runs do not overlap; and a prompt file belongs to a turn
\* under way or to one that could not launch (local.rs).
THEOREM TurnsSafe == Spec => []TurnsInv
<1>1. TurnsIInv => TurnsInv
  <2>1. FileHasOwner => PromptFileIsRemoved
    BY DEF FileHasOwner, PromptFileIsRemoved
  <2> QED
    BY <2>1 DEF TurnsIInv, FileInv, TurnsInv
<1> QED
  BY <1>1, TurnsIInvHolds, PTL

\* A turn is judged as the agent means it, in what it reports last and in the
\* first failure it tells on stderr (local.rs, cli/).
THEOREM VerdictsAreTheAgents == Spec => []VerdictIsTheAgents
<1>1. TurnsIInv => VerdictIsTheAgents
  BY DEF TurnsIInv
<1> QED
  BY <1>1, TurnsIInvHolds, PTL

-----------------------------------------------------------------------------
(***************************************************************************)
(* The processes of those turns, for any number of workers and of process  *)
(* numbers: one inductive invariant, ProcInv, of Processes.                *)
(***************************************************************************)

\* The child has not been waited for by its turn.
Unreaped == Attached \cup {"closing"}

\* A turn has a child from its spawn to the drop of the guard, and only then.
ChildOK == \A r \in Workers : child[r] \in Pids <=> at[r] \in {"spawned"} \cup Guarded

\* The system gives the number of a child to nobody else until it is reaped.
NumberTaken == \A r \in Workers : at[r] \in Unreaped => proc[child[r]] # "free"

ChildrenDiffer ==
  \A r, s \in Workers :
    at[r] \in Unreaped /\ at[s] \in Unreaped /\ child[r] = child[s] => r = s

Numbers == ChildOK /\ NumberTaken /\ ChildrenDiffer

ProcInv == ProcTypeOK /\ Numbers /\ AgentsAreOwned /\ RegistryIsCurrent /\ TurnIsWatched

-----------------------------------------------------------------------------
\* What killing groups does to the table of processes.
LEMMA KilledFacts ==
  ASSUME ProcTypeOK, NEW S
  PROVE  /\ GroupsKilled(S) \in [Pids -> {"free", "alive", "dead"}]
         /\ \A p \in Pids :
              /\ GroupsKilled(S)[p] = "alive" <=> proc[p] = "alive" /\ p \notin S
              /\ GroupsKilled(S)[p] = "free" <=> proc[p] = "free"
BY SMT DEF GroupsKilled, ProcTypeOK

LEMMA ProcInitInv == ProcInit => ProcInv
<1> SUFFICES ASSUME ProcInit PROVE ProcInv
  OBVIOUS
<1> USE DEF ProcInit
<1>1. ProcTypeOK
  BY DEF ProcTypeOK
<1>2. Numbers
  BY PidsAssumption DEF Numbers, ChildOK, NumberTaken, ChildrenDiffer, Unreaped, Attached, Guarded
<1>3. AgentsAreOwned /\ TurnIsWatched
  BY DEF AgentsAreOwned, TurnIsWatched
<1>4. RegistryIsCurrent
  BY DEF RegistryIsCurrent, Guarded
<1> QED
  BY <1>1, <1>2, <1>3, <1>4 DEF ProcInv

\* The types are kept.
LEMMA ProcTypeStep ==
  ASSUME ProcTypeOK, ChildOK, [ProcNext]_procVars
  PROVE  ProcTypeOK'
<1> USE DEF ProcTypeOK, downVars
<1>1. ASSUME NEW r \in Workers, CheckFlag(r) PROVE ProcTypeOK'
  BY <1>1 DEF CheckFlag, MoveTo
<1>2. ASSUME NEW r \in Workers, StopRun(r) \/ Exit(r) PROVE ProcTypeOK'
  BY <1>2 DEF StopRun, Exit, MoveTo
<1>3. ASSUME NEW r \in Workers, SpawnChild(r) PROVE ProcTypeOK'
  BY <1>3 DEF SpawnChild, MoveTo
<1>4. ASSUME NEW r \in Workers, Register(r) \/ StartWatchdog(r) PROVE ProcTypeOK'
  <2>1. child[r] \in Pids
    BY <1>4 DEF ChildOK, Guarded, Register, StartWatchdog
  <2> QED
    BY <1>4, <2>1 DEF Register, StartWatchdog, MoveTo
<1>5. ASSUME NEW r \in Workers, OutputEnds(r) \/ Timeout(r) PROVE ProcTypeOK'
  BY <1>5, KilledFacts DEF OutputEnds, Timeout, MoveTo
<1>6. ASSUME NEW r \in Workers, Wait(r) PROVE ProcTypeOK'
  BY <1>6 DEF Wait, MoveTo
<1>7. ASSUME NEW r \in Workers, Leave(r) PROVE ProcTypeOK'
  BY <1>7 DEF Leave, MoveTo
<1>8. ASSUME NEW r \in Workers, NEW p \in Pids, WatchdogFires(r, p) PROVE ProcTypeOK'
  BY <1>8, KilledFacts DEF WatchdogFires
<1>9. ASSUME NEW r \in Workers, CancelRun(r) PROVE ProcTypeOK'
  BY <1>9 DEF CancelRun
<1>10. CASE Signal \/ Panic
  BY <1>10 DEF Signal, Panic, Snapshot
<1>11. CASE GraceOver \/ HookOver
  BY <1>11, KilledFacts DEF GraceOver, HookOver
<1>12. ASSUME NEW p \in Pids, ReapOrphan(p) \/ AgentDies(p) PROVE ProcTypeOK'
  BY <1>12 DEF ReapOrphan, AgentDies
<1>13. CASE UNCHANGED procVars
  BY <1>13 DEF procVars
<1> QED
  BY <1>1, <1>2, <1>3, <1>4, <1>5, <1>6, <1>7, <1>8, <1>9, <1>10, <1>11, <1>12, <1>13
     DEF ProcNext, Daemon, Proceed

-----------------------------------------------------------------------------
\* The numbers of children: who holds which, and that it is taken.
LEMMA NumbersStep ==
  ASSUME ProcTypeOK, Numbers, [ProcNext]_procVars
  PROVE  Numbers'
<1> USE PidsAssumption DEF ProcTypeOK, Numbers, ChildOK, NumberTaken, ChildrenDiffer,
                           Unreaped, Attached, Guarded
<1>1. ASSUME NEW r \in Workers, CheckFlag(r) PROVE Numbers'
  BY <1>1 DEF CheckFlag, MoveTo
<1>2. ASSUME NEW r \in Workers, StopRun(r) \/ Exit(r) PROVE Numbers'
  BY <1>2 DEF StopRun, Exit, MoveTo
<1>3. ASSUME NEW r \in Workers, SpawnChild(r) PROVE Numbers'
  <2>1. PICK p \in Pids : /\ proc[p] = "free"
                          /\ proc' = [proc EXCEPT ![p] = "alive"]
                          /\ child' = [child EXCEPT ![r] = p]
    BY <1>3 DEF SpawnChild
  <2>2. at' = [at EXCEPT ![r] = "spawned"]
    BY <1>3 DEF SpawnChild, MoveTo
  <2>3. ChildOK' /\ NumberTaken'
    BY <2>1, <2>2
  <2>4. ChildrenDiffer'
    BY <2>1, <2>2
  <2> QED
    BY <2>3, <2>4
<1>4. ASSUME NEW r \in Workers, Register(r) \/ StartWatchdog(r) PROVE Numbers'
  BY <1>4 DEF Register, StartWatchdog, MoveTo
<1>5. ASSUME NEW r \in Workers, OutputEnds(r) \/ Timeout(r) PROVE Numbers'
  BY <1>5, KilledFacts DEF OutputEnds, Timeout, MoveTo
<1>6. ASSUME NEW r \in Workers, Wait(r) PROVE Numbers'
  BY <1>6 DEF Wait, MoveTo
<1>7. ASSUME NEW r \in Workers, Leave(r) PROVE Numbers'
  BY <1>7 DEF Leave, MoveTo
<1>8. ASSUME NEW r \in Workers, NEW p \in Pids, WatchdogFires(r, p) PROVE Numbers'
  BY <1>8, KilledFacts DEF WatchdogFires
<1>9. ASSUME NEW r \in Workers, CancelRun(r) PROVE Numbers'
  BY <1>9 DEF CancelRun
<1>10. CASE Signal \/ Panic
  BY <1>10 DEF Signal, Panic, Snapshot
<1>11. CASE GraceOver \/ HookOver
  BY <1>11, KilledFacts DEF GraceOver, HookOver
<1>12. ASSUME NEW p \in Pids, ReapOrphan(p) \/ AgentDies(p) PROVE Numbers'
  BY <1>12 DEF ReapOrphan, AgentDies
<1>13. CASE UNCHANGED procVars
  BY <1>13 DEF procVars
<1> QED
  BY <1>1, <1>2, <1>3, <1>4, <1>5, <1>6, <1>7, <1>8, <1>9, <1>10, <1>11, <1>12, <1>13
     DEF ProcNext, Daemon, Proceed

\* A turn gives up its child only after it has killed it.
LEMMA OwnedStep ==
  ASSUME ProcTypeOK, Numbers, AgentsAreOwned, [ProcNext]_procVars
  PROVE  AgentsAreOwned'
<1> USE DEF ProcTypeOK, AgentsAreOwned, Attached
<1>1. ASSUME NEW r \in Workers, CheckFlag(r) PROVE AgentsAreOwned'
  BY <1>1 DEF CheckFlag, MoveTo
<1>2. ASSUME NEW r \in Workers, StopRun(r) \/ Exit(r) PROVE AgentsAreOwned'
  BY <1>2 DEF StopRun, Exit, MoveTo
<1>3. ASSUME NEW r \in Workers, SpawnChild(r) PROVE AgentsAreOwned'
  BY <1>3 DEF SpawnChild, MoveTo
<1>4. ASSUME NEW r \in Workers, Register(r) \/ StartWatchdog(r) PROVE AgentsAreOwned'
  BY <1>4 DEF Register, StartWatchdog, MoveTo
<1>5. ASSUME NEW r \in Workers, OutputEnds(r) \/ Timeout(r) PROVE AgentsAreOwned'
  BY <1>5, KilledFacts DEF OutputEnds, Timeout, MoveTo
<1>6. ASSUME NEW r \in Workers, Wait(r) PROVE AgentsAreOwned'
  BY <1>6 DEF Wait, MoveTo
<1>7. ASSUME NEW r \in Workers, Leave(r) PROVE AgentsAreOwned'
  BY <1>7 DEF Leave, MoveTo
<1>8. ASSUME NEW r \in Workers, NEW p \in Pids, WatchdogFires(r, p) PROVE AgentsAreOwned'
  BY <1>8, KilledFacts DEF WatchdogFires
<1>9. ASSUME NEW r \in Workers, CancelRun(r) PROVE AgentsAreOwned'
  BY <1>9 DEF CancelRun
<1>10. CASE Signal \/ Panic
  BY <1>10 DEF Signal, Panic, Snapshot
<1>11. CASE GraceOver \/ HookOver
  BY <1>11, KilledFacts DEF GraceOver, HookOver
<1>12. ASSUME NEW p \in Pids, ReapOrphan(p) \/ AgentDies(p) PROVE AgentsAreOwned'
  BY <1>12 DEF ReapOrphan, AgentDies
<1>13. CASE UNCHANGED procVars
  BY <1>13 DEF procVars
<1> QED
  BY <1>1, <1>2, <1>3, <1>4, <1>5, <1>6, <1>7, <1>8, <1>9, <1>10, <1>11, <1>12, <1>13
     DEF ProcNext, Daemon, Proceed

\* Registration and the guard bracket the part of a turn that has a child; the
\* elements of the registry are compared one by one.
LEMMA RegistryStep ==
  ASSUME ProcTypeOK, Numbers, RegistryIsCurrent, [ProcNext]_procVars
  PROVE  RegistryIsCurrent'
<1> DEFINE Entry(r, p) == at[r] \in Guarded /\ p = child[r]
<1>1. registry \subseteq Workers \X Pids
  BY DEF ProcTypeOK
<1>2. \A r \in Workers, p \in Pids : <<r, p>> \in registry <=> Entry(r, p)
  BY DEF RegistryIsCurrent
<1>3. SUFFICES \A r \in Workers, p \in Pids : <<r, p>> \in registry' <=> Entry(r, p)'
  <2>1. registry' \subseteq Workers \X Pids /\ ChildOK'
    BY ProcTypeStep, NumbersStep DEF ProcTypeOK, Numbers
  <2>2. \A r \in Workers : Entry(r, child[r])' => <<r, child[r]>>' \in (Workers \X Pids)
    BY <2>1 DEF ChildOK
  <2> QED
    BY <2>1, <2>2, <1>3 DEF RegistryIsCurrent
<1> USE <1>1, <1>2 DEF ProcTypeOK, Guarded
<1> DEFINE Goal == \A r \in Workers, p \in Pids : <<r, p>> \in registry' <=> Entry(r, p)'
<1>4. ASSUME NEW r \in Workers, CheckFlag(r) \/ StopRun(r) \/ Exit(r) PROVE Goal
  BY <1>4 DEF CheckFlag, StopRun, Exit, MoveTo
<1>5. ASSUME NEW r \in Workers, SpawnChild(r) PROVE Goal
  <2>1. /\ registry' = registry
        /\ at[r] = "preparing"
        /\ at' = [at EXCEPT ![r] = "spawned"]
        /\ \E c \in Pids : child' = [child EXCEPT ![r] = c]
    BY <1>5 DEF SpawnChild, MoveTo
  <2>2. \A p \in Pids : ~Entry(r, p) /\ ~Entry(r, p)'
    BY <2>1
  <2>3. ASSUME NEW s \in Workers, s # r PROVE at'[s] = at[s] /\ child'[s] = child[s]
    BY <2>1, <2>3
  <2> QED
    BY <2>1, <2>2, <2>3
<1>6. ASSUME NEW r \in Workers, Register(r) PROVE Goal
  BY <1>6 DEF Register, MoveTo
<1>7. ASSUME NEW r \in Workers, StartWatchdog(r) PROVE Goal
  BY <1>7 DEF StartWatchdog, MoveTo
<1>8. ASSUME NEW r \in Workers, OutputEnds(r) \/ Timeout(r) \/ Wait(r) PROVE Goal
  BY <1>8 DEF OutputEnds, Timeout, Wait, MoveTo
<1>9. ASSUME NEW r \in Workers, Leave(r) PROVE Goal
  BY <1>9 DEF Leave, MoveTo
<1>10. ASSUME NEW r \in Workers, NEW p \in Pids, WatchdogFires(r, p) PROVE Goal
  BY <1>10 DEF WatchdogFires
<1>11. ASSUME NEW r \in Workers, CancelRun(r) PROVE Goal
  BY <1>11 DEF CancelRun
<1>12. CASE Signal \/ GraceOver \/ Panic \/ HookOver
  BY <1>12 DEF Signal, GraceOver, Panic, HookOver
<1>13. ASSUME NEW p \in Pids, ReapOrphan(p) \/ AgentDies(p) PROVE Goal
  BY <1>13 DEF ReapOrphan, AgentDies
<1>14. CASE UNCHANGED procVars
  BY <1>14 DEF procVars
<1> QED
  BY <1>4, <1>5, <1>6, <1>7, <1>8, <1>9, <1>10, <1>11, <1>12, <1>13, <1>14
     DEF ProcNext, Daemon, Proceed

\* A watchdog leaves only by killing what it watches, and no child that is
\* read from changes its number or comes back to life.
LEMMA WatchedStep ==
  ASSUME ProcTypeOK, Numbers, TurnIsWatched, [ProcNext]_procVars
  PROVE  TurnIsWatched'
<1> USE DEF ProcTypeOK, TurnIsWatched, Numbers, ChildOK, NumberTaken, Unreaped, Attached, Guarded
<1>1. ASSUME NEW r \in Workers, CheckFlag(r) \/ StopRun(r) \/ Exit(r) PROVE TurnIsWatched'
  BY <1>1 DEF CheckFlag, StopRun, Exit, MoveTo
<1>2. ASSUME NEW r \in Workers, SpawnChild(r) PROVE TurnIsWatched'
  BY <1>2 DEF SpawnChild, MoveTo
<1>3. ASSUME NEW r \in Workers, Register(r) PROVE TurnIsWatched'
  BY <1>3 DEF Register, MoveTo
<1>4. ASSUME NEW r \in Workers, StartWatchdog(r) PROVE TurnIsWatched'
  BY <1>4 DEF StartWatchdog, MoveTo
<1>5. ASSUME NEW r \in Workers, OutputEnds(r) \/ Timeout(r) PROVE TurnIsWatched'
  BY <1>5, KilledFacts DEF OutputEnds, Timeout, MoveTo
<1>6. ASSUME NEW r \in Workers, Wait(r) PROVE TurnIsWatched'
  BY <1>6 DEF Wait, MoveTo
<1>7. ASSUME NEW r \in Workers, Leave(r) PROVE TurnIsWatched'
  BY <1>7 DEF Leave, MoveTo
<1>8. ASSUME NEW r \in Workers, NEW p \in Pids, WatchdogFires(r, p) PROVE TurnIsWatched'
  BY <1>8, KilledFacts DEF WatchdogFires
<1>9. ASSUME NEW r \in Workers, CancelRun(r) PROVE TurnIsWatched'
  BY <1>9 DEF CancelRun
<1>10. CASE Signal \/ Panic
  BY <1>10 DEF Signal, Panic, Snapshot
<1>11. CASE GraceOver \/ HookOver
  BY <1>11, KilledFacts DEF GraceOver, HookOver
<1>12. ASSUME NEW p \in Pids, ReapOrphan(p) \/ AgentDies(p) PROVE TurnIsWatched'
  BY <1>12 DEF ReapOrphan, AgentDies
<1>13. CASE UNCHANGED procVars
  BY <1>13 DEF procVars
<1> QED
  BY <1>1, <1>2, <1>3, <1>4, <1>5, <1>6, <1>7, <1>8, <1>9, <1>10, <1>11, <1>12, <1>13
     DEF ProcNext, Daemon, Proceed

LEMMA ProcNextInv == ProcInv /\ [ProcNext]_procVars => ProcInv'
BY ProcTypeStep, NumbersStep, OwnedStep, RegistryStep, WatchedStep DEF ProcInv, Numbers

LEMMA ProcInvHolds == ProcSpec => []ProcInv
BY ProcInitInv, ProcNextInv, PTL DEF ProcSpec

-----------------------------------------------------------------------------
\* On every path of run_turn the agent is killed before its turn gives it up,
\* for any number of runs that share any set of process numbers.
THEOREM NoAgentOutlivesItsTurn == ProcSpec => []AgentsAreOwned
<1>1. ProcInv => AgentsAreOwned
  BY DEF ProcInv
<1> QED
  BY <1>1, ProcInvHolds, PTL

\* The registry is at every moment the set of the children of turns under way.
THEOREM RegistryExact == ProcSpec => []RegistryIsCurrent
<1>1. ProcInv => RegistryIsCurrent
  BY DEF ProcInv
<1> QED
  BY <1>1, ProcInvHolds, PTL

\* No agent is read from that a cancellation would not reach.
THEOREM EveryTurnWatched == ProcSpec => []TurnIsWatched
<1>1. ProcInv => TurnIsWatched
  BY DEF ProcInv
<1> QED
  BY <1>1, ProcInvHolds, PTL
=============================================================================

----------------------------- MODULE AcpSession -----------------------------
(***************************************************************************)
(* A session of the ACP backend (src/agent/backend/acp.rs): the caller of  *)
(* start_session, run_turn and stop_session; the reactor thread that owns  *)
(* the connection and takes prompts from a channel; the agent, a child     *)
(* process in a group of its own (its protocol side is what fake_server.rs *)
(* plays); and whoever sets the cancellation flag.                         *)
(*                                                                         *)
(* The connection is the protocol library's: messages of the agent arrive  *)
(* in order, all prompts of a session share one stream of updates, and it  *)
(* may fail once the agent is dead.  A timer may fire while the message    *)
(* that would have stopped it is on its way.                               *)
(***************************************************************************)
EXTENDS Naturals, Sequences

CONSTANTS
  MaxTurns,    \* prompts of the session
  MaxAsks,     \* permission requests of the agent; its updates never end
  Modes,       \* permission modes the caller uses
  Asks         \* what the agent requests: a tool, and the options it offers

Tools == {"read", "search", "think", "fetch", "edit", "delete", "move",
          "execute", "switch_mode", "other"}

ASSUME AcpAssumption ==
  /\ MaxTurns \in Nat
  /\ MaxAsks \in Nat
  /\ Modes \subseteq {"default", "plan", "acceptEdits", "bypassPermissions"}
  /\ Asks \subseteq [tool : Tools, offers : SUBSET {"allow", "reject"}]

Turns == 1..MaxTurns

StopReasons == {"end_turn", "cancelled", "refusal"}
NoAsk == [tool |-> "other", offers |-> {}]

VARIABLES
  client,     \* where the caller is
  turn,       \* its last turn
  mode,       \* the permission mode of each turn
  result,     \* what run_turn returned
  flag,       \* `cancelled`
  ready,      \* the ready channel: "none", "ok", "error", or "dropped"
  queue,      \* the prompt commands the reactor has not taken
  reactor,    \* where the reactor is
  current,    \* the turn it works on
  said,       \* the prompt of the last text it has seen in this turn, or 0
  cancelSent,
  reply,      \* the result channel of the caller that waits
  child,      \* the agent: "none", "alive" or "dead"
  open,       \* prompts the agent has received and not answered
  asked,      \* its permission requests so far
  stream,     \* messages on their way to the reactor
  allowed     \* the requests granted, and whether the flag was already set

callerVars == <<client, turn, mode, result>>
reactorVars == <<reactor, current, said, cancelSent>>
agentVars == <<child, open, asked>>
vars == <<callerVars, flag, ready, queue, reactorVars, reply, agentVars,
          stream, allowed>>

Outcomes == {"succeeded", "failed", "cancelled"}
Errors == {"turn_failed", "turn_cancelled", "read_timeout", "total_timeout",
           "channel_closed"}

None == [outcome |-> "none", by |-> 0, said |-> 0]
Failure(e) == [outcome |-> e, by |-> 0, said |-> 0]

Init ==
  /\ client = "new" /\ turn = 0
  /\ mode = [t \in Turns |-> "none"]
  /\ result = [t \in Turns |-> None]
  /\ flag = FALSE /\ ready = "none" /\ queue = <<>>
  /\ reactor = "none" /\ current = 0 /\ said = 0 /\ cancelSent = FALSE
  /\ reply = None
  /\ child = "none" /\ open = {} /\ asked = 0
  /\ stream = <<>> /\ allowed = {}

\* kill_pgid: SIGKILL to the group.  What the agent has sent stays in the pipe.
Kill ==
  /\ child' = IF child = "alive" THEN "dead" ELSE child
  /\ open' = {}

\* The session state or a caller inside run_turn holds a sender.
ChannelOpen == client \in {"starting", "ready", "waiting"}

-----------------------------------------------------------------------------
(* The caller.                                                             *)

StartSession ==
  /\ client = "new"
  /\ client' = "starting"
  /\ reactor' = "spawning"
  /\ UNCHANGED <<turn, mode, result, flag, ready, queue, current, said,
                 cancelSent, reply, agentVars, stream, allowed>>

SessionStarted ==
  /\ client = "starting" /\ ready = "ok"
  /\ client' = "ready"
  /\ UNCHANGED <<turn, mode, result, flag, ready, queue, reactorVars, reply,
                 agentVars, stream, allowed>>

\* The reactor reports an error, exits, or session_start_timeout elapses: the
\* state is never stored and the child is left to itself.
StartFails ==
  /\ client = "starting" /\ ready # "ok"
  /\ client' = "failed"
  /\ UNCHANGED <<turn, mode, result, flag, ready, queue, reactorVars, reply,
                 agentVars, stream, allowed>>

\* run_turn: the command goes into the channel, unless the reactor is gone.
RunTurn ==
  /\ client = "ready" /\ turn < MaxTurns
  /\ turn' = turn + 1
  /\ \E m \in Modes : mode' = [mode EXCEPT ![turn + 1] = m]
  /\ IF reactor = "ended"
       THEN /\ result' = [result EXCEPT ![turn + 1] = Failure("turn_failed")]
            /\ UNCHANGED <<client, queue>>
       ELSE /\ queue' = Append(queue, turn + 1)
            /\ client' = "waiting"
            /\ UNCHANGED result
  /\ UNCHANGED <<flag, ready, reactorVars, reply, agentVars, stream, allowed>>

TurnReturns ==
  /\ client = "waiting" /\ reply # None
  /\ result' = [result EXCEPT ![turn] = reply]
  /\ client' = "ready"
  /\ reply' = None
  /\ UNCHANGED <<turn, mode, flag, ready, queue, reactorVars, agentVars,
                 stream, allowed>>

\* seeded fault: turn_timeout starts again with every update
TotalTimeoutPerUpdate ==
  /\ client = "waiting" /\ reply = None
  /\ reactor = "reading" /\ stream = <<>>
  /\ Kill
  /\ result' = [result EXCEPT ![turn] = Failure("total_timeout")]
  /\ client' = "ready"
  /\ UNCHANGED <<turn, mode, flag, ready, queue, reactorVars, reply, asked,
                 stream, allowed>>

\* turn_timeout: the group is killed; the session state stays.
TotalTimeout ==
  /\ client = "waiting" /\ reply = None
  /\ Kill
  /\ result' = [result EXCEPT ![turn] = Failure("total_timeout")]
  /\ client' = "ready"
  /\ UNCHANGED <<turn, mode, flag, ready, queue, reactorVars, reply, asked,
                 stream, allowed>>

StopSession ==
  /\ client = "ready"
  /\ client' = "stopped"
  /\ Kill
  /\ UNCHANGED <<turn, mode, result, flag, ready, queue, reactorVars, reply,
                 asked, stream, allowed>>

\* The operator cancels the run: the flag of all its turns.
Cancel ==
  /\ ~flag
  /\ flag' = TRUE
  /\ UNCHANGED <<callerVars, ready, queue, reactorVars, reply, agentVars,
                 stream, allowed>>

-----------------------------------------------------------------------------
(* run_reactor.                                                            *)

\* The variables of process_one_turn go out of scope.
LocalsGone == current' = 0 /\ said' = 0 /\ cancelSent' = FALSE

\* A result for the caller that waits, unless it has one.
Send(r) ==
  reply' = IF client = "waiting" /\ reply = None THEN r ELSE reply

\* When the reactor returns, the channel ends it holds are dropped: a caller
\* that waits gets an error.  The child is not killed.
ReactorEnds ==
  /\ reactor' = "ended"
  /\ ready' = IF ready = "none" THEN "dropped" ELSE ready
  /\ Send(Failure("channel_closed"))
  /\ queue' = <<>>
  /\ LocalsGone
  /\ UNCHANGED <<callerVars, flag, agentVars, stream, allowed>>

SpawnFails ==
  /\ reactor = "spawning"
  /\ reactor' = "ended"
  /\ ready' = "error"
  /\ UNCHANGED <<callerVars, flag, queue, current, said, cancelSent, reply,
                 agentVars, stream, allowed>>

SpawnAgent ==
  /\ reactor = "spawning"
  /\ child' = "alive"
  /\ reactor' = "initialize"
  /\ UNCHANGED <<callerVars, flag, ready, queue, current, said, cancelSent,
                 reply, open, asked, stream, allowed>>

\* initialize is answered with a version the check accepts; then session/new.
HandshakeStep ==
  /\ child = "alive"
  /\ \/ reactor = "initialize" /\ reactor' = "session_new" /\ UNCHANGED ready
     \/ reactor = "session_new" /\ reactor' = "idle" /\ ready' = "ok"
  /\ UNCHANGED <<callerVars, flag, queue, current, said, cancelSent, reply,
                 agentVars, stream, allowed>>

\* An error, an old protocol version, or read_timeout.
HandshakeFails ==
  /\ reactor \in {"initialize", "session_new"}
  /\ ReactorEnds

\* The connection notices that the agent is dead, or does not.
ConnectionFails ==
  /\ reactor \in {"idle", "top", "reading"}
  /\ child = "dead"
  /\ ReactorEnds

\* Nobody holds a sender any more.
LastSenderGone ==
  /\ reactor = "idle" /\ queue = <<>> /\ ~ChannelOpen
  /\ ReactorEnds

-----------------------------------------------------------------------------
(* process_one_turn.                                                       *)

TakePrompt ==
  /\ reactor = "idle" /\ queue # <<>>
  /\ queue' = Tail(queue)
  /\ current' = Head(queue)
  /\ reactor' = "top"
  /\ open' = IF child = "alive" THEN open \cup {Head(queue)} ELSE open
  /\ UNCHANGED <<callerVars, flag, ready, said, cancelSent, reply, child, asked,
                 stream, allowed>>

\* The cancel notification, once, when the flag is seen; then the next read.
LoopTop ==
  /\ reactor = "top"
  /\ reactor' = "reading"
  /\ cancelSent' = (cancelSent \/ flag)
  /\ UNCHANGED <<callerVars, flag, ready, queue, current, said, reply,
                 agentVars, stream, allowed>>

\* The turn's result is sent, to a caller that may have given up.
Answer(r) ==
  /\ IF current = turn THEN Send(r) ELSE UNCHANGED reply
  /\ reactor' = "idle"
  /\ LocalsGone

Receive(kinds) ==
  /\ reactor = "reading" /\ stream # <<>>
  /\ Head(stream).kind \in kinds
  /\ stream' = Tail(stream)

MapStopReason(reason, cancelling) ==
  CASE reason = "cancelled" -> "cancelled"
    [] reason = "end_turn"  -> IF cancelling THEN "cancelled" ELSE "succeeded"
    [] OTHER                -> "failed"

\* seeded fault: what the agent says is what the turn did
ReceiveStopTrusting ==
  /\ Receive(StopReasons)
  /\ Answer([outcome |-> MapStopReason(Head(stream).kind, FALSE),
             by |-> Head(stream).prompt, said |-> said])
  /\ UNCHANGED <<callerVars, flag, ready, queue, agentVars, allowed>>

\* The stop reason that arrives ends the turn under way, whichever prompt the
\* agent answers with it.
ReceiveStop ==
  /\ Receive(StopReasons)
  /\ Answer([outcome |-> MapStopReason(Head(stream).kind, cancelSent),
             by |-> Head(stream).prompt, said |-> said])
  /\ UNCHANGED <<callerVars, flag, ready, queue, agentVars, allowed>>

\* A text becomes the last message.  Other updates, which are only passed on,
\* differ from it in nothing a property reads.
ReceiveUpdate ==
  /\ Receive({"text"})
  /\ said' = Head(stream).prompt
  /\ reactor' = "top"
  /\ UNCHANGED <<callerVars, flag, ready, queue, current, cancelSent, reply,
                 agentVars, allowed>>

\* Permission mode and tool kind: allow or reject.
Matrix(m, tool) ==
  IF \/ m \in {"bypassPermissions", "acceptEdits"}
     \/ m = "plan" /\ tool \in {"read", "search", "think", "fetch"}
     \/ m = "default" /\ tool # "execute"
    THEN "allow" ELSE "reject"

\* seeded fault: an option to allow is taken whenever there is one
DecideOffered(offers, m, tool, cancelling) ==
  CASE cancelling -> "cancelled"
    [] ~cancelling /\ "allow" \in offers -> "allow"
    [] OTHER -> "cancelled"

\* decide_permission: the matrix's verdict if the agent offers it.
Decide(offers, m, tool, cancelling) ==
  IF ~cancelling /\ Matrix(m, tool) \in offers
    THEN Matrix(m, tool) ELSE "cancelled"

\* A permission request is decided under the options of the turn under way.
ReceiveAsk ==
  /\ Receive({"ask"})
  /\ LET m == Head(stream)
         a == [prompt |-> m.prompt, tool |-> m.ask.tool, number |-> m.number,
               late |-> flag]
     IN allowed' =
          IF Decide(m.ask.offers, mode[current], m.ask.tool, cancelSent) = "allow"
            THEN allowed \cup {a} ELSE allowed
  /\ reactor' = "top"
  /\ UNCHANGED <<callerVars, flag, ready, queue, current, said, cancelSent,
                 reply, agentVars>>

\* read_update reports that the connection is gone; the reactor goes on.
ReadFails ==
  /\ reactor = "reading" /\ child = "dead"
  /\ Answer(Failure("turn_failed"))
  /\ UNCHANGED <<callerVars, flag, ready, queue, agentVars, stream, allowed>>

\* No update for cancel_grace after the cancel notification.
GraceElapsed ==
  /\ reactor = "reading" /\ cancelSent
  /\ Kill
  /\ Answer(Failure("turn_cancelled"))
  /\ UNCHANGED <<callerVars, flag, ready, queue, asked, stream, allowed>>

\* seeded fault: a turn without progress is reported as a failed outcome
ProgressTimeoutAsOutcome ==
  /\ reactor = "reading" /\ ~cancelSent
  /\ Answer([outcome |-> "failed", by |-> current, said |-> said])
  /\ UNCHANGED <<callerVars, flag, ready, queue, agentVars, stream, allowed>>

\* No update for tool_progress_timeout: the prompt is neither cancelled nor is
\* its agent killed.
ProgressTimeout ==
  /\ reactor = "reading" /\ ~cancelSent
  /\ Answer(Failure("read_timeout"))
  /\ UNCHANGED <<callerVars, flag, ready, queue, agentVars, stream, allowed>>

-----------------------------------------------------------------------------
(* The agent: updates, permission requests and at last a stop reason for   *)
(* each prompt it has received.  It need not ever answer.                  *)

Message(p, k, a) == [prompt |-> p, kind |-> k, ask |-> a, number |-> asked]

\* Updates without end, one at a time on its way.
AgentUpdates(p) ==
  /\ child = "alive" /\ p \in open /\ stream = <<>>
  /\ stream' = Append(stream, Message(p, "text", NoAsk))
  /\ UNCHANGED <<callerVars, flag, ready, queue, reactorVars, reply, agentVars,
                 allowed>>

AgentAsks(p) ==
  /\ child = "alive" /\ p \in open /\ stream = <<>>
  /\ asked < MaxAsks
  /\ asked' = asked + 1
  /\ \E a \in Asks : stream' = Append(stream, Message(p, "ask", a))
  /\ UNCHANGED <<callerVars, flag, ready, queue, reactorVars, reply, child,
                 open, allowed>>

AgentStops(p) ==
  /\ child = "alive" /\ p \in open
  /\ \E k \in StopReasons : stream' = Append(stream, Message(p, k, NoAsk))
  /\ open' = open \ {p}
  /\ UNCHANGED <<callerVars, flag, ready, queue, reactorVars, reply, child,
                 asked, allowed>>

AgentDies ==
  /\ child = "alive"
  /\ Kill
  /\ UNCHANGED <<callerVars, flag, ready, queue, reactorVars, reply, asked,
                 stream, allowed>>

-----------------------------------------------------------------------------
Turn == TakePrompt \/ LoopTop \/ ReceiveStop \/ ReceiveUpdate \/ ReceiveAsk
        \/ GraceElapsed \/ ProgressTimeout

Reactor == SpawnFails \/ SpawnAgent \/ HandshakeFails \/ LastSenderGone \/ Turn

Caller == StartSession \/ SessionStarted \/ StartFails \/ RunTurn
          \/ TurnReturns \/ TotalTimeout \/ StopSession

Agent == AgentDies \/ \E p \in Turns : AgentUpdates(p) \/ AgentAsks(p) \/ AgentStops(p)

Next == Caller \/ Cancel \/ Reactor \/ HandshakeStep \/ ConnectionFails
        \/ ReadFails \/ Agent

Spec == Init /\ [][Next]_vars

\* The reactor thread runs and its timers fire; a caller that waits is woken
\* by the result or by turn_timeout.  Nothing is asked of the agent.
Fairness == WF_vars(Reactor) /\ WF_vars(TurnReturns) /\ WF_vars(TotalTimeout)

FairSpec == Spec /\ Fairness

-----------------------------------------------------------------------------
Result == [outcome : {"none"} \cup Outcomes \cup Errors, by : 0..MaxTurns,
           said : 0..MaxTurns]
Messages == [prompt : Turns, kind : {"text", "ask"} \cup StopReasons,
             ask : Asks \cup {NoAsk}, number : 0..MaxAsks]
Grants == [prompt : Turns, tool : Tools, number : 0..MaxAsks, late : BOOLEAN]

\* Every variable keeps its type.
TypeOK ==
  /\ client \in {"new", "starting", "ready", "waiting", "failed", "stopped"}
  /\ turn \in 0..MaxTurns
  /\ mode \in [Turns -> Modes \cup {"none"}]
  /\ result \in [Turns -> Result] /\ reply \in Result
  /\ flag \in BOOLEAN /\ cancelSent \in BOOLEAN
  /\ ready \in {"none", "ok", "error", "dropped"}
  /\ queue \in Seq(Turns)
  /\ reactor \in {"none", "spawning", "initialize", "session_new", "idle",
                  "top", "reading", "ended"}
  /\ current \in 0..MaxTurns /\ said \in 0..MaxTurns
  /\ child \in {"none", "alive", "dead"}
  /\ open \subseteq Turns
  /\ asked \in 0..MaxAsks
  /\ stream \in Seq(Messages)
  /\ allowed \subseteq Grants

\* run_turn on this session returned an error for some turn up to t.
ErrorBy(t) == \E s \in Turns : s <= t /\ result[s].outcome \in Errors

\* What a turn returns is the agent's answer to its own prompt, and the last
\* message is of that answer, unless an earlier run_turn of the session has
\* returned an error: the late stop reason of an abandoned prompt is taken by
\* the next one.  A caller must stop the session after an error.
AnswersAreOwn ==
  \A t \in Turns :
    result[t].outcome \in Outcomes =>
      \/ result[t].by = t /\ result[t].said \in {0, t}
      \/ ErrorBy(t - 1)

\* Once the flag is set at most one more permission is granted, the request
\* the reactor was already waiting for: it looks at the flag between updates.
GrantsEndAfterCancel ==
  \A g, h \in allowed : g.late /\ h.late => g = h

\* A tool is only allowed as the mode of the prompt it was asked for permits,
\* unless that prompt or an earlier one has ended in an error.
GrantsMatchMode ==
  \A g \in allowed :
    Matrix(mode[g.prompt], g.tool) = "allow" \/ ErrorBy(g.prompt)

\* The agent is dead, for good, once the caller has been told that a turn was
\* killed or has stopped the session.
KillsAreFinal ==
  child = "alive" =>
    /\ client # "stopped"
    /\ \A t \in Turns : result[t].outcome \notin {"turn_cancelled", "total_timeout"}

\* What a session never does, however the threads, the agent and the caller
\* interleave: a tool is allowed against the mode or long after the
\* cancellation, or an agent lives on that was reported killed (acp.rs,
\* permission.rs).
SessionInv ==
  TypeOK /\ GrantsEndAfterCancel /\ GrantsMatchMode /\ KillsAreFinal

\* A turn that starts after the cancellation never counts as a success, even
\* if the agent ends it without noticing.
CancelledTurnsFail ==
  \A t \in Turns : [](flag /\ turn < t => [](result[t].outcome # "succeeded"))

\* run_turn returns, whatever the agent does: one that keeps sending updates
\* is stopped by turn_timeout.
TurnsReturn == client = "waiting" ~> client # "waiting"

=============================================================================

-------------------------- MODULE AcpSessionProofs --------------------------
(***************************************************************************)
(* The safety properties of AcpSession, for any number of turns, requests  *)
(* and modes: one inductive invariant, AcpInv, and one that holds from the *)
(* cancellation on, CancelledInv.                                          *)
(***************************************************************************)
EXTENDS AcpSession, TLAPS

Positions == 1..Len(stream)

\* The agent may still send, or has sent, something for prompt p.
InFlight(p) == p \in open \/ \E i \in Positions : stream[i].prompt = p

Running == {"top", "reading"}

\* A session that has turns has started well, and an agent is started before.
StartComesFirst ==
  /\ client = "new" => reactor = "none"
  /\ reactor \in {"none", "spawning", "initialize", "session_new"} => ready = "none"
  /\ client \in {"new", "starting", "failed"} => turn = 0
  /\ client \in {"ready", "waiting", "stopped"} => ready = "ok"
  /\ turn > 0 => ready = "ok"

\* A result is stored once, for the turn the caller waits for.
OneResult ==
  /\ client # "waiting" => reply = None
  /\ client = "waiting" => turn > 0 /\ result[turn] = None
  /\ \A t \in Turns : t > turn => result[t] = None

\* Prompts are taken in the order of the turns.
InOrder ==
  /\ current # 0 <=> reactor \in Running
  /\ current <= turn
  /\ \A i \in 1..Len(queue) : current < queue[i] /\ queue[i] <= turn
  /\ \A i, j \in 1..Len(queue) : i < j => queue[i] < queue[j]
  /\ \A p \in Turns : InFlight(p) =>
       /\ p <= turn
       /\ current # 0 => p <= current
       /\ \A i \in 1..Len(queue) : p < queue[i]

Failed(t) == result[t].outcome \in Errors

\* The caller waits for turn t, and there is no answer yet.
Awaited(t) == t = turn /\ client = "waiting" /\ reply = None

\* What the reactor works on, or will, is awaited or has been given up.
AwaitedOrFailed ==
  /\ current # 0 => Failed(current) \/ Awaited(current)
  /\ \A i \in 1..Len(queue) : Failed(queue[i]) \/ Awaited(queue[i])

\* The error of turn t is on its way to the caller.
ErrorDue(t) == t = turn /\ client = "waiting" /\ reply.outcome \in Errors

\* Who else than the prompt under way is heard of has been given up.
OthersFailed ==
  \A p \in Turns : InFlight(p) => p = current \/ ErrorBy(p) \/ ErrorDue(p)

\* The stop reason is the last that is heard of a prompt.
StopIsLast ==
  \A i \in Positions : stream[i].kind \in StopReasons =>
    /\ stream[i].prompt \notin open
    /\ \A j \in Positions : i < j => stream[j].prompt # stream[i].prompt

\* The last text and the answer on its way are those of the prompt under way,
\* or an earlier turn has failed.
SaidIsOwn == said \in {0, current} \/ ErrorBy(current - 1)

ReplyIsOwn ==
  reply.outcome \in Outcomes =>
    \/ reply.by = turn /\ reply.said \in {0, turn}
    \/ ErrorBy(turn - 1)

\* After a late grant the flag is known to the reactor whenever it reads.
LateGrantIsNoticed ==
  (\E g \in allowed : g.late) => flag /\ (reactor = "reading" => cancelSent)

GrantsArePast == \A g \in allowed : g.prompt <= turn

ReplyOfKilled == reply.outcome \in {"turn_cancelled", "total_timeout"} => child # "alive"

Bookkeeping ==
  /\ StartComesFirst /\ OneResult /\ InOrder /\ AwaitedOrFailed /\ OthersFailed
  /\ StopIsLast

AcpInv ==
  /\ TypeOK /\ Bookkeeping
  /\ SaidIsOwn /\ ReplyIsOwn /\ LateGrantIsNoticed /\ GrantsArePast /\ ReplyOfKilled
  /\ AnswersAreOwn /\ GrantsEndAfterCancel /\ GrantsMatchMode /\ KillsAreFinal

CancelledInv(t) ==
  /\ flag
  /\ result[t].outcome # "succeeded"
  /\ turn = t => reply.outcome # "succeeded"
  /\ current = t /\ reactor = "reading" => cancelSent

-----------------------------------------------------------------------------
USE DEF callerVars, reactorVars, agentVars

\* The bounds are naturals.
LEMMA BoundsType ==
  MaxTurns \in Nat /\ MaxAsks \in Nat /\ 0 \in 0..MaxTurns /\ Turns \subseteq Nat \ {0}
BY AcpAssumption DEF Turns

\* What a turn may return is a result.
LEMMA ResultType ==
  /\ None \in Result
  /\ \A e \in Errors : Failure(e) \in Result
  /\ \A o \in Outcomes, t \in Turns, u \in 0..MaxTurns :
       [outcome |-> o, by |-> t, said |-> u] \in Result
BY AcpAssumption DEF Result, None, Failure, Outcomes, Errors, Turns

\* What the agent sends is a message.
LEMMA MessageType ==
  ASSUME NEW p \in Turns, TypeOK
  PROVE  /\ Message(p, "text", NoAsk) \in Messages
         /\ \A k \in StopReasons : Message(p, k, NoAsk) \in Messages
         /\ \A a \in Asks : Message(p, "ask", a) \in Messages
BY DEF Message, Messages, TypeOK

\* What is received is a message.
LEMMA ReceiveType ==
  ASSUME TypeOK, NEW K, Receive(K)
  PROVE  /\ Head(stream) \in Messages /\ stream' \in Seq(Messages)
         /\ Head(stream).prompt \in Turns
         /\ Head(stream).kind \in K
<1>1. Head(stream) \in Messages /\ stream' \in Seq(Messages)
  BY DEF Receive, TypeOK
<1> QED
  BY <1>1 DEF Receive, Messages

\* A stop reason is mapped to an outcome, never to an error.
LEMMA MapStopReasonType ==
  \A k, c : MapStopReason(k, c) \in Outcomes
BY DEF MapStopReason, Outcomes

\* The types are kept.
LEMMA TypeStep ==
  ASSUME TypeOK, [Next]_vars
  PROVE  TypeOK'
<1> USE DEF TypeOK
<1>1. CASE StartSession \/ SessionStarted \/ StartFails \/ Cancel
  BY <1>1 DEF StartSession, SessionStarted, StartFails, Cancel
<1>2. CASE RunTurn
  <2>1. turn + 1 \in Turns /\ turn' \in 0..MaxTurns
    BY <1>2, BoundsType DEF RunTurn, Turns
  <2>2. Failure("turn_failed") \in Result
    BY ResultType DEF Errors
  <2>3. mode' \in [Turns -> Modes \cup {"none"}]
    BY <1>2, <2>1 DEF RunTurn
  <2>4. result' \in [Turns -> Result]
    BY <1>2, <2>1, <2>2 DEF RunTurn
  <2>5. queue' \in Seq(Turns)
    <3>1. queue' \in {queue, Append(queue, turn + 1)}
      BY <1>2 DEF RunTurn
    <3>2. queue \in Seq(Turns)
      OBVIOUS
    <3> HIDE DEF TypeOK
    <3> QED
      BY <2>1, <3>1, <3>2
  <2>6. client' \in {"ready", "waiting"}
    BY <1>2 DEF RunTurn
  <2> QED
    BY <1>2, <2>1, <2>3, <2>4, <2>5, <2>6 DEF RunTurn
<1>3. CASE TurnReturns
  BY <1>3, ResultType DEF TurnReturns
<1>4. CASE TotalTimeout \/ StopSession
  <2>1. Failure("total_timeout") \in Result
    BY ResultType DEF Errors
  <2> QED
    BY <1>4, <2>1 DEF TotalTimeout, StopSession, Kill
<1>5. CASE HandshakeFails \/ ConnectionFails \/ LastSenderGone
  <2>1. Failure("channel_closed") \in Result
    BY ResultType DEF Errors
  <2>2. ReactorEnds
    BY <1>5 DEF HandshakeFails, ConnectionFails, LastSenderGone
  <2>3. reply' \in Result
    BY <2>1, <2>2 DEF ReactorEnds, Send
  <2>4. queue' \in Seq(Turns)
    BY <2>2 DEF ReactorEnds
  <2>5. current' \in 0..MaxTurns /\ said' \in 0..MaxTurns /\ cancelSent' \in BOOLEAN
    BY <2>2, BoundsType DEF ReactorEnds, LocalsGone
  <2> QED
    BY <2>2, <2>3, <2>4, <2>5 DEF ReactorEnds
<1>6. CASE SpawnFails \/ SpawnAgent \/ HandshakeStep
  BY <1>6 DEF SpawnFails, SpawnAgent, HandshakeStep
<1>7. CASE TakePrompt
  <2>1. Head(queue) \in Turns /\ Tail(queue) \in Seq(Turns)
    BY <1>7 DEF TakePrompt
  <2>2. current' \in 0..MaxTurns
    BY <1>7, <2>1 DEF TakePrompt, Turns
  <2>3. open' \subseteq Turns
    BY <1>7, <2>1 DEF TakePrompt
  <2> QED
    BY <1>7, <2>1, <2>2, <2>3 DEF TakePrompt
<1>8. CASE LoopTop
  BY <1>8 DEF LoopTop
<1>9. CASE ReceiveStop
  <2>1. Receive(StopReasons)
    BY <1>9 DEF ReceiveStop
  <2> DEFINE r == [outcome |-> MapStopReason(Head(stream).kind, cancelSent),
                   by |-> Head(stream).prompt, said |-> said]
  <2>2. r \in Result
    BY <2>1, ReceiveType, MapStopReasonType, ResultType
  <2>3. stream' \in Seq(Messages) /\ Answer(r)
    BY <1>9, <2>1, ReceiveType DEF ReceiveStop
  <2>4. reply' \in Result
    BY <2>2, <2>3 DEF Answer, Send
  <2>5. current' \in 0..MaxTurns /\ said' \in 0..MaxTurns /\ cancelSent' \in BOOLEAN
    BY <2>3, BoundsType DEF Answer, LocalsGone
  <2> QED
    BY <1>9, <2>3, <2>4, <2>5 DEF ReceiveStop, Answer
<1>10. CASE ReceiveUpdate
  <2>1. Head(stream).prompt \in 0..MaxTurns /\ stream' \in Seq(Messages)
    BY <1>10, ReceiveType DEF ReceiveUpdate, Turns
  <2> QED
    BY <1>10, <2>1 DEF ReceiveUpdate
<1>11. CASE ReceiveAsk
  <2>1. Head(stream) \in Messages /\ stream' \in Seq(Messages)
    BY <1>11, ReceiveType DEF ReceiveAsk
  <2>2. [prompt |-> Head(stream).prompt, tool |-> Head(stream).ask.tool,
         number |-> Head(stream).number, late |-> flag] \in Grants
    <3>1. Head(stream).ask.tool \in Tools
      BY <2>1, AcpAssumption DEF Messages, Tools, NoAsk
    <3> QED
      BY <2>1, <3>1 DEF Messages, Grants
  <2> QED
    BY <1>11, <2>1, <2>2 DEF ReceiveAsk
<1>12. CASE GraceElapsed \/ ReadFails \/ ProgressTimeout
  <2>1. \A e \in {"turn_failed", "turn_cancelled", "read_timeout"} : Failure(e) \in Result
    BY ResultType DEF Errors
  <2>2. PICK e \in {"turn_failed", "turn_cancelled", "read_timeout"} : Answer(Failure(e))
    BY <1>12 DEF GraceElapsed, ReadFails, ProgressTimeout
  <2>3. reply' \in Result
    BY <2>1, <2>2 DEF Answer, Send
  <2>4. current' \in 0..MaxTurns /\ said' \in 0..MaxTurns /\ cancelSent' \in BOOLEAN
    BY <2>2, BoundsType DEF Answer, LocalsGone
  <2>5. reactor' = "idle"
    BY <2>2 DEF Answer
  <2>6. child' \in {"none", "alive", "dead"} /\ open' \subseteq Turns
    BY <1>12 DEF GraceElapsed, ReadFails, ProgressTimeout, Kill
  <2> QED
    BY <1>12, <2>3, <2>4, <2>5, <2>6 DEF GraceElapsed, ReadFails, ProgressTimeout
<1>13. ASSUME NEW p \in Turns, AgentUpdates(p) PROVE TypeOK'
  BY <1>13, MessageType DEF AgentUpdates
<1>14. ASSUME NEW p \in Turns, AgentAsks(p) PROVE TypeOK'
  <2>1. stream' \in Seq(Messages)
    BY <1>14, MessageType DEF AgentAsks
  <2>2. asked' \in 0..MaxAsks
    BY <1>14, BoundsType DEF AgentAsks
  <2> QED
    BY <1>14, <2>1, <2>2 DEF AgentAsks
<1>15. ASSUME NEW p \in Turns, AgentStops(p) PROVE TypeOK'
  BY <1>15, MessageType DEF AgentStops
<1>16. CASE AgentDies
  BY <1>16 DEF AgentDies, Kill
<1>17. CASE UNCHANGED vars
  BY <1>17 DEF vars
<1> QED
  BY <1>1, <1>2, <1>3, <1>4, <1>5, <1>6, <1>7, <1>8, <1>9, <1>10, <1>11, <1>12, <1>13,
     <1>14, <1>15, <1>16, <1>17 DEF Next, Caller, Reactor, Turn, Agent

-----------------------------------------------------------------------------
\* What starts the session is over before there are turns.
LEMMA StartStep ==
  ASSUME TypeOK, StartComesFirst, InOrder, [Next]_vars
  PROVE  StartComesFirst'
<1>1. turn \in Nat
  BY DEF TypeOK
<1>2. turn > 0 => reactor \notin {"none", "spawning", "initialize", "session_new"}
  BY DEF StartComesFirst
<1> USE <1>1, <1>2 DEF StartComesFirst
<1>3. CASE StartSession \/ SessionStarted \/ StartFails \/ StopSession \/ TotalTimeout
  BY <1>3 DEF StartSession, SessionStarted, StartFails, StopSession, TotalTimeout
<1>4. CASE RunTurn
  BY <1>4 DEF RunTurn
<1>5. CASE TurnReturns \/ Cancel \/ SpawnFails \/ SpawnAgent \/ HandshakeStep
  BY <1>5 DEF TurnReturns, Cancel, SpawnFails, SpawnAgent, HandshakeStep
<1>6. CASE HandshakeFails \/ ConnectionFails \/ LastSenderGone
  BY <1>6 DEF HandshakeFails, ConnectionFails, LastSenderGone, ReactorEnds
<1>7. CASE GraceElapsed \/ ReadFails \/ ProgressTimeout
  BY <1>7 DEF GraceElapsed, ReadFails, ProgressTimeout, Answer
<1>8. CASE TakePrompt \/ LoopTop \/ ReceiveStop \/ ReceiveUpdate \/ ReceiveAsk
  <2>1. UNCHANGED <<client, turn, ready>> /\ reactor' \in {"idle", "top", "reading"}
    BY <1>8 DEF TakePrompt, LoopTop, ReceiveStop, Answer, ReceiveUpdate, ReceiveAsk
  <2>2. reactor # "none"
    BY <1>8 DEF TakePrompt, LoopTop, ReceiveStop, ReceiveUpdate, ReceiveAsk, Receive
  <2> QED
    BY <2>1, <2>2
<1>9. ASSUME NEW p \in Turns, AgentUpdates(p) \/ AgentAsks(p) \/ AgentStops(p)
      PROVE  StartComesFirst'
  BY <1>9 DEF AgentUpdates, AgentAsks, AgentStops
<1>10. CASE AgentDies \/ UNCHANGED vars
  BY <1>10 DEF AgentDies, vars
<1> QED
  BY <1>3, <1>4, <1>5, <1>6, <1>7, <1>8, <1>9, <1>10 DEF Next, Caller, Reactor, Turn, Agent

\* A result is stored for the turn the caller waits for, and only then.
LEMMA ResultStep ==
  ASSUME TypeOK, StartComesFirst, OneResult, [Next]_vars
  PROVE  OneResult'
<1>1. turn \in Nat /\ result \in [Turns -> Result] /\ Turns \subseteq Nat
  BY BoundsType DEF TypeOK
<1> USE <1>1 DEF OneResult
<1>2. CASE StartSession \/ SessionStarted \/ StartFails \/ StopSession
  BY <1>2 DEF StartSession, SessionStarted, StartFails, StopSession
<1>3. CASE RunTurn
  <2>1. turn + 1 \in Turns
    BY <1>3, BoundsType DEF RunTurn, TypeOK, Turns
  <2> QED
    BY <1>3, <2>1 DEF RunTurn
<1>4. CASE TurnReturns \/ TotalTimeout
  BY <1>4 DEF TurnReturns, TotalTimeout
<1>5. CASE Cancel \/ SpawnFails \/ SpawnAgent \/ HandshakeStep
  BY <1>5 DEF Cancel, SpawnFails, SpawnAgent, HandshakeStep
<1>6. CASE HandshakeFails \/ ConnectionFails \/ LastSenderGone
  BY <1>6 DEF HandshakeFails, ConnectionFails, LastSenderGone, ReactorEnds, Send
<1>7. CASE GraceElapsed \/ ReadFails \/ ProgressTimeout \/ ReceiveStop
  BY <1>7 DEF GraceElapsed, ReadFails, ProgressTimeout, ReceiveStop, Answer, Send
<1>8. CASE TakePrompt \/ LoopTop \/ ReceiveUpdate \/ ReceiveAsk
  BY <1>8 DEF TakePrompt, LoopTop, ReceiveUpdate, ReceiveAsk
<1>9. ASSUME NEW p \in Turns, AgentUpdates(p) \/ AgentAsks(p) \/ AgentStops(p)
      PROVE  OneResult'
  BY <1>9 DEF AgentUpdates, AgentAsks, AgentStops
<1>10. CASE AgentDies \/ UNCHANGED vars
  BY <1>10 DEF AgentDies, vars
<1> QED
  BY <1>2, <1>3, <1>4, <1>5, <1>6, <1>7, <1>8, <1>9, <1>10 DEF Next, Caller, Reactor, Turn, Agent

-----------------------------------------------------------------------------
\* How the stream and the set of open prompts may move together.
StreamRests == stream' = stream /\ open' \subseteq open
StreamIsRead == stream # <<>> /\ stream' = Tail(stream) /\ open' = open
PromptIsTaken ==
  TakePrompt /\ stream' = stream /\ open' \subseteq open \cup {Head(queue)}
AgentSpeaks(m) ==
  /\ m.prompt \in open /\ stream' = Append(stream, m)
  /\ open' = IF m.kind \in StopReasons THEN open \ {m.prompt} ELSE open

\* A step moves the stream of messages in one of four ways.
LEMMA StreamMoves ==
  ASSUME TypeOK, [Next]_vars
  PROVE  \/ StreamRests \/ StreamIsRead \/ PromptIsTaken
         \/ \E m \in Messages : AgentSpeaks(m)
<1> DEFINE Goal == \/ StreamRests \/ StreamIsRead \/ PromptIsTaken
                  \/ \E m \in Messages : AgentSpeaks(m)
<1>1. CASE Caller \/ Cancel
  <2>1. StreamRests
    BY <1>1 DEF Caller, StartSession, SessionStarted, StartFails, RunTurn, TurnReturns,
                TotalTimeout, StopSession, Cancel, Kill, StreamRests
  <2> QED
    BY <2>1
<1>2. CASE SpawnFails \/ SpawnAgent \/ HandshakeStep \/ LoopTop
  BY <1>2 DEF SpawnFails, SpawnAgent, HandshakeStep, LoopTop, StreamRests
<1>3. CASE HandshakeFails \/ ConnectionFails \/ LastSenderGone
  BY <1>3 DEF HandshakeFails, ConnectionFails, LastSenderGone, ReactorEnds, StreamRests
<1>4. CASE GraceElapsed \/ ReadFails \/ ProgressTimeout \/ AgentDies
  BY <1>4 DEF GraceElapsed, ReadFails, ProgressTimeout, AgentDies, Kill, StreamRests
<1>5. CASE TakePrompt
  BY <1>5 DEF TakePrompt, PromptIsTaken
<1>6. CASE ReceiveStop \/ ReceiveUpdate \/ ReceiveAsk
  BY <1>6 DEF ReceiveStop, ReceiveUpdate, ReceiveAsk, Receive, StreamIsRead
<1>7. ASSUME NEW p \in Turns, AgentUpdates(p) PROVE Goal
  <2>1. AgentSpeaks(Message(p, "text", NoAsk))
    BY <1>7 DEF AgentUpdates, AgentSpeaks, Message, StopReasons
  <2> QED
    BY <2>1, MessageType
<1>8. ASSUME NEW p \in Turns, AgentAsks(p) PROVE Goal
  <2>1. PICK a \in Asks : AgentSpeaks(Message(p, "ask", a))
    BY <1>8 DEF AgentAsks, AgentSpeaks, Message, StopReasons
  <2> QED
    BY <2>1, MessageType
<1>9. ASSUME NEW p \in Turns, AgentStops(p) PROVE Goal
  <2>1. PICK k \in StopReasons : AgentSpeaks(Message(p, k, NoAsk))
    BY <1>9 DEF AgentStops, AgentSpeaks, Message
  <2> QED
    BY <2>1, MessageType
<1>10. CASE UNCHANGED vars
  BY <1>10 DEF vars, StreamRests
<1> QED
  BY <1>1, <1>2, <1>3, <1>4, <1>5, <1>6, <1>7, <1>8, <1>9, <1>10 DEF Next, Reactor, Turn, Agent

\* A prompt comes to be in flight by being taken.
LEMMA FlightStep ==
  ASSUME TypeOK, [Next]_vars, NEW p \in Turns, InFlight(p)'
  PROVE  InFlight(p) \/ (TakePrompt /\ p = Head(queue))
<1>1. stream \in Seq(Messages)
  BY DEF TypeOK
<1>2. CASE StreamRests
  BY <1>2 DEF StreamRests, InFlight, Positions
<1>3. CASE StreamIsRead
  <2>1. \A i \in 1..Len(stream') : i + 1 \in 1..Len(stream) /\ stream'[i] = stream[i + 1]
    BY <1>1, <1>3 DEF StreamIsRead
  <2> QED
    BY <1>3, <2>1 DEF StreamIsRead, InFlight, Positions
<1>4. CASE PromptIsTaken
  BY <1>4 DEF PromptIsTaken, InFlight, Positions
<1>5. ASSUME NEW m \in Messages, AgentSpeaks(m) PROVE InFlight(p)
  <2>1. \A i \in 1..Len(stream') :
          \/ i \in 1..Len(stream) /\ stream'[i] = stream[i]
          \/ stream'[i] = m
    BY <1>1, <1>5 DEF AgentSpeaks
  <2> QED
    BY <1>5, <2>1 DEF AgentSpeaks, InFlight, Positions
<1> QED
  BY <1>2, <1>3, <1>4, <1>5, StreamMoves

\* Nothing follows the stop reason of a prompt.
LEMMA StopIsLastStep ==
  ASSUME TypeOK, InOrder, StopIsLast, [Next]_vars
  PROVE  StopIsLast'
<1>1. stream \in Seq(Messages)
  BY DEF TypeOK
<1>2. CASE StreamRests
  BY <1>2 DEF StreamRests, StopIsLast, Positions
<1>3. CASE StreamIsRead
  <2>1. \A i \in 1..Len(stream') : i + 1 \in 1..Len(stream) /\ stream'[i] = stream[i + 1]
    BY <1>1, <1>3 DEF StreamIsRead
  <2>2. \A i, j \in 1..Len(stream') : i < j => i + 1 < j + 1
    BY <1>1, <1>3 DEF StreamIsRead
  <2> QED
    BY <1>3, <2>1, <2>2 DEF StreamIsRead, StopIsLast, Positions
<1>4. CASE PromptIsTaken
  <2>1. Head(queue) = queue[1] /\ 1 \in 1..Len(queue)
    BY <1>4 DEF PromptIsTaken, TakePrompt, TypeOK
  <2>2. \A i \in Positions : stream[i].prompt \in Turns
    <3>1. \A i \in Positions : stream[i] \in Messages
      BY <1>1 DEF Positions
    <3> QED
      BY <3>1 DEF Messages
  <2>3. \A i \in Positions : stream[i].prompt < Head(queue)
    BY <2>1, <2>2 DEF InOrder, InFlight
  <2>4. Turns \subseteq Nat
    BY BoundsType
  <2>5. \A i \in Positions : stream[i].prompt # Head(queue)
    BY <2>2, <2>3, <2>4
  <2> QED
    BY <1>4, <2>5 DEF PromptIsTaken, StopIsLast, Positions
<1>5. ASSUME NEW m \in Messages, AgentSpeaks(m) PROVE StopIsLast'
  <2>1. /\ Len(stream') = Len(stream) + 1 /\ Len(stream) \in Nat
        /\ stream'[Len(stream) + 1] = m
        /\ \A i \in 1..Len(stream) : stream'[i] = stream[i]
    BY <1>1, <1>5 DEF AgentSpeaks
  <2>2. m.prompt \in open /\ open' \subseteq open
    BY <1>5 DEF AgentSpeaks
  <2>3. m.kind \in StopReasons => m.prompt \notin open'
    BY <1>5 DEF AgentSpeaks
  <2> QED
    BY <2>1, <2>2, <2>3 DEF StopIsLast, Positions
<1> QED
  BY <1>2, <1>3, <1>4, <1>5, StreamMoves

-----------------------------------------------------------------------------
\* How the queue, the turn and the reactor's current prompt may move together.
QueueRests ==
  /\ turn' = turn /\ queue' \in {queue, <<>>}
  /\ \/ current' = current /\ (reactor' \in Running <=> reactor \in Running)
     \/ current' = 0 /\ reactor' \notin Running
TurnIsQueued ==
  /\ turn' = turn + 1 /\ queue' \in {queue, Append(queue, turn + 1)}
  /\ UNCHANGED <<current, reactor>>
QueueIsRead ==
  /\ turn' = turn /\ queue # <<>> /\ queue' = Tail(queue) /\ current' = Head(queue)
  /\ reactor = "idle" /\ reactor' = "top"

\* A step moves the prompts under way and queued in one of three ways.
LEMMA QueueMoves ==
  ASSUME TypeOK, StartComesFirst, [Next]_vars
  PROVE  QueueRests \/ TurnIsQueued \/ QueueIsRead
<1>1. CASE StartSession
  <2>1. reactor = "none"
    BY <1>1 DEF StartSession, StartComesFirst
  <2> QED
    BY <1>1, <2>1 DEF StartSession, QueueRests, Running
<1>2. CASE SessionStarted \/ StartFails \/ TurnReturns \/ TotalTimeout \/ StopSession \/ Cancel
  BY <1>2 DEF SessionStarted, StartFails, TurnReturns, TotalTimeout, StopSession, Cancel, QueueRests
<1>3. CASE RunTurn
  BY <1>3 DEF RunTurn, TurnIsQueued
<1>4. CASE SpawnFails \/ SpawnAgent \/ HandshakeStep \/ LoopTop
  BY <1>4 DEF SpawnFails, SpawnAgent, HandshakeStep, LoopTop, QueueRests, Running
<1>5. CASE HandshakeFails \/ ConnectionFails \/ LastSenderGone
  BY <1>5 DEF HandshakeFails, ConnectionFails, LastSenderGone, ReactorEnds, LocalsGone,
              QueueRests, Running
<1>6. CASE GraceElapsed \/ ReadFails \/ ProgressTimeout \/ ReceiveStop
  BY <1>6 DEF GraceElapsed, ReadFails, ProgressTimeout, ReceiveStop, Answer, LocalsGone,
              QueueRests, Running
<1>7. CASE ReceiveUpdate \/ ReceiveAsk
  BY <1>7 DEF ReceiveUpdate, ReceiveAsk, Receive, QueueRests, Running
<1>8. CASE TakePrompt
  BY <1>8 DEF TakePrompt, QueueIsRead
<1>9. ASSUME NEW p \in Turns, AgentUpdates(p) \/ AgentAsks(p) \/ AgentStops(p)
      PROVE  QueueRests
  BY <1>9 DEF AgentUpdates, AgentAsks, AgentStops, QueueRests
<1>10. CASE AgentDies \/ UNCHANGED vars
  BY <1>10 DEF AgentDies, vars, QueueRests
<1> QED
  BY <1>1, <1>2, <1>3, <1>4, <1>5, <1>6, <1>7, <1>8, <1>9, <1>10
     DEF Next, Caller, Reactor, Turn, Agent

\* Prompts are answered in the order of the turns.
LEMMA OrderStep ==
  ASSUME TypeOK, StartComesFirst, InOrder, [Next]_vars
  PROVE  InOrder'
<1>0. \A i \in 1..Len(queue) : queue[i] \in Nat \ {0}
  <2>1. queue \in Seq(Turns)
    BY DEF TypeOK
  <2>2. \A i \in 1..Len(queue) : queue[i] \in Turns
    BY <2>1
  <2> QED
    BY <2>2, BoundsType
<1>1. /\ queue \in Seq(Turns) /\ Turns \subseteq Nat \ {0}
      /\ turn \in Nat /\ current \in Nat
  BY BoundsType DEF TypeOK
<1>2. \A p \in Turns : InFlight(p)' => InFlight(p) \/ (TakePrompt /\ p = Head(queue))
  BY FlightStep
<1>3. TakePrompt => reactor = "idle"
  BY DEF TakePrompt
<1>4. CASE QueueRests
  <2>1. TakePrompt => FALSE
    BY <1>4 DEF TakePrompt, QueueRests, Running
  <2>2. \A i \in 1..Len(queue') : i \in 1..Len(queue) /\ queue'[i] = queue[i]
    BY <1>1, <1>4 DEF QueueRests
  <2>3. turn' = turn /\ current' \in {0, current} /\ (current' # 0 <=> reactor' \in Running)
    BY <1>4 DEF QueueRests, InOrder
  <2> QED
    BY <1>0, <1>1, <1>2, <2>1, <2>2, <2>3 DEF InOrder
<1>5. CASE TurnIsQueued
  <2>1. TakePrompt => FALSE
    BY <1>1, <1>5 DEF TakePrompt, TurnIsQueued
  <2>2. CASE queue' = queue
    BY <1>0, <1>1, <1>2, <1>5, <2>1, <2>2 DEF TurnIsQueued, InOrder
  <2>3. CASE queue' = Append(queue, turn + 1)
    <3>1. /\ Len(queue') = Len(queue) + 1 /\ Len(queue) \in Nat
          /\ queue'[Len(queue) + 1] = turn + 1
          /\ \A i \in 1..Len(queue) : queue'[i] = queue[i]
      BY <1>1, <2>3
    <3>2. \A i \in 1..Len(queue') : current' < queue'[i] /\ queue'[i] <= turn'
      BY <1>0, <1>1, <1>5, <3>1 DEF TurnIsQueued, InOrder
    <3>3. ASSUME NEW i \in 1..Len(queue'), NEW j \in 1..Len(queue'), i < j
          PROVE  queue'[i] < queue'[j]
      <4>1. i \in 1..Len(queue) /\ queue'[i] = queue[i] /\ queue[i] \in Nat
        BY <1>0, <3>1, <3>3
      <4>2. CASE j = Len(queue) + 1
        BY <1>1, <3>1, <4>1, <4>2 DEF InOrder
      <4>3. CASE j \in 1..Len(queue)
        BY <3>1, <3>3, <4>1, <4>3 DEF InOrder
      <4> QED
        BY <3>1, <4>2, <4>3
    <3>4. ASSUME NEW p \in Turns, InFlight(p)'
          PROVE  p <= turn' /\ (current' # 0 => p <= current')
                 /\ \A i \in 1..Len(queue') : p < queue'[i]
      BY <1>0, <1>1, <1>2, <1>5, <2>1, <3>1, <3>4 DEF TurnIsQueued, InOrder
    <3> QED
      BY <1>1, <1>5, <3>2, <3>3, <3>4 DEF TurnIsQueued, InOrder
  <2> QED
    BY <1>5, <2>2, <2>3 DEF TurnIsQueued
<1>6. CASE QueueIsRead
  <2>1. /\ current' = queue[1] /\ Len(queue) \in Nat \ {0}
        /\ Len(queue') = Len(queue) - 1
        /\ \A i \in 1..Len(queue') : queue'[i] = queue[i + 1]
    BY <1>1, <1>6 DEF QueueIsRead
  <2>2. current' # 0 /\ current' <= turn'
    BY <1>0, <2>1, <1>6 DEF QueueIsRead, InOrder
  <2>3. \A i \in 1..Len(queue') : current' < queue'[i] /\ queue'[i] <= turn'
    BY <1>0, <2>1, <1>6 DEF QueueIsRead, InOrder
  <2>4. \A i, j \in 1..Len(queue') : i < j => queue'[i] < queue'[j]
    BY <1>0, <2>1, <1>6 DEF QueueIsRead, InOrder
  <2>5. ASSUME NEW p \in Turns, InFlight(p)'
        PROVE  p <= turn' /\ p <= current' /\ \A i \in 1..Len(queue') : p < queue'[i]
    <3>1. CASE p = Head(queue)
      BY <1>0, <1>1, <2>1, <2>2, <2>3, <3>1, <1>6 DEF QueueIsRead
    <3>2. CASE InFlight(p)
      BY <1>0, <1>1, <2>1, <3>2, <1>6 DEF QueueIsRead, InOrder
    <3> QED
      BY <1>2, <2>5, <3>1, <3>2
  <2> QED
    BY <1>6, <2>2, <2>3, <2>4, <2>5 DEF QueueIsRead, InOrder, Running
<1> QED
  BY <1>4, <1>5, <1>6, QueueMoves

-----------------------------------------------------------------------------
\* How the call, the reactor's prompt and the answer may move together.
CallRests ==
  /\ UNCHANGED <<turn, reply, result>>
  /\ client' = client \/ (client # "waiting" /\ client' # "waiting")
  /\ UNCHANGED <<current, queue>> \/ TakePrompt
ReportsError ==
  \E e \in Errors : Answer(Failure(e)) /\ UNCHANGED <<callerVars, queue>>

\* The moves of the call.
LEMMA ErrorMoves ==
  ASSUME TypeOK, StartComesFirst, InOrder, [Next]_vars
  PROVE  \/ CallRests \/ RunTurn \/ TurnReturns \/ TotalTimeout
         \/ GraceElapsed \/ ReadFails \/ ProgressTimeout \/ ReceiveStop \/ ReactorEnds
<1>1. CASE StartSession
  <2>1. reactor = "none"
    BY <1>1 DEF StartSession, StartComesFirst
  <2> QED
    BY <1>1, <2>1 DEF StartSession, CallRests
<1>2. CASE SessionStarted \/ StartFails \/ StopSession \/ Cancel
  BY <1>2 DEF SessionStarted, StartFails, StopSession, Cancel, CallRests
<1>3. CASE SpawnFails \/ SpawnAgent \/ HandshakeStep \/ LoopTop
  BY <1>3 DEF SpawnFails, SpawnAgent, HandshakeStep, LoopTop, CallRests
<1>4. CASE HandshakeFails \/ ConnectionFails \/ LastSenderGone
  BY <1>4 DEF HandshakeFails, ConnectionFails, LastSenderGone
<1>6. CASE TakePrompt \/ ReceiveUpdate \/ ReceiveAsk
  BY <1>6 DEF TakePrompt, ReceiveUpdate, ReceiveAsk, Receive, CallRests
<1>7. ASSUME NEW p \in Turns, AgentUpdates(p) \/ AgentAsks(p) \/ AgentStops(p)
      PROVE  CallRests
  BY <1>7 DEF AgentUpdates, AgentAsks, AgentStops, CallRests
<1>8. CASE AgentDies \/ UNCHANGED vars
  BY <1>8 DEF AgentDies, vars, CallRests
<1> QED
  BY <1>1, <1>2, <1>3, <1>4, <1>6, <1>7, <1>8 DEF Next, Caller, Reactor, Turn, Agent

\* The same, with the errors the reactor reports taken together.
LEMMA CallMoves ==
  ASSUME TypeOK, StartComesFirst, InOrder, [Next]_vars
  PROVE  \/ CallRests \/ RunTurn \/ TurnReturns \/ TotalTimeout
         \/ ReportsError \/ ReceiveStop \/ ReactorEnds
<1>1. CASE GraceElapsed \/ ReadFails \/ ProgressTimeout
  BY <1>1 DEF GraceElapsed, ReadFails, ProgressTimeout, ReportsError, Errors
<1> QED
  BY <1>1, ErrorMoves

\* An error that a caller was told is not taken back.
LEMMA FailedStays ==
  ASSUME TypeOK, StartComesFirst, OneResult, InOrder, [Next]_vars, NEW t \in Turns, Failed(t)
  PROVE  Failed(t)'
<1>1. /\ turn \in Nat /\ result \in [Turns -> Result] /\ Turns \subseteq Nat
      /\ None.outcome \notin Errors
  BY BoundsType DEF TypeOK, None, Errors
<1>2. CASE RunTurn
  <2>1. t # turn + 1
    BY <1>1 DEF OneResult, Failed
  <2> QED
    BY <1>1, <1>2, <2>1 DEF RunTurn, Failed
<1>3. CASE TurnReturns \/ TotalTimeout
  <2>1. t # turn
    BY <1>1, <1>3 DEF TurnReturns, TotalTimeout, OneResult, Failed
  <2> QED
    BY <1>1, <1>3, <2>1 DEF TurnReturns, TotalTimeout, Failed
<1>4. CASE CallRests \/ ReportsError \/ ReceiveStop \/ ReactorEnds
  BY <1>4 DEF CallRests, ReportsError, ReceiveStop, ReactorEnds, Failed
<1> QED
  BY <1>2, <1>3, <1>4, CallMoves

\* Nor is the fact that some turn up to n has failed.
LEMMA ErrorByStays ==
  ASSUME TypeOK, StartComesFirst, OneResult, InOrder, [Next]_vars, NEW n, ErrorBy(n)
  PROVE  ErrorBy(n)'
<1>1. PICK s \in Turns : s <= n /\ Failed(s)
  BY DEF ErrorBy, Failed
<1> QED
  BY <1>1, FailedStays DEF ErrorBy, Failed

\* A prompt that nobody waits for belongs to a turn that has failed.
LEMMA AwaitedStep ==
  ASSUME TypeOK, StartComesFirst, OneResult, InOrder, AwaitedOrFailed, [Next]_vars
  PROVE  AwaitedOrFailed'
<1> DEFINE Fine(t) == Failed(t) \/ Awaited(t)
<1>1. /\ turn \in Nat /\ current \in Nat /\ result \in [Turns -> Result]
      /\ Turns \subseteq Nat \ {0} /\ queue \in Seq(Turns)
      /\ current # 0 => current \in Turns
  BY BoundsType DEF TypeOK, Turns
<1>2. \A i \in 1..Len(queue) : queue[i] \in Turns
  BY <1>1
<1>3. \A t \in Turns : Failed(t) => Failed(t)'
  BY FailedStays
<1>4. CASE CallRests
  <2>1. \A t \in Turns : Fine(t) => Fine(t)'
    BY <1>3, <1>4 DEF CallRests, Awaited
  <2>2. CASE UNCHANGED <<current, queue>>
    BY <1>1, <1>2, <2>1, <2>2 DEF AwaitedOrFailed
  <2>3. CASE TakePrompt
    <3>1. /\ current' = queue[1] /\ 1 \in 1..Len(queue)
          /\ \A i \in 1..Len(queue') : i + 1 \in 1..Len(queue) /\ queue'[i] = queue[i + 1]
      BY <1>1, <2>3 DEF TakePrompt
    <3> QED
      BY <1>2, <2>1, <3>1 DEF AwaitedOrFailed
  <2> QED
    BY <1>4, <2>2, <2>3 DEF CallRests
<1>5. CASE RunTurn
  <2>1. \A t \in Turns : ~Awaited(t)
    BY <1>5 DEF RunTurn, Awaited
  <2>2. reply = None /\ reply' = None
    BY <1>5 DEF RunTurn, OneResult
  <2>3. CASE reactor = "ended"
    BY <1>1, <1>2, <1>3, <1>5, <2>1, <2>3 DEF RunTurn, AwaitedOrFailed
  <2>4. CASE reactor # "ended"
    <3>1. Awaited(turn)' /\ turn' = turn + 1
      BY <1>5, <2>2, <2>4 DEF RunTurn, Awaited
    <3>2. \A i \in 1..Len(queue') :
            \/ i \in 1..Len(queue) /\ queue'[i] = queue[i]
            \/ queue'[i] = turn + 1
      BY <1>1, <1>5, <2>4 DEF RunTurn
    <3>3. current' = current
      BY <1>5 DEF RunTurn
    <3>4. \A i \in 1..Len(queue') : (Failed(queue[i]) \/ Awaited(queue[i]))'
      <4> SUFFICES ASSUME NEW i \in 1..Len(queue') PROVE (Failed(queue[i]) \/ Awaited(queue[i]))'
        OBVIOUS
      <4>1. CASE i \in 1..Len(queue) /\ queue'[i] = queue[i]
        <5>1. Failed(queue[i])
          BY <1>2, <2>1, <4>1 DEF AwaitedOrFailed
        <5> QED
          BY <1>2, <1>3, <4>1, <5>1 DEF Failed
      <4>2. CASE queue'[i] = turn + 1
        BY <3>1, <4>2 DEF Awaited
      <4> QED
        BY <3>2, <4>1, <4>2
    <3>5. current' # 0 => (Failed(current) \/ Awaited(current))'
      BY <1>1, <1>3, <2>1, <3>3 DEF AwaitedOrFailed, Failed
    <3> QED
      BY <3>4, <3>5 DEF AwaitedOrFailed
  <2> QED
    BY <2>3, <2>4
<1>6. CASE TurnReturns
  <2>1. \A t \in Turns : ~Awaited(t)
    BY <1>6 DEF TurnReturns, Awaited
  <2> QED
    BY <1>1, <1>2, <1>3, <1>6, <2>1 DEF TurnReturns, AwaitedOrFailed
<1>7. CASE TotalTimeout
  <2>1. \A t \in Turns : Awaited(t) => Failed(t)'
    BY <1>1, <1>7 DEF TotalTimeout, Awaited, Failed, Failure, Errors
  <2> QED
    BY <1>1, <1>2, <1>3, <1>7, <2>1 DEF TotalTimeout, AwaitedOrFailed
<1>8. ASSUME NEW r, Answer(r), UNCHANGED <<callerVars, queue>>
      PROVE  AwaitedOrFailed'
  <2>1. current' = 0
    BY <1>8 DEF Answer, LocalsGone
  <2>2. CASE current = turn
    <3>1. \A i \in 1..Len(queue) : queue[i] \in Nat /\ turn < queue[i] /\ queue[i] <= turn
      BY <1>1, <1>2, <2>2 DEF InOrder
    <3>2. 1..Len(queue') = {}
      BY <1>1, <1>8, <3>1
    <3> QED
      BY <2>1, <3>2 DEF AwaitedOrFailed
  <2>3. CASE current # turn
    <3>1. UNCHANGED <<reply, client, turn, result, queue>>
      BY <1>8, <2>3 DEF Answer
    <3> QED
      BY <2>1, <3>1 DEF AwaitedOrFailed, Failed, Awaited
  <2> QED
    BY <2>2, <2>3
<1>9. CASE ReportsError \/ ReceiveStop
  BY <1>8, <1>9 DEF ReportsError, ReceiveStop
<1>10. CASE ReactorEnds
  BY <1>10 DEF ReactorEnds, LocalsGone, AwaitedOrFailed
<1> QED
  BY <1>4, <1>5, <1>6, <1>7, <1>9, <1>10, CallMoves

-----------------------------------------------------------------------------
\* Whatever is received while a turn is under way is of that turn's prompt or
\* of an earlier one that has failed.
LEMMA OtherPrompt ==
  ASSUME TypeOK, InOrder, OthersFailed, NEW p \in Turns, InFlight(p), current # 0, p # current
  PROVE  ErrorBy(p) /\ ErrorBy(current - 1) /\ ErrorBy(current)
<1>1. turn \in Nat /\ current \in Nat /\ Turns \subseteq Nat
  BY BoundsType DEF TypeOK
<1>2. p < current /\ current <= turn
  BY <1>1 DEF InOrder
<1>3. ErrorBy(p)
  BY <1>1, <1>2 DEF OthersFailed, ErrorDue
<1>4. PICK s \in Turns : s <= p /\ result[s].outcome \in Errors
  BY <1>3 DEF ErrorBy
<1>5. s <= current - 1 /\ s <= current
  BY <1>1, <1>2, <1>4
<1> QED
  BY <1>3, <1>4, <1>5 DEF ErrorBy

\* What the reactor reads is about a prompt in flight.
LEMMA HeadInFlight ==
  ASSUME TypeOK, NEW K, Receive(K)
  PROVE  /\ Head(stream).prompt \in Turns /\ InFlight(Head(stream).prompt)
         /\ reactor = "reading"
<1>1. stream \in Seq(Messages) /\ stream # <<>> /\ reactor = "reading"
  BY DEF TypeOK, Receive
<1>2. Head(stream) = stream[1] /\ 1 \in 1..Len(stream)
  BY <1>1
<1> QED
  BY <1>1, <1>2, ReceiveType DEF InFlight, Positions

\* A prompt that is overtaken has been given up.
LEMMA OthersStep ==
  ASSUME TypeOK, Bookkeeping, [Next]_vars
  PROVE  OthersFailed'
<1> USE DEF Bookkeeping
<1>1. /\ turn \in Nat /\ current \in Nat /\ result \in [Turns -> Result]
      /\ Turns \subseteq Nat \ {0} /\ (current # 0 => current \in Turns)
  BY BoundsType DEF TypeOK, Turns
<1>2. SUFFICES ASSUME NEW p \in Turns, InFlight(p)'
               PROVE  p = current' \/ ErrorBy(p)' \/ ErrorDue(p)'
  BY DEF OthersFailed
<1>3. ErrorBy(p) => ErrorBy(p)'
  BY ErrorByStays
<1>4. Failed(p)' => ErrorBy(p)'
  BY <1>1 DEF Failed, ErrorBy
<1>5. CASE TakePrompt /\ p = Head(queue)
  BY <1>5 DEF TakePrompt
<1>6. ASSUME ErrorDue(p) PROVE ErrorBy(p)' \/ ErrorDue(p)'
  <2>1. reply # None /\ client = "waiting" /\ p = turn
    BY <1>6 DEF ErrorDue, None, Errors
  <2>2. CASE CallRests
    BY <1>6, <2>1, <2>2 DEF CallRests, ErrorDue
  <2>3. CASE TurnReturns
    BY <1>1, <1>4, <1>6, <2>1, <2>3 DEF TurnReturns, ErrorDue, Failed
  <2>4. CASE ReportsError \/ ReceiveStop \/ ReactorEnds
    BY <1>6, <2>1, <2>4 DEF ReportsError, ReceiveStop, ReactorEnds, Answer, Send, ErrorDue
  <2>5. CASE RunTurn \/ TotalTimeout
    BY <2>1, <2>5 DEF RunTurn, TotalTimeout
  <2> QED
    BY <2>2, <2>3, <2>4, <2>5, CallMoves
<1>7. ASSUME p = current, current' # current PROVE ErrorBy(p)' \/ ErrorDue(p)'
  <2>1. Failed(p) \/ Awaited(p)
    BY <1>1, <1>7 DEF AwaitedOrFailed
  <2>2. Failed(p) => Failed(p)'
    BY FailedStays
  <2>3. CASE ReportsError \/ ReactorEnds
    <3>1. Awaited(p) => ErrorDue(p)'
      BY <1>7, <2>3 DEF ReportsError, ReactorEnds, Answer, Send, Awaited, ErrorDue, Failure, Errors
    <3> QED
      BY <1>4, <2>1, <2>2, <3>1
  <2>4. CASE ReceiveStop
    <3>1. Receive(StopReasons) /\ open' = open /\ stream' = Tail(stream)
      BY <2>4 DEF ReceiveStop, Receive
    <3>2. Head(stream).prompt # p
      <4>1. stream \in Seq(Messages) /\ stream # <<>>
        BY <3>1 DEF TypeOK, Receive
      <4>2. /\ Head(stream) = stream[1] /\ Len(stream) \in Nat \ {0}
            /\ Len(stream') = Len(stream) - 1
            /\ \A i \in 1..Len(stream') : stream'[i] = stream[i + 1]
        BY <3>1, <4>1
      <4>3. stream[1].kind \in StopReasons
        BY <3>1, <4>2 DEF Receive
      <4>4. ASSUME stream[1].prompt = p PROVE FALSE
        <5>1. p \notin open /\ \A j \in Positions : 1 < j => stream[j].prompt # p
          BY <4>2, <4>3, <4>4 DEF StopIsLast, Positions
        <5>2. \A i \in 1..Len(stream') : i + 1 \in Positions /\ 1 < i + 1
          BY <4>2 DEF Positions
        <5> QED
          BY <1>2, <3>1, <4>2, <5>1, <5>2 DEF InFlight, Positions
      <4> QED
        BY <4>2, <4>4
    <3>3. ErrorBy(p)
      BY <1>1, <1>7, <3>1, <3>2, HeadInFlight, OtherPrompt
    <3> QED
      BY <1>3, <3>3
  <2>5. CASE CallRests
    <3>1. TakePrompt
      BY <1>7, <2>5 DEF CallRests
    <3> QED
      BY <1>1, <1>7, <3>1 DEF TakePrompt, InOrder, Running
  <2>6. CASE RunTurn \/ TurnReturns \/ TotalTimeout
    BY <1>7, <2>6 DEF RunTurn, TurnReturns, TotalTimeout
  <2> QED
    BY <2>3, <2>4, <2>5, <2>6, CallMoves
<1>8. InFlight(p) \/ (TakePrompt /\ p = Head(queue))
  BY <1>2, FlightStep
<1>9. InFlight(p) => p = current \/ ErrorBy(p) \/ ErrorDue(p)
  BY DEF OthersFailed
<1> QED
  BY <1>3, <1>5, <1>6, <1>7, <1>8, <1>9

\* Every step keeps the bookkeeping of the session.
LEMMA BookkeepingStep ==
  ASSUME TypeOK, Bookkeeping, [Next]_vars
  PROVE  Bookkeeping'
<1>1. StartComesFirst' /\ OneResult' /\ InOrder' /\ AwaitedOrFailed' /\ StopIsLast'
  BY StartStep, ResultStep, OrderStep, AwaitedStep, StopIsLastStep DEF Bookkeeping
<1> QED
  BY <1>1, OthersStep DEF Bookkeeping

-----------------------------------------------------------------------------
\* How what is said and reported may move.
LEMMA SaidStep ==
  ASSUME TypeOK, Bookkeeping, SaidIsOwn, [Next]_vars
  PROVE  SaidIsOwn'
<1> USE DEF Bookkeeping
<1>1. current \in Nat /\ Turns \subseteq Nat \ {0}
  BY BoundsType DEF TypeOK
<1>2. ErrorBy(current - 1) => ErrorBy(current - 1)' \/ current' # current
  BY ErrorByStays DEF ErrorBy
<1>3. CASE UNCHANGED <<said, current>>
  BY <1>2, <1>3 DEF SaidIsOwn
<1>4. CASE TakePrompt
  <2>1. current = 0
    BY <1>4 DEF TakePrompt, InOrder, Running
  <2>2. ~ErrorBy(current - 1)
    BY <1>1, <2>1 DEF ErrorBy
  <2> QED
    BY <1>4, <2>1, <2>2 DEF TakePrompt, SaidIsOwn
<1>5. CASE ReceiveUpdate
  <2>1. /\ said' = Head(stream).prompt /\ current' = current /\ result' = result
        /\ Receive({"text"})
    BY <1>5 DEF ReceiveUpdate
  <2>2. current # 0
    BY <2>1, HeadInFlight DEF InOrder, Running
  <2>3. Head(stream).prompt # current => ErrorBy(current - 1)
    BY <2>1, <2>2, HeadInFlight, OtherPrompt
  <2> QED
    BY <2>1, <2>3 DEF SaidIsOwn, ErrorBy
<1>6. CASE LocalsGone
  BY <1>6 DEF LocalsGone, SaidIsOwn
<1>7. CASE Caller \/ Cancel
  <2>1. UNCHANGED <<said, current>>
    BY <1>7 DEF Caller, StartSession, SessionStarted, StartFails, RunTurn, TurnReturns,
                TotalTimeout, StopSession, Cancel
  <2> QED
    BY <1>3, <2>1
<1>8. CASE SpawnFails \/ SpawnAgent \/ HandshakeStep \/ LoopTop \/ ReceiveAsk
  BY <1>3, <1>8 DEF SpawnFails, SpawnAgent, HandshakeStep, LoopTop, ReceiveAsk
<1>9. CASE HandshakeFails \/ ConnectionFails \/ LastSenderGone
  BY <1>6, <1>9 DEF HandshakeFails, ConnectionFails, LastSenderGone, ReactorEnds
<1>10. CASE GraceElapsed \/ ReadFails \/ ProgressTimeout \/ ReceiveStop
  BY <1>6, <1>10 DEF GraceElapsed, ReadFails, ProgressTimeout, ReceiveStop, Answer
<1>11. ASSUME NEW p \in Turns, AgentUpdates(p) \/ AgentAsks(p) \/ AgentStops(p)
       PROVE  SaidIsOwn'
  BY <1>3, <1>11 DEF AgentUpdates, AgentAsks, AgentStops
<1>12. CASE AgentDies \/ UNCHANGED vars
  BY <1>3, <1>12 DEF AgentDies, vars
<1> QED
  BY <1>4, <1>5, <1>7, <1>8, <1>9, <1>10, <1>11, <1>12 DEF Next, Reactor, Turn, Agent

\* The answer on its way is that of the turn, or an earlier turn has failed.
LEMMA ReplyStep ==
  ASSUME TypeOK, Bookkeeping, SaidIsOwn, ReplyIsOwn, [Next]_vars
  PROVE  ReplyIsOwn'
<1> USE DEF Bookkeeping
<1>1. turn \in Nat /\ Turns \subseteq Nat \ {0} /\ Errors \cap Outcomes = {}
  BY BoundsType DEF TypeOK, Errors, Outcomes
<1>2. None.outcome \notin Outcomes
  BY DEF None, Outcomes
<1>3. ErrorBy(turn - 1) => ErrorBy(turn - 1)' \/ turn' # turn
  BY ErrorByStays DEF ErrorBy
<1>4. CASE UNCHANGED <<reply, turn>>
  BY <1>3, <1>4 DEF ReplyIsOwn
<1>5. CASE CallRests
  BY <1>4, <1>5 DEF CallRests
<1>6. CASE RunTurn
  BY <1>2, <1>6 DEF RunTurn, OneResult, ReplyIsOwn
<1>7. CASE TurnReturns
  BY <1>2, <1>7 DEF TurnReturns, ReplyIsOwn
<1>8. CASE TotalTimeout
  BY <1>4, <1>8 DEF TotalTimeout
<1>9. CASE ReportsError \/ ReactorEnds
  <2>1. turn' = turn /\ (reply' = reply \/ reply'.outcome \in Errors)
    BY <1>9 DEF ReportsError, ReactorEnds, Answer, Send, Failure, Errors
  <2> QED
    BY <1>1, <1>4, <2>1 DEF ReplyIsOwn
<1>10. CASE ReceiveStop
  <2>1. Receive(StopReasons) /\ UNCHANGED <<turn, result>>
    BY <1>10 DEF ReceiveStop
  <2>2. current # 0 /\ current' # current
    BY <1>10, <2>1, HeadInFlight DEF InOrder, Running, ReceiveStop, Answer, LocalsGone
  <2>3. CASE current # turn
    BY <1>4, <1>10, <2>1, <2>3 DEF ReceiveStop, Answer
  <2>4. CASE current = turn
    <3>1. Head(stream).prompt = turn \/ ErrorBy(turn - 1)
      BY <2>1, <2>2, <2>4, HeadInFlight, OtherPrompt
    <3>2. said \in {0, turn} \/ ErrorBy(turn - 1)
      BY <2>4 DEF SaidIsOwn
    <3>3. \/ reply' = reply
          \/ reply'.by = Head(stream).prompt /\ reply'.said = said
      BY <1>10, <2>4 DEF ReceiveStop, Answer, Send
    <3> QED
      BY <2>1, <3>1, <3>2, <3>3 DEF ReplyIsOwn, ErrorBy
  <2> QED
    BY <2>3, <2>4
<1> QED
  BY <1>5, <1>6, <1>7, <1>8, <1>9, <1>10, CallMoves

\* And so are the answers that have been returned.
LEMMA AnswersStep ==
  ASSUME TypeOK, Bookkeeping, ReplyIsOwn, AnswersAreOwn, [Next]_vars
  PROVE  AnswersAreOwn'
<1> USE DEF Bookkeeping
<1>1. turn \in Nat /\ Turns \subseteq Nat \ {0} /\ result \in [Turns -> Result]
  BY BoundsType DEF TypeOK
<1>2. \A t \in Turns : ErrorBy(t - 1) => ErrorBy(t - 1)'
  BY ErrorByStays
<1>3. CASE UNCHANGED result
  BY <1>2, <1>3 DEF AnswersAreOwn
<1>4. CASE RunTurn
  <2>1. \A t \in Turns : result'[t] = result[t] \/ result'[t].outcome \notin Outcomes
    BY <1>1, <1>4 DEF RunTurn, Failure, Outcomes
  <2> QED
    BY <1>2, <2>1 DEF AnswersAreOwn
<1>5. CASE TotalTimeout
  <2>1. \A t \in Turns : result'[t] = result[t] \/ result'[t].outcome \notin Outcomes
    BY <1>1, <1>5 DEF TotalTimeout, Failure, Outcomes
  <2> QED
    BY <1>2, <2>1 DEF AnswersAreOwn
<1>6. CASE TurnReturns
  <2>1. \A t \in Turns : result'[t] = result[t] \/ (t = turn /\ result'[t] = reply)
    BY <1>1, <1>6 DEF TurnReturns
  <2> QED
    BY <1>2, <2>1 DEF AnswersAreOwn, ReplyIsOwn
<1>7. CASE CallRests \/ ReportsError \/ ReceiveStop \/ ReactorEnds
  BY <1>3, <1>7 DEF CallRests, ReportsError, ReceiveStop, ReactorEnds
<1> QED
  BY <1>4, <1>5, <1>6, <1>7, CallMoves

-----------------------------------------------------------------------------
\* Permissions: only ReceiveAsk grants one, for the message it reads.
GrantsRest == allowed' = allowed

\* A grant is a ReceiveAsk.
LEMMA GrantMoves ==
  ASSUME [Next]_vars
  PROVE  GrantsRest \/ ReceiveAsk
BY DEF Next, vars, Caller, Reactor, Turn, Agent, GrantsRest, StartSession, SessionStarted,
       StartFails, RunTurn, TurnReturns, TotalTimeout, StopSession, Cancel, SpawnFails,
       SpawnAgent, HandshakeStep, HandshakeFails, ConnectionFails, LastSenderGone, ReactorEnds,
       TakePrompt, LoopTop, ReceiveStop, ReceiveUpdate, GraceElapsed, ReadFails,
       ProgressTimeout, AgentUpdates, AgentAsks, AgentStops, AgentDies

\* What is granted, under which conditions.
LEMMA GrantFacts ==
  ASSUME TypeOK, Bookkeeping, ReceiveAsk, NEW g \in allowed', g \notin allowed
  PROVE  /\ g.prompt \in Turns /\ InFlight(g.prompt) /\ g.late = flag
         /\ ~cancelSent /\ current # 0
         /\ Matrix(mode[current], g.tool) = "allow"
         /\ allowed' = allowed \cup {g}
<1>1. Receive({"ask"})
  BY DEF ReceiveAsk
<1>2. /\ Head(stream).prompt \in Turns /\ InFlight(Head(stream).prompt)
      /\ reactor = "reading"
  BY <1>1, HeadInFlight
<1>3. current # 0
  BY <1>2 DEF Bookkeeping, InOrder, Running
<1>4. /\ g = [prompt |-> Head(stream).prompt, tool |-> Head(stream).ask.tool,
              number |-> Head(stream).number, late |-> flag]
      /\ Decide(Head(stream).ask.offers, mode[current], Head(stream).ask.tool, cancelSent) = "allow"
      /\ allowed' = allowed \cup {g}
  BY DEF ReceiveAsk
<1>5. ~cancelSent /\ Matrix(mode[current], Head(stream).ask.tool) = "allow"
  BY <1>4 DEF Decide
<1> QED
  BY <1>2, <1>3, <1>4, <1>5

\* After a late grant the reactor knows of the cancellation when it reads.
LEMMA LateStep ==
  ASSUME TypeOK, Bookkeeping, LateGrantIsNoticed, GrantsEndAfterCancel, [Next]_vars
  PROVE  LateGrantIsNoticed' /\ GrantsEndAfterCancel'
<1>1. flag => flag'
  BY DEF Next, vars, Caller, Reactor, Turn, Agent, StartSession, SessionStarted, StartFails,
         RunTurn, TurnReturns, TotalTimeout, StopSession, Cancel, SpawnFails, SpawnAgent,
         HandshakeStep, HandshakeFails, ConnectionFails, LastSenderGone, ReactorEnds, TakePrompt,
         LoopTop, ReceiveStop, ReceiveUpdate, ReceiveAsk, GraceElapsed, ReadFails,
         ProgressTimeout, AgentUpdates, AgentAsks, AgentStops, AgentDies
<1>2. flag /\ reactor' = "reading" => cancelSent' \/ (reactor = "reading" /\ cancelSent' = cancelSent)
  <2>1. CASE Caller \/ Cancel \/ HandshakeStep \/ SpawnFails \/ SpawnAgent
    BY <2>1 DEF Caller, StartSession, SessionStarted, StartFails, RunTurn, TurnReturns,
                TotalTimeout, StopSession, Cancel, HandshakeStep, SpawnFails, SpawnAgent
  <2>2. CASE HandshakeFails \/ ConnectionFails \/ LastSenderGone
    BY <2>2 DEF HandshakeFails, ConnectionFails, LastSenderGone, ReactorEnds
  <2>3. CASE Turn
    BY <2>3 DEF Turn, TakePrompt, LoopTop, ReceiveStop, ReceiveUpdate, ReceiveAsk,
                GraceElapsed, ProgressTimeout, Answer
  <2>4. CASE ReadFails \/ UNCHANGED vars
    BY <2>4 DEF ReadFails, Answer, vars
  <2>5. CASE Agent
    BY <2>5 DEF Agent, AgentUpdates, AgentAsks, AgentStops, AgentDies
  <2> QED
    BY <2>1, <2>2, <2>3, <2>4, <2>5 DEF Next, Reactor
<1>3. CASE GrantsRest
  BY <1>1, <1>2, <1>3 DEF GrantsRest, LateGrantIsNoticed, GrantsEndAfterCancel
<1>4. CASE ReceiveAsk
  <2>1. reactor = "reading" /\ reactor' = "top" /\ flag' = flag
    BY <1>4 DEF ReceiveAsk, Receive
  <2>2. CASE allowed' = allowed
    BY <1>3, <2>2 DEF GrantsRest
  <2>3. ASSUME NEW g \in allowed', g \notin allowed
        PROVE  LateGrantIsNoticed' /\ GrantsEndAfterCancel'
    <3>1. g.late = flag /\ ~cancelSent /\ allowed' = allowed \cup {g}
      BY <1>4, <2>3, GrantFacts
    <3>2. \A h \in allowed : ~h.late
      BY <2>1, <3>1 DEF LateGrantIsNoticed
    <3> QED
      BY <2>1, <3>1, <3>2 DEF LateGrantIsNoticed, GrantsEndAfterCancel
  <2>4. allowed \subseteq allowed'
    BY <1>4 DEF ReceiveAsk
  <2> QED
    BY <2>2, <2>3, <2>4
<1> QED
  BY <1>3, <1>4, GrantMoves

\* What is granted is what the mode of its prompt permits.
LEMMA MatchStep ==
  ASSUME TypeOK, Bookkeeping, GrantsArePast, GrantsMatchMode, [Next]_vars
  PROVE  GrantsArePast' /\ GrantsMatchMode'
<1> USE DEF Bookkeeping
<1>1. /\ turn \in Nat /\ current \in Nat /\ Turns \subseteq Nat \ {0} /\ mode \in [Turns -> Modes \cup {"none"}]
      /\ \A g \in allowed : g.prompt \in Turns
  BY BoundsType DEF TypeOK, Grants
<1>3. turn <= turn' /\ turn' \in Nat
  BY <1>1, CallMoves DEF CallRests, RunTurn, TurnReturns, TotalTimeout, ReportsError, ReceiveStop,
                    ReactorEnds
<1>4. \A t \in Turns : t <= turn => mode'[t] = mode[t]
  <2>1. CASE RunTurn
    BY <1>1, <2>1 DEF RunTurn
  <2>2. CASE UNCHANGED mode
    BY <2>2
  <2>3. RunTurn \/ UNCHANGED mode
    BY DEF Next, vars, Caller, Reactor, Turn, Agent, StartSession, SessionStarted, StartFails,
           TurnReturns, TotalTimeout, StopSession, Cancel, SpawnFails, SpawnAgent,
           HandshakeStep, HandshakeFails, ConnectionFails, LastSenderGone, ReactorEnds, TakePrompt,
           LoopTop, ReceiveStop, ReceiveUpdate, ReceiveAsk, GraceElapsed, ReadFails,
           ProgressTimeout, AgentUpdates, AgentAsks, AgentStops, AgentDies
  <2> QED
    BY <2>1, <2>2, <2>3
<1>5. \A g \in allowed : /\ g.prompt <= turn'
                         /\ Matrix(mode'[g.prompt], g.tool) = "allow" \/ ErrorBy(g.prompt)'
  <2> SUFFICES ASSUME NEW g \in allowed
               PROVE  /\ g.prompt <= turn'
                      /\ Matrix(mode'[g.prompt], g.tool) = "allow" \/ ErrorBy(g.prompt)'
    OBVIOUS
  <2>1. g.prompt \in Turns /\ g.prompt <= turn
    BY <1>1 DEF GrantsArePast
  <2>2. mode'[g.prompt] = mode[g.prompt] /\ (ErrorBy(g.prompt) => ErrorBy(g.prompt)')
    BY <1>4, <2>1, ErrorByStays
  <2>3. g.prompt \in Nat /\ turn \in Nat /\ turn' \in Nat /\ turn <= turn'
    BY <1>1, <1>3, <2>1
  <2>4. g.prompt <= turn'
    BY <2>1, <2>3
  <2>5. Matrix(mode[g.prompt], g.tool) = "allow" \/ ErrorBy(g.prompt)
    BY DEF GrantsMatchMode
  <2> QED
    BY <2>2, <2>4, <2>5
<1>6. CASE GrantsRest
  BY <1>5, <1>6 DEF GrantsRest, GrantsArePast, GrantsMatchMode
<1>7. CASE ReceiveAsk
  <2>1. ASSUME NEW g \in allowed', g \notin allowed
        PROVE  /\ g.prompt <= turn'
               /\ Matrix(mode'[g.prompt], g.tool) = "allow" \/ ErrorBy(g.prompt)'
    <3>1. /\ g.prompt \in Turns /\ InFlight(g.prompt) /\ current # 0
          /\ Matrix(mode[current], g.tool) = "allow"
      BY <1>7, <2>1, GrantFacts
    <3>2. g.prompt <= turn
      BY <3>1 DEF InOrder
    <3>3. g.prompt = current \/ ErrorBy(g.prompt)
      BY <3>1, OtherPrompt
    <3>4. mode'[g.prompt] = mode[g.prompt] /\ (ErrorBy(g.prompt) => ErrorBy(g.prompt)')
      BY <1>4, <3>1, <3>2, ErrorByStays
    <3>5. g.prompt \in Nat /\ turn \in Nat /\ turn' \in Nat /\ turn <= turn'
      BY <1>1, <1>3, <3>1
    <3>6. g.prompt <= turn'
      BY <3>2, <3>5
    <3> QED
      BY <3>1, <3>3, <3>4, <3>6
  <2> QED
    BY <1>5, <2>1 DEF GrantsArePast, GrantsMatchMode
<1> QED
  BY <1>6, <1>7, GrantMoves

-----------------------------------------------------------------------------
\* An agent that is alive was alive before, or is started now.
LEMMA ChildMoves ==
  ASSUME [Next]_vars, child' = "alive"
  PROVE  SpawnAgent \/ child = "alive"
BY DEF Next, vars, Caller, Reactor, Turn, Agent, Kill, agentVars, StartSession, SessionStarted,
       StartFails, RunTurn, TurnReturns, TotalTimeout, StopSession, Cancel, SpawnFails,
       HandshakeStep, HandshakeFails, ConnectionFails, LastSenderGone, ReactorEnds,
       TakePrompt, LoopTop, ReceiveStop, ReceiveUpdate, ReceiveAsk, GraceElapsed, ReadFails,
       ProgressTimeout, AgentUpdates, AgentAsks, AgentStops, AgentDies

\* No agent outlives the error that says it was killed.
LEMMA KillsStep ==
  ASSUME TypeOK, Bookkeeping, ReplyOfKilled, KillsAreFinal, [Next]_vars
  PROVE  ReplyOfKilled' /\ KillsAreFinal'
<1> USE DEF Bookkeeping
<1> DEFINE Killed == {"turn_cancelled", "total_timeout"}
<1>1. turn \in Nat /\ Turns \subseteq Nat \ {0} /\ result \in [Turns -> Result]
  BY BoundsType DEF TypeOK
<1>2. None.outcome \notin Killed
  BY DEF None
<1> SUFFICES ASSUME child' = "alive"
             PROVE  /\ reply'.outcome \notin Killed
                    /\ client' # "stopped"
                    /\ \A t \in Turns : result'[t].outcome \notin Killed
  BY DEF ReplyOfKilled, KillsAreFinal
<1>3. CASE SpawnAgent
  <2>1. UNCHANGED <<client, result, reply>>
    BY <1>3 DEF SpawnAgent, callerVars
  <2>2. client \notin {"waiting", "stopped"} /\ turn = 0
    BY <1>1, <1>3 DEF SpawnAgent, StartComesFirst
  <2>3. reply = None /\ \A t \in Turns : result[t] = None
    BY <1>1, <2>2 DEF OneResult
  <2> QED
    BY <1>2, <2>1, <2>2, <2>3
<1>4. CASE child = "alive"
  <2>1. /\ reply.outcome \notin Killed /\ client # "stopped"
        /\ \A t \in Turns : result[t].outcome \notin Killed
    BY <1>4 DEF ReplyOfKilled, KillsAreFinal
  <2>2. ~TotalTimeout /\ ~StopSession /\ ~GraceElapsed
    BY DEF TotalTimeout, StopSession, GraceElapsed, Kill
  <2>3. client' # "stopped"
    BY <2>1, <2>2 DEF Next, vars, callerVars, Caller, Reactor, Turn, Agent, StartSession,
       SessionStarted, StartFails, RunTurn, TurnReturns, Cancel, SpawnFails, SpawnAgent,
       HandshakeStep, HandshakeFails, ConnectionFails, LastSenderGone, ReactorEnds,
       TakePrompt, LoopTop, ReceiveStop, ReceiveUpdate, ReceiveAsk, ReadFails,
       ProgressTimeout, AgentUpdates, AgentAsks, AgentStops, AgentDies
  <2>4. CASE RunTurn
    <3>1. \A t \in Turns : result'[t] = result[t] \/ result'[t].outcome = "turn_failed"
      BY <1>1, <2>4 DEF RunTurn, Failure
    <3> QED
      BY <2>1, <2>3, <2>4, <3>1 DEF RunTurn
  <2>5. CASE TurnReturns
    <3>1. \A t \in Turns : result'[t] \in {result[t], reply}
      BY <1>1, <2>5 DEF TurnReturns
    <3> QED
      BY <1>2, <2>1, <2>3, <2>5, <3>1 DEF TurnReturns
  <2>6. CASE CallRests
    BY <2>1, <2>3, <2>6 DEF CallRests
  <2>7. CASE ReceiveStop
    <3>1. reply' = reply \/ reply'.outcome \in Outcomes
      BY <2>7, MapStopReasonType DEF ReceiveStop, Answer, Send
    <3> QED
      BY <2>1, <2>3, <2>7, <3>1 DEF ReceiveStop, callerVars, Outcomes
  <2>8. CASE ReactorEnds
    <3>1. reply' = reply \/ reply'.outcome = "channel_closed"
      BY <2>8 DEF ReactorEnds, Send, Failure
    <3> QED
      BY <2>1, <2>3, <2>8, <3>1 DEF ReactorEnds, callerVars
  <2>9. CASE ReadFails
    <3>1. reply' = reply \/ reply'.outcome = "turn_failed"
      BY <2>9 DEF ReadFails, Answer, Send, Failure
    <3> QED
      BY <2>1, <2>3, <2>9, <3>1 DEF ReadFails, callerVars
  <2>10. CASE ProgressTimeout
    <3>1. reply' = reply \/ reply'.outcome = "read_timeout"
      BY <2>10 DEF ProgressTimeout, Answer, Send, Failure
    <3> QED
      BY <2>1, <2>3, <2>10, <3>1 DEF ProgressTimeout, callerVars
  <2>11. CallRests \/ RunTurn \/ TurnReturns \/ ReceiveStop \/ ReactorEnds \/ ReadFails \/ ProgressTimeout
    BY <2>2, ErrorMoves
  <2> QED
    BY <2>4, <2>5, <2>6, <2>7, <2>8, <2>9, <2>10, <2>11
<1> QED
  BY <1>3, <1>4, ChildMoves

-----------------------------------------------------------------------------
\* A new session satisfies the invariant.
LEMMA InitInv ==
  Init => AcpInv
<1> SUFFICES ASSUME Init PROVE AcpInv
  OBVIOUS
<1> USE DEF Init
<1>1. TypeOK
  <2>1. None \in Result /\ [t \in Turns |-> None] \in [Turns -> Result]
    BY ResultType
  <2>2. stream \in Seq(Messages) /\ queue \in Seq(Turns)
    OBVIOUS
  <2>3. result \in [Turns -> Result] /\ reply \in Result /\ mode \in [Turns -> Modes \cup {"none"}]
    BY <2>1
  <2>4. /\ client \in {"new", "starting", "ready", "waiting", "failed", "stopped"}
        /\ ready \in {"none", "ok", "error", "dropped"} /\ child \in {"none", "alive", "dead"}
        /\ reactor \in {"none", "spawning", "initialize", "session_new", "idle",
                        "top", "reading", "ended"}
        /\ flag \in BOOLEAN /\ cancelSent \in BOOLEAN
    OBVIOUS
  <2>5. /\ turn \in 0..MaxTurns /\ current \in 0..MaxTurns /\ said \in 0..MaxTurns
        /\ asked \in 0..MaxAsks /\ open \subseteq Turns /\ allowed \subseteq Grants
    BY BoundsType
  <2> QED
    BY <2>2, <2>3, <2>4, <2>5 DEF TypeOK
<1>2. Turns \subseteq Nat \ {0} /\ None.outcome \notin Outcomes \cup Errors
  BY BoundsType DEF None, Outcomes, Errors
<1>3. \A p \in Turns : ~InFlight(p)
  BY DEF InFlight, Positions
<1>4. Bookkeeping
  BY <1>2, <1>3 DEF Bookkeeping, StartComesFirst, OneResult, InOrder, AwaitedOrFailed,
                    OthersFailed, StopIsLast, Running, Positions
<1>5. SaidIsOwn /\ ReplyIsOwn /\ LateGrantIsNoticed /\ GrantsArePast /\ ReplyOfKilled
  BY <1>2 DEF SaidIsOwn, ReplyIsOwn, LateGrantIsNoticed, GrantsArePast, ReplyOfKilled
<1>6. AnswersAreOwn /\ GrantsEndAfterCancel /\ GrantsMatchMode /\ KillsAreFinal
  BY <1>2 DEF AnswersAreOwn, GrantsEndAfterCancel, GrantsMatchMode, KillsAreFinal
<1> QED
  BY <1>1, <1>4, <1>5, <1>6 DEF AcpInv

\* And every step keeps it.
LEMMA NextInv ==
  AcpInv /\ [Next]_vars => AcpInv'
BY TypeStep, BookkeepingStep, SaidStep, ReplyStep, AnswersStep, LateStep, MatchStep, KillsStep
   DEF AcpInv

\* The inductive invariant of a session holds in every behaviour, for any
\* number of turns, permission requests and modes (acp.rs).
THEOREM AcpInvHolds == Spec => []AcpInv
BY InitInv, NextInv, PTL DEF Spec

\* Every variable keeps its type, a tool is allowed only as the mode of its
\* prompt permits and at most once after the cancellation, and no agent lives
\* on that was reported killed (acp.rs, permission.rs).
THEOREM SessionSafe == Spec => []SessionInv
<1>1. AcpInv => SessionInv
  BY DEF AcpInv, SessionInv
<1> QED
  BY <1>1, AcpInvHolds, PTL

\* Until run_turn has returned an error, what a turn returns is the agent's
\* answer to the prompt of that turn (acp.rs process_one_turn).
THEOREM AnswersOwn == Spec => []AnswersAreOwn
<1>1. AcpInv => AnswersAreOwn
  BY DEF AcpInv
<1> QED
  BY <1>1, AcpInvHolds, PTL

-----------------------------------------------------------------------------
\* From the cancellation on, a turn that has not started will not succeed.
LEMMA CancelledStep ==
  ASSUME AcpInv, [Next]_vars, NEW t \in Turns, CancelledInv(t)
  PROVE  CancelledInv(t)'
<1> USE DEF AcpInv, Bookkeeping
<1>1. /\ turn \in Nat /\ current \in Nat /\ Turns \subseteq Nat \ {0} /\ result \in [Turns -> Result]
      /\ t \in Nat
  BY BoundsType DEF TypeOK
<1>2. /\ flag /\ result[t].outcome # "succeeded" /\ (turn = t => reply.outcome # "succeeded")
      /\ (current = t /\ reactor = "reading" => cancelSent)
  BY DEF CancelledInv
<1>3. flag'
  BY <1>2 DEF Next, vars, Caller, Reactor, Turn, Agent, StartSession, SessionStarted,
       StartFails, RunTurn, TurnReturns, TotalTimeout, StopSession, Cancel, SpawnFails, SpawnAgent,
       HandshakeStep, HandshakeFails, ConnectionFails, LastSenderGone, ReactorEnds,
       TakePrompt, LoopTop, ReceiveStop, ReceiveUpdate, ReceiveAsk, GraceElapsed, ReadFails,
       ProgressTimeout, AgentUpdates, AgentAsks, AgentStops, AgentDies
<1>4. result'[t].outcome # "succeeded"
  <2>1. CASE RunTurn
    <3>1. result'[t] = result[t] \/ result'[t].outcome = "turn_failed"
      BY <1>1, <2>1 DEF RunTurn, Failure
    <3> QED
      BY <1>2, <3>1
  <2>2. CASE TotalTimeout
    <3>1. result'[t] = result[t] \/ result'[t].outcome = "total_timeout"
      BY <1>1, <2>2 DEF TotalTimeout, Failure
    <3> QED
      BY <1>2, <3>1
  <2>3. CASE TurnReturns
    <3>1. result'[t] = result[t] \/ (t = turn /\ result'[t] = reply)
      BY <1>1, <2>3 DEF TurnReturns
    <3> QED
      BY <1>2, <3>1
  <2>4. CASE CallRests \/ ReportsError \/ ReceiveStop \/ ReactorEnds
    BY <1>2, <2>4 DEF CallRests, ReportsError, ReceiveStop, ReactorEnds, callerVars
  <2> QED
    BY <2>1, <2>2, <2>3, <2>4, CallMoves
<1>5. turn' = t => reply'.outcome # "succeeded"
  <2>1. None.outcome # "succeeded"
    BY DEF None
  <2>2. CASE RunTurn
    BY <2>1, <2>2 DEF RunTurn, OneResult
  <2>3. CASE TotalTimeout \/ CallRests
    BY <1>2, <2>3 DEF TotalTimeout, CallRests
  <2>4. CASE TurnReturns
    BY <2>1, <2>4 DEF TurnReturns
  <2>5. CASE ReportsError \/ ReactorEnds
    <3>1. turn' = turn /\ (reply' = reply \/ reply'.outcome \in Errors)
      BY <2>5 DEF ReportsError, ReactorEnds, Answer, Send, Failure, Errors, callerVars
    <3> QED
      BY <1>2, <3>1 DEF Errors
  <2>6. CASE ReceiveStop
    <3>1. turn' = turn /\ reactor = "reading"
      BY <2>6 DEF ReceiveStop, callerVars, Receive
    <3>2. \/ reply' = reply
          \/ /\ current = turn
             /\ reply'.outcome = MapStopReason(Head(stream).kind, cancelSent)
      BY <2>6 DEF ReceiveStop, Answer, Send
    <3>3. \A k \in StopReasons : MapStopReason(k, TRUE) # "succeeded"
      BY DEF MapStopReason, StopReasons
    <3>4. Head(stream).kind \in StopReasons
      BY <2>6 DEF ReceiveStop, Receive
    <3>5. cancelSent \in BOOLEAN
      BY DEF TypeOK
    <3> QED
      BY <1>2, <3>1, <3>2, <3>3, <3>4, <3>5
  <2> QED
    BY <2>2, <2>3, <2>4, <2>5, <2>6, CallMoves
<1>6. current' = t /\ reactor' = "reading" => cancelSent'
  <2>1. CASE LoopTop
    BY <1>2, <2>1 DEF LoopTop
  <2>2. CASE UNCHANGED <<reactor, current, cancelSent>>
    BY <1>2, <2>2
  <2>3. LoopTop \/ UNCHANGED <<reactor, current, cancelSent>> \/ reactor' # "reading"
    BY DEF Next, vars, reactorVars, Caller, Reactor, Turn, Agent, StartSession, SessionStarted,
       StartFails, RunTurn, TurnReturns, TotalTimeout, StopSession, Cancel, SpawnFails, SpawnAgent,
       HandshakeStep, HandshakeFails, ConnectionFails, LastSenderGone, ReactorEnds, Answer,
       TakePrompt, LoopTop, ReceiveStop, ReceiveUpdate, ReceiveAsk, GraceElapsed, ReadFails,
       ProgressTimeout, AgentUpdates, AgentAsks, AgentStops, AgentDies
  <2> QED
    BY <2>1, <2>2, <2>3
<1> QED
  BY <1>3, <1>4, <1>5, <1>6 DEF CancelledInv

\* A turn that has not started when the flag is set has no result.
LEMMA CancelledStart ==
  ASSUME AcpInv, NEW t \in Turns, flag, turn < t
  PROVE  CancelledInv(t)
<1> USE DEF AcpInv, Bookkeeping
<1>1. turn \in Nat /\ current \in Nat /\ t \in Nat /\ current <= turn
  BY BoundsType DEF TypeOK, InOrder
<1>2. result[t] = None
  BY DEF OneResult
<1> QED
  BY <1>1, <1>2 DEF CancelledInv, None

\* A turn that starts after the cancellation never counts as a success, even
\* if the agent ends it without noticing (acp.rs map_stop_reason).
THEOREM CancelledNeverSucceeds == Spec => CancelledTurnsFail
<1> SUFFICES ASSUME NEW t \in Turns
             PROVE  Spec => [](flag /\ turn < t => [](result[t].outcome # "succeeded"))
  BY DEF CancelledTurnsFail
<1>1. AcpInv /\ flag /\ turn < t => CancelledInv(t)
  BY CancelledStart
<1>2. AcpInv /\ CancelledInv(t) /\ [Next]_vars => CancelledInv(t)'
  BY CancelledStep
<1>3. CancelledInv(t) => result[t].outcome # "succeeded"
  BY DEF CancelledInv
<1> QED
  BY <1>1, <1>2, <1>3, AcpInvHolds, PTL DEF Spec

=============================================================================

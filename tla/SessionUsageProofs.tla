------------------------- MODULE SessionUsageProofs -------------------------
(***************************************************************************)
(* The safety properties of SessionUsage, for any number of runs, turns,   *)
(* steps and tokens, and channels of any size: one inductive invariant,    *)
(* UsageIInv.                                                              *)
(*                                                                         *)
(* Its heart is a ledger of what the events on their way to an entry will  *)
(* add to the totals.  The sum of a sequence of events is not computed: an *)
(* assignment s of a balance to every place of the queue is said to exist. *)
(***************************************************************************)
EXTENDS SessionUsage, TLAPS

\* The tokens last reported when the first k events of q have been applied to a
\* session that had l.
LastAt(q, l, k) == IF k = 0 THEN l ELSE q[k].n

\* s is a balance after each of them.
Adds(q, l, s) ==
  /\ s \in [0..Len(q) -> Int]
  /\ \A k \in 1..Len(q) : s[k] = s[k - 1] + Delta(q[k].n, LastAt(q, l, k - 1))
  /\ \A j, k \in 0..Len(q) : j <= k => s[j] <= s[k]

\* Session and total as the usage event in hand, if there is one, leaves them.
Base(r) == IF held[r].busy THEN held[r].n ELSE sess.last
Pending(r) == IF held[r].busy THEN Delta(held[r].n, held[r].last) ELSE 0

\* All that the queue will add, and the step's tokens that it does not tell of,
\* have been used.
Backed(r, s) ==
  s[Len(chan[r])] <=
    IF pc[r] = "metadata" THEN 0
    ELSE 0 - Delta(step[r].tokens, LastAt(chan[r], Base(r), Len(chan[r])))

\* What the last step has reported is the last event's, and counted when that
\* is applied.
Covered(r, s) ==
  pc[r] \in {"turn", "draining", "result"} /\ step[r].number > 0 =>
    /\ step[r].reported = LastAt(chan[r], Base(r), Len(chan[r]))
    /\ \A k \in 0..Len(chan[r]) :
         (\A j \in (k + 1)..Len(chan[r]) : chan[r][j].kind # "start") =>
           tally[r] - surplus + s[k] >= LastAt(chan[r], Base(r), k)

Ledger(r) ==
  \E s : /\ Adds(chan[r], Base(r), s) /\ s[0] = surplus + Pending(r)
         /\ Backed(r, s) /\ Covered(r, s)

\* Outside of a turn nothing is left of one, but for the events of one that failed.
Quiet(r) ==
  /\ pc[r] \in {"new", "idle", "gone"} => step[r] = NoStep /\ usage[r] = 0
  /\ pc[r] \in {"new", "idle", "result", "metadata"} => chan[r] = <<>> /\ ~held[r].busy

\* The result's usage is that of the step that has finished with one.
ResultFits(r) ==
  /\ step[r].done => usage[r] = step[r].tokens
  /\ pc[r] \in {"draining", "result"} /\ ~astray => usage[r] = 0 \/ step[r].done

\* Only starts bring the tokens back to zero.
StartsAreZero(r) == \A k \in 1..Len(chan[r]) : chan[r][k].kind = "start" => chan[r][k].n = 0

\* What an entry's own run has read of its session is still so.
ReadIsCurrent(r) ==
  entry = r /\ ~astray =>
    /\ held[r].busy => sess # NoSession /\ held[r].last = sess.last
    /\ pc[r] = "result" => counted[r] = (sess.last > 0)

RunInv(r) ==
  /\ Quiet(r) /\ ResultFits(r) /\ StartsAreZero(r) /\ ReadIsCurrent(r)
  /\ entry = r /\ ~astray => Ledger(r)

UsageIInv ==
  /\ TypeOK /\ (astray => surplus = 0) /\ (entry = 0 => sess = NoSession)
  /\ \A r \in Runs : RunInv(r)
  /\ SessionIsOwn /\ NeverCountedTwice /\ LastStepIsCounted

-----------------------------------------------------------------------------
\* The bounds are naturals, and what is nothing has its type.
LEMMA ConstantsType ==
  /\ MaxRuns \in Nat /\ MaxTurns \in Nat /\ MaxSteps \in Nat /\ MaxTokens \in Nat
  /\ 0 \in 0..MaxTokens /\ 0 \in 0..MaxSteps /\ 0 \notin Runs
  /\ NoSession \in Sessions /\ NoStep \in Steps /\ NotHeld \in Holdings
<1>1. 0 \in 0..MaxTokens /\ 0 \in 0..MaxSteps /\ 0 \notin Runs
  BY UsageAssumption DEF Runs
<1> QED
  BY <1>1, UsageAssumption DEF NoSession, NoStep, NotHeld, Sessions, Steps, Holdings

\* The saturating subtraction.
LEMMA DeltaType ==
  \A m, n \in Int : /\ Delta(m, n) \in Nat /\ Delta(m, n) >= m - n
                    /\ (m <= n => Delta(m, n) = 0) /\ (m >= n => Delta(m, n) = m - n)
  BY DEF Delta

LEMMA DeltaGrows ==
  ASSUME NEW l \in Int, NEW m \in Int, NEW n \in Int, NEW d \in Int, d >= 0, n <= m + d
  PROVE  Delta(n, l) <= Delta(m, l) + d
  BY DEF Delta

\* What an event is.
LEMMA EventType ==
  /\ \A e \in Events : e.n \in 0..MaxTokens /\ e.n \in Int /\ e.kind \in {"start", "usage"}
  /\ \A n \in 0..MaxTokens, k \in {"start", "usage"} : [kind |-> k, n |-> n] \in Events
  BY DEF Events

\* A queue with one more event.
LEMMA Longer ==
  ASSUME NEW q \in Seq(Events), NEW e \in Events
  PROVE  /\ Append(q, e) \in Seq(Events) /\ Len(Append(q, e)) = Len(q) + 1 /\ Len(q) \in Nat
         /\ Append(q, e)[Len(q) + 1] = e
         /\ \A k \in 1..Len(q) : Append(q, e)[k] = q[k] /\ q[k] \in Events
  OBVIOUS

\* ... and with one less.
LEMMA Shorter ==
  ASSUME NEW q \in Seq(Events), q # <<>>
  PROVE  /\ Tail(q) \in Seq(Events) /\ Len(Tail(q)) = Len(q) - 1 /\ Len(q) \in Nat \ {0}
         /\ Head(q) = q[1] /\ Head(q) \in Events
         /\ \A k \in 1..(Len(q) - 1) : Tail(q)[k] = q[k + 1]
  OBVIOUS

-----------------------------------------------------------------------------
\* A step gives one run a value of T, or none.
Moves(old, new, T) == new = old \/ \E r \in Runs, x \in T : new = [old EXCEPT ![r] = x]

\* A move keeps a type.
LEMMA MovesType ==
  ASSUME NEW T, NEW old \in [Runs -> T], NEW new, Moves(old, new, T)
  PROVE  new \in [Runs -> T]
  BY DEF Moves

Labels == {"new", "idle", "turn", "draining", "result", "metadata", "gone"}

\* How a step moves the runs.
LEMMA PcMoves ==
  ASSUME [Next]_vars
  PROVE  Moves(pc, pc', Labels)
<1>1. ASSUME NEW r \in Runs,
             \/ Dispatch(r) \/ BeginTurn(r) \/ StepStart(r) \/ TokenUsage(r)
                \/ StepFinish(r)
             \/ TurnEnds(r) \/ TurnFails(r) \/ Drained(r) \/ Fallback(r) \/ Metadata(r)
                \/ Consumer(r)
      PROVE  Moves(pc, pc', Labels)
  BY <1>1 DEF vars, stateVars, runVars, countVars, Goto, TurnGone, Count, Spend, Dispatch,
     RemoveEntry, BeginTurn, Emit, StepStart, TokenUsage, StepFinish, TurnEnds, TurnFails,
     Drained, Fallback, Metadata, Consume, ApplyStart, ReadUsage, AddUsage, Consumer, Moves,
     Labels
<1> QED
  BY <1>1 DEF Next, Moves, RemoveEntry, runVars, vars

LEMMA StepMoves ==
  ASSUME TypeOK, [Next]_vars
  PROVE  Moves(step, step', Steps)
<1>1. ASSUME NEW r \in Runs, StepStart(r)
      PROVE  Moves(step, step', Steps)
  <2>1. step[r].number \in 0..MaxSteps /\ step[r].number < MaxSteps
    BY <1>1 DEF StepStart, TypeOK, Steps
  <2>2. step[r].number + 1 \in 0..MaxSteps
    BY <2>1, ConstantsType
  <2>3. [NoStep EXCEPT !.number = step[r].number + 1] \in Steps
    BY <2>2, ConstantsType DEF Steps
  <2> QED
    BY <1>1, <2>3 DEF StepStart, Moves
<1>2. ASSUME NEW r \in Runs, TokenUsage(r)
      PROVE  Moves(step, step', Steps)
  <2>1. PICK n \in 1..MaxTokens : step' = [step EXCEPT ![r].tokens = n, ![r].reported = n]
    BY <1>2 DEF TokenUsage
  <2>2. n \in 0..MaxTokens
    BY ConstantsType
  <2>3. step' = [step EXCEPT ![r] = [step[r] EXCEPT !.tokens = n, !.reported = n]]
    BY <2>1 DEF TypeOK
  <2>4. [step[r] EXCEPT !.tokens = n, !.reported = n] \in Steps
    BY <2>2 DEF TypeOK, Steps
  <2> QED
    BY <2>3, <2>4 DEF Moves
<1>3. ASSUME NEW r \in Runs, StepFinish(r)
      PROVE  Moves(step, step', Steps)
  <2>1. PICK n \in {0} \cup (step[r].tokens..MaxTokens) :
          step' = [step EXCEPT ![r].done = (n > 0), ![r].tokens = IF n = 0 THEN @ ELSE n]
    BY <1>3 DEF StepFinish
  <2>2. step[r] \in Steps /\ step[r].tokens \in 0..MaxTokens
    BY DEF TypeOK, Steps
  <2>3. n \in 0..MaxTokens /\ (n > 0) \in BOOLEAN
    BY <2>2, ConstantsType
  <2> DEFINE x == [step[r] EXCEPT !.done = (n > 0), !.tokens = IF n = 0 THEN step[r].tokens
      ELSE n]
  <2>4. step' = [step EXCEPT ![r] = x]
    BY <2>1 DEF TypeOK, Steps
  <2>5. x \in Steps
    BY <2>2, <2>3 DEF Steps
  <2> HIDE DEF x
  <2> QED
    BY <2>4, <2>5 DEF Moves
<1>4. ASSUME NEW r \in Runs,
             \/ Dispatch(r) \/ BeginTurn(r) \/ TurnEnds(r) \/ TurnFails(r) \/ Drained(r)
             \/ Fallback(r) \/ Metadata(r) \/ Consumer(r)
      PROVE  Moves(step, step', Steps)
  BY <1>4, ConstantsType DEF vars, stateVars, runVars, countVars, Goto, TurnGone, Count,
     Spend, Dispatch, RemoveEntry, BeginTurn, Emit, TurnEnds, TurnFails, Drained, Fallback,
     Metadata, Consume, ApplyStart, ReadUsage, AddUsage, Consumer, Moves
<1> QED
  BY <1>1, <1>2, <1>3, <1>4 DEF Next, Moves, RemoveEntry, runVars, vars

LEMMA UsageMoves ==
  ASSUME TypeOK, [Next]_vars
  PROVE  Moves(usage, usage', 0..MaxTokens) /\ Moves(counted, counted', BOOLEAN)
<1>1. ASSUME NEW r \in Runs, StepFinish(r)
      PROVE  Moves(usage, usage', 0..MaxTokens) /\ counted' = counted
  <2>1. PICK n \in {0} \cup (step[r].tokens..MaxTokens) : usage' = [usage EXCEPT ![r] = n]
        \/ usage' = usage
    BY <1>1 DEF StepFinish
  <2>2. step[r].tokens \in 0..MaxTokens
    BY DEF TypeOK, Steps
  <2>3. n \in 0..MaxTokens
    BY <2>2, ConstantsType
  <2> QED
    BY <1>1, <2>1, <2>3 DEF StepFinish, Moves
<1>2. ASSUME NEW r \in Runs,
             \/ Dispatch(r) \/ BeginTurn(r) \/ TurnEnds(r) \/ TurnFails(r) \/ StepStart(r)
             \/ TokenUsage(r) \/ Drained(r) \/ Fallback(r) \/ Metadata(r) \/ Consumer(r)
      PROVE  Moves(usage, usage', 0..MaxTokens) /\ Moves(counted, counted', BOOLEAN)
  <2>1. Moves(usage, usage', 0..MaxTokens)
    BY <1>2, ConstantsType DEF vars, stateVars, runVars, countVars, Goto, TurnGone, Count,
       Spend, Dispatch, RemoveEntry, BeginTurn, Emit, StepStart, TokenUsage, TurnEnds,
       TurnFails, Drained, Fallback, Metadata, Consume, ApplyStart, ReadUsage, AddUsage,
       Consumer, Moves
  <2>2. CASE Drained(r)
    <3>1. (sess.last > 0) \in BOOLEAN
      OBVIOUS
    <3>2. counted' = [counted EXCEPT ![r] = sess.last > 0]
      BY <2>2 DEF Drained
    <3>3. Moves(counted, counted', BOOLEAN)
      BY <3>1, <3>2, Zenon DEF Moves
    <3> QED
      BY <2>1, <3>3
  <2>3. CASE ~Drained(r)
    BY <1>2, <2>1, <2>3 DEF vars, stateVars, runVars, countVars, Goto, TurnGone, Count,
       Spend, Dispatch, RemoveEntry, BeginTurn, Emit, StepStart, TokenUsage, TurnEnds,
       TurnFails, Fallback, Metadata, Consume, ApplyStart, ReadUsage, AddUsage, Consumer,
       Moves
  <2> QED
    BY <2>2, <2>3
<1> QED
  BY <1>1, <1>2 DEF Next, Moves, RemoveEntry, runVars, vars

LEMMA ChanMoves ==
  ASSUME TypeOK, [Next]_vars
  PROVE  chan' \in [Runs -> Seq(Events)] /\ \A r \in Runs : Len(chan'[r]) <= Cap
<1>0. chan \in [Runs -> Seq(Events)] /\ Cap \in Nat /\ \A r \in Runs : Len(chan[r]) <= Cap
  BY UsageAssumption DEF TypeOK
<1>1. ASSUME NEW r \in Runs, NEW k \in {"start", "usage"}, NEW n \in 0..MaxTokens, Emit(r,
             k, n)
      PROVE  chan' \in [Runs -> Seq(Events)] /\ \A s \in Runs : Len(chan'[s]) <= Cap
  <2> DEFINE e == [kind |-> k, n |-> n]
  <2>1. e \in Events
    BY EventType
  <2>2. chan' = [chan EXCEPT ![r] = Append(chan[r], e)] /\ Len(chan[r]) < Cap
    BY <1>1 DEF Emit
  <2> HIDE DEF e
  <2>3. Append(chan[r], e) \in Seq(Events) /\ Len(Append(chan[r], e)) = Len(chan[r]) + 1
        /\ Len(chan[r]) \in Nat
    BY <1>0, <2>1, Longer
  <2>4. Len(Append(chan[r], e)) <= Cap
    BY <1>0, <2>2, <2>3
  <2> QED
    BY <1>0, <2>2, <2>3, <2>4
<1>2. ASSUME NEW r \in Runs, NEW k, Consume(r, k)
      PROVE  chan' \in [Runs -> Seq(Events)] /\ \A s \in Runs : Len(chan'[s]) <= Cap
  <2>1. chan' = [chan EXCEPT ![r] = Tail(chan[r])] /\ chan[r] # <<>>
    BY <1>2 DEF Consume
  <2>2. Tail(chan[r]) \in Seq(Events) /\ Len(Tail(chan[r])) = Len(chan[r]) - 1
        /\ Len(chan[r]) \in Nat
    BY <1>0, <2>1, Shorter
  <2>3. Len(Tail(chan[r])) <= Cap
    BY <1>0, <2>2
  <2> QED
    BY <1>0, <2>1, <2>2, <2>3
<1>3. ASSUME NEW r \in Runs, StepStart(r) \/ TokenUsage(r)
      PROVE  \E k \in {"start", "usage"}, n \in 0..MaxTokens : Emit(r, k, n)
  <2>1. 1..MaxTokens \subseteq 0..MaxTokens
    BY ConstantsType
  <2> QED
    BY <1>3, <2>1, ConstantsType DEF StepStart, TokenUsage
<1>4. ASSUME NEW r \in Runs, ApplyStart(r) \/ ReadUsage(r)
      PROVE  \E k : Consume(r, k)
  BY <1>4 DEF ApplyStart, ReadUsage
<1>5. ASSUME NEW r \in Runs,
             \/ Dispatch(r) \/ BeginTurn(r) \/ TurnEnds(r) \/ TurnFails(r) \/ StepFinish(r)
             \/ Drained(r) \/ Fallback(r) \/ Metadata(r) \/ AddUsage(r)
      PROVE  chan' = chan
  BY <1>5 DEF Dispatch, BeginTurn, TurnEnds, TurnFails, StepFinish, Drained, Fallback,
     Metadata, AddUsage
<1>6. CASE RemoveEntry \/ UNCHANGED vars
  BY <1>0, <1>6 DEF RemoveEntry, vars
<1> QED
  BY <1>0, <1>1, <1>2, <1>3, <1>4, <1>5, <1>6 DEF Next, Consumer

LEMMA HeldMoves ==
  ASSUME TypeOK, [Next]_vars
  PROVE  Moves(held, held', Holdings)
<1>1. ASSUME NEW r \in Runs, ReadUsage(r)
      PROVE  Moves(held, held', Holdings)
  <2>1. chan[r] \in Seq(Events) /\ chan[r] # <<>>
    BY <1>1 DEF ReadUsage, Consume, TypeOK
  <2>2. Head(chan[r]).n \in 0..MaxTokens /\ sess.last \in 0..MaxTokens
    BY <2>1, Shorter, EventType DEF TypeOK, Sessions
  <2>3. [busy |-> TRUE, n |-> Head(chan[r]).n, last |-> sess.last] \in Holdings
    BY <2>2 DEF Holdings
  <2> QED
    BY <1>1, <2>3 DEF ReadUsage, Moves
<1>2. ASSUME NEW r \in Runs, AddUsage(r)
      PROVE  Moves(held, held', Holdings)
  BY <1>2, ConstantsType DEF AddUsage, Moves
<1>3. ASSUME NEW r \in Runs,
             \/ Dispatch(r) \/ BeginTurn(r) \/ TurnEnds(r) \/ TurnFails(r) \/ StepFinish(r)
             \/ StepStart(r) \/ TokenUsage(r)
             \/ Drained(r) \/ Fallback(r) \/ Metadata(r) \/ ApplyStart(r)
      PROVE  held' = held
  BY <1>3 DEF Dispatch, BeginTurn, TurnEnds, TurnFails, StepFinish, StepStart, TokenUsage,
     Drained, Fallback, Metadata, ApplyStart
<1> QED
  BY <1>1, <1>2, <1>3 DEF Next, Consumer, Moves, RemoveEntry, vars

\* The entry, its session and the turns.
LEMMA EntryType ==
  ASSUME TypeOK, [Next]_vars
  PROVE  entry' \in Runs \cup {0} /\ sess' \in Sessions /\ turns' \in 0..MaxTurns
<1>0. /\ entry \in Runs \cup {0} /\ sess \in Sessions /\ turns \in 0..MaxTurns
      /\ \A s \in Sessions, r \in Runs, n \in 0..MaxTokens :
           /\ [run |-> r, last |-> n] \in Sessions
           /\ [s EXCEPT !.last = n] \in Sessions /\ [s EXCEPT !.run = r] \in Sessions
  BY DEF TypeOK, Sessions
<1>1. ASSUME NEW r \in Runs, Dispatch(r) \/ BeginTurn(r)
      PROVE  entry' \in Runs \cup {0} /\ sess' \in Sessions /\ turns' \in 0..MaxTurns
  <2>1. turns' \in 0..MaxTurns
    BY <1>0, <1>1, ConstantsType DEF Dispatch, BeginTurn
  <2> QED
    BY <1>0, <1>1, <2>1, ConstantsType DEF Dispatch, BeginTurn, stateVars
<1>2. ASSUME NEW r \in Runs,
             \/ TurnEnds(r) \/ TurnFails(r) \/ StepFinish(r) \/ StepStart(r)
                \/ TokenUsage(r)
             \/ Drained(r) \/ ReadUsage(r)
      PROVE  UNCHANGED <<entry, sess, turns>>
  BY <1>2 DEF TurnEnds, TurnFails, StepFinish, StepStart, TokenUsage, Drained, ReadUsage,
     stateVars, runVars
<1>3. ASSUME NEW r \in Runs, Fallback(r)
      PROVE  entry' = entry /\ turns' = turns /\ sess' \in Sessions
  <2>1. usage[r] \in 0..MaxTokens
    BY DEF TypeOK
  <2> QED
    BY <1>0, <1>3, <2>1 DEF Fallback
<1>4. ASSUME NEW r \in Runs, Metadata(r)
      PROVE  entry' = entry /\ turns' = turns /\ sess' \in Sessions
  <2>1. usage[r] \in 0..MaxTokens
    BY DEF TypeOK
  <2>2. sess' \in {sess, [run |-> r, last |-> usage[r]], [sess EXCEPT !.run = r]}
    BY <1>4 DEF Metadata
  <2> QED
    BY <1>0, <1>4, <2>1, <2>2 DEF Metadata
<1>5. ASSUME NEW r \in Runs, ApplyStart(r)
      PROVE  entry' = entry /\ turns' = turns /\ sess' \in Sessions
  BY <1>0, <1>5, ConstantsType DEF ApplyStart, runVars
<1>6. ASSUME NEW r \in Runs, AddUsage(r)
      PROVE  entry' = entry /\ turns' = turns /\ sess' \in Sessions
  <2>1. held[r].n \in 0..MaxTokens
    BY DEF TypeOK, Holdings
  <2> QED
    BY <1>0, <1>6, <2>1 DEF AddUsage, runVars
<1>7. CASE RemoveEntry \/ UNCHANGED vars
  BY <1>0, <1>7, ConstantsType DEF RemoveEntry, runVars, vars, stateVars
<1> QED
  BY <1>0, <1>1, <1>2, <1>3, <1>4, <1>5, <1>6, <1>7 DEF Next, Consumer

-----------------------------------------------------------------------------

\* The count keeps its type.
LEMMA CountType ==
  ASSUME TypeOK, NEW r \in Runs, NEW n \in Nat, NEW where, Count(r, n, where)
  PROVE  surplus' \in Int /\ tally' \in [Runs -> Nat] /\ astray' \in BOOLEAN
<1>1. surplus \in Int /\ tally \in [Runs -> Nat] /\ astray \in BOOLEAN
  BY DEF TypeOK
<1>2. astray' \in BOOLEAN
  BY <1>1, Zenon DEF Count
<1>3. surplus' \in Int
  BY <1>1 DEF Count
<1>4. tally[r] + n \in Nat
  BY <1>1
<1>5. tally' \in [Runs -> Nat]
  BY <1>1, <1>4 DEF Count
<1> QED
  BY <1>2, <1>3, <1>5

LEMMA TallyType ==
  ASSUME TypeOK, [Next]_vars
  PROVE  surplus' \in Int /\ tally' \in [Runs -> Nat] /\ astray' \in BOOLEAN
<1>0. surplus \in Int /\ tally \in [Runs -> Nat] /\ astray \in BOOLEAN
  BY DEF TypeOK
<1>1. ASSUME NEW r \in Runs, TurnEnds(r) \/ ApplyStart(r) \/ ReadUsage(r)
      PROVE  surplus' \in Int /\ tally' \in [Runs -> Nat] /\ astray' \in BOOLEAN
  <2>1. \E where : Count(r, 0, where)
    BY <1>1 DEF TurnEnds, ApplyStart, ReadUsage
  <2> QED
    BY <2>1, CountType
<1>2. ASSUME NEW r \in Runs, Fallback(r)
      PROVE  surplus' \in Int /\ tally' \in [Runs -> Nat] /\ astray' \in BOOLEAN
  <2>1. usage[r] \in Nat
    BY ConstantsType DEF TypeOK
  <2>2. (IF counted[r] THEN 0 ELSE usage[r]) \in Nat
    BY <2>1
  <2> QED
    BY <1>2, <2>2, CountType DEF Fallback
<1>3. ASSUME NEW r \in Runs, AddUsage(r)
      PROVE  surplus' \in Int /\ tally' \in [Runs -> Nat] /\ astray' \in BOOLEAN
  <2>1. held[r].n \in Int /\ held[r].last \in Int
    BY ConstantsType DEF TypeOK, Holdings
  <2>2. Delta(held[r].n, held[r].last) \in Nat
    BY <2>1, DeltaType
  <2> QED
    BY <1>3, <2>2, CountType DEF AddUsage
<1>4. ASSUME NEW r \in Runs, TokenUsage(r)
      PROVE  surplus' \in Int /\ tally' = tally /\ astray' = astray
  <2>1. PICK n \in 1..MaxTokens : Spend(n - step[r].tokens)
    BY <1>4 DEF TokenUsage
  <2>2. step[r].tokens \in Int /\ n \in Int
    BY ConstantsType DEF TypeOK, Steps
  <2> QED
    BY <1>0, <1>4, <2>1, <2>2 DEF TokenUsage, Spend
<1>5. ASSUME NEW r \in Runs, StepFinish(r)
      PROVE  surplus' \in Int /\ tally' = tally /\ astray' = astray
  <2>1. step[r].tokens \in 0..MaxTokens
    BY DEF TypeOK, Steps
  <2>2. PICK n \in {0} \cup (step[r].tokens..MaxTokens) : Spend(Delta(n, step[r].tokens))
    BY <1>5 DEF StepFinish
  <2>3. n \in Int /\ step[r].tokens \in Int
    BY <2>1, ConstantsType
  <2>4. Delta(n, step[r].tokens) \in Nat
    BY <2>3, DeltaType
  <2> QED
    BY <1>0, <1>5, <2>2, <2>4 DEF StepFinish, Spend
<1>6. ASSUME NEW r \in Runs, TurnFails(r) \/ Metadata(r)
      PROVE  surplus' \in Int /\ tally' \in [Runs -> Nat] /\ astray' \in BOOLEAN
  <2>1. tally' \in [Runs -> Nat]
    BY <1>0, <1>6 DEF TurnFails, Metadata, TurnGone
  <2>2. surplus' \in Int
    BY <1>0, <1>6 DEF TurnFails, Metadata
  <2>3. astray' \in BOOLEAN
    BY <1>0, <1>6, Zenon DEF TurnFails, Metadata
  <2> QED
    BY <2>1, <2>2, <2>3
<1>7. ASSUME \/ \E r \in Runs : Dispatch(r) \/ BeginTurn(r) \/ StepStart(r) \/ Drained(r)
             \/ RemoveEntry \/ UNCHANGED vars
      PROVE  UNCHANGED countVars
  BY <1>7 DEF Dispatch, BeginTurn, StepStart, Drained, RemoveEntry, vars
<1> QED
  BY <1>0, <1>1, <1>2, <1>3, <1>4, <1>5, <1>6, <1>7 DEF Next, Consumer, countVars

\* Every step keeps the types.
LEMMA TypeStep ==
  ASSUME TypeOK, [Next]_vars
  PROVE  TypeOK'
<1>1. pc' \in [Runs -> Labels] /\ step' \in [Runs -> Steps] /\ held' \in [Runs -> Holdings]
  BY PcMoves, StepMoves, HeldMoves, MovesType DEF TypeOK, Labels
<1>2. usage' \in [Runs -> 0..MaxTokens] /\ counted' \in [Runs -> BOOLEAN]
  BY UsageMoves, MovesType DEF TypeOK
<1> QED
  BY <1>1, <1>2, ChanMoves, EntryType, TallyType DEF TypeOK, Labels


-----------------------------------------------------------------------------
\* Balances along a queue: of an empty one,
LEMMA AddsEmpty ==
  ASSUME NEW l \in Int, NEW a \in Int
  PROVE  \E s : Adds(<<>>, l, s) /\ s[0] = a
<1> DEFINE s == [k \in 0..0 |-> a]
<1>1. Adds(<<>>, l, s)
  BY DEF Adds
<1>2. s[0] = a
  OBVIOUS
<1> QED
  BY <1>1, <1>2

\* of the same queue when d tokens more have been used,
Less(q, s, d) == [k \in 0..Len(q) |-> s[k] - d]

LEMMA AddsShift ==
  ASSUME NEW q \in Seq(Events), NEW l \in Int, NEW d \in Int, NEW s, Adds(q, l, s)
  PROVE  Adds(q, l, Less(q, s, d))
<1> DEFINE t == Less(q, s, d)
<1>0. Len(q) \in Nat /\ \A k \in 0..Len(q) : s[k] \in Int
  BY DEF Adds
<1>1. t \in [0..Len(q) -> Int] /\ \A k \in 0..Len(q) : t[k] = s[k] - d
  BY <1>0 DEF Less
<1> HIDE DEF t
<1>2. ASSUME NEW k \in 1..Len(q)
      PROVE  t[k] = t[k - 1] + Delta(q[k].n, LastAt(q, l, k - 1))
  <2>1. k - 1 \in 0..Len(q) /\ k \in 0..Len(q)
    BY <1>0
  <2>2. s[k] = s[k - 1] + Delta(q[k].n, LastAt(q, l, k - 1))
    BY DEF Adds
  <2>3. q[k] \in Events /\ (k - 1 # 0 => q[k - 1] \in Events)
    BY <1>0, <2>1
  <2>4. q[k].n \in Int /\ LastAt(q, l, k - 1) \in Int
    BY <2>1, <2>3, EventType DEF LastAt
  <2> DEFINE x == Delta(q[k].n, LastAt(q, l, k - 1))
  <2>5. x \in Nat
    BY <2>4, DeltaType
  <2>6. s[k] = s[k - 1] + x
    BY <2>2
  <2> HIDE DEF x
  <2>7. t[k] = t[k - 1] + x
    BY <1>0, <1>1, <2>1, <2>5, <2>6
  <2> QED
    BY <2>7 DEF x
<1>3. ASSUME NEW j \in 0..Len(q), NEW k \in 0..Len(q), j <= k
      PROVE  t[j] <= t[k]
  BY <1>0, <1>1, <1>3 DEF Adds
<1>4. Adds(q, l, t)
  BY <1>1, <1>2, <1>3 DEF Adds
<1> QED
  BY <1>4 DEF t

\* of a queue with one more event,
LEMMA AddsAppend ==
  ASSUME NEW q \in Seq(Events), NEW l \in Int, NEW e \in Events, NEW s, Adds(q, l, s)
  PROVE  \E t : /\ Adds(Append(q, e), l, t) /\ \A k \in 0..Len(q) : t[k] = s[k]
                /\ t[Len(q) + 1] = s[Len(q)] + Delta(e.n, LastAt(q, l, Len(q)))
<1> DEFINE m == Len(q)
           p == Append(q, e)
           d == Delta(e.n, LastAt(q, l, m))
           t == [k \in 0..(m + 1) |-> IF k = m + 1 THEN s[m] + d ELSE s[k]]
<1>0. /\ m \in Nat /\ Len(p) = m + 1 /\ p[m + 1] = e
      /\ \A k \in 1..m : p[k] = q[k]
  BY Longer
<1>1. d \in Nat
  <2>1. LastAt(q, l, m) \in Int
    BY <1>0, EventType DEF LastAt
  <2>2. e.n \in Int
    BY EventType
  <2> QED
    BY <2>1, <2>2, DeltaType
<1>2. /\ s \in [0..m -> Int] /\ \A j, k \in 0..m : j <= k => s[j] <= s[k]
      /\ \A k \in 1..m : s[k] = s[k - 1] + Delta(q[k].n, LastAt(q, l, k - 1))
  BY DEF Adds
<1>3. \A k \in 0..m : LastAt(p, l, k) = LastAt(q, l, k)
  BY <1>0 DEF LastAt
<1>4. d = Delta(e.n, LastAt(q, l, m))
  OBVIOUS
<1> HIDE DEF d, m, p
<1>5. t \in [0..(m + 1) -> Int] /\ t[m + 1] = s[m] + d /\ \A k \in 0..m : t[k] = s[k]
  BY <1>0, <1>1, <1>2
<1> HIDE DEF t
<1>6. ASSUME NEW k \in 1..(m + 1)
      PROVE  t[k] = t[k - 1] + Delta(p[k].n, LastAt(p, l, k - 1))
  <2>1. CASE k = m + 1
    <3>1. k - 1 = m /\ m \in 0..m
      BY <1>0, <2>1
    <3> QED
      BY <1>0, <1>3, <1>4, <1>5, <2>1, <3>1
  <2>2. CASE k \in 1..m
    <3>1. k - 1 \in 0..m /\ k \in 0..m
      BY <1>0, <2>2
    <3> QED
      BY <1>0, <1>2, <1>3, <1>5, <2>2, <3>1
  <2> QED
    BY <1>0, <2>1, <2>2
<1>7. ASSUME NEW j \in 0..(m + 1), NEW k \in 0..(m + 1), j <= k
      PROVE  t[j] <= t[k]
  <2>1. CASE k \in 0..m
    <3>1. j \in 0..m
      BY <1>0, <1>7, <2>1
    <3> QED
      BY <1>2, <1>5, <1>7, <2>1, <3>1
  <2>2. CASE k = m + 1 /\ j \in 0..m
    <3>1. m \in 0..m /\ j <= m
      BY <1>0, <2>2
    <3>2. s[j] <= s[m] /\ s[j] \in Int /\ s[m] \in Int
      BY <1>2, <2>2, <3>1
    <3> QED
      BY <1>1, <1>5, <2>2, <3>2
  <2>3. CASE k = m + 1 /\ j = m + 1
    BY <1>0, <1>5, <2>3
  <2> QED
    BY <1>0, <2>1, <2>2, <2>3
<1>8. Adds(p, l, t)
  BY <1>0, <1>5, <1>6, <1>7 DEF Adds
<1> QED
  BY <1>4, <1>5, <1>8 DEF p, m

\* and of one whose first event has been applied.
LEMMA AddsTail ==
  ASSUME NEW q \in Seq(Events), NEW l \in Int, NEW s, q # <<>>, Adds(q, l, s)
  PROVE  \E t : /\ Adds(Tail(q), Head(q).n, t)
                /\ \A k \in 0..Len(Tail(q)) : t[k] = s[k + 1]
<1> DEFINE m == Len(q) - 1
           p == Tail(q)
           b == Head(q).n
           t == [k \in 0..m |-> s[k + 1]]
<1>0. /\ m \in Nat /\ Len(p) = m /\ Len(q) = m + 1 /\ b = q[1].n
      /\ \A k \in 1..m : p[k] = q[k + 1]
  BY Shorter
<1>1. /\ s \in [0..(m + 1) -> Int] /\ \A j, k \in 0..(m + 1) : j <= k => s[j] <= s[k]
      /\ \A k \in 1..(m + 1) : s[k] = s[k - 1] + Delta(q[k].n, LastAt(q, l, k - 1))
  BY <1>0 DEF Adds
<1> HIDE DEF m, p, b
<1>2. \A k \in 0..m : k + 1 \in 0..(m + 1) /\ k + 1 \in 1..(m + 1)
  BY <1>0
<1>3. \A k \in 0..m : LastAt(p, b, k) = LastAt(q, l, k + 1)
  BY <1>0 DEF LastAt
<1>4. t \in [0..m -> Int] /\ \A k \in 0..m : t[k] = s[k + 1]
  BY <1>0, <1>1, <1>2
<1> HIDE DEF t
<1>5. ASSUME NEW k \in 1..m
      PROVE  t[k] = t[k - 1] + Delta(p[k].n, LastAt(p, b, k - 1))
  <2>1. k - 1 \in 0..m /\ k \in 0..m /\ (k - 1) + 1 = k /\ (k + 1) - 1 = k
    BY <1>0
  <2>2. s[k + 1] = s[k] + Delta(q[k + 1].n, LastAt(q, l, k))
    BY <1>1, <1>2, <2>1
  <2>3. LastAt(p, b, k - 1) = LastAt(q, l, k) /\ t[k - 1] = s[k] /\ t[k] = s[k + 1]
    BY <1>3, <1>4, <2>1
  <2> QED
    BY <1>0, <2>2, <2>3
<1>6. ASSUME NEW j \in 0..m, NEW k \in 0..m, j <= k
      PROVE  t[j] <= t[k]
  <2>1. j + 1 <= k + 1
    BY <1>6
  <2> QED
    BY <1>1, <1>2, <1>4, <2>1
<1>7. Adds(p, b, t)
  BY <1>0, <1>4, <1>5, <1>6 DEF Adds
<1> QED
  BY <1>0, <1>4, <1>7 DEF p, b


-----------------------------------------------------------------------------
\* What a run may do, and what is its own.
Acts(r) ==
  \/ Dispatch(r) \/ BeginTurn(r) \/ StepStart(r) \/ TokenUsage(r)
  \/ StepFinish(r) \/ TurnEnds(r) \/ TurnFails(r) \/ Drained(r) \/ Fallback(r)
  \/ Metadata(r) \/ Consumer(r)

Still(r) ==
  /\ pc'[r] = pc[r] /\ step'[r] = step[r] /\ usage'[r] = usage[r]
     /\ counted'[r] = counted[r]
  /\ chan'[r] = chan[r] /\ held'[r] = held[r]

LEMMA OthersStill ==
  ASSUME TypeOK, NEW r \in Runs, NEW q \in Runs, q # r, Acts(q)
  PROVE  Still(r) /\ (astray' \/ tally'[r] = tally[r])
<1>0. /\ pc \in [Runs -> Labels] /\ step \in [Runs -> Steps]
         /\ usage \in [Runs -> 0..MaxTokens]
      /\ counted \in [Runs -> BOOLEAN] /\ chan \in [Runs -> Seq(Events)]
      /\ held \in [Runs -> Holdings] /\ tally \in [Runs -> Nat]
  BY DEF TypeOK, Labels
<1>1. pc'[r] = pc[r] /\ step'[r] = step[r] /\ usage'[r] = usage[r]
  BY <1>0, q # r, Acts(q) DEF Acts, vars, stateVars, runVars, countVars, Goto, TurnGone,
     Count, Spend, Dispatch, RemoveEntry, BeginTurn, Emit, StepStart, TokenUsage,
     StepFinish,
     TurnEnds, TurnFails, Drained, Fallback, Metadata, Consume, ApplyStart, ReadUsage,
     AddUsage, Consumer
<1>2. chan'[r] = chan[r] /\ held'[r] = held[r]
  BY <1>0, q # r, Acts(q) DEF Acts, vars, stateVars, runVars, countVars, Goto, TurnGone,
     Count, Spend, Dispatch, RemoveEntry, BeginTurn, Emit, StepStart, TokenUsage,
     StepFinish,
     TurnEnds, TurnFails, Drained, Fallback, Metadata, Consume, ApplyStart, ReadUsage,
     AddUsage, Consumer
<1>3. counted'[r] = counted[r]
  BY <1>0, q # r, Acts(q) DEF Acts, vars, stateVars, runVars, countVars, Goto, TurnGone,
     Count, Spend, Dispatch, RemoveEntry, BeginTurn, Emit, StepStart, TokenUsage,
     StepFinish,
     TurnEnds, TurnFails, Drained, Fallback, Metadata, Consume, ApplyStart, ReadUsage,
     AddUsage, Consumer
<1>4. astray' \/ tally'[r] = tally[r]
  BY <1>0, q # r, Acts(q) DEF Acts, vars, stateVars, runVars, countVars, Goto, TurnGone,
     Count, Spend, Dispatch, RemoveEntry, BeginTurn, Emit, StepStart, TokenUsage,
     StepFinish,
     TurnEnds, TurnFails, Drained, Fallback, Metadata, Consume, ApplyStart, ReadUsage,
     AddUsage, Consumer
<1> QED
  BY <1>1, <1>2, <1>3, <1>4 DEF Still

\* Another run that does not go astray leaves the entry's session alone, and
\* adds nothing to the totals.
LEMMA OthersApart ==
  ASSUME TypeOK, NEW r \in Runs, entry = r, NEW q \in Runs, q # r, Acts(q), ~astray'
  PROVE  entry' = r /\ sess' = sess /\ \E d \in Nat : surplus' = surplus - d
<1>0. surplus \in Int /\ 0 \in Nat /\ 0 \notin Runs
  BY ConstantsType DEF TypeOK
<1>1. CASE StepFinish(q)
  <2>1. PICK n \in {0} \cup (step[q].tokens..MaxTokens) : Spend(Delta(n, step[q].tokens))
    BY <1>1 DEF StepFinish
  <2>2. step[q].tokens \in Int /\ n \in Int
    BY <2>1 DEF TypeOK, Steps
  <2>3. Delta(n, step[q].tokens) \in Nat
    BY <2>2, DeltaType
  <2>4. ~astray /\ entry' = r /\ sess' = sess
    BY <1>1 DEF StepFinish, stateVars
  <2> QED
    BY <2>1, <2>3, <2>4 DEF Spend
<1>2. CASE TokenUsage(q)
  <2>1. PICK n \in 1..MaxTokens : n > step[q].tokens /\ Spend(n - step[q].tokens)
    BY <1>2 DEF TokenUsage
  <2>2. step[q].tokens \in Int /\ n \in Int
    BY <2>1 DEF TypeOK, Steps
  <2>3. n - step[q].tokens \in Nat
    BY <2>1, <2>2
  <2>4. ~astray /\ entry' = r /\ sess' = sess
    BY <1>2 DEF TokenUsage, stateVars
  <2> QED
    BY <2>1, <2>3, <2>4 DEF Spend
<1>3. CASE BeginTurn(q) \/ StepStart(q) \/ TurnEnds(q) \/ TurnFails(q) \/ Drained(q)
  <2>1. entry' = r /\ sess' = sess /\ surplus' = surplus
    BY <1>0, <1>3 DEF BeginTurn, StepStart, TurnEnds, TurnFails, Drained, stateVars,
       countVars, Count
  <2> QED
    BY <1>0, <2>1
<1>4. CASE Dispatch(q) \/ Fallback(q) \/ Metadata(q) \/ Consumer(q)
  BY <1>0, <1>4 DEF Dispatch, Fallback, Metadata, Consumer, ApplyStart, ReadUsage, AddUsage,
     Count
<1> QED
  BY <1>1, <1>2, <1>3, <1>4 DEF Acts

\* What the ledger is made of are numbers.
LEMMA LedgerType ==
  ASSUME TypeOK, NEW r \in Runs
  PROVE  /\ chan[r] \in Seq(Events) /\ Len(chan[r]) \in Nat
         /\ sess.last \in 0..MaxTokens /\ Base(r) \in 0..MaxTokens /\ Base(r) \in Int
         /\ Pending(r) \in Nat /\ held[r].n \in Int /\ held[r].last \in Int
         /\ step[r].tokens \in Nat /\ step[r].reported \in Nat
         /\ usage[r] \in Nat /\ tally[r] \in Nat /\ surplus \in Int
         /\ \A k \in 0..Len(chan[r]) : LastAt(chan[r], Base(r), k) \in Int
<1>1. chan[r] \in Seq(Events) /\ Len(chan[r]) \in Nat
  BY DEF TypeOK
<1>2. /\ sess.last \in 0..MaxTokens /\ held[r].n \in 0..MaxTokens
         /\ held[r].last \in 0..MaxTokens
      /\ step[r].tokens \in 0..MaxTokens /\ step[r].reported \in 0..MaxTokens
      /\ usage[r] \in 0..MaxTokens
  BY DEF TypeOK, Sessions, Holdings, Steps
<1>3. Base(r) \in 0..MaxTokens
  BY <1>2 DEF Base
<1>4. held[r].n \in Int /\ held[r].last \in Int /\ Base(r) \in Int
  BY <1>2, <1>3
<1>5. Pending(r) \in Nat
  BY <1>4, DeltaType DEF Pending
<1>6. \A k \in 0..Len(chan[r]) : LastAt(chan[r], Base(r), k) \in Int
  BY <1>1, <1>4, EventType DEF LastAt
<1>7. tally[r] \in Nat /\ surplus \in Int
  BY DEF TypeOK
<1> QED
  BY <1>1, <1>2, <1>3, <1>4, <1>5, <1>6, <1>7

\* The ledger of a run whose queue stays, while d tokens more are used: by its
\* own step or by others.
LEMMA LedgerShift ==
  ASSUME TypeOK, NEW r \in Runs, NEW d \in Nat, Ledger(r), surplus' = surplus - d,
         chan'[r] = chan[r], held'[r] = held[r], sess' = sess,
         pc'[r] = "metadata" <=> pc[r] = "metadata",
         pc'[r] \in {"turn", "draining", "result"} /\ step'[r].number > 0 =>
           /\ pc[r] \in {"turn", "draining", "result"} /\ step[r].number > 0
           /\ step'[r].reported = step[r].reported /\ tally'[r] = tally[r],
         step'[r].tokens \in Nat, step'[r].tokens <= step[r].tokens + d
  PROVE  Ledger(r)'
<1> DEFINE q == chan[r]
           b == Base(r)
           L == LastAt(q, b, Len(q))
<1>1. PICK s : /\ Adds(q, b, s) /\ s[0] = surplus + Pending(r)
               /\ Backed(r, s) /\ Covered(r, s)
  BY DEF Ledger
<1>2. /\ q \in Seq(Events) /\ Len(q) \in Nat /\ b \in Int /\ Pending(r) \in Nat
      /\ surplus \in Int /\ tally[r] \in Nat /\ d \in Int /\ d >= 0 /\ L \in Int
      /\ step[r].tokens \in Int /\ step'[r].tokens \in Int
  BY LedgerType
<1>a. q = chan[r] /\ b = Base(r) /\ L = LastAt(q, b, Len(q))
  OBVIOUS
<1> HIDE DEF q, b, L
<1>b. Adds(q, b, s) /\ q \in Seq(Events) /\ b \in Int /\ d \in Int
  BY <1>1, <1>2, <1>a
<1>3. PICK t : Adds(q, b, t) /\ \A k \in 0..Len(q) : t[k] = s[k] - d
  <2> DEFINE u == Less(q, s, d)
  <2>1. Adds(q, b, u)
    BY <1>b, AddsShift
  <2>2. \A k \in 0..Len(q) : u[k] = s[k] - d
    BY DEF Less
  <2> HIDE DEF u
  <2> QED
    BY <2>1, <2>2
<1>4. Base(r)' = b /\ Pending(r)' = Pending(r) /\ chan'[r] = q
  BY <1>a DEF Base, Pending
<1>5. \A k \in 0..Len(q) : s[k] \in Int
  BY <1>b DEF Adds
<1>6. t[0] = surplus' + Pending(r)'
  BY <1>1, <1>2, <1>3, <1>4, <1>5
<1>7. Backed(r, t)'
  <2> DEFINE D == Delta(step[r].tokens, L)
             E == Delta(step'[r].tokens, L)
  <2>1. D \in Nat /\ E \in Nat
    BY <1>2, DeltaType
  <2>a. E <= D + d
    BY <1>2, DeltaGrows
  <2>2. s[Len(q)] <= IF pc[r] = "metadata" THEN 0 ELSE 0 - D
    BY <1>1, <1>a DEF Backed
  <2>3. t[Len(q)] = s[Len(q)] - d /\ s[Len(q)] \in Int
    BY <1>2, <1>3, <1>5
  <2>4. Backed(r, t)' <=> t[Len(q)] <= IF pc'[r] = "metadata" THEN 0 ELSE 0 - E
    BY <1>4, <1>a DEF Backed
  <2> HIDE DEF D, E
  <2> QED
    BY <1>2, <2>1, <2>a, <2>2, <2>3, <2>4
<1>8. ASSUME pc'[r] \in {"turn", "draining", "result"}, step'[r].number > 0
      PROVE  /\ step'[r].reported = L
             /\ \A k \in 0..Len(q) :
                  (\A j \in (k + 1)..Len(q) : q[j].kind # "start") =>
                     tally'[r] - surplus' + t[k] >= LastAt(q, b, k)
  <2>1. /\ step[r].reported = L
        /\ \A k \in 0..Len(q) :
             (\A j \in (k + 1)..Len(q) : q[j].kind # "start") =>
                tally[r] - surplus + s[k] >= LastAt(q, b, k)
    BY <1>1, <1>8, <1>a DEF Covered
  <2>2. step'[r].reported = step[r].reported /\ tally'[r] = tally[r]
    BY <1>8
  <2>3. ASSUME NEW k \in 0..Len(q)
        PROVE  tally'[r] - surplus' + t[k] = tally[r] - surplus + s[k]
    <3>1. t[k] = s[k] - d /\ s[k] \in Int
      BY <1>3, <1>5
    <3> DEFINE n == tally[r]
    <3>2. n \in Int /\ tally'[r] = n
      BY <1>2, <2>2
    <3> HIDE DEF n
    <3>3. n - (surplus - d) + (s[k] - d) = n - surplus + s[k]
      BY <1>2, <3>1, <3>2
    <3> QED
      BY <3>1, <3>2, <3>3 DEF n
  <2> QED
    BY <2>1, <2>2, <2>3
<1>c. Covered(r, t)'
  BY <1>4, <1>8, <1>a DEF Covered
<1>9. Adds(chan[r], Base(r), t)'
  BY <1>3, <1>4
<1> QED
  BY <1>6, <1>7, <1>c, <1>9 DEF Ledger

\* The ledger of an empty queue, outside of a turn.
LEMMA LedgerEmpty ==
  ASSUME TypeOK', NEW r \in Runs, chan'[r] = <<>>, ~held'[r].busy,
         pc'[r] \in {"idle", "metadata", "gone"}, surplus' <= 0,
         pc'[r] = "metadata" \/ step'[r] = NoStep
  PROVE  Ledger(r)'
<1>1. /\ surplus' \in Int /\ sess'.last \in 0..MaxTokens
  BY DEF TypeOK, Sessions
<1>2. Base(r)' = sess'.last /\ Pending(r)' = 0 /\ sess'.last \in Int /\ sess'.last >= 0
  BY <1>1 DEF Base, Pending
<1> DEFINE b == sess'.last
<1>3. PICK s : Adds(<<>>, b, s) /\ s[0] = surplus'
  BY <1>1, <1>2, AddsEmpty
<1>4. Delta(0, b) = 0 /\ Len(<<>>) = 0
  BY <1>2 DEF Delta
<1>5. Backed(r, s)'
  BY <1>1, <1>2, <1>3, <1>4 DEF Backed, LastAt, NoStep
<1>6. Covered(r, s)'
  BY DEF Covered
<1>7. Adds(chan[r], Base(r), s)'
  BY <1>2, <1>3
<1> QED
  BY <1>1, <1>2, <1>3, <1>5, <1>6, <1>7 DEF Ledger

\* The ledger with one more event, of a step that has used d tokens more.
LEMMA LedgerAppend ==
  ASSUME TypeOK, NEW r \in Runs, NEW d \in Nat, NEW e \in Events, Ledger(r),
         surplus' = surplus - d, pc[r] = "turn", pc'[r] = "turn",
         chan'[r] = Append(chan[r], e), held'[r] = held[r], sess' = sess,
         tally'[r] = tally[r],
         e.n <= step[r].tokens + d, step'[r].tokens = e.n, step'[r].reported = e.n,
         e.kind = "start" => e.n = 0 /\ d = 0,
         e.kind = "usage" => step'[r].number = step[r].number
  PROVE  Ledger(r)'
<1> DEFINE q == chan[r]
           p == Append(q, e)
           m == Len(q)
           b == Base(r)
           L == LastAt(q, b, m)
           c == Pending(r)
           D == Delta(step[r].tokens, L)
           E == Delta(e.n, L)
<1>1. PICK s : /\ Adds(q, b, s) /\ s[0] = surplus + c
               /\ Backed(r, s) /\ Covered(r, s)
  BY DEF Ledger
<1>2. /\ q \in Seq(Events) /\ m \in Nat /\ b \in Int /\ c \in Nat /\ m \in 0..m
         /\ 0 \in 0..m
      /\ surplus \in Int /\ tally[r] \in Nat /\ d \in Int /\ d >= 0 /\ L \in Int
      /\ step[r].tokens \in Int /\ e.n \in Int
  BY LedgerType, EventType
<1>5. s[m] <= 0 - D
  BY <1>1 DEF Backed
<1>6. step[r].number > 0 =>
        \A k \in 0..m : (\A j \in (k + 1)..m : q[j].kind # "start") =>
           tally[r] - surplus + s[k] >= LastAt(q, b, k)
  BY <1>1 DEF Covered
<1>7. Base(r)' = b /\ Pending(r)' = c /\ chan'[r] = p
  BY DEF Base, Pending
<1>8. /\ Len(p) = m + 1 /\ p[m + 1] = e /\ p \in Seq(Events)
      /\ \A k \in 1..m : p[k] = q[k]
  BY <1>2, Longer
<1>9. \A k \in 0..m : LastAt(p, b, k) = LastAt(q, b, k) /\ LastAt(q, b, k) \in Int
  BY <1>2, <1>8, LedgerType DEF LastAt
<1>10. D = Delta(step[r].tokens, L) /\ E = Delta(e.n, L)
  OBVIOUS
<1>12. L = LastAt(q, b, m) /\ m = Len(q) /\ p = Append(q, e) /\ Adds(q, b, s)
  BY <1>1
<1> HIDE DEF q, p, m, b, c, L, D, E
<1>3. D \in Nat /\ E \in Nat /\ E >= e.n - L /\ Delta(e.n, e.n) = 0
  <2> DEFINE n == step[r].tokens
             o == e.n
  <2>1. n \in Int /\ o \in Int /\ L \in Int
    BY <1>2
  <2>2. D = Delta(n, L) /\ E = Delta(o, L)
    BY <1>10
  <2> HIDE DEF n, o
  <2>3. D \in Nat /\ E \in Nat /\ E >= o - L /\ Delta(o, o) = 0
    BY <2>1, <2>2, DeltaType
  <2> QED
    BY <2>3 DEF o
<1>4. E <= D + d
  BY <1>2, <1>10, DeltaGrows
<1>11. PICK u : /\ Adds(p, b, u) /\ \A k \in 0..m : u[k] = s[k]
                /\ u[m + 1] = s[m] + E
  <2>1. \E u : /\ Adds(Append(q, e), b, u) /\ \A k \in 0..Len(q) : u[k] = s[k]
               /\ u[Len(q) + 1] = s[Len(q)] + Delta(e.n, LastAt(q, b, Len(q)))
    BY <1>2, <1>12, AddsAppend
  <2> QED
    BY <1>10, <1>12, <2>1
<1>13. PICK t : Adds(p, b, t) /\ \A k \in 0..(m + 1) : t[k] = u[k] - d
  <2>1. Adds(p, b, u) /\ p \in Seq(Events) /\ b \in Int /\ d \in Int
    BY <1>2, <1>8, <1>11
  <2> DEFINE v == Less(p, u, d)
  <2>2. Adds(p, b, v)
    BY <2>1, AddsShift
  <2>3. \A k \in 0..(m + 1) : v[k] = u[k] - d
    BY <1>8 DEF Less
  <2> HIDE DEF v
  <2> QED
    BY <2>2, <2>3
<1>14. /\ \A k \in 0..m : k \in 0..(m + 1) /\ s[k] \in Int /\ t[k] = s[k] - d
       /\ m + 1 \in 0..(m + 1) /\ t[m + 1] = (s[m] + E) - d /\ s[m] \in Int
       /\ s[0] <= s[m]
  <2>1. s[m] \in Int /\ \A k \in 0..m : s[k] \in Int
    BY <1>2, <1>12 DEF Adds
  <2>2. s[0] <= s[m]
    BY <1>2, <1>12 DEF Adds
  <2>3. m + 1 \in 0..(m + 1) /\ \A k \in 0..m : k \in 0..(m + 1)
    BY <1>2
  <2>4. \A k \in 0..m : t[k] = s[k] - d
    BY <1>11, <1>13, <2>3
  <2>5. t[m + 1] = (s[m] + E) - d
    <3>1. t[m + 1] = u[m + 1] - d
      BY <1>13, <2>3
    <3>2. u[m + 1] = s[m] + E
      BY <1>11
    <3> QED
      BY <3>1, <3>2
  <2> QED
    BY <2>1, <2>2, <2>3, <2>4, <2>5
<1>15. t[0] = surplus' + c
  BY <1>1, <1>2, <1>14
<1>16. LastAt(p, b, m + 1) = e.n
  BY <1>2, <1>8 DEF LastAt
<1>17. Backed(r, t)'
  <2>1. t[m + 1] <= 0
    BY <1>2, <1>3, <1>4, <1>5, <1>14
  <2> QED
    BY <1>3, <1>7, <1>8, <1>16, <2>1 DEF Backed
<1>18. ASSUME step'[r].number > 0, NEW k \in 0..(m + 1),
              \A j \in (k + 1)..(m + 1) : p[j].kind # "start"
       PROVE  tally[r] - (surplus - d) + t[k] >= LastAt(p, b, k)
  <2> DEFINE n == tally[r]
  <2>0. n \in Int /\ n >= 0 /\ n = tally[r]
    BY <1>2
  <2> HIDE DEF n
  <2>1. CASE k \in 0..m
    <3>1. m + 1 \in (k + 1)..(m + 1) /\ \A j \in (k + 1)..m : j \in (k + 1)..(m + 1)
          /\ p[j] = q[j]
      BY <1>2, <1>8, <2>1
    <3>2. e.kind = "usage" /\ \A j \in (k + 1)..m : q[j].kind # "start"
      BY <1>8, <1>18, <3>1, EventType
    <3>3. n - surplus + s[k] >= LastAt(q, b, k)
      BY <1>6, <1>18, <2>0, <2>1, <3>2
    <3>4. t[k] = s[k] - d /\ s[k] \in Int /\ LastAt(p, b, k) = LastAt(q, b, k) /\ LastAt(q,
          b, k) \in Int
      BY <1>9, <1>14, <2>1
    <3> QED
      BY <1>2, <2>0, <3>3, <3>4
  <2>2. CASE k = m + 1 /\ e.kind = "start"
    <3>1. LastAt(p, b, k) = 0 /\ d = 0
      BY <1>16, <2>2
    <3>2. t[k] = (s[m] + E) - d /\ s[m] \in Int /\ s[0] <= s[m] /\ s[0] = surplus + c
      BY <1>1, <1>14, <2>2
    <3> QED
      BY <1>2, <1>3, <2>0, <3>1, <3>2
  <2>3. CASE k = m + 1 /\ e.kind = "usage"
    <3>1. \A j \in (m + 1)..m : q[j].kind # "start"
      BY <1>2
    <3>2. n - surplus + s[m] >= L
      BY <1>2, <1>6, <1>12, <1>18, <2>0, <2>3, <3>1
    <3>3. LastAt(p, b, k) = e.n
      BY <1>16, <2>3
    <3>4. t[k] = (s[m] + E) - d /\ s[m] \in Int
      BY <1>14, <2>3
    <3>5. n - (surplus - d) + t[k] >= e.n
      <4> DEFINE o == e.n
                 x == s[m]
                 y == surplus
      <4>1. /\ x \in Int /\ o \in Int /\ E \in Int /\ y \in Int /\ d \in Int /\ L \in Int
            /\ n \in Int /\ E >= o - L /\ n - y + x >= L
        BY <1>2, <1>3, <2>0, <3>2, <3>4
      <4>2. t[k] = (x + E) - d
        BY <3>4
      <4> HIDE DEF o, x, y
      <4>3. n - (y - d) + ((x + E) - d) >= o
        BY <4>1
      <4> QED
        BY <4>2, <4>3 DEF o, y
    <3> QED
      BY <2>0, <3>3, <3>5
  <2> QED
    BY <1>2, <2>1, <2>2, <2>3, EventType
<1>19. Covered(r, t)'
  BY <1>7, <1>8, <1>16, <1>18 DEF Covered
<1>20. Adds(chan[r], Base(r), t)'
  BY <1>7, <1>13
<1> QED
  BY <1>7, <1>15, <1>17, <1>19, <1>20 DEF Ledger

\* The ledger when the first event has been taken from the queue.
LEMMA LedgerTail ==
  ASSUME TypeOK, NEW r \in Runs, Ledger(r), chan[r] # <<>>, ~held[r].busy,
         chan'[r] = Tail(chan[r]), pc'[r] = pc[r], step'[r] = step[r],
         tally'[r] = tally[r], surplus' = surplus, Base(r)' = Head(chan[r]).n,
         Pending(r)' = Delta(Head(chan[r]).n, sess.last)
  PROVE  Ledger(r)'
<1> DEFINE q == chan[r]
           p == Tail(q)
           m == Len(p)
           b == Base(r)
           c == Head(q).n
           D == Delta(step[r].tokens, LastAt(q, b, Len(q)))
<1>1. PICK s : /\ Adds(q, b, s) /\ s[0] = surplus + Pending(r)
               /\ Backed(r, s) /\ Covered(r, s)
  BY DEF Ledger
<1>2. /\ q \in Seq(Events) /\ Len(q) \in Nat /\ b \in Int /\ b = sess.last
      /\ Pending(r) = 0 /\ surplus \in Int /\ tally[r] \in Nat
  BY LedgerType DEF Base, Pending
<1>3. /\ m \in Nat /\ Len(q) = m + 1 /\ c = q[1].n /\ q[1] \in Events /\ c \in Int
      /\ \A k \in 1..m : p[k] = q[k + 1]
      /\ m \in 0..m /\ 0 \in 0..m /\ 1 \in 1..(m + 1)
  BY <1>2, Shorter, EventType
<1>5. s[m + 1] <= IF pc[r] = "metadata" THEN 0 ELSE 0 - D
  BY <1>1, <1>3 DEF Backed
<1>6. D = Delta(step[r].tokens, LastAt(q, b, Len(q))) 
      /\ q = chan[r] /\ p = Tail(q) /\ c = Head(q).n /\ b = Base(r) /\ m = Len(p)
      /\ q # <<>> /\ Adds(q, b, s)
  BY <1>1
<1> HIDE DEF q, p, m, b, c, D
<1>4. PICK t : Adds(p, c, t) /\ \A k \in 0..m : t[k] = s[k + 1]
  <2>1. \E t : Adds(Tail(q), Head(q).n, t) /\ \A k \in 0..Len(Tail(q)) : t[k] = s[k + 1]
    BY <1>2, <1>6, AddsTail
  <2> QED
    BY <1>6, <2>1
<1>7. \A k \in 0..m : LastAt(p, c, k) = LastAt(q, b, k + 1)
  BY <1>3 DEF LastAt
<1>8. t[0] = surplus + Delta(c, sess.last)
  <2>1. s[1] = s[0] + Delta(q[1].n, LastAt(q, b, 0))
    <3>1. s[1] = s[1 - 1] + Delta(q[1].n, LastAt(q, b, 1 - 1))
      BY <1>1, <1>3 DEF Adds
    <3> QED
      BY <3>1
  <2>2. t[0] = s[1]
    BY <1>3, <1>4
  <2>3. LastAt(q, b, 0) = sess.last
    BY <1>2 DEF LastAt
  <2> QED
    BY <1>1, <1>2, <1>3, <2>1, <2>2, <2>3
<1>9. Backed(r, t)'
  <2>1. t[m] = s[m + 1] /\ LastAt(p, c, m) = LastAt(q, b, m + 1)
    BY <1>3, <1>4, <1>7
  <2>2. D = Delta(step[r].tokens, LastAt(p, c, m))
    BY <1>3, <1>6, <2>1
  <2>3. chan'[r] = p /\ Base(r)' = c /\ m = Len(p)
    BY <1>6 DEF m
  <2> QED
    BY <1>5, <2>1, <2>2, <2>3 DEF Backed
<1>10. ASSUME pc[r] \in {"turn", "draining", "result"}, step[r].number > 0
       PROVE  /\ step[r].reported = LastAt(p, c, m)
              /\ \A k \in 0..m : (\A j \in (k + 1)..m : p[j].kind # "start") =>
                   tally[r] - surplus + t[k] >= LastAt(p, c, k)
  <2>1. /\ step[r].reported = LastAt(q, b, m + 1)
        /\ \A k \in 0..(m + 1) : (\A j \in (k + 1)..(m + 1) : q[j].kind # "start") =>
             tally[r] - surplus + s[k] >= LastAt(q, b, k)
    BY <1>1, <1>3, <1>6, <1>10 DEF Covered
  <2>2. step[r].reported = LastAt(p, c, m)
    BY <1>3, <1>7, <2>1
  <2>3. ASSUME NEW k \in 0..m, \A j \in (k + 1)..m : p[j].kind # "start"
        PROVE  tally[r] - surplus + t[k] >= LastAt(p, c, k)
    <3>1. ASSUME NEW j \in (k + 2)..(m + 1)
          PROVE  q[j].kind # "start"
      <4>1. j - 1 \in (k + 1)..m /\ j - 1 \in 1..m /\ (j - 1) + 1 = j
        BY <1>3
      <4> QED
        BY <1>3, <2>3, <4>1
    <3>2. k + 1 \in 0..(m + 1) /\ (k + 1) + 1 = k + 2
      BY <1>3
    <3>3. tally[r] - surplus + s[k + 1] >= LastAt(q, b, k + 1)
      BY <2>1, <3>1, <3>2
    <3> QED
      BY <1>4, <1>7, <3>3
  <2> QED
    BY <2>2, <2>3
<1>11. Covered(r, t)'
  BY <1>6, <1>10 DEF Covered, m
<1>12. Adds(chan[r], Base(r), t)'
  BY <1>4, <1>6
<1>13. t[0] = surplus' + Pending(r)'
  BY <1>6, <1>8
<1> QED
  BY <1>9, <1>11, <1>12, <1>13 DEF Ledger

\* The ledger when the event in hand has been counted.
LEMMA LedgerAdded ==
  ASSUME TypeOK, NEW r \in Runs, Ledger(r),
         chan'[r] = chan[r], pc'[r] = pc[r], step'[r] = step[r], Base(r)' = Base(r),
         Pending(r)' = 0, surplus' = surplus + Pending(r), tally'[r] = tally[r] + Pending(r)
  PROVE  Ledger(r)'
<1> DEFINE n == Pending(r)
<1>1. PICK s : /\ Adds(chan[r], Base(r), s) /\ s[0] = surplus + n
               /\ Backed(r, s) /\ Covered(r, s)
  BY DEF Ledger
<1>2. /\ n \in Nat /\ surplus \in Int /\ tally[r] \in Nat
  BY LedgerType
<1>3. Adds(chan[r], Base(r), s)' /\ Backed(r, s)'
  BY <1>1 DEF Backed
<1>4. tally'[r] = tally[r] + n /\ surplus' = surplus + n
  OBVIOUS
<1> HIDE DEF n
<1>5. \A k \in 0..Len(chan[r]) : tally'[r] - surplus' + s[k] = tally[r] - surplus + s[k]
  <2>1. tally'[r] - surplus' = tally[r] - surplus
    BY <1>2, <1>4
  <2> QED
    BY <2>1
<1>6. Covered(r, s)'
  BY <1>1, <1>5 DEF Covered
<1>7. s[0] = surplus' + Pending(r)'
  BY <1>1, <1>2, <1>4
<1> QED
  BY <1>3, <1>6, <1>7 DEF Ledger

-----------------------------------------------------------------------------
\* The entry is kept, unless it is removed or made.
LEMMA EntryKept ==
  ASSUME TypeOK, [Next]_vars, NEW r \in Runs, entry' = r
  PROVE  entry = r \/ (entry = 0 /\ Dispatch(r))
<1>1. r # 0
  BY ConstantsType
<1>2. ASSUME NEW q \in Runs, Acts(q)
      PROVE  entry' = entry \/ (entry = 0 /\ entry' = q /\ Dispatch(q))
  <2>1. Dispatch(q) => entry = 0 /\ entry' = q
    BY DEF Dispatch
  <2>2. ~Dispatch(q) => entry' = entry
    BY <1>2 DEF Acts, vars, stateVars, runVars, countVars, Goto, TurnGone, RemoveEntry,
       BeginTurn, Emit, StepStart, TokenUsage, StepFinish, TurnEnds, TurnFails, Drained,
       Fallback, Metadata, Consume, ApplyStart, ReadUsage, AddUsage, Consumer
  <2> QED
    BY <2>1, <2>2
<1>3. RemoveEntry => entry' # r
  BY <1>1 DEF RemoveEntry
<1>4. UNCHANGED vars => entry' = entry
  BY DEF vars, stateVars
<1> QED
  BY <1>2, <1>3, <1>4 DEF Next, Acts

\* Once astray, always.
LEMMA AstrayStays ==
  ASSUME TypeOK, [Next]_vars, astray
  PROVE  astray'
<1>1. ASSUME NEW q \in Runs, Acts(q)
      PROVE  astray'
  BY <1>1 DEF Acts, vars, stateVars, runVars, countVars, Goto, TurnGone, Count, Spend,
     Dispatch, RemoveEntry, BeginTurn, Emit, StepStart, TokenUsage, StepFinish, TurnEnds,
     TurnFails, Drained, Fallback, Metadata, Consume, ApplyStart, ReadUsage, AddUsage,
     Consumer
<1> QED
  BY <1>1 DEF Next, Acts, RemoveEntry, vars, countVars

\* The turn's usage is added to totals that the ledger's reader has not reached yet.
LEMMA FallbackPays ==
  ASSUME UsageIInv, NEW r \in Runs, entry = r, Fallback(r), ~astray'
  PROVE  /\ surplus' <= 0
         /\ step[r].number > 0 =>
              tally'[r] >= IF step[r].reported > 0 THEN step[r].reported ELSE usage[r]
<1> DEFINE n == IF counted[r] THEN 0 ELSE usage[r]
           l == sess.last
           D == Delta(step[r].tokens, l)
<1>1. TypeOK /\ RunInv(r) /\ ~astray /\ pc[r] = "result"
  BY DEF UsageIInv, Fallback, Count
<1>2. chan[r] = <<>> /\ ~held[r].busy /\ counted[r] = (l > 0) /\ (usage[r] = 0
      \/ step[r].done)
  BY <1>1 DEF RunInv, Quiet, ReadIsCurrent, ResultFits
<1>b. counted[r] <=> l > 0
  BY <1>2, Zenon
<1>3. PICK s : /\ s[0] = surplus + Pending(r) /\ Backed(r, s) /\ Covered(r, s)
  BY <1>1 DEF RunInv, Ledger
<1>4. Len(chan[r]) = 0 /\ Base(r) = l /\ Pending(r) = 0 /\ \A b : LastAt(chan[r], b, 0) = b
  BY <1>2 DEF Base, Pending, LastAt
<1>5. /\ surplus \in Int /\ l \in Nat /\ usage[r] \in Nat /\ tally[r] \in Nat
      /\ step[r].tokens \in Nat /\ step[r].reported \in Nat
  BY <1>1, LedgerType
<1>6. s[0] = surplus /\ s[0] <= 0 - D
  BY <1>1, <1>3, <1>4, <1>5 DEF Backed
<1>7. step[r].number > 0 => step[r].reported = l /\ tally[r] - surplus + s[0] >= l
  <2>1. 0 \in 0..0 /\ \A j \in (0 + 1)..0 : chan[r][j].kind # "start"
    OBVIOUS
  <2> QED
    BY <1>1, <1>3, <1>4, <2>1 DEF Covered
<1>8. surplus' = surplus + n /\ tally'[r] = tally[r] + n
  BY <1>1 DEF Fallback, Count, TypeOK
<1>9. step[r].done => usage[r] = step[r].tokens
  BY <1>1 DEF RunInv, ResultFits
<1>10. D \in Nat /\ D >= step[r].tokens - l
  <2>1. step[r].tokens \in Int /\ l \in Int
    BY <1>5
  <2> QED
    BY <2>1, DeltaType
<1>11. surplus' <= 0
  <2>1. CASE counted[r]
    BY <1>5, <1>6, <1>8, <1>10, <2>1
  <2>2. CASE ~counted[r]
    <3>1. l = 0 /\ n = usage[r] /\ (usage[r] = 0 \/ usage[r] = step[r].tokens)
      BY <1>2, <1>b, <1>5, <1>9, <2>2
    <3> HIDE DEF D, n
    <3> QED
      BY <1>5, <1>6, <1>8, <1>10, <3>1
  <2> QED
    BY <2>1, <2>2
<1>12. ASSUME step[r].number > 0
       PROVE  tally'[r] >= IF step[r].reported > 0 THEN step[r].reported ELSE usage[r]
  <2>1. step[r].reported = l /\ tally[r] >= l
    BY <1>5, <1>6, <1>7, <1>12
  <2>2. CASE counted[r]
    BY <1>b, <1>5, <1>8, <2>1, <2>2
  <2>3. CASE ~counted[r]
    BY <1>b, <1>5, <1>8, <2>1, <2>3
  <2> QED
    BY <2>2, <2>3
<1> QED
  BY <1>11, <1>12

\* Every step keeps the ledger of the entry it leaves.
LEMMA LedgerStep ==
  ASSUME UsageIInv, [Next]_vars, NEW r \in Runs, entry' = r, ~astray'
  PROVE  Ledger(r)'
<1>1. TypeOK /\ TypeOK' /\ ~astray /\ RunInv(r) /\ surplus <= 0
  BY TypeStep, AstrayStays DEF UsageIInv, NeverCountedTwice
<1>2. r # 0 /\ surplus \in Int /\ 0 \in Nat
  BY <1>1, ConstantsType DEF TypeOK
<1>3. CASE Dispatch(r)
  <2>1. /\ chan'[r] = <<>> /\ ~held'[r].busy /\ step'[r] = NoStep /\ surplus' <= 0
        /\ pc'[r] = "idle"
    BY <1>1, <1>3 DEF Dispatch, Goto, RunInv, Quiet, countVars, TypeOK
  <2> QED
    BY <1>1, <2>1, LedgerEmpty
<1>4. ASSUME entry = r, NEW q \in Runs, q # r, Acts(q)
      PROVE  Ledger(r)'
  <2>1. Still(r) /\ tally'[r] = tally[r]
    BY <1>1, <1>4, OthersStill
  <2>2. sess' = sess /\ \E d \in Nat : surplus' = surplus - d
    BY <1>1, <1>4, OthersApart
  <2>3. PICK d \in Nat : surplus' = surplus - d
    BY <2>2
  <2>4. step[r].tokens \in Nat /\ step[r].tokens <= step[r].tokens + d
    BY <1>1, LedgerType
  <2>5. Ledger(r)
    BY <1>1, <1>4 DEF RunInv
  <2> QED
    BY <1>1, <2>1, <2>2, <2>3, <2>4, <2>5, LedgerShift DEF Still
<1>5. ASSUME entry = r, UNCHANGED vars
      PROVE  Ledger(r)'
  <2>1. step[r].tokens \in Nat /\ step[r].tokens <= step[r].tokens + 0
        /\ surplus' = surplus - 0
    BY <1>1, <1>2, <1>5, LedgerType DEF vars, countVars
  <2>2. /\ chan'[r] = chan[r] /\ held'[r] = held[r] /\ sess' = sess /\ pc'[r] = pc[r]
        /\ step'[r] = step[r] /\ tally'[r] = tally[r]
    BY <1>5 DEF vars, runVars, stateVars, countVars
  <2>3. Ledger(r)
    BY <1>1, <1>5 DEF RunInv
  <2> QED
    BY <1>1, <1>2, <2>1, <2>2, <2>3, LedgerShift
<1>6. ASSUME entry = r, BeginTurn(r) \/ TurnEnds(r) \/ TurnFails(r) \/ Drained(r)
      PROVE  Ledger(r)'
  <2>1. /\ chan'[r] = chan[r] /\ held'[r] = held[r] /\ sess' = sess /\ surplus' = surplus
        /\ pc[r] # "metadata" /\ pc'[r] # "metadata"
    BY <1>1, <1>2, <1>6
       DEF BeginTurn, TurnEnds, TurnFails, Drained, Goto, stateVars, countVars, Count,
       TypeOK
  <2>2. step'[r] = step[r] \/ step'[r] = NoStep
    BY <1>1, <1>6 DEF BeginTurn, TurnEnds, TurnFails, Drained, TurnGone, TypeOK
  <2>3. pc[r] = "idle" => step[r] = NoStep
    BY <1>1 DEF RunInv, Quiet
  <2>4. pc'[r] \in {"turn", "draining", "result"} /\ step'[r].number > 0 =>
           /\ pc[r] \in {"turn", "draining", "result"} /\ step[r].number > 0
           /\ step'[r].reported = step[r].reported /\ tally'[r] = tally[r]
    BY <1>1, <1>6, <2>2, <2>3
       DEF BeginTurn, TurnEnds, TurnFails, Drained, Goto, TurnGone, countVars, Count,
       TypeOK, NoStep
  <2>5. step[r].tokens \in Nat
    BY <1>1, LedgerType
  <2>6. step'[r].tokens \in Nat /\ step'[r].tokens <= step[r].tokens + 0
    BY <2>2, <2>5 DEF NoStep
  <2>7. surplus' = surplus - 0 /\ Ledger(r)
    BY <1>1, <1>2, <1>6, <2>1 DEF RunInv
  <2> QED
    BY <1>1, <1>2, <2>1, <2>4, <2>6, <2>7, LedgerShift
<1>7. ASSUME entry = r, StepFinish(r)
      PROVE  Ledger(r)'
  <2> DEFINE m == step[r].tokens
  <2>1. PICK n \in {0} \cup (m..MaxTokens) :
           /\ step' = [step EXCEPT ![r].done = (n > 0), ![r].tokens = IF n = 0 THEN @
              ELSE n]
           /\ Spend(Delta(n, step[r].tokens))
    BY <1>7 DEF StepFinish
  <2>2. m \in Nat /\ n \in Nat
    BY <1>1, <2>1, LedgerType
  <2>3. /\ step'[r].tokens = (IF n = 0 THEN m ELSE n) /\ step'[r].number = step[r].number
        /\ step'[r].reported = step[r].reported
    BY <1>1, <2>1 DEF TypeOK, Steps
  <2> DEFINE d == Delta(n, m)
  <2>4. d \in Nat /\ d >= n - m
    <3>1. m \in Int /\ n \in Int
      BY <2>2
    <3> QED
      BY <3>1, DeltaType
  <2>5. surplus' = surplus - d
    BY <1>1, <2>1 DEF Spend
  <2>6. step'[r].tokens \in Nat /\ step'[r].tokens <= m + d
    <3> HIDE DEF d, m
    <3> QED
      BY <2>2, <2>3, <2>4
  <2>7. /\ chan'[r] = chan[r] /\ held'[r] = held[r] /\ sess' = sess /\ pc'[r] = pc[r]
        /\ tally'[r] = tally[r] /\ Ledger(r)
    BY <1>1, <1>7 DEF StepFinish, stateVars, RunInv
  <2> HIDE DEF d
  <2> QED
    BY <1>1, <2>3, <2>4, <2>5, <2>6, <2>7, LedgerShift
<1>8. ASSUME entry = r, StepStart(r)
      PROVE  Ledger(r)'
  <2> DEFINE e == [kind |-> "start", n |-> 0]
  <2>1. e \in Events /\ e.kind = "start" /\ e.n = 0
    BY EventType, ConstantsType
  <2>2. chan'[r] = Append(chan[r], e)
    BY <1>1, <1>8 DEF StepStart, Emit, TypeOK
  <2>3. step'[r].tokens = 0 /\ step'[r].reported = 0
    BY <1>1, <1>8 DEF StepStart, TypeOK, NoStep
  <2>4. /\ pc[r] = "turn" /\ pc'[r] = "turn" /\ held'[r] = held[r] /\ sess' = sess
        /\ tally'[r] = tally[r] /\ surplus' = surplus /\ Ledger(r)
    BY <1>1, <1>8 DEF StepStart, stateVars, countVars, RunInv
  <2>5. surplus' = surplus - 0 /\ 0 <= step[r].tokens + 0
    BY <1>1, <1>2, <2>4, LedgerType
  <2> HIDE DEF e
  <2> QED
    BY <1>1, <1>2, <2>1, <2>2, <2>3, <2>4, <2>5, LedgerAppend
<1>9. ASSUME entry = r, TokenUsage(r)
      PROVE  Ledger(r)'
  <2> DEFINE m == step[r].tokens
  <2>1. PICK n \in 1..MaxTokens :
           /\ n > m /\ Emit(r, "usage", n)
           /\ step' = [step EXCEPT ![r].tokens = n, ![r].reported = n]
           /\ Spend(n - m)
    BY <1>9 DEF TokenUsage
  <2> DEFINE e == [kind |-> "usage", n |-> n]
             d == n - m
  <2>2. n \in 0..MaxTokens /\ n \in Int /\ m \in Nat
    BY <1>1, ConstantsType, LedgerType
  <2>3. d \in Nat /\ n <= m + d
    BY <2>1, <2>2
  <2>4. e \in Events /\ e.kind = "usage" /\ e.n = n
    BY <2>2, EventType
  <2>5. chan'[r] = Append(chan[r], e)
    BY <1>1, <2>1 DEF Emit, TypeOK
  <2>6. step'[r].tokens = n /\ step'[r].reported = n /\ step'[r].number = step[r].number
    BY <1>1, <2>1 DEF TypeOK, Steps
  <2>7. /\ pc[r] = "turn" /\ pc'[r] = "turn" /\ held'[r] = held[r] /\ sess' = sess
        /\ tally'[r] = tally[r] /\ Ledger(r)
    BY <1>1, <1>9 DEF TokenUsage, stateVars, RunInv
  <2>8. surplus' = surplus - d
    BY <1>1, <2>1 DEF Spend
  <2> HIDE DEF e, d
  <2> QED
    BY <1>1, <2>3, <2>4, <2>5, <2>6, <2>7, <2>8, LedgerAppend
<1>10. ASSUME entry = r, Fallback(r)
       PROVE  Ledger(r)'
  <2>1. surplus' <= 0
    BY <1>10, FallbackPays
  <2>2. chan'[r] = <<>> /\ ~held'[r].busy /\ pc'[r] = "metadata"
    BY <1>1, <1>10 DEF Fallback, Goto, RunInv, Quiet, TypeOK
  <2> QED
    BY <1>1, <2>1, <2>2, LedgerEmpty
<1>11. ASSUME entry = r, Metadata(r)
       PROVE  Ledger(r)'
  <2>1. surplus' <= 0
    BY <1>1, <1>11 DEF Metadata
  <2>2. chan'[r] = <<>> /\ ~held'[r].busy /\ pc'[r] \in {"idle", "gone"}
        /\ step'[r] = NoStep
    BY <1>1, <1>11 DEF Metadata, Goto, TurnGone, RunInv, Quiet, TypeOK
  <2> QED
    BY <1>1, <2>1, <2>2, LedgerEmpty
<1>12. ASSUME entry = r, ApplyStart(r)
       PROVE  Ledger(r)'
  <2>1. /\ chan[r] # <<>> /\ ~held[r].busy /\ chan'[r] = Tail(chan[r]) /\ pc'[r] = pc[r]
        /\ step'[r] = step[r] /\ held'[r] = held[r] /\ Head(chan[r]).kind = "start"
    BY <1>1, <1>12 DEF ApplyStart, Consume, runVars, TypeOK
  <2>2. chan[r] \in Seq(Events) /\ sess.last \in Int /\ sess.last >= 0 /\ tally[r] \in Int
    BY <1>1, LedgerType
  <2>3. Head(chan[r]).n = 0
    <3>1. Head(chan[r]) = chan[r][1] /\ 1 \in 1..Len(chan[r])
      BY <2>1, <2>2
    <3> QED
      BY <1>1, <2>1, <3>1 DEF RunInv, StartsAreZero
  <2>4. sess'.last = 0
    BY <1>2, <1>12 DEF ApplyStart
  <2>5. surplus' = surplus /\ tally'[r] = tally[r]
    BY <1>1, <1>2, <1>12, <2>2 DEF ApplyStart, Count, TypeOK
  <2>6. Delta(0, sess.last) = 0
    BY <2>2 DEF Delta
  <2>7. Base(r)' = Head(chan[r]).n /\ Pending(r)' = Delta(Head(chan[r]).n, sess.last)
    BY <2>1, <2>3, <2>4, <2>6 DEF Base, Pending
  <2>8. Ledger(r)
    BY <1>1, <1>12 DEF RunInv
  <2> QED
    BY <1>1, <2>1, <2>5, <2>7, <2>8, LedgerTail
<1>13. ASSUME entry = r, ReadUsage(r)
       PROVE  Ledger(r)'
  <2>1. /\ chan[r] # <<>> /\ ~held[r].busy /\ chan'[r] = Tail(chan[r]) /\ pc'[r] = pc[r]
        /\ step'[r] = step[r]
        /\ held'[r] = [busy |-> TRUE, n |-> Head(chan[r]).n, last |-> sess.last]
    BY <1>1, <1>13 DEF ReadUsage, Consume, runVars, TypeOK
  <2>2. tally[r] \in Int
    BY <1>1, LedgerType
  <2>3. surplus' = surplus /\ tally'[r] = tally[r]
    BY <1>1, <1>2, <1>13, <2>2 DEF ReadUsage, Count, TypeOK
  <2>4. Base(r)' = Head(chan[r]).n /\ Pending(r)' = Delta(Head(chan[r]).n, sess.last)
    BY <2>1 DEF Base, Pending
  <2>5. Ledger(r)
    BY <1>1, <1>13 DEF RunInv
  <2> QED
    BY <1>1, <2>1, <2>3, <2>4, <2>5, LedgerTail
<1>14. ASSUME entry = r, AddUsage(r)
       PROVE  Ledger(r)'
  <2>1. held[r].busy /\ sess # NoSession /\ held[r].last = sess.last
    BY <1>1, <1>14 DEF AddUsage, RunInv, ReadIsCurrent
  <2>2. /\ chan'[r] = chan[r] /\ pc'[r] = pc[r] /\ step'[r] = step[r] /\ held'[r] = NotHeld
        /\ sess' = [sess EXCEPT !.last = held[r].n]
    BY <1>1, <1>2, <1>14, <2>1 DEF AddUsage, runVars, TypeOK
  <2>3. sess'.last = held[r].n
    BY <1>1, <2>2 DEF TypeOK, Sessions
  <2>4. Base(r)' = Base(r) /\ Pending(r)' = 0 /\ Pending(r) = Delta(held[r].n, held[r].last)
    BY <2>1, <2>2, <2>3 DEF Base, Pending, NotHeld
  <2>5. surplus' = surplus + Pending(r) /\ tally'[r] = tally[r] + Pending(r)
    BY <1>1, <1>14, <2>4 DEF AddUsage, Count, TypeOK
  <2>6. Ledger(r)
    BY <1>1, <1>14 DEF RunInv
  <2> QED
    BY <1>1, <2>2, <2>4, <2>5, <2>6, LedgerAdded
<1>15. entry = r \/ Dispatch(r)
  BY <1>1, EntryKept
<1>16. ~RemoveEntry
  BY <1>2 DEF RemoveEntry
<1> QED
  BY <1>3, <1>4, <1>5, <1>6, <1>7, <1>8, <1>9, <1>10, <1>11, <1>12, <1>13, <1>14, <1>15,
     <1>16
     DEF Next, Consumer, Acts

-----------------------------------------------------------------------------
\* A run acts, or keeps what is its own.
LEMMA OwnOrStill ==
  ASSUME TypeOK, [Next]_vars, NEW r \in Runs
  PROVE  Acts(r) \/ (Still(r) /\ (astray' \/ tally'[r] = tally[r]))
<1>1. CASE RemoveEntry \/ UNCHANGED vars
  BY <1>1 DEF RemoveEntry, vars, runVars, countVars, Still
<1> QED
  BY <1>1, OthersStill DEF Next, Acts

LEMMA QuietStep ==
  ASSUME TypeOK, [Next]_vars, NEW r \in Runs, Quiet(r)
  PROVE  Quiet(r)'
<1>1. CASE Still(r)
  BY <1>1 DEF Still, Quiet
<1>2. CASE Dispatch(r) \/ BeginTurn(r) \/ TurnEnds(r) \/ TurnFails(r) \/ Drained(r)
  BY <1>2 DEF Dispatch, BeginTurn, TurnEnds, TurnFails, Drained, Goto, TurnGone, Quiet,
     TypeOK
<1>3. CASE Fallback(r) \/ Metadata(r)
  BY <1>3 DEF Fallback, Metadata, Goto, TurnGone, Quiet, TypeOK
<1>4. CASE StepStart(r) \/ TokenUsage(r) \/ StepFinish(r)
  <2>1. pc'[r] = "turn"
    BY <1>4 DEF StepStart, TokenUsage, StepFinish
  <2> QED
    BY <2>1 DEF Quiet
<1>5. CASE Consumer(r)
  <2>1. chan[r] # <<>> \/ held[r].busy
    BY <1>5 DEF Consumer, ApplyStart, ReadUsage, AddUsage, Consume
  <2>2. pc'[r] = pc[r] /\ step'[r] = step[r] /\ usage'[r] = usage[r]
    BY <1>5 DEF Consumer, ApplyStart, ReadUsage, AddUsage, runVars
  <2> QED
    BY <2>1, <2>2 DEF Quiet
<1> QED
  BY <1>1, <1>2, <1>3, <1>4, <1>5, OwnOrStill DEF Acts

LEMMA ResultStep ==
  ASSUME TypeOK, [Next]_vars, NEW r \in Runs, ResultFits(r), Quiet(r)
  PROVE  ResultFits(r)'
<1>1. CASE Still(r)
  BY <1>1, AstrayStays DEF Still, ResultFits
<1>2. CASE Dispatch(r) \/ BeginTurn(r) \/ TurnFails(r) \/ Metadata(r)
  BY <1>2 DEF Dispatch, BeginTurn, TurnFails, Metadata, Goto, TurnGone, ResultFits, TypeOK,
     NoStep
<1>3. CASE TurnEnds(r)
  <2>1. step'[r] = step[r] /\ usage'[r] = usage[r]
    BY <1>3 DEF TurnEnds
  <2>2. astray' \/ usage[r] = 0 \/ step[r].done
    BY <1>3 DEF TurnEnds, Count
  <2> QED
    BY <2>1, <2>2 DEF ResultFits
<1>4. CASE Drained(r) \/ Fallback(r)
  <2>1. step'[r] = step[r] /\ usage'[r] = usage[r] /\ pc[r] \in {"draining", "result"}
    BY <1>4 DEF Drained, Fallback
  <2> QED
    BY <2>1, AstrayStays DEF ResultFits
<1>5. CASE StepStart(r) \/ TokenUsage(r)
  <2>1. pc'[r] = "turn" /\ ~step'[r].done
    BY <1>5 DEF StepStart, TokenUsage, TypeOK, NoStep, Steps
  <2> QED
    BY <2>1 DEF ResultFits
<1>6. CASE StepFinish(r)
  <2>1. PICK n \in {0} \cup (step[r].tokens..MaxTokens) :
          /\ step' = [step EXCEPT ![r].done = (n > 0), ![r].tokens = IF n = 0 THEN @ ELSE n]
          /\ usage' = [usage EXCEPT ![r] = n] \/ (n = 0 /\ usage' = usage)
    BY <1>6 DEF StepFinish
  <2>2. pc'[r] = "turn"
    BY <1>6 DEF StepFinish
  <2>3. step'[r].done <=> n > 0
    BY <2>1, Zenon DEF TypeOK, Steps
  <2>4. step'[r].tokens = IF n = 0 THEN step[r].tokens ELSE n
    BY <2>1 DEF TypeOK, Steps
  <2>5. n > 0 => usage'[r] = n /\ n # 0
    BY <2>1 DEF TypeOK
  <2> QED
    BY <2>2, <2>3, <2>4, <2>5 DEF ResultFits
<1>7. CASE Consumer(r)
  <2>1. pc'[r] = pc[r] /\ step'[r] = step[r] /\ usage'[r] = usage[r]
    BY <1>7 DEF Consumer, ApplyStart, ReadUsage, AddUsage, runVars
  <2> QED
    BY <2>1, AstrayStays DEF ResultFits
<1> QED
  BY <1>1, <1>2, <1>3, <1>4, <1>5, <1>6, <1>7, OwnOrStill DEF Acts

LEMMA StartsStep ==
  ASSUME TypeOK, [Next]_vars, NEW r \in Runs, StartsAreZero(r)
  PROVE  StartsAreZero(r)'
<1>0. chan \in [Runs -> Seq(Events)]
  BY DEF TypeOK
<1>1. CASE chan'[r] = chan[r]
  BY <1>1 DEF StartsAreZero
<1>2. ASSUME NEW k, NEW n, Emit(r, k, n), k = "start" => n = 0, [kind |-> k,
             n |-> n] \in Events
      PROVE  StartsAreZero(r)'
  <2> DEFINE e == [kind |-> k, n |-> n]
  <2>1. e \in Events /\ (e.kind = "start" => e.n = 0)
    BY <1>2
  <2>2. chan'[r] = Append(chan[r], e)
    BY <1>0, <1>2 DEF Emit
  <2> HIDE DEF e
  <2> DEFINE p == Append(chan[r], e)
             m == Len(chan[r])
  <2>3. Len(p) = m + 1 /\ m \in Nat /\ p[m + 1] = e /\ \A j \in 1..m : p[j] = chan[r][j]
    BY <1>0, <2>1, Longer
  <2>4. \A j \in 1..m : chan[r][j].kind = "start" => chan[r][j].n = 0
    BY DEF StartsAreZero
  <2>5. chan'[r] = p
    BY <2>2
  <2> HIDE DEF p, m
  <2>6. \A j \in 1..(m + 1) : p[j].kind = "start" => p[j].n = 0
    BY <2>1, <2>3, <2>4
  <2> QED
    BY <2>3, <2>5, <2>6 DEF StartsAreZero
<1>3. ASSUME NEW k, Consume(r, k)
      PROVE  StartsAreZero(r)'
  <2> DEFINE p == Tail(chan[r])
  <2>1. chan'[r] = p /\ chan[r] # <<>>
    BY <1>0, <1>3 DEF Consume
  <2>2. /\ Len(p) = Len(chan[r]) - 1 /\ Len(chan[r]) \in Nat
        /\ \A j \in 1..(Len(chan[r]) - 1) : p[j] = chan[r][j + 1]
    BY <1>0, <2>1, Shorter
  <2> HIDE DEF p
  <2>3. ASSUME NEW j \in 1..Len(p)
        PROVE  p[j].kind = "start" => p[j].n = 0
    <3>1. j + 1 \in 1..Len(chan[r]) /\ p[j] = chan[r][j + 1]
      BY <2>2
    <3> QED
      BY <3>1 DEF StartsAreZero
  <2> QED
    BY <2>1, <2>3 DEF StartsAreZero
<1>4. CASE StepStart(r)
  BY <1>2, <1>4, EventType, ConstantsType DEF StepStart
<1>5. CASE TokenUsage(r)
  <2>1. PICK n \in 1..MaxTokens : Emit(r, "usage", n)
    BY <1>5 DEF TokenUsage
  <2>2. n \in 0..MaxTokens
    BY ConstantsType
  <2>3. [kind |-> "usage", n |-> n] \in Events
    BY <2>2, EventType
  <2> QED
    BY <1>2, <2>1, <2>3
<1>6. CASE ApplyStart(r) \/ ReadUsage(r)
  BY <1>3, <1>6 DEF ApplyStart, ReadUsage
<1>7. Still(r) => chan'[r] = chan[r]
  BY DEF Still
<1>8. \/ Dispatch(r) \/ BeginTurn(r) \/ TurnEnds(r) \/ TurnFails(r) \/ StepFinish(r)
      \/ Drained(r) \/ Fallback(r) \/ Metadata(r) \/ AddUsage(r)
      => chan'[r] = chan[r]
  BY DEF Dispatch, BeginTurn, TurnEnds, TurnFails, StepFinish, Drained, Fallback, Metadata,
     AddUsage
<1> QED
  BY <1>1, <1>4, <1>5, <1>6, <1>7, <1>8, OwnOrStill DEF Acts, Consumer

LEMMA ReadStep ==
  ASSUME UsageIInv, [Next]_vars, NEW r \in Runs
  PROVE  ReadIsCurrent(r)'
<1> SUFFICES ASSUME entry' = r, ~astray'
             PROVE  /\ held'[r].busy => sess' # NoSession /\ held'[r].last = sess'.last
                    /\ pc'[r] = "result" => counted'[r] = (sess'.last > 0)
  BY DEF ReadIsCurrent
<1>0. TypeOK /\ ~astray /\ RunInv(r)
  BY AstrayStays DEF UsageIInv
<1>1. CASE Dispatch(r)
  <2>1. ~held'[r].busy /\ pc'[r] = "idle"
    BY <1>0, <1>1 DEF Dispatch, Goto, RunInv, Quiet, TypeOK
  <2> QED
    BY <2>1
<1> SUFFICES ASSUME entry = r
             PROVE  /\ held'[r].busy => sess' # NoSession /\ held'[r].last = sess'.last
                    /\ pc'[r] = "result" => counted'[r] = (sess'.last > 0)
  BY <1>0, <1>1, EntryKept
<1>2. /\ held[r].busy => sess # NoSession /\ held[r].last = sess.last
      /\ pc[r] = "result" => counted[r] = (sess.last > 0)
  BY <1>0 DEF RunInv, ReadIsCurrent
<1>3. CASE sess' = sess /\ held'[r] = held[r] /\ (pc'[r] # "result" \/ (pc'[r] = pc[r]
           /\ counted'[r] = counted[r]))
  BY <1>2, <1>3
<1>4. ASSUME NEW q \in Runs, q # r, Acts(q)
      PROVE  sess' = sess /\ Still(r)
  BY <1>0, <1>4, OthersApart, OthersStill
<1>5. CASE BeginTurn(r) \/ StepStart(r) \/ TokenUsage(r) \/ StepFinish(r) \/ TurnEnds(r)
           \/ TurnFails(r)
  <2>1. sess' = sess /\ held' = held /\ pc'[r] # "result"
    BY <1>0, <1>5
       DEF BeginTurn, StepStart, TokenUsage, StepFinish, TurnEnds, TurnFails, Goto,
       stateVars, TypeOK
  <2> QED
    BY <1>3, <2>1
<1>6. CASE Drained(r)
  <2>1. sess' = sess /\ ~held'[r].busy
    BY <1>6 DEF Drained, stateVars
  <2>2. counted'[r] = (sess.last > 0)
    BY <1>0, <1>6, Zenon DEF Drained, TypeOK
  <2> QED
    BY <2>1, <2>2, Zenon
<1>7. CASE Fallback(r) \/ Metadata(r)
  <2>1. ~held'[r].busy /\ pc'[r] # "result"
    BY <1>0, <1>7 DEF Fallback, Metadata, Goto, RunInv, Quiet, TypeOK
  <2> QED
    BY <2>1
<1>8. CASE Consumer(r)
  <2>1. pc[r] # "result"
    BY <1>0, <1>8 DEF Consumer, ApplyStart, ReadUsage, AddUsage, Consume, RunInv, Quiet
  <2>2. pc'[r] # "result"
    BY <1>8, <2>1 DEF Consumer, ApplyStart, ReadUsage, AddUsage, runVars
  <2>3. CASE ApplyStart(r)
    <3>1. ~held'[r].busy
      BY <2>3 DEF ApplyStart, Consume
    <3> QED
      BY <2>2, <3>1
  <2>4. CASE ReadUsage(r)
    <3>1. sess' = sess /\ held'[r].last = sess.last
      BY <1>0, <2>4 DEF ReadUsage, stateVars, TypeOK
    <3>2. sess # NoSession
      BY <2>4 DEF ReadUsage, Count
    <3> QED
      BY <2>2, <3>1, <3>2
  <2>5. CASE AddUsage(r)
    <3>1. ~held'[r].busy
      BY <1>0, <2>5 DEF AddUsage, NotHeld, TypeOK
    <3> QED
      BY <2>2, <3>1
  <2> QED
    BY <1>8, <2>3, <2>4, <2>5 DEF Consumer
<1>9. CASE UNCHANGED vars
  BY <1>2, <1>9 DEF vars, stateVars, runVars
<1>10. ~RemoveEntry
  BY ConstantsType DEF RemoveEntry
<1>11. Still(r) /\ sess' = sess => sess' = sess /\ held'[r] = held[r] /\ pc'[r] = pc[r]
       /\ counted'[r] = counted[r]
  BY DEF Still
<1> QED
  BY <1>1, <1>3, <1>4, <1>5, <1>6, <1>7, <1>8, <1>9, <1>10, <1>11 DEF Next, Acts

\* What concerns the entry and the totals.
LEMMA AstrayIsSettled ==
  ASSUME TypeOK, [Next]_vars, astray => surplus = 0
  PROVE  astray' => surplus' = 0
<1>1. ASSUME NEW q \in Runs, NEW n, NEW where, Count(q, n, where)
      PROVE  astray' => surplus' = 0
  BY <1>1 DEF Count
<1>2. ASSUME NEW q \in Runs, TurnEnds(q) \/ Fallback(q) \/ ApplyStart(q) \/ ReadUsage(q)
             \/ AddUsage(q)
      PROVE  astray' => surplus' = 0
  <2>1. \E n, where : Count(q, n, where)
    BY <1>2, Zenon DEF TurnEnds, Fallback, ApplyStart, ReadUsage, AddUsage
  <2> QED
    BY <1>1, <2>1
<1>3. ASSUME NEW q \in Runs, TokenUsage(q) \/ StepFinish(q)
      PROVE  astray' => surplus' = 0
  BY <1>3 DEF TokenUsage, StepFinish, Spend
<1>4. ASSUME NEW q \in Runs, Dispatch(q) \/ BeginTurn(q) \/ StepStart(q) \/ TurnFails(q)
             \/ Drained(q)
      PROVE  astray' => surplus' = 0
  BY <1>4 DEF Dispatch, BeginTurn, StepStart, TurnFails, Drained, countVars
<1>5. ASSUME NEW q \in Runs, Metadata(q)
      PROVE  astray' => surplus' = 0
  BY <1>5 DEF Metadata
<1>6. CASE RemoveEntry \/ UNCHANGED vars
  BY <1>6 DEF RemoveEntry, vars, countVars
<1> QED
  BY <1>2, <1>3, <1>4, <1>5, <1>6 DEF Next, Consumer

LEMMA SessionStep ==
  ASSUME UsageIInv, [Next]_vars
  PROVE  (entry' = 0 => sess' = NoSession) /\ SessionIsOwn'
<1>0. /\ TypeOK /\ (entry = 0 => sess = NoSession) /\ SessionIsOwn /\ 0 \notin Runs
      /\ sess \in Sessions /\ NoSession.run = 0
  BY ConstantsType DEF UsageIInv, TypeOK, NoSession
<1>1. ASSUME NEW q \in Runs,
             \/ BeginTurn(q) \/ StepStart(q) \/ TokenUsage(q) \/ StepFinish(q)
                \/ TurnEnds(q)
             \/ TurnFails(q) \/ Drained(q) \/ ReadUsage(q)
      PROVE  entry' = entry /\ sess' = sess
  BY <1>1 DEF BeginTurn, StepStart, TokenUsage, StepFinish, TurnEnds, TurnFails, Drained,
     ReadUsage, stateVars
<1>2. CASE entry' = entry /\ sess' = sess
  BY <1>0, <1>2, AstrayStays DEF SessionIsOwn
<1>3. ASSUME NEW q \in Runs, Dispatch(q)
      PROVE  (entry' = 0 => sess' = NoSession) /\ SessionIsOwn'
  BY <1>0, <1>3 DEF Dispatch, SessionIsOwn
<1>4. CASE RemoveEntry
  BY <1>0, <1>4 DEF RemoveEntry, SessionIsOwn
<1>5. ASSUME NEW q \in Runs, Fallback(q)
      PROVE  (entry' = 0 => sess' = NoSession) /\ SessionIsOwn'
  <2>1. entry' = entry /\ sess'.run = sess.run /\ (sess = NoSession => sess' = NoSession)
    BY <1>0, <1>5 DEF Fallback, Sessions
  <2> QED
    BY <1>0, <2>1, AstrayStays DEF SessionIsOwn
<1>6. ASSUME NEW q \in Runs, Metadata(q)
      PROVE  (entry' = 0 => sess' = NoSession) /\ SessionIsOwn'
  <2>1. entry' = entry /\ (entry = 0 => sess' = NoSession) /\ (astray' \/ entry = q)
    BY <1>0, <1>6 DEF Metadata
  <2>2. entry # 0 => sess'.run = q
    BY <1>0, <1>6 DEF Metadata, Sessions
  <2> QED
    BY <1>0, <2>1, <2>2 DEF SessionIsOwn
<1>7. ASSUME NEW q \in Runs, ApplyStart(q)
      PROVE  (entry' = 0 => sess' = NoSession) /\ SessionIsOwn'
  <2>1. entry' = entry /\ (entry = 0 => sess' = NoSession) /\ (astray' \/ entry = q)
    BY <1>0, <1>7 DEF ApplyStart, Count
  <2>2. entry # 0 => sess'.run = q
    BY <1>0, <1>7 DEF ApplyStart
  <2> QED
    BY <1>0, <2>1, <2>2 DEF SessionIsOwn
<1>8. ASSUME NEW q \in Runs, AddUsage(q)
      PROVE  (entry' = 0 => sess' = NoSession) /\ SessionIsOwn'
  <2>1. entry' = entry /\ sess'.run = sess.run /\ (sess = NoSession => sess' = NoSession)
    BY <1>0, <1>8 DEF AddUsage, Sessions
  <2> QED
    BY <1>0, <2>1, AstrayStays DEF SessionIsOwn
<1>9. UNCHANGED vars => entry' = entry /\ sess' = sess
  BY DEF vars, stateVars
<1> QED
  BY <1>1, <1>2, <1>3, <1>4, <1>5, <1>6, <1>7, <1>8, <1>9 DEF Next, Consumer

LEMMA SurplusStep ==
  ASSUME UsageIInv, [Next]_vars
  PROVE  NeverCountedTwice'
<1> SUFFICES ASSUME ~astray'
             PROVE  surplus' <= 0
  BY AstrayIsSettled DEF UsageIInv, NeverCountedTwice
<1>0. TypeOK /\ ~astray /\ surplus \in Int /\ surplus <= 0
  BY AstrayStays DEF UsageIInv, NeverCountedTwice, TypeOK
<1>1. ASSUME NEW q \in Runs, TokenUsage(q)
      PROVE  surplus' <= 0
  <2>1. PICK n \in 1..MaxTokens : n > step[q].tokens /\ Spend(n - step[q].tokens)
    BY <1>1 DEF TokenUsage
  <2>2. n \in Int /\ step[q].tokens \in Int
    BY <1>0, <2>1, LedgerType
  <2> QED
    BY <1>0, <2>1, <2>2 DEF Spend
<1>2. ASSUME NEW q \in Runs, StepFinish(q)
      PROVE  surplus' <= 0
  <2>1. PICK n \in {0} \cup (step[q].tokens..MaxTokens) : Spend(Delta(n, step[q].tokens))
    BY <1>2 DEF StepFinish
  <2>2. n \in Int /\ step[q].tokens \in Int
    BY <1>0, <2>1, LedgerType
  <2>3. Delta(n, step[q].tokens) \in Nat
    BY <2>2, DeltaType
  <2> QED
    BY <1>0, <2>1, <2>3 DEF Spend
<1>3. ASSUME NEW q \in Runs, Fallback(q)
      PROVE  surplus' <= 0
  <2>1. entry = q
    BY <1>3 DEF Fallback, Count
  <2> QED
    BY <1>3, <2>1, FallbackPays
<1>4. ASSUME NEW q \in Runs, AddUsage(q)
      PROVE  surplus' <= 0
  <2>1. entry = q /\ entry' = q
    BY <1>4 DEF AddUsage, Count
  <2>2. Ledger(q)'
    BY <2>1, LedgerStep
  <2>3. TypeOK'
    BY <1>0, TypeStep
  <2>4. PICK s : /\ Adds(chan'[q], Base(q)', s) /\ s[0] = surplus' + Pending(q)'
        /\ Backed(q, s)'
    BY <2>2 DEF Ledger
  <2>5. held'[q].busy = FALSE
    BY <1>0, <1>4 DEF AddUsage, NotHeld, TypeOK
  <2> DEFINE m == Len(chan'[q])
             b == Base(q)'
             D == Delta(step'[q].tokens, LastAt(chan'[q], b, m))
  <2>6. /\ chan'[q] \in Seq(Events) /\ m \in Nat /\ b \in Int /\ surplus' \in Int
        /\ step'[q].tokens \in Nat
    <3>1. b = sess'.last
      BY <2>5 DEF Base
    <3>2. sess' \in Sessions /\ step'[q] \in Steps /\ chan'[q] \in Seq(Events)
          /\ surplus' \in Int
      BY <2>3 DEF TypeOK
    <3> QED
      BY <3>1, <3>2 DEF Sessions, Steps
  <2>7. 0 \in 0..m /\ m \in 0..m /\ 0 <= m
    BY <2>6
  <2>8. s[0] <= s[m] /\ s[m] \in Int /\ s[0] \in Int
    BY <2>4, <2>7 DEF Adds
  <2>9. LastAt(chan'[q], b, m) \in Int /\ step'[q].tokens \in Int
    BY <2>6, EventType DEF LastAt
  <2>10. D \in Nat
    BY <2>9, DeltaType
  <2>11. s[m] <= IF pc'[q] = "metadata" THEN 0 ELSE 0 - D
    BY <2>4 DEF Backed
  <2>12. Pending(q)' = 0
    BY <2>5 DEF Pending
  <2> HIDE DEF D, m
  <2> QED
    BY <2>4, <2>6, <2>8, <2>10, <2>11, <2>12
<1>5. ASSUME NEW q \in Runs,
             \/ Dispatch(q) \/ BeginTurn(q) \/ StepStart(q) \/ TurnEnds(q) \/ TurnFails(q)
             \/ Drained(q) \/ Metadata(q) \/ ApplyStart(q) \/ ReadUsage(q)
      PROVE  surplus' <= 0
  BY <1>0, <1>5
     DEF Dispatch, BeginTurn, StepStart, TurnEnds, TurnFails, Drained, Metadata, ApplyStart,
     ReadUsage,
         Count, countVars
<1>6. CASE RemoveEntry \/ UNCHANGED vars
  BY <1>0, <1>6 DEF RemoveEntry, vars, countVars
<1> QED
  BY <1>1, <1>2, <1>3, <1>4, <1>5, <1>6 DEF Next, Consumer

LEMMA CountedStep ==
  ASSUME UsageIInv, [Next]_vars
  PROVE  LastStepIsCounted'
<1> SUFFICES ASSUME NEW r \in Runs, pc'[r] = "metadata", step'[r].number > 0, ~astray'
             PROVE  tally'[r] >= IF step'[r].reported > 0 THEN step'[r].reported
                    ELSE usage'[r]
  BY DEF LastStepIsCounted
<1>0. TypeOK /\ ~astray /\ RunInv(r) /\ LastStepIsCounted
  BY AstrayStays DEF UsageIInv
<1>1. CASE Still(r) /\ tally'[r] = tally[r]
  BY <1>0, <1>1 DEF Still, LastStepIsCounted
<1>2. CASE Fallback(r)
  <2>1. entry = r /\ step'[r] = step[r] /\ usage'[r] = usage[r]
    BY <1>2 DEF Fallback, Count
  <2> QED
    BY <1>2, <2>1, FallbackPays
<1>3. ~(Dispatch(r) \/ BeginTurn(r) \/ TurnEnds(r) \/ TurnFails(r) \/ Drained(r)
      \/ Metadata(r))
  BY <1>0 DEF Dispatch, BeginTurn, TurnEnds, TurnFails, Drained, Metadata, Goto, TypeOK
<1>4. ~(StepStart(r) \/ TokenUsage(r) \/ StepFinish(r))
  BY <1>0 DEF StepStart, TokenUsage, StepFinish
<1>5. ~Consumer(r)
  <2>1. Consumer(r) => pc'[r] = pc[r] /\ (chan[r] # <<>> \/ held[r].busy)
    BY DEF Consumer, ApplyStart, ReadUsage, AddUsage, Consume, runVars
  <2> QED
    BY <1>0, <2>1 DEF RunInv, Quiet
<1> QED
  BY <1>0, <1>1, <1>2, <1>3, <1>4, <1>5, OwnOrStill DEF Acts

-----------------------------------------------------------------------------
LEMMA UsageInit ==
  ASSUME Init
  PROVE  UsageIInv
<1>1. TypeOK
  <2>1. chan \in [Runs -> Seq(Events)] /\ \A r \in Runs : Len(chan[r]) <= Cap
    BY UsageAssumption DEF Init
  <2>2. entry \in Runs \cup {0} /\ surplus \in Int /\ sess \in Sessions
        /\ turns \in 0..MaxTurns
    BY ConstantsType DEF Init
  <2>6. astray \in BOOLEAN
    BY DEF Init
  <2>5. pc \in [Runs -> Labels]
    BY DEF Init, Labels
  <2>3. step \in [Runs -> Steps] /\ usage \in [Runs -> 0..MaxTokens]
        /\ held \in [Runs -> Holdings]
    BY ConstantsType DEF Init
  <2>4. counted \in [Runs -> BOOLEAN] /\ tally \in [Runs -> Nat]
    BY DEF Init
  <2> QED
    BY <2>1, <2>2, <2>3, <2>4, <2>5, <2>6 DEF TypeOK, Labels
<1>2. ASSUME NEW r \in Runs
      PROVE  RunInv(r)
  <2>1. entry # r
    BY ConstantsType DEF Init
  <2> QED
    BY <2>1 DEF Init, RunInv, Quiet, ResultFits, StartsAreZero, ReadIsCurrent, NotHeld,
       NoStep
<1>3. SessionIsOwn /\ NeverCountedTwice /\ LastStepIsCounted
  BY DEF Init, SessionIsOwn, NeverCountedTwice, LastStepIsCounted, NoSession
<1> QED
  BY <1>1, <1>2, <1>3 DEF UsageIInv, Init

LEMMA UsageStep ==
  ASSUME UsageIInv, [Next]_vars
  PROVE  UsageIInv'
<1>0. TypeOK /\ (astray => surplus = 0) /\ \A r \in Runs : RunInv(r)
  BY DEF UsageIInv
<1>1. TypeOK' /\ (astray' => surplus' = 0)
  BY <1>0, TypeStep, AstrayIsSettled
<1>2. ASSUME NEW r \in Runs
      PROVE  RunInv(r)'
  <2>1. Quiet(r)' /\ ResultFits(r)' /\ StartsAreZero(r)' /\ ReadIsCurrent(r)'
    BY <1>0, QuietStep, ResultStep, StartsStep, ReadStep DEF RunInv
  <2>2. (entry = r /\ ~astray => Ledger(r))'
    BY LedgerStep
  <2> QED
    BY <2>1, <2>2 DEF RunInv
<1> QED
  BY <1>1, <1>2, SessionStep, SurplusStep, CountedStep DEF UsageIInv

\* The inductive invariant.
THEOREM UsageIInvHolds == Spec => []UsageIInv
  BY UsageInit, UsageStep, PTL DEF Spec

\* The session of an entry is its own run's, unless an event went astray.
THEOREM UsageSafe == Spec => []UsageInv
<1>1. UsageIInv => UsageInv
  BY DEF UsageIInv, UsageInv
<1> QED
  BY <1>1, UsageIInvHolds, PTL

\* No token of a step is added to the totals twice, by two usage events or by
\* an event and the turn's result, while every event meets its own run's entry.
THEOREM NoDoubleCount == Spec => []NeverCountedTwice
<1>1. UsageIInv => NeverCountedTwice
  BY DEF UsageIInv
<1> QED
  BY <1>1, UsageIInvHolds, PTL

\* When a turn that announces its steps is over, its last step is counted.
THEOREM LastStepCounted == Spec => []LastStepIsCounted
<1>1. UsageIInv => LastStepIsCounted
  BY DEF UsageIInv
<1> QED
  BY <1>1, UsageIInvHolds, PTL

=============================================================================

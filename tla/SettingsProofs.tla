--------------------------- MODULE SettingsProofs ---------------------------
(***************************************************************************)
(* The properties of Settings, for every width of a u32, every set of      *)
(* numbers, CLIs on the host and any number of edits: one inductive        *)
(* invariant, SettingsIInv.                                                *)
(***************************************************************************)
EXTENDS Settings, FiniteSetTheorems, TLAPS

\* A number, one by state, a text: the host's secret and its HOME are in no
\* file literally.
NumberOK(v) == Holds(v, "int") => v[2] \in Int

ByStateOK(v) == Holds(v, "map") => \A s \in Columns : NumberOK(v[2][s])

TextOK(v) == Holds(v, "str") => v = Str(v[2]) /\ v[2] \notin {"secret", HostEnv.HOME}

EnvOK(v) == Holds(v, "map") => \A n \in Names : TextOK(v[2][n])

\* Options in which no argument is the secret.
ArgsOK(v) == Holds(v, "map") => \A a \in ToSet(ListOr(v[2].args)) : TextOK(a)

\* A list of phases, with such options.
PhasesOK(v) ==
  LET list == ListOr(v)
  IN  /\ \E n \in Nat : DOMAIN list = 1..n
      /\ \A i \in DOMAIN list : Holds(list[i], "map") => ArgsOK(list[i][2].options)

\* Every file there ever is.
FileOK(c) ==
  /\ DOMAIN c = DOMAIN Writes
  /\ NumberOK(c.maxTurns) /\ NumberOK(c.timeout) /\ ByStateOK(c.stateTurns)
  /\ EnvOK(c.env) /\ ArgsOK(c.options) /\ PhasesOK(c.phases)

\* A run has the fields of one.
RunIsRecord ==
  run = [pc |-> run.pc, limits |-> run.limits, config |-> run.config,
         turn |-> run.turn, attempt |-> run.attempt, column |-> run.column,
         still |-> run.still, session |-> run.session]

FilesOK ==
  /\ FileOK(file) /\ FileOK(boot) /\ FileOK(config)
  /\ FileOK(run.limits) /\ FileOK(run.config)

StateOK ==
  /\ main \in {"starting", "up", "refused", "failed"}
  /\ run.pc \in {"none", "spawned", "between", "turn", "over"}
  /\ run.turn \in Nat
  /\ column \in Columns

\* At the head of the loop there is a turn left.
BudgetLeft ==
  /\ run.turn = 0 \/ run.pc \in {"between", "turn"}
  /\ run.pc = "between" => run.turn = 0 \/ run.turn < MaxTurns(run.limits)
  /\ run.pc = "turn" => run.turn = 1 \/ run.turn <= MaxTurns(run.limits)

SettingsIInv == FilesOK /\ RunIsRecord /\ StateOK /\ BudgetLeft /\ ChecksForeseeFailures

-----------------------------------------------------------------------------
\* The texts, fields and options that files are made of.
LEMMA TextsOK ==
  /\ TextOK(Absent) /\ TextOK(Odd)
  /\ TextOK(Str("$TOKEN")) /\ TextOK(Str("-v")) /\ TextOK(Str("/tmp"))
<1>1. HostEnv.HOME = "/root"
  BY DEF HostEnv
<1> QED
  BY <1>1 DEF TextOK, Holds, Absent, Odd, Str

LEMMA WritesDomain ==
  DOMAIN Writes =
    {"kind", "apiKey", "slug", "number", "command", "cliArgs", "options", "env", "template",
     "timeout", "maxTurns", "stateTurns", "cap", "stateCaps", "phases"}
BY DEF Writes

LEMMA NoRawArgs ==
  /\ ArgsOK(Absent) /\ ArgsOK(Odd)
  /\ ListOr(Absent) = <<>> /\ ToSet(ListOr(Absent)) = {}
BY DEF ArgsOK, Holds, Absent, Odd, ListOr, ToSet

LEMMA PlainArgs ==
  ASSUME NEW m, ToSet(ListOr(m.args)) \in {{}, {Str("-v")}, {Odd, Str("$TOKEN")}}
  PROVE  ArgsOK(Map(m))
BY TextsOK DEF ArgsOK, Map

LEMMA NoArgs ==
  ASSUME NEW m, m.args = Absent
  PROVE  ArgsOK(Map(m))
BY NoRawArgs, PlainArgs

LEMMA PhaseArgs ==
  ASSUME NEW b, NEW s, NEW o, ArgsOK(o)
  PROVE  ArgsOK(Phase(b, s, o)[2].options)
BY DEF Phase, Map

LEMMA OnePhase ==
  ASSUME NEW p, ArgsOK(p[2].options)
  PROVE  PhasesOK(List(<<p>>))
<1>1. ListOr(List(<<p>>)) = <<p>>
  BY DEF ListOr, List, Holds
<1>2. DOMAIN <<p>> = {1} /\ <<p>>[1] = p /\ {1} = 1..1
  OBVIOUS
<1> QED
  BY <1>1, <1>2 DEF PhasesOK

LEMMA TwoPhases ==
  ASSUME NEW p, NEW q, ArgsOK(p[2].options), ArgsOK(q[2].options)
  PROVE  PhasesOK(List(<<Odd, p, q>>))
<1> DEFINE list == <<Odd, p, q>>
<1>1. ListOr(List(list)) = list
  BY DEF ListOr, List, Holds
<1>2. /\ DOMAIN list = {1, 2, 3} /\ {1, 2, 3} = 1..3
      /\ list[1] = Odd /\ list[2] = p /\ list[3] = q
  OBVIOUS
<1>3. ~Holds(Odd, "map")
  BY DEF Holds, Odd
<1> HIDE DEF list
<1>4. PhasesOK(List(list))
  BY <1>1, <1>2, <1>3 DEF PhasesOK
<1> QED
  BY <1>4 DEF list

-----------------------------------------------------------------------------
\* The first file and every edit of a file are of that kind.
LEMMA SampleOK == FileOK(Sample)
<1>1. DOMAIN Sample = DOMAIN Writes
  BY WritesDomain DEF Sample
<1>2. NumberOK(Sample.maxTurns) /\ NumberOK(Sample.timeout) /\ ByStateOK(Sample.stateTurns)
  BY DEF Sample, NumberOK, ByStateOK, Holds, Int64, Absent
<1>3. EnvOK(Sample.env)
  BY DEF Sample, EnvOK, Holds, Absent
<1>4. ArgsOK(Sample.options)
  <2> DEFINE m == [NoRawOptions EXCEPT !.permission = Str("bypassPermissions"),
                                       !.args = List(<<Str("-v")>>)]
  <2>1. m.args = List(<<Str("-v")>>)
    BY DEF NoRawOptions
  <2>2. Sample.options = Map(m)
    BY DEF Sample
  <2> HIDE DEF m
  <2>3. ListOr(m.args) = <<Str("-v")>>
    BY <2>1 DEF ListOr, List, Holds
  <2>4. ToSet(ListOr(m.args)) = {Str("-v")}
    BY <2>3 DEF ToSet
  <2> QED
    BY <2>2, <2>4, PlainArgs
<1>5. PhasesOK(Sample.phases)
  <2> DEFINE o == Map([NoRawOptions EXCEPT !.permission = Str("plan")])
  <2>1. ArgsOK(o)
    BY NoArgs DEF NoRawOptions
  <2> HIDE DEF o
  <2>2. PhasesOK(List(<<Phase(FALSE, "review", o)>>))
    <3>1. ArgsOK(Phase(FALSE, "review", o)[2].options)
      BY <2>1, PhaseArgs
    <3> QED
      BY <3>1, OnePhase
  <2> QED
    BY <2>2 DEF Sample, o
<1> QED
  BY <1>1, <1>2, <1>3, <1>4, <1>5 DEF FileOK

LEMMA WriteOK ==
  ASSUME NEW f \in DOMAIN Writes, NEW v \in Writes[f]
  PROVE  /\ f \in {"maxTurns", "timeout"} => NumberOK(v)
         /\ f = "stateTurns" => ByStateOK(v)
         /\ f = "env" => EnvOK(v)
         /\ f = "options" => ArgsOK(v)
         /\ f = "phases" => PhasesOK(v)
<1>1. \A u \in WriteNumber : NumberOK(u)
  BY SettingsAssumption DEF WriteNumber, NumberOK, Holds, Odd, Int64
<1>2. NumberOK(Absent) /\ NumberOK(Odd) /\ NumberOK(Int64(-1)) /\ NumberOK(Int64(4))
  BY DEF NumberOK, Holds, Odd, Int64, Absent
<1>3. CASE f = "maxTurns"
  BY <1>1, <1>2, <1>3 DEF Writes
<1>4. CASE f = "timeout"
  BY <1>2, <1>4 DEF Writes
<1>5. CASE f = "stateTurns"
  <2>1. PICK u \in WriteNumber : v = Map([s \in Columns |-> IF s = "todo" THEN u ELSE Absent])
    BY <1>5 DEF Writes, WriteByState
  <2> QED
    BY <1>1, <1>2, <1>5, <2>1 DEF ByStateOK, Map
<1>6. CASE f = "env"
  <2>1. \/ v = Map([n \in Names |-> IF n = "HOME" THEN Str("/tmp") ELSE Absent])
        \/ v = Map([n \in Names |-> IF n = "TOKEN" THEN Str("$TOKEN") ELSE Odd])
    BY <1>6 DEF Writes
  <2>2. \A n \in Names : v[2][n] \in {Absent, Odd, Str("/tmp"), Str("$TOKEN")}
    BY <2>1 DEF Map
  <2>5. EnvOK(v)
    BY <2>2, TextsOK DEF EnvOK
  <2> QED
    BY <2>5, <1>6
<1>7. CASE f = "options"
  <2>1. ArgsOK(Absent)
    BY NoRawArgs
  <2>2. ArgsOK(Map([NoRawOptions EXCEPT !.legacy = TRUE]))
    BY NoArgs DEF NoRawOptions
  <2>3. ArgsOK(Map([NoRawOptions EXCEPT !.permission = Str("all")]))
    BY NoArgs DEF NoRawOptions
  <2>4. ArgsOK(Map([NoRawOptions EXCEPT !.script = Str("a.yaml"), !.model = Str("m")]))
    BY NoArgs DEF NoRawOptions
  <2>5. ArgsOK(Map([NoRawOptions EXCEPT !.args = List(<<Odd, Str("$TOKEN")>>)]))
    <3> DEFINE m == [NoRawOptions EXCEPT !.args = List(<<Odd, Str("$TOKEN")>>)]
    <3>1. m.args = List(<<Odd, Str("$TOKEN")>>)
      BY DEF NoRawOptions
    <3> HIDE DEF m
    <3>2. ListOr(m.args) = <<Odd, Str("$TOKEN")>>
      BY <3>1 DEF ListOr, List, Holds
    <3>3. ToSet(ListOr(m.args)) = {Odd, Str("$TOKEN")}
      BY <3>2 DEF ToSet
    <3>4. ArgsOK(Map(m))
      BY <3>3, PlainArgs
    <3> QED
      BY <3>4 DEF m
  <2> QED
    BY <1>7, <2>1, <2>2, <2>3, <2>4, <2>5 DEF Writes
<1>8. CASE f = "phases"
  <2>1. PhasesOK(Absent)
    <3>1. ListOr(Absent) = <<>> /\ DOMAIN <<>> = 1..0
      BY NoRawArgs
    <3> QED
      BY <3>1 DEF PhasesOK
  <2>2. PhasesOK(List(<<Phase(TRUE, "todo", Absent)>>))
    <3>1. ArgsOK(Phase(TRUE, "todo", Absent)[2].options)
      BY NoRawArgs, PhaseArgs
    <3> QED
      BY <3>1, OnePhase
  <2>3. PhasesOK(List(<<Odd,
                        Phase(FALSE, "todo", Map([NoRawOptions EXCEPT !.model = Str("n")])),
                        Phase(FALSE, "todo", Map([NoRawOptions EXCEPT !.model = Str("o")]))>>))
    <3> DEFINE n == Map([NoRawOptions EXCEPT !.model = Str("n")])
               o == Map([NoRawOptions EXCEPT !.model = Str("o")])
    <3>1. ArgsOK(n) /\ ArgsOK(o)
      BY NoArgs DEF NoRawOptions
    <3> HIDE DEF n, o
    <3>2. ArgsOK(Phase(FALSE, "todo", n)[2].options)
      BY <3>1, PhaseArgs
    <3>3. ArgsOK(Phase(FALSE, "todo", o)[2].options)
      BY <3>1, PhaseArgs
    <3>4. PhasesOK(List(<<Odd, Phase(FALSE, "todo", n), Phase(FALSE, "todo", o)>>))
      BY <3>2, <3>3, TwoPhases
    <3> QED
      BY <3>4 DEF n, o
  <2> QED
    BY <1>8, <2>1, <2>2, <2>3 DEF Writes
<1> QED
  BY <1>3, <1>4, <1>5, <1>6, <1>7, <1>8

LEMMA EditOK ==
  ASSUME NEW c, FileOK(c), NEW f \in DOMAIN Writes, NEW v \in Writes[f]
  PROVE  FileOK([c EXCEPT ![f] = v])
<1> DEFINE d == [c EXCEPT ![f] = v]
<1>1. DOMAIN d = DOMAIN Writes
  BY DEF FileOK
<1>2. \A g \in DOMAIN Writes : d[g] = IF g = f THEN v ELSE c[g]
  BY DEF FileOK
<1> HIDE DEF d
<1>3. /\ d.maxTurns = IF f = "maxTurns" THEN v ELSE c.maxTurns
      /\ d.timeout = IF f = "timeout" THEN v ELSE c.timeout
      /\ d.stateTurns = IF f = "stateTurns" THEN v ELSE c.stateTurns
      /\ d.env = IF f = "env" THEN v ELSE c.env
      /\ d.options = IF f = "options" THEN v ELSE c.options
      /\ d.phases = IF f = "phases" THEN v ELSE c.phases
  BY <1>2, WritesDomain
<1>4. FileOK(d)
  BY <1>1, <1>3, WriteOK DEF FileOK
<1> QED
  BY <1>4 DEF d

-----------------------------------------------------------------------------
\* The cast of a budget is within a u32, and leaves what fits one.
LEMMA BudgetType ==
  ASSUME NEW c, FileOK(c)
  PROVE  /\ MaxTurns(c) \in 0..U32 - 1
         /\ IntOr(c.maxTurns, 20) < U32 => MaxTurns(c) = AtLeast(1, IntOr(c.maxTurns, 20))
         /\ AtLeast(1, IntOr(c.maxTurns, 20)) \in Nat \ {0}
<1> DEFINE n == AtLeast(1, IntOr(c.maxTurns, 20))
<1>1. IntOr(c.maxTurns, 20) \in Int
  BY DEF FileOK, NumberOK, IntOr
<1>2. n \in Nat \ {0} /\ (IntOr(c.maxTurns, 20) < U32 => n < U32)
  BY <1>1, U32Assumption DEF AtLeast
<1>3. MaxTurns(c) = n % U32
  BY DEF MaxTurns, AsU32
<1> HIDE DEF n
<1>4. n % U32 \in 0..U32 - 1 /\ (n < U32 => n % U32 = n)
  BY <1>2, U32Assumption
<1> QED
  BY <1>2, <1>3, <1>4 DEF n

LEMMA StateTurnsType ==
  ASSUME NEW c, FileOK(c), NEW s \in Columns
  PROVE  StateTurns(c, s) \in 0..U32 - 1
<1> DEFINE v == MapOr(c.stateTurns, [t \in Columns |-> Absent])[s]
<1>1. NumberOK(v)
  BY DEF FileOK, ByStateOK, MapOr, NumberOK, Holds, Absent
<1> HIDE DEF v
<1>2. CASE Holds(v, "int")
  <2>1. v[2] \in Int
    BY <1>1, <1>2 DEF NumberOK
  <2>2. v[2] % U32 \in 0..U32 - 1
    BY <2>1, U32Assumption
  <2>3. StateTurns(c, s) = AtLeast(1, AsU32(v[2]))
    BY <1>2 DEF StateTurns, v
  <2> QED
    BY <2>2, <2>3, U32Assumption DEF AtLeast, AsU32
<1>3. CASE ~Holds(v, "int")
  <2>1. StateTurns(c, s) = 0
    BY <1>3 DEF StateTurns, v
  <2> QED
    BY <2>1, U32Assumption
<1> QED
  BY <1>2, <1>3

-----------------------------------------------------------------------------
\* The invariant.
LEMMA InitInv == Init => SettingsIInv
<1> SUFFICES ASSUME Init PROVE SettingsIInv
  OBVIOUS
<1>1. /\ run = NoRun /\ file = Sample /\ boot = Sample /\ config = Sample
      /\ main = "starting" /\ column = "todo"
  BY DEF Init
<1>2. /\ run.limits = Sample /\ run.config = Sample /\ run.pc = "none" /\ run.turn = 0
      /\ RunIsRecord
  BY <1>1 DEF NoRun, RunIsRecord
<1>3. FilesOK
  BY <1>1, <1>2, SampleOK DEF FilesOK
<1>4. StateOK /\ BudgetLeft /\ ChecksForeseeFailures
  BY <1>1, <1>2 DEF StateOK, BudgetLeft, ChecksForeseeFailures, Columns
<1> QED
  BY <1>2, <1>3, <1>4 DEF SettingsIInv

\* What a step makes of the run.
RunSteps ==
  \/ UNCHANGED run
  \/ run' = NoRun \/ run' = [NoRun EXCEPT !.pc = "over"]
  \/ \E a : run' = [NoRun EXCEPT !.pc = "spawned", !.limits = config, !.attempt = a,
                                !.column = column]
  \/ \E h : run' = [run EXCEPT !.pc = "between", !.config = config, !.session = h]
            /\ run.pc = "spawned"
  \/ run' = [run EXCEPT !.pc = "turn", !.turn = @ + 1] /\ run.pc = "between"
  \/ /\ run.pc = "turn" /\ ~(run.turn >= MaxTurns(run.limits))
     /\ \E c, n : run' = [run EXCEPT !.column = c, !.still = n, !.pc = "between"]

FileSteps ==
  /\ \/ UNCHANGED file
     \/ \E f \in DOMAIN Writes : \E v \in Writes[f] : file' = [file EXCEPT ![f] = v]
  /\ UNCHANGED boot \/ boot' = file
  /\ UNCHANGED config \/ config' = file

LEMMA Steps ==
  ASSUME [Next]_vars
  PROVE  RunSteps /\ FileSteps /\ (column' = column \/ column' \in Columns)
<1>1. CASE Edit
  BY <1>1 DEF Edit, RunSteps, FileSteps
<1>2. CASE Refused \/ Failed \/ Start \/ Reload
  BY <1>2 DEF Refused, Failed, Leave, Start, Reload, RunSteps, FileSteps
<1>3. CASE TickStarts \/ RetryStarts
  BY <1>3 DEF TickStarts, RetryStarts, Spawn, RunSteps, FileSteps
<1>4. CASE RunReads
  BY <1>4 DEF RunReads, RunSteps, FileSteps
<1>5. CASE NoPhases \/ NoPrompt \/ RunFails \/ RunIsOver
  BY <1>5 DEF NoPhases, NoPrompt, RunFails, RunIsOver, Over, RunSteps, FileSteps
<1>6. CASE BeginTurn
  BY <1>6 DEF BeginTurn, RunSteps, FileSteps
<1>7. CASE NextTurn
  <2>1. FileSteps /\ column' = column /\ run.pc = "turn"
    BY <1>7 DEF NextTurn, FileSteps
  <2>2. CASE Over
    BY <2>1, <2>2 DEF Over, RunSteps
  <2>3. CASE ~Over
    <3>1. ~(run.turn >= MaxTurns(run.limits))
      BY <1>7, <2>3 DEF NextTurn
    <3>2. \E c, n : run' = [run EXCEPT !.column = c, !.still = n, !.pc = "between"]
      BY <1>7, <2>3 DEF NextTurn
    <3> QED
      BY <2>1, <3>1, <3>2 DEF RunSteps
  <2> QED
    BY <2>2, <2>3
<1>8. CASE MoveIssue
  BY <1>8 DEF MoveIssue, RunSteps, FileSteps
<1>9. CASE UNCHANGED vars
  BY <1>9 DEF vars, RunSteps, FileSteps
<1> QED
  BY <1>1, <1>2, <1>3, <1>4, <1>5, <1>6, <1>7, <1>8, <1>9 DEF Next, RunStep

LEMMA FilesStep ==
  ASSUME SettingsIInv, [Next]_vars
  PROVE  FilesOK' /\ RunIsRecord'
<1> USE DEF SettingsIInv
<1>1. RunSteps /\ FileSteps
  BY Steps
<1>2. FileOK(file')
  BY <1>1, EditOK DEF FileSteps, FilesOK
<1>3. FileOK(boot') /\ FileOK(config')
  BY <1>1 DEF FileSteps, FilesOK
<1>4. RunIsRecord' /\ run'.limits \in {Sample, run.limits, config}
        /\ run'.config \in {Sample, run.config, config}
  <2>1. CASE UNCHANGED run
    BY <2>1 DEF RunIsRecord
  <2>2. CASE run' = NoRun \/ run' = [NoRun EXCEPT !.pc = "over"]
    BY <2>2 DEF NoRun, RunIsRecord
  <2>3. ASSUME NEW a, run' = [NoRun EXCEPT !.pc = "spawned", !.limits = config, !.attempt = a,
                                           !.column = column]
        PROVE  RunIsRecord' /\ run'.limits = config /\ run'.config = Sample
    BY <2>3 DEF NoRun, RunIsRecord
  <2>4. ASSUME NEW h, run' = [run EXCEPT !.pc = "between", !.config = config, !.session = h]
        PROVE  RunIsRecord' /\ run'.limits = run.limits /\ run'.config = config
    BY <2>4 DEF RunIsRecord
  <2>5. CASE run' = [run EXCEPT !.pc = "turn", !.turn = @ + 1]
    BY <2>5 DEF RunIsRecord
  <2>6. ASSUME NEW c, NEW n, run' = [run EXCEPT !.column = c, !.still = n, !.pc = "between"]
        PROVE  RunIsRecord' /\ run'.limits = run.limits /\ run'.config = run.config
    BY <2>6 DEF RunIsRecord
  <2> QED
    BY <1>1, <2>1, <2>2, <2>3, <2>4, <2>5, <2>6 DEF RunSteps
<1>5. FileOK(run.limits) /\ FileOK(run.config) /\ FileOK(config)
  BY DEF FilesOK
<1>6. FileOK(run'.limits) /\ FileOK(run'.config)
  BY <1>4, <1>5, SampleOK
<1> QED
  BY <1>2, <1>3, <1>4, <1>6 DEF FilesOK

LEMMA StateStep ==
  ASSUME SettingsIInv, [Next]_vars
  PROVE  StateOK' /\ BudgetLeft'
<1> USE DEF SettingsIInv
<1>1. RunSteps
  BY Steps
<1>2. column' \in Columns
  BY Steps DEF StateOK
<1>3. main' \in {"starting", "up", "refused", "failed"}
  <2>1. main' = main \/ main' \in {"up", "refused", "failed"}
    BY DEF Next, vars, Edit, Refused, Failed, Leave, Start, Reload, TickStarts, RetryStarts,
           RunStep, RunReads, NoPhases, NoPrompt, BeginTurn, NextTurn, RunFails, RunIsOver,
           MoveIssue
  <2> QED
    BY <2>1 DEF StateOK
<1> DEFINE Kept == /\ run'.pc \in {"none", "spawned", "between", "turn", "over"}
                   /\ run'.turn \in Nat
                   /\ BudgetLeft'
<1>4. Kept
  <2>1. CASE UNCHANGED run
    BY <2>1 DEF StateOK, BudgetLeft
  <2>2. CASE run' = NoRun \/ run' = [NoRun EXCEPT !.pc = "over"]
    <3>1. run'.pc \in {"none", "over"} /\ run'.turn = 0
      BY <2>2 DEF NoRun
    <3> QED
      BY <3>1 DEF BudgetLeft
  <2>3. ASSUME NEW a, run' = [NoRun EXCEPT !.pc = "spawned", !.limits = config, !.attempt = a,
                                           !.column = column]
        PROVE  Kept
    <3>1. run'.pc = "spawned" /\ run'.turn = 0
      BY <2>3 DEF NoRun
    <3> QED
      BY <3>1 DEF BudgetLeft
  <2>4. ASSUME NEW h, run' = [run EXCEPT !.pc = "between", !.config = config, !.session = h],
               run.pc = "spawned"
        PROVE  Kept
    <3>1. run'.pc = "between" /\ run'.turn = 0
      BY <2>4 DEF RunIsRecord, BudgetLeft
    <3> QED
      BY <3>1 DEF BudgetLeft
  <2>5. CASE run' = [run EXCEPT !.pc = "turn", !.turn = @ + 1] /\ run.pc = "between"
    <3>1. run'.pc = "turn" /\ run'.turn = run.turn + 1 /\ run'.limits = run.limits
      BY <2>5 DEF RunIsRecord
    <3>2. MaxTurns(run.limits) \in Int
      BY BudgetType, U32Assumption DEF FilesOK
    <3>3. run.turn = 0 \/ run.turn < MaxTurns(run.limits)
      BY <2>5 DEF BudgetLeft
    <3> QED
      BY <3>1, <3>2, <3>3 DEF StateOK, BudgetLeft
  <2>6. ASSUME NEW c, NEW n, run' = [run EXCEPT !.column = c, !.still = n, !.pc = "between"],
               ~(run.turn >= MaxTurns(run.limits))
        PROVE  Kept
    <3>1. run'.pc = "between" /\ run'.turn = run.turn /\ run'.limits = run.limits
      BY <2>6 DEF RunIsRecord
    <3>2. MaxTurns(run.limits) \in Int
      BY BudgetType, U32Assumption DEF FilesOK
    <3> QED
      BY <2>6, <3>1, <3>2 DEF StateOK, BudgetLeft
  <2> HIDE DEF Kept
  <2> QED
    BY <1>1, <2>1, <2>2, <2>3, <2>4, <2>5, <2>6 DEF RunSteps
<1> QED
  BY <1>2, <1>3, <1>4 DEF StateOK

\* What passes the checks and fails in a constructor does so for one of two
\* reasons, and a daemon that has failed does not read the file again.
LEMMA FailureStep ==
  ASSUME ChecksForeseeFailures, [Next]_vars
  PROVE  ChecksForeseeFailures'
<1>1. CASE Failed
  <2>1. Validated(file) /\ ~(TrackerBuilds(file) /\ RunnerBuilds(file)) /\ file' = file
    BY <1>1 DEF Failed, Leave
  <2>2. Slug(file) # "owner/repo" \/ Command(file) = "mock-cli"
    BY <2>1 DEF Validated, TrackerBuilds, RunnerBuilds
  <2> QED
    BY <2>1, <2>2 DEF ChecksForeseeFailures
<1>2. CASE Edit
  BY <1>2 DEF Edit, ChecksForeseeFailures
<1>3. CASE Refused \/ Start
  BY <1>3 DEF Refused, Start, Leave, ChecksForeseeFailures
<1>4. CASE UNCHANGED <<file, main>>
  BY <1>4 DEF ChecksForeseeFailures
<1> QED
  BY <1>1, <1>2, <1>3, <1>4
     DEF Next, vars, Reload, TickStarts, RetryStarts, RunStep, RunReads, NoPhases, NoPrompt,
         BeginTurn, NextTurn, RunFails, RunIsOver, MoveIssue

LEMMA SettingsIInvHolds == Spec => []SettingsIInv
<1>1. SettingsIInv /\ [Next]_vars => SettingsIInv'
  BY FilesStep, StateStep, FailureStep DEF SettingsIInv
<1> QED
  BY <1>1, InitInv, PTL DEF Spec

\* For every width of a u32 and every number an operator writes: the numbers
\* in force keep their types, nothing but the form of the slug and the mock's
\* script stops a daemon that has passed its checks, and a run takes no more
\* turns than the budget that was written (typed.rs, main.rs, tick.rs).
THEOREM NumbersSafe == Spec => []SettingsInv
<1>1. ASSUME SettingsIInv PROVE SettingsInv
  <2> USE <1>1 DEF SettingsIInv
  <2>1. FileOK(config) /\ FileOK(boot) /\ FileOK(run.limits)
    BY DEF FilesOK
  <2>2. MaxTurns(run.limits) \in 0..U32 - 1
    BY <2>1, BudgetType
  <2>3. run.turn \in 0..U32 - 1
    BY <2>2, U32Assumption DEF StateOK, BudgetLeft
  <2>4. \A s \in DOMAIN StateCaps(config) : StateCaps(config)[s] > 0
    BY DEF StateCaps, IntOr
  <2>5. TurnTimeout(boot) \in Nat
    <3>1. IntOr(boot.timeout, 60) \in Int
      BY <2>1 DEF FileOK, NumberOK, IntOr
    <3> QED
      BY <3>1 DEF TurnTimeout, AtLeast
  <2>6. Launched.timeout \in Nat
    BY <2>5 DEF Launched
  <2>7. TypeOK
    BY <2>1, <2>3, <2>4, <2>6, BudgetType, StateTurnsType DEF TypeOK, StateOK
  <2>8. BudgetsAreTheWritten
    <3> SUFFICES ASSUME run.pc = "turn", IntOr(run.limits.maxTurns, 20) < U32
                 PROVE  run.turn <= AtLeast(1, IntOr(run.limits.maxTurns, 20))
      BY DEF BudgetsAreTheWritten, InTurn
    <3>1. /\ MaxTurns(run.limits) = AtLeast(1, IntOr(run.limits.maxTurns, 20))
          /\ AtLeast(1, IntOr(run.limits.maxTurns, 20)) \in Nat \ {0}
      BY <2>1, BudgetType
    <3>2. run.turn = 1 \/ run.turn <= MaxTurns(run.limits)
      BY DEF BudgetLeft
    <3> QED
      BY <3>1, <3>2
  <2> QED
    BY <2>7, <2>8 DEF SettingsInv
<1> QED
  BY <1>1, SettingsIInvHolds, PTL

-----------------------------------------------------------------------------
\* From 0 one gets to every number by ones: what has 0 and the successor of
\* each of its elements below n has n, or it could be put into a part of itself.
LEMMA ByOnes ==
  ASSUME NEW n \in Nat, NEW T \in SUBSET (0..n), 0 \in T,
         \A i \in T : i < n => i + 1 \in T
  PROVE  n \in T
<1> SUFFICES ASSUME n \notin T PROVE FALSE
  OBVIOUS
<1>1. IsFiniteSet(T)
  <2>1. IsFiniteSet(0..n)
    BY FS_Interval
  <2> QED
    BY <2>1, FS_Subset
<1>2. /\ IsFiniteSet(T \ {0}) /\ Cardinality(T \ {0}) = Cardinality(T) - 1
      /\ Cardinality(T) \in Nat
  BY <1>1, FS_RemoveElement, FS_CardinalityType
<1> DEFINE f == [i \in T |-> i + 1]
<1>3. f \in [T -> T \ {0}]
  OBVIOUS
<1> HIDE DEF f
<1>4. Cardinality(T \ {0}) < Cardinality(T)
  BY <1>2
<1>5. \E x, y \in T : x # y /\ f[x] = f[y]
  BY <1>1, <1>2, <1>3, <1>4, FS_PigeonHole
<1> QED
  BY <1>5 DEF f

\* A set of places in a list has a first one.
LEMMA FirstPlace ==
  ASSUME NEW n \in Nat, NEW S \in SUBSET (1..n), S # {}
  PROVE  Min(S) \in S /\ \A i \in S : Min(S) <= i
<1>1. \E m \in S : \A i \in S : m <= i
  <2> SUFFICES ASSUME \A m \in S : \E i \in S : ~(m <= i) PROVE FALSE
    OBVIOUS
  <2> DEFINE T == {k \in 0..n : \A i \in S : i > k}
  <2>1. 0 \in T
    OBVIOUS
  <2>2. \A k \in T : k < n => k + 1 \in T
    OBVIOUS
  <2>3. T \in SUBSET (0..n)
    OBVIOUS
  <2> HIDE DEF T
  <2>4. n \in T
    BY <2>1, <2>2, <2>3, ByOnes
  <2>5. \A i \in S : i > n
    BY <2>4 DEF T
  <2>6. PICK i \in S : i \in 1..n
    OBVIOUS
  <2> QED
    BY <2>5, <2>6
<1> QED
  BY <1>1 DEF Min

\* phase_for_state finds a phase if there is one.
LEMMA FirstPhase ==
  ASSUME NEW c, FileOK(c), NEW s, PhasesFor(c, s) # {}
  PROVE  Min(PhasesFor(c, s)) \in PhasesFor(c, s)
<1>1. PICK n \in Nat : DOMAIN ListOr(c.phases) = 1..n
  BY DEF FileOK, PhasesOK
<1>2. PhasesFor(c, s) \in SUBSET (1..n)
  BY <1>1 DEF PhasesFor
<1> QED
  BY <1>2, FirstPlace

-----------------------------------------------------------------------------
\* What reaches the CLI of the options of a turn.
LEMMA LineFacts ==
  /\ Line.model = EffectiveOptions.model
  /\ Line.args = EffectiveOptions.args
  /\ Line.permission \in {EffectiveOptions.permission, None}
  /\ Command(boot) = "claude" => Line.permission = EffectiveOptions.permission
  /\ Line.session = Resumed(run.session)
<1> DEFINE o == EffectiveOptions
<1>1. CASE Command(boot) = "claude"
  <2>1. Line = ClaudeLine(o, run.session)
    BY <1>1 DEF Line
  <2> QED
    BY <2>1 DEF ClaudeLine, DefaultLine
<1>2. CASE Command(boot) = "pi"
  <2>1. Line = PiLine(o, run.session)
    BY <1>2 DEF Line
  <2> QED
    BY <1>2, <2>1 DEF PiLine, DefaultLine
<1>3. CASE Command(boot) \notin {"claude", "pi"}
  <2>1. Line = DefaultLine(o, run.session)
    BY <1>3 DEF Line, OpencodeLine
  <2> QED
    BY <1>3, <2>1 DEF DefaultLine
<1> QED
  BY <1>1, <1>2, <1>3

\* The options of a turn are those of the column it was begun in, of the first
\* phase that names it, over those at startup (cli/mod.rs, phase.rs).
THEOREM PhasesApply == Spec => []OverridesStayInTheirPhase
<1>1. ASSUME SettingsIInv PROVE OverridesStayInTheirPhase
  <2> DEFINE phases == PhasesFor(run.config, run.column)
             given(o) == {OptionsAt(run.config, i)[o] : i \in phases}
             over == PhaseOptions(run.config, run.column)
             base == Options(boot.options)
             first == OptionsAt(run.config, Min(phases))
  <2>1. phases # {} => Min(phases) \in phases /\ over = first
    BY <1>1, FirstPhase DEF SettingsIInv, FilesOK, PhaseOptions
  <2>2. phases = {} => over = NoOptions
    BY DEF PhaseOptions
  <2>3. EffectiveOptions = MergeOver(base, over)
    BY DEF EffectiveOptions
  <2> HIDE DEF over, base, phases, first
  <2>4. /\ EffectiveOptions.model \in {over.model, base.model}
        /\ EffectiveOptions.permission \in {over.permission, base.permission}
        /\ EffectiveOptions.args \in {over.args, base.args}
        /\ over.permission # None => EffectiveOptions.permission = over.permission
    BY <2>3 DEF MergeOver
  <2>5. \A o \in {"model", "permission", "args"} : over[o] \in given(o) \cup {NoOptions[o]}
    BY <2>1, <2>2 DEF first
  <2>6. \A o \in {"model", "permission", "args"} :
          Line[o] \in given(o) \cup {base[o], NoOptions[o]}
    <3>1. NoOptions.permission = None
      BY DEF NoOptions
    <3>2. Line["model"] \in given("model") \cup {base["model"], NoOptions["model"]}
      BY <2>4, <2>5, LineFacts
    <3>3. Line["permission"] \in given("permission")
                                  \cup {base["permission"], NoOptions["permission"]}
      BY <2>4, <2>5, LineFacts, <3>1
    <3>4. Line["args"] \in given("args") \cup {base["args"], NoOptions["args"]}
      BY <2>4, <2>5, LineFacts
    <3> QED
      BY <3>2, <3>3, <3>4
  <2>7. phases # {} /\ Launched.command = "claude" /\ first.permission # None =>
          Line.permission = first.permission
    BY <2>1, <2>4, LineFacts DEF Launched
  <2>8. Line.session # StartSession(Launched.command)
    BY LineFacts DEF Resumed, IsUuid, StartSession, NoSession
  <2> QED
    BY <2>6, <2>7, <2>8 DEF OverridesStayInTheirPhase, phases, base, first
<1> QED
  BY <1>1, SettingsIInvHolds, PTL

-----------------------------------------------------------------------------
\* A text is resolved to the secret only if it asks for it.
LEMMA ResolvedFacts ==
  ASSUME NEW v, Holds(v, "str"), TextOK(v)
  PROVE  /\ Resolved(v[2]) = "secret" => v = Str("$TOKEN")
         /\ Resolved(v[2]) # HostEnv.HOME
<1>1. HostEnv.HOME = "/root"
  BY DEF HostEnv
<1> QED
  BY <1>1 DEF TextOK, Resolved

\* An argument that is the secret has been written as the name it has.
LEMMA SecretArgs ==
  ASSUME NEW v, ArgsOK(v), "secret" \in Options(v).args
  PROVE  /\ Holds(v, "map") /\ Holds(v[2].args, "list")
         /\ Str("$TOKEN") \in ToSet(v[2].args[2])
<1> DEFINE m == MapOr(v, NoRawOptions)
<1>1. PICK a \in ToSet(ListOr(m.args)) : Holds(a, "str") /\ Resolved(a[2]) = "secret"
  BY DEF Options
<1>2. ToSet(<<>>) = {} /\ ListOr(Absent) = <<>>
  BY NoRawArgs
<1>3. NoRawOptions.args = Absent
  BY DEF NoRawOptions
<1>4. Holds(v, "map") /\ m = v[2]
  BY <1>1, <1>2, <1>3 DEF MapOr
<1> HIDE DEF m
<1>5. Holds(m.args, "list") /\ ListOr(m.args) = m.args[2]
  BY <1>1, <1>2 DEF ListOr
<1>6. a = Str("$TOKEN")
  BY <1>1, <1>4, ResolvedFacts DEF ArgsOK
<1> QED
  BY <1>1, <1>4, <1>5, <1>6

\* No sequence of edits, reloads and runs gives an agent the host's secret that
\* nobody has asked for, or its HOME (isolation.rs, typed.rs).
THEOREM SecretsKept == Spec => []SecretsAreAskedFor
<1>1. ASSUME SettingsIInv PROVE SecretsAreAskedFor
  <2> DEFINE raw == MapOr(boot.env, [n \in Names |-> Absent])
             env == Launched.env
             asks(v) == Holds(v, "map") /\ Holds(v[2].args, "list")
                          /\ Str("$TOKEN") \in ToSet(v[2].args[2])
  <2>1. /\ EnvOK(boot.env) /\ ArgsOK(boot.options) /\ PhasesOK(run.config.phases)
    BY <1>1 DEF SettingsIInv, FilesOK, FileOK
  <2>2. env = IsolatedEnv(boot)
    BY DEF Launched
  <2>3. \A n \in Names : TextOK(raw[n])
    BY <2>1, TextsOK DEF EnvOK, MapOr
  <2> HIDE DEF raw
  <2>4. /\ DOMAIN CliEnv(boot) = {n \in Names : Holds(raw[n], "str")}
        /\ \A n \in DOMAIN CliEnv(boot) : CliEnv(boot)[n] = Resolved(raw[n][2])
    BY DEF CliEnv, raw
  <2>5. DOMAIN env = {"LANG", "HOME"} \cup DOMAIN CliEnv(boot)
    BY <2>2 DEF IsolatedEnv, WithOver
  <2>6. \A n \in DOMAIN env \ DOMAIN CliEnv(boot) : env[n] \in {"workspace", "C"}
    BY <2>2 DEF IsolatedEnv, HostEnv, WithOver
  <2>7. \A n \in DOMAIN CliEnv(boot) : env[n] = Resolved(raw[n][2])
    <3>1. \A n \in DOMAIN CliEnv(boot) : IsolatedEnv(boot)[n] = CliEnv(boot)[n]
      BY DEF IsolatedEnv, WithOver
    <3> QED
      BY <2>2, <2>4, <3>1
  <2> HIDE DEF env
  <2>8. "secret" \in {env[n] : n \in DOMAIN env} => \E n \in Names : raw[n] = Str("$TOKEN")
    <3> SUFFICES ASSUME NEW n \in DOMAIN env, env[n] = "secret"
                 PROVE  \E k \in Names : raw[k] = Str("$TOKEN")
      OBVIOUS
    <3>1. n \in DOMAIN CliEnv(boot)
      BY <2>6
    <3> QED
      BY <3>1, <2>3, <2>4, <2>7, ResolvedFacts
  <2>9. env["HOME"] # HostEnv.HOME
    <3>1. CASE "HOME" \in DOMAIN CliEnv(boot)
      BY <3>1, <2>3, <2>4, <2>7, ResolvedFacts
    <3>2. CASE "HOME" \notin DOMAIN CliEnv(boot)
      BY <3>2, <2>5, <2>6 DEF HostEnv
    <3> QED
      BY <3>1, <3>2
  <2>10. "secret" \in Line.args =>
           asks(boot.options) \/ \E p \in Phases(run.config) : asks(p[2].options)
    <3> SUFFICES ASSUME "secret" \in Line.args
                 PROVE  asks(boot.options) \/ \E p \in Phases(run.config) : asks(p[2].options)
      OBVIOUS
    <3>1. \/ "secret" \in Options(boot.options).args
          \/ "secret" \in PhaseOptions(run.config, run.column).args
      BY LineFacts DEF EffectiveOptions, MergeOver
    <3>2. CASE "secret" \in Options(boot.options).args
      BY <3>2, <2>1, SecretArgs
    <3>3. CASE "secret" \in PhaseOptions(run.config, run.column).args
      <4> DEFINE list == ListOr(run.config.phases)
                 i == Min(PhasesFor(run.config, run.column))
      <4>1. PhasesFor(run.config, run.column) # {}
        BY <3>3 DEF PhaseOptions, NoOptions
      <4>2. i \in PhasesFor(run.config, run.column)
        BY <1>1, <4>1, FirstPhase DEF SettingsIInv, FilesOK
      <4>3. "secret" \in Options(list[i][2].options).args
        BY <3>3, <4>1 DEF PhaseOptions, OptionsAt
      <4> HIDE DEF i
      <4>4. i \in DOMAIN list /\ Holds(list[i], "map")
        BY <4>2 DEF PhasesFor
      <4>5. ArgsOK(list[i][2].options)
        BY <4>4, <2>1 DEF PhasesOK
      <4>6. list[i] \in Phases(run.config)
        BY <4>4 DEF Phases, ToSet
      <4>7. asks(list[i][2].options)
        BY <4>3, <4>5, SecretArgs
      <4> QED
        BY <4>6, <4>7
    <3> QED
      BY <3>1, <3>2, <3>3
  <2> QED
    BY <2>8, <2>9, <2>10 DEF SecretsAreAskedFor, raw, env
<1> QED
  BY <1>1, SettingsIInvHolds, PTL
=============================================================================

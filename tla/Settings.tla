------------------------------ MODULE Settings ------------------------------
(***************************************************************************)
(* What the daemon makes of the front matter of WORKFLOW.md: the accessors *)
(* of src/config, the phases of src/workflow/phase.rs, the choice of an    *)
(* adapter (src/agent/cli), the parts that are built at startup and keep   *)
(* the file they were built from (src/agent/runner.rs, src/main.rs), and   *)
(* the turns of a run that combine them with the run's own file            *)
(* (src/orchestrator/tick.rs).                                             *)
(*                                                                         *)
(* A file is a record of raw values, each a tuple of its JSON type and its *)
(* contents; an accessor takes a value of another type for an absent one.  *)
(* A command is the file name of its first word, a column is in lower      *)
(* case.  The races of reloading are the matter of Service: here a file is *)
(* replaced as a whole.                                                    *)
(***************************************************************************)
EXTENDS Integers, SequencesExt

CONSTANTS
  Bits,      \* the width of u32; i64 and u64 hold any number of the model
  Numbers,   \* those an operator may write where one is expected
  Installed, \* the CLIs the host has
  MaxEdits

ASSUME SettingsAssumption ==
  /\ Bits \in Nat \ {0}
  /\ Numbers \subseteq Int
  /\ MaxEdits \in Nat

\* How many numbers a u32 holds; the prover knows no powers.
U32 == 2^Bits

ASSUME U32Assumption == U32 \in Nat \ {0, 1}

Columns == {"todo", "review"}

-----------------------------------------------------------------------------
(* Raw values and the accessors of resolver.rs.                            *)

Absent == <<"absent">>
Odd == <<"odd">>            \* of a type nobody asks for
Str(s) == <<"str", s>>
Int64(n) == <<"int", n>>
List(s) == <<"list", s>>
Map(r) == <<"map", r>>

Holds(v, type) == v[1] = type
StrOr(v, default) == IF Holds(v, "str") THEN v[2] ELSE default
IntOr(v, default) == IF Holds(v, "int") THEN v[2] ELSE default
MapOr(v, default) == IF Holds(v, "map") THEN v[2] ELSE default
ListOr(v) == IF Holds(v, "list") THEN v[2] ELSE <<>>

\* resolve_value: the host has TOKEN, which is secret, and lacks NOTHING.
Resolved(s) ==
  CASE s = "$TOKEN" -> "secret"
    [] s = "$NOTHING" -> ""
    [] OTHER -> s

-----------------------------------------------------------------------------
(* Numbers, with the casts of typed.rs.                                    *)

AsU32(n) == n % U32
AtLeast(low, n) == IF n < low THEN low ELSE n

\* seeded fault: cast first, clamp afterwards
MaxTurnsCastFirst(c) == AtLeast(1, AsU32(IntOr(c.maxTurns, 20)))

MaxTurns(c) == AsU32(AtLeast(1, IntOr(c.maxTurns, 20)))

\* max_turns_per_state, 0 for a column that has none: here the cast is first.
StateTurns(c, s) ==
  LET v == MapOr(c.stateTurns, [t \in Columns |-> Absent])[s]
  IN  IF Holds(v, "int") THEN AtLeast(1, AsU32(v[2])) ELSE 0

\* max_concurrent_agents and the caps by state, of which those below one are
\* no caps.
Cap(c) == AtLeast(1, IntOr(c.cap, 10))

StateCaps(c) ==
  LET caps == MapOr(c.stateCaps, [t \in Columns |-> Absent])
  IN  [s \in {t \in Columns : IntOr(caps[t], 0) > 0} |-> caps[s][2]]

\* cli.turn_timeout_ms, as all the timeouts: a u64, so that what is negative
\* has to be zero before the cast.
TurnTimeout(c) == AtLeast(0, IntOr(c.timeout, 60))

-----------------------------------------------------------------------------
(* cli.options.                                                            *)

None == "none"
Permissions == {"plan", "bypassPermissions"}
NoOptions == [model |-> None, permission |-> None, args |-> {}]
NoRawOptions == [legacy |-> FALSE, model |-> Absent, permission |-> Absent,
                 args |-> Absent, script |-> Absent]

\* CliOptions::parse: when it fails and what it yields when it does not.
OptionsParse(v) ==
  Holds(v, "map") =>
    LET m == v[2]
    IN  /\ ~m.legacy
        /\ m.permission = Absent \/ StrOr(m.permission, None) \in Permissions
        /\ m.args = Absent \/ Holds(m.args, "list")

\* Which arguments are passed on; their order is that of the file.
Options(v) ==
  LET m == MapOr(v, NoRawOptions)
      strings == {a \in ToSet(ListOr(m.args)) : Holds(a, "str")}
  IN  [model |-> StrOr(m.model, None),
       permission |-> StrOr(m.permission, None),
       args |-> {Resolved(a[2]) : a \in strings}]

\* seeded fault: the other way round
MergedOver(base, over) ==
  [model |-> IF base.model # None THEN base.model ELSE over.model,
   permission |-> IF base.permission # None THEN base.permission ELSE over.permission,
   args |-> IF base.args # {} THEN base.args ELSE over.args]

MergeOver(base, over) ==
  [model |-> IF over.model # None THEN over.model ELSE base.model,
   permission |-> IF over.permission # None THEN over.permission ELSE base.permission,
   args |-> IF over.args # {} THEN over.args ELSE base.args]

-----------------------------------------------------------------------------
(* phases.                                                                 *)

\* from_raw: what is not a map is passed over, what does not parse fails all.
Phases(c) == {p \in ToSet(ListOr(c.phases)) : Holds(p, "map")}

PhasesParse(c) == \A p \in Phases(c) : ~p[2].legacy /\ OptionsParse(p[2].options)

\* The places in the list of the phases of a column.
PhasesFor(c, s) ==
  LET list == ListOr(c.phases)
  IN  {i \in DOMAIN list : Holds(list[i], "map") /\ list[i][2].state = s}

OptionsAt(c, i) == Options(ListOr(c.phases)[i][2].options)

\* phase_for_state: the first one is found.
PhaseOptions(c, s) ==
  IF PhasesFor(c, s) = {} THEN NoOptions ELSE OptionsAt(c, Min(PhasesFor(c, s)))

\* build_prompt_strict for the first turn: unknown names are refused, and
\* `attempt` is one unless there has been an attempt.
Renders(c, attempt) ==
  /\ c.template # "unknown"
  /\ c.template = "attempt" => attempt

-----------------------------------------------------------------------------
(* Validation, and what is built from a file that has passed it.           *)

Kind(c) == StrOr(c.kind, None)
Slug(c) == StrOr(c.slug, None)
HasNumber(c) == Holds(c.number, "int")
Command(c) == StrOr(c.command, "opencode")
Adapters == {"opencode", "claude", "pi", "mock-cli"}
ApiKey(c) == Resolved(StrOr(c.apiKey, ""))

\* validate_for_dispatch, with select_adapter at its end; it does not look
\* at the phases.
Validated(c) ==
  /\ Kind(c) = "github"
  /\ ApiKey(c) # ""
  /\ Slug(c) # None /\ HasNumber(c)
  /\ Command(c) # ""
  /\ c.cliArgs = Absent
  /\ OptionsParse(c.options)
  /\ Command(c) \in Adapters

\* GithubTracker::new wants an owner and a repository.
TrackerBuilds(c) ==
  ApiKey(c) # "" /\ Slug(c) = "owner/repo" /\ HasNumber(c)

\* AgentRunner::new: the mock backend wants a script.
RunnerBuilds(c) ==
  /\ OptionsParse(c.options)
  /\ Command(c) \in Adapters
  /\ Command(c) = "mock-cli" =>
       Holds(MapOr(c.options, NoRawOptions).script, "str")

\* resolve_tool, by mise or on the PATH.
ToolFound(c) == Command(c) = "mock-cli" \/ Command(c) \in Installed

-----------------------------------------------------------------------------
(* The environment of the CLI.                                             *)

Names == {"LANG", "TOKEN", "HOME"}
HostEnv == [LANG |-> "C", TOKEN |-> "secret", HOME |-> "/root"]

\* cli.env: values that are no strings are dropped.
CliEnv(c) ==
  LET raw == MapOr(c.env, [n \in Names |-> Absent])
  IN  [n \in {m \in Names : Holds(raw[m], "str")} |-> Resolved(raw[n][2])]

WithOver(base, over) ==
  [n \in DOMAIN base \cup DOMAIN over |-> IF n \in DOMAIN over THEN over[n] ELSE base[n]]

\* seeded fault: what the host has is added to, not replaced
IsolatedEnvOpen(c) == WithOver([HostEnv EXCEPT !.HOME = "workspace"], CliEnv(c))

\* build_isolated_env: a locale passes, HOME is in the workspace, and what
\* cli.env says wins; the rest of the host's environment is cleared.
IsolatedEnv(c) == WithOver([LANG |-> HostEnv.LANG, HOME |-> "workspace"], CliEnv(c))

-----------------------------------------------------------------------------
(* What an adapter asks of its CLI: the flags that an option or the state  *)
(* of the run decides about.                                               *)

NoSession == <<"none">>

\* start_session allocates a handle of its own: of the adapter, the process
\* and the time, unlike the identifiers the CLIs give to their sessions.
StartSession(command) == <<"handle", command>>

IsUuid(session) == session[1] = "uuid"

Resumed(session) == IF IsUuid(session) THEN session ELSE NoSession

\* The invocation of the trait, for a CLI that is like opencode.
DefaultLine(o, session) ==
  [model |-> o.model, permission |-> None, skipsPermissions |-> TRUE,
   dir |-> "workspace", session |-> Resumed(session), args |-> o.args]

\* opencode has no flag for a permission mode.
OpencodeLine(o, session) == DefaultLine(o, session)

\* The flag that skips permissions is given besides the mode.
ClaudeLine(o, session) ==
  [DefaultLine(o, session) EXCEPT !.permission = o.permission]

\* pi has none either, and no sandbox: it is where it was started.
PiLine(o, session) ==
  [DefaultLine(o, session) EXCEPT !.skipsPermissions = FALSE, !.dir = None]

-----------------------------------------------------------------------------
VARIABLES
  file,    \* WORKFLOW.md as it is
  main,    \* "starting", "up", "refused" by a check, "failed" in a constructor
  boot,    \* the file the runner and the tracker were built from
  config,  \* the file the scheduler works with
  run,     \* the run of an issue
  column,  \* the column of that issue
  edits

vars == <<file, main, boot, config, run, column, edits>>

Phase(legacy, state, options) ==
  Map([legacy |-> legacy, state |-> state, options |-> options])

Sample ==
  [kind |-> Str("github"), apiKey |-> Str("$TOKEN"), slug |-> Str("owner/repo"),
   number |-> Int64(1), command |-> Str("claude"), cliArgs |-> Absent,
   options |-> Map([NoRawOptions EXCEPT !.permission = Str("bypassPermissions"),
                                        !.args = List(<<Str("-v")>>)]),
   env |-> Absent, template |-> "plain", timeout |-> Absent,
   maxTurns |-> Int64(2), stateTurns |-> Absent, cap |-> Absent,
   stateCaps |-> Absent,
   phases |-> List(<<Phase(FALSE, "review",
     Map([NoRawOptions EXCEPT !.permission = Str("plan")]))>>)]

\* What an edit may write.
WriteNumber == {Odd} \cup {Int64(n) : n \in Numbers}
WriteByState == {Map([s \in Columns |-> IF s = "todo" THEN v ELSE Absent]) :
                   v \in WriteNumber}
Writes ==
  [kind |-> {Absent, Str("linear")},
   apiKey |-> {Str("$NOTHING"), Str("key")},
   slug |-> {Absent, Str("owner")},
   number |-> {Odd},
   command |-> {Absent, Str(""), Str("pi"), Str("mock-cli"), Str("make")},
   cliArgs |-> {Odd},
   options |-> {Absent, Map([NoRawOptions EXCEPT !.legacy = TRUE]),
                Map([NoRawOptions EXCEPT !.permission = Str("all")]),
                Map([NoRawOptions EXCEPT !.script = Str("a.yaml"), !.model = Str("m")]),
                Map([NoRawOptions EXCEPT !.args = List(<<Odd, Str("$TOKEN")>>)])},
   env |-> {Map([n \in Names |-> IF n = "HOME" THEN Str("/tmp") ELSE Absent]),
            Map([n \in Names |-> IF n = "TOKEN" THEN Str("$TOKEN") ELSE Odd])},
   template |-> {"attempt", "unknown"},
   timeout |-> {Odd, Int64(-1)},
   maxTurns |-> (WriteNumber \ {Odd}) \cup {Int64(4)},
   stateTurns |-> WriteByState,
   cap |-> WriteNumber,
   stateCaps |-> WriteByState,
   phases |-> {Absent, List(<<Phase(TRUE, "todo", Absent)>>),
               List(<<Odd, Phase(FALSE, "todo", Map([NoRawOptions EXCEPT !.model = Str("n")])),
                      Phase(FALSE, "todo", Map([NoRawOptions EXCEPT !.model = Str("o")]))>>)}]

NoRun == [pc |-> "none", limits |-> Sample, config |-> Sample, turn |-> 0,
          attempt |-> FALSE, column |-> "todo", still |-> 0, session |-> NoSession]

Init ==
  /\ file = Sample
  /\ main = "starting"
  /\ boot = Sample
  /\ config = Sample
  /\ run = NoRun
  /\ column = "todo"
  /\ edits = 0

Edit ==
  /\ main \in {"starting", "up"}
  /\ edits < MaxEdits
  /\ \E f \in DOMAIN Writes : \E v \in Writes[f] :
       file' = [file EXCEPT ![f] = v]
  /\ edits' = edits + 1
  /\ UNCHANGED <<main, boot, config, run, column>>

-----------------------------------------------------------------------------
(* Startup.                                                                *)

Leave(how) ==
  /\ main = "starting"
  /\ main' = how
  /\ UNCHANGED <<file, boot, config, run, column, edits>>

Refused == (~Validated(file) \/ ~ToolFound(file)) /\ Leave("refused")

\* An error of a constructor ends main as well, but only then.
Failed ==
  /\ Validated(file) /\ ToolFound(file)
  /\ ~(TrackerBuilds(file) /\ RunnerBuilds(file))
  /\ Leave("failed")

Start ==
  /\ main = "starting"
  /\ Validated(file) /\ ToolFound(file)
  /\ TrackerBuilds(file) /\ RunnerBuilds(file)
  /\ main' = "up"
  /\ boot' = file
  /\ config' = file
  /\ UNCHANGED <<file, run, column, edits>>

Reload ==
  /\ main = "up"
  /\ config # file
  /\ config' = file
  /\ UNCHANGED <<file, main, boot, run, column, edits>>

-----------------------------------------------------------------------------
(* A run.                                                                  *)

\* The counts of running agents are zero: there is one issue.
MayRun(c) == Cap(c) > 0 /\ (column \in DOMAIN StateCaps(c) => StateCaps(c)[column] > 0)

Spawn(attempt) ==
  run' = [NoRun EXCEPT !.pc = "spawned", !.limits = config, !.attempt = attempt,
                       !.column = column]

TickStarts ==
  /\ main = "up" /\ run.pc = "none"
  /\ Validated(config)
  /\ MayRun(config)
  /\ Spawn(FALSE)
  /\ UNCHANGED <<file, main, boot, config, column, edits>>

\* process_retries validates nothing and looks at the global cap only.
RetryStarts ==
  /\ main = "up" /\ run.pc = "none"
  /\ Cap(config) > 0
  /\ Spawn(TRUE)
  /\ UNCHANGED <<file, main, boot, config, column, edits>>

\* The task reads the configuration once more, for the rest of its life.
RunReads ==
  /\ run.pc = "spawned"
  /\ run' = [run EXCEPT !.pc = "between", !.config = config,
                        !.session = StartSession(Command(boot))]
  /\ UNCHANGED <<file, main, boot, config, column, edits>>

Over == run' = [NoRun EXCEPT !.pc = "over"]

NoPhases ==
  /\ run.pc = "between"
  /\ ~PhasesParse(run.config)
  /\ Over
  /\ UNCHANGED <<file, main, boot, config, column, edits>>

NoPrompt ==
  /\ run.pc = "between"
  /\ PhasesParse(run.config)
  /\ run.turn = 0 /\ ~Renders(run.config, run.attempt)
  /\ Over
  /\ UNCHANGED <<file, main, boot, config, column, edits>>

BeginTurn ==
  /\ run.pc = "between"
  /\ PhasesParse(run.config)
  /\ run.turn = 0 => Renders(run.config, run.attempt)
  /\ run' = [run EXCEPT !.pc = "turn", !.turn = @ + 1]
  /\ UNCHANGED <<file, main, boot, config, column, edits>>

\* with_effective_options: the global options are those of the file at
\* startup, the phase is the run's.
EffectiveOptions ==
  MergeOver(Options(boot.options), PhaseOptions(run.config, run.column))

\* run_turn of the runner and of the adapter.
Line ==
  LET o == EffectiveOptions
  IN  CASE Command(boot) = "claude" -> ClaudeLine(o, run.session)
        [] Command(boot) = "pi" -> PiLine(o, run.session)
        [] Command(boot) = "opencode" -> OpencodeLine(o, run.session)
        [] OTHER -> DefaultLine(o, run.session)

\* run_turn of the backend, which is as old as the runner.
Launched ==
  [line |-> Line, command |-> Command(boot), env |-> IsolatedEnv(boot),
   timeout |-> TurnTimeout(boot)]

MoveIssue ==
  /\ run.pc = "turn"
  /\ column' \in Columns \ {column}
  /\ UNCHANGED <<file, main, boot, config, run, edits>>

\* The end of a turn that went well: three turns in a column are enough, and
\* both budgets are looked at.
NextTurn ==
  /\ run.pc = "turn"
  /\ LET still == IF column = run.column THEN run.still + 1 ELSE 0
         spent == \/ still >= 3
                  \/ StateTurns(run.config, column) \in 1..run.turn
                  \/ run.turn >= MaxTurns(run.limits)
     IN  IF spent THEN Over
         ELSE run' = [run EXCEPT !.column = column, !.still = still, !.pc = "between"]
  /\ UNCHANGED <<file, main, boot, config, column, edits>>

\* For any other reason (WorkerRun has them).
RunFails ==
  /\ run.pc \in {"between", "turn"}
  /\ Over
  /\ UNCHANGED <<file, main, boot, config, column, edits>>

RunIsOver ==
  /\ run.pc = "over"
  /\ run' = NoRun
  /\ UNCHANGED <<file, main, boot, config, column, edits>>

-----------------------------------------------------------------------------
RunStep == RunReads \/ NoPhases \/ NoPrompt \/ BeginTurn \/ NextTurn \/ RunFails
             \/ RunIsOver

Next ==
  \/ Edit \/ Refused \/ Failed \/ Start \/ Reload
  \/ TickStarts \/ RetryStarts \/ RunStep \/ MoveIssue

Spec == Init /\ [][Next]_vars

-----------------------------------------------------------------------------
InTurn == run.pc = "turn"

\* The numbers in force are of their types; the turn counter is a u32.
TypeOK ==
  /\ main \in {"starting", "up", "refused", "failed"}
  /\ run.pc \in {"none", "spawned", "between", "turn", "over"}
  /\ run.turn \in 0..U32 - 1
  /\ MaxTurns(config) \in 0..U32 - 1
  /\ \A s \in Columns : StateTurns(config, s) \in 0..U32 - 1
  /\ \A s \in DOMAIN StateCaps(config) : StateCaps(config)[s] > 0
  /\ Launched.timeout \in Nat
  /\ column \in Columns

\* Two readings of one file, the validation and the constructors after it,
\* agree but on the form of the slug and on the script of the mock: nothing
\* else stops a daemon whose checks have passed.
ChecksForeseeFailures ==
  main = "failed" => Slug(file) # "owner/repo" \/ Command(file) = "mock-cli"

\* The budget that is in force is the one written, also for what is below one;
\* what a u32 holds is not exceeded by a cast.
BudgetsAreTheWritten ==
  InTurn /\ IntOr(run.limits.maxTurns, 20) < U32 =>
    run.turn <= AtLeast(1, IntOr(run.limits.maxTurns, 20))

\* What a file makes of a daemon and of its runs (typed.rs, main.rs): the
\* numbers stay in their types, the checks are not weaker than the
\* constructors, and the budget of turns is the one the operator wrote.
SettingsInv == TypeOK /\ ChecksForeseeFailures /\ BudgetsAreTheWritten

\* An option that only a phase sets is asked for in that phase's column and in
\* no other, whatever columns the run has been through and whatever the file
\* was at startup; claude is asked for the permission mode of the first phase
\* of the column that gives one; and no CLI is asked for a session that it
\* has not given a name to (cli/mod.rs, claude.rs, pi.rs, opencode.rs).
OverridesStayInTheirPhase ==
  InTurn =>
    LET phases == PhasesFor(run.config, run.column)
        given(o) == {OptionsAt(run.config, i)[o] : i \in phases}
    IN  /\ \A o \in {"model", "permission", "args"} :
             Line[o] \in given(o) \cup {Options(boot.options)[o], NoOptions[o]}
        /\ phases # {} /\ Launched.command = "claude" =>
             LET first == OptionsAt(run.config, Min(phases))
             IN  first.permission # None => Line.permission = first.permission
        /\ Line.session # StartSession(Launched.command)

\* A secret of the host reaches an agent only if the file at startup, or a
\* phase, names it; the host's HOME never does unasked (isolation.rs).
SecretsAreAskedFor ==
  InTurn =>
    LET asks(v) == Holds(v, "map") /\ Holds(v[2].args, "list")
                     /\ Str("$TOKEN") \in ToSet(v[2].args[2])
        env == Launched.env
    IN  /\ "secret" \in {env[n] : n \in DOMAIN env} =>
             \E n \in Names : MapOr(boot.env, [m \in Names |-> Absent])[n] = Str("$TOKEN")
        /\ "secret" \in Line.args =>
             \/ asks(boot.options)
             \/ \E p \in Phases(run.config) : asks(p[2].options)
        /\ env["HOME"] # HostEnv.HOME
=============================================================================

----------------------------- MODULE Processes -----------------------------
(***************************************************************************)
(* The agent processes of the local backend (src/agent/backend/local.rs):  *)
(* one child per turn, leader of a process group of its own, and the three *)
(* parties that may kill it by its number: the turn itself when it ends,   *)
(* the watchdog the turn has started, and the shutdown handler             *)
(* (src/main.rs) or the hook of a panic, which find it in the registry     *)
(* (src/agent/process_registry.rs).                                        *)
(*                                                                         *)
(* The tasks run on several threads: every call that touches a shared      *)
(* structure is a step.  A number is free again once its group is dead and *)
(* has been waited for.  What the agent says is left out: the turn ends    *)
(* well or not.  A group is dead when nobody holds its output any more.    *)
(***************************************************************************)
CONSTANTS
  Workers, \* worker runs, each with its own cancellation flag
  Pids,    \* process numbers
  NoPid

ASSUME PidsAssumption == NoPid \notin Pids

VARIABLES
  proc,      \* proc[p]: group p is "free", "alive", or "dead" but not reaped
  at,        \* where the run is, in its loop and in run_turn
  child,     \* the child of its turn
  outcome,   \* whether the turn succeeded
  flag,      \* `cancelled`
  watch,     \* the watchdogs that have not fired, with the number they keep
  registry,  \* the global registry
  down,      \* how far the shutdown is
  hit,       \* the snapshot terminate_all_async works from
  hook       \* that of terminate_all_blocking, in the hook of a panic

downVars == <<down, hit, hook>>
procVars == <<proc, at, child, outcome, flag, watch, registry, downVars>>

\* The child exists and run_turn has not killed it yet.
Attached == {"spawned", "registered", "reading"}

\* The registration guard is held.
Guarded == {"registered", "reading", "closing", "leaving"}

GroupsKilled(S) ==
  [p \in Pids |-> IF p \in S /\ proc[p] = "alive" THEN "dead" ELSE proc[p]]

MoveTo(r, l) == at' = [at EXCEPT ![r] = l]

ProcInit ==
  /\ proc = [p \in Pids |-> "free"]
  /\ at = [r \in Workers |-> "idle"]
  /\ child = [r \in Workers |-> NoPid]
  /\ outcome = [r \in Workers |-> "ok"]
  /\ flag = [r \in Workers |-> FALSE]
  /\ watch = {}
  /\ registry = {}
  /\ down = "up"
  /\ hit = {}
  /\ hook = {}

-----------------------------------------------------------------------------
(* run_worker's loop around its turns.                                     *)

\* The flag is looked at here; git and the prompt come before the turn.
CheckFlag(r) ==
  /\ at[r] = "idle"
  /\ MoveTo(r, IF flag[r] THEN "done" ELSE "preparing")
  /\ UNCHANGED <<proc, child, outcome, flag, watch, registry, downVars>>

\* Another way out of the loop, or a failure before the child is spawned.
StopRun(r) ==
  /\ at[r] \in {"idle", "preparing"}
  /\ MoveTo(r, "done")
  /\ UNCHANGED <<proc, child, outcome, flag, watch, registry, downVars>>

\* The wrapper has removed the entry: nobody can set the flag any more.
Exit(r) ==
  /\ at[r] = "done"
  /\ MoveTo(r, "gone")
  /\ UNCHANGED <<proc, child, outcome, flag, watch, registry, downVars>>

-----------------------------------------------------------------------------
(* run_turn.                                                               *)

SpawnChild(r) ==
  /\ at[r] = "preparing"
  /\ \E p \in Pids :
       /\ proc[p] = "free"
       /\ proc' = [proc EXCEPT ![p] = "alive"]
       /\ child' = [child EXCEPT ![r] = p]
  /\ MoveTo(r, "spawned")
  /\ UNCHANGED <<outcome, flag, watch, registry, downVars>>

Register(r) ==
  /\ at[r] = "spawned"
  /\ registry' = registry \cup {<<r, child[r]>>}
  /\ MoveTo(r, "registered")
  /\ UNCHANGED <<proc, child, outcome, flag, watch, downVars>>

\* seeded fault: one watchdog per run
StartWatchdogOnce(r) ==
  /\ at[r] = "registered"
  /\ watch' = watch \cup
       (IF \E p \in Pids : <<r, p>> \in watch THEN {} ELSE {<<r, child[r]>>})
  /\ MoveTo(r, "reading")
  /\ UNCHANGED <<proc, child, outcome, flag, registry, downVars>>

StartWatchdog(r) ==
  /\ at[r] = "registered"
  /\ watch' = watch \cup {<<r, child[r]>>}
  /\ MoveTo(r, "reading")
  /\ UNCHANGED <<proc, child, outcome, flag, registry, downVars>>

\* seeded fault: a child that has closed its output is taken for dead
OutputEndsTrusting(r) ==
  /\ at[r] = "reading"
  /\ MoveTo(r, "closing")
  /\ UNCHANGED <<proc, child, outcome, flag, watch, registry, downVars>>

\* The end of stdout, because the group is dead or has closed it.
OutputEnds(r) ==
  /\ at[r] = "reading"
  /\ proc' = GroupsKilled({child[r]})
  /\ MoveTo(r, "closing")
  /\ UNCHANGED <<child, outcome, flag, watch, registry, downVars>>

\* The wait for the child, then the verdict on its last finished step and on
\* its stderr.  The wait may take longer than the 5 s it is given; the runtime
\* then reaps the child later.
Wait(r) ==
  /\ at[r] = "closing"
  /\ \/ proc' = [proc EXCEPT ![child[r]] = "free"]
     \/ UNCHANGED proc
  /\ \E o \in {"ok", "failed"} : outcome' = [outcome EXCEPT ![r] = o]
  /\ MoveTo(r, "leaving")
  /\ UNCHANGED <<child, flag, watch, registry, downVars>>

\* seeded fault: the early return leaks the registration
TimeoutLeaks(r) ==
  /\ at[r] = "reading"
  /\ proc' = GroupsKilled({child[r]})
  /\ outcome' = [outcome EXCEPT ![r] = "failed"]
  /\ child' = [child EXCEPT ![r] = NoPid]
  /\ MoveTo(r, "done")
  /\ UNCHANGED <<flag, watch, registry, downVars>>

\* No line for read_timeout, or the turn_timeout: killed and not waited for.
Timeout(r) ==
  /\ at[r] = "reading"
  /\ proc' = GroupsKilled({child[r]})
  /\ outcome' = [outcome EXCEPT ![r] = "failed"]
  /\ MoveTo(r, "leaving")
  /\ UNCHANGED <<child, flag, watch, registry, downVars>>

\* The guard is dropped.  The watchdog is not.
Leave(r) ==
  /\ at[r] = "leaving"
  /\ registry' = registry \ {<<r, child[r]>>}
  /\ child' = [child EXCEPT ![r] = NoPid]
  /\ MoveTo(r, IF outcome[r] = "ok" THEN "idle" ELSE "done")
  /\ outcome' = [outcome EXCEPT ![r] = "ok"]
  /\ UNCHANGED <<proc, flag, watch, downVars>>

-----------------------------------------------------------------------------
(* The other killers.                                                      *)

\* Within a second of the flag, and only once.
WatchdogFires(r, p) ==
  /\ <<r, p>> \in watch
  /\ flag[r]
  /\ proc' = GroupsKilled({p})
  /\ watch' = watch \ {<<r, p>>}
  /\ UNCHANGED <<at, child, outcome, flag, registry, downVars>>

\* The numbers that are registered.
Snapshot == {entry[2] : entry \in registry}

\* SIGINT or SIGTERM: the snapshot.  The SIGTERM it sends to the groups may
\* end them (AgentDies) or be ignored.
Signal ==
  /\ down = "up"
  /\ hit' = Snapshot
  /\ down' = IF hit' = {} THEN "exit" ELSE "grace"
  /\ UNCHANGED <<proc, at, child, outcome, flag, watch, registry, hook>>

GraceOver ==
  /\ down = "grace"
  /\ proc' = GroupsKilled(hit)
  /\ down' = "exit"
  /\ UNCHANGED <<at, child, outcome, flag, watch, registry, hit, hook>>

\* A task that owns no agent panics, as a handler of the page does when it
\* cuts a text inside a character.  Its thread sleeps in the hook while the
\* others go on, and the daemon goes on afterwards.
Panic ==
  /\ hook = {}
  /\ hook' = Snapshot
  /\ UNCHANGED <<proc, at, child, outcome, flag, watch, registry, down, hit>>

\* By number, whoever has it now.
HookOver ==
  /\ hook # {}
  /\ proc' = GroupsKilled(hook)
  /\ hook' = {}
  /\ UNCHANGED <<at, child, outcome, flag, watch, registry, down, hit>>

-----------------------------------------------------------------------------
(* The operator, the agents and the operating system.                      *)

CancelRun(r) ==
  /\ at[r] # "gone"
  /\ ~flag[r]
  /\ flag' = [flag EXCEPT ![r] = TRUE]
  /\ UNCHANGED <<proc, at, child, outcome, watch, registry, downVars>>

AgentDies(p) ==
  /\ proc[p] = "alive"
  /\ proc' = [proc EXCEPT ![p] = "dead"]
  /\ UNCHANGED <<at, child, outcome, flag, watch, registry, downVars>>

\* The runtime reaps a dead child whose turn has dropped it.
ReapOrphan(p) ==
  /\ proc[p] = "dead"
  /\ \A r \in Workers : child[r] # p
  /\ proc' = [proc EXCEPT ![p] = "free"]
  /\ UNCHANGED <<at, child, outcome, flag, watch, registry, downVars>>

-----------------------------------------------------------------------------
\* A run's own step that needs nobody else.
Proceed(r) ==
  \/ CheckFlag(r) \/ StopRun(r) \/ Exit(r)
  \/ SpawnChild(r) \/ Register(r) \/ StartWatchdog(r)
  \/ Wait(r) \/ Leave(r)

\* Nothing of the daemon moves after process::exit.
Daemon ==
  /\ down # "exit"
  /\ \/ \E r \in Workers :
          \/ Proceed(r)
          \/ OutputEnds(r)
          \/ Timeout(r)
          \/ \E p \in Pids : WatchdogFires(r, p)
          \/ CancelRun(r)
     \/ Signal
     \/ GraceOver
     \/ Panic
     \/ HookOver
     \/ \E p \in Pids : ReapOrphan(p)

ProcNext == Daemon \/ \E p \in Pids : AgentDies(p)

ProcSpec == ProcInit /\ [][ProcNext]_procVars

\* Every ready task is polled: a run goes on, one of its watchdogs wakes up,
\* the end of a dead child's output is read.  The timeouts of a turn are not relied on:
\* they may be hours.
ProcFairness ==
  \A r \in Workers :
    /\ WF_procVars(down # "exit" /\ Proceed(r))
    /\ WF_procVars(down # "exit" /\ child[r] \in Pids /\ proc[child[r]] = "dead"
                     /\ OutputEnds(r))
    /\ WF_procVars(down # "exit" /\ \E p \in Pids : WatchdogFires(r, p))

ProcFairSpec == ProcSpec /\ ProcFairness

-----------------------------------------------------------------------------
\* Every variable keeps its type; a number that is killed is a process's.
ProcTypeOK ==
  /\ proc \in [Pids -> {"free", "alive", "dead"}]
  /\ at \in [Workers -> {"idle", "preparing", "spawned", "registered", "reading",
                         "closing", "leaving", "done", "gone"}]
  /\ child \in [Workers -> Pids \cup {NoPid}]
  /\ outcome \in [Workers -> {"ok", "failed"}]
  /\ flag \in [Workers -> BOOLEAN]
  /\ watch \subseteq Workers \X Pids
  /\ registry \subseteq Workers \X Pids
  /\ down \in {"up", "grace", "exit"}
  /\ hit \subseteq Pids
  /\ hook \subseteq Pids

\* No agent outlives its turn: a group that is alive is the child of a turn
\* that has still to kill it, on whichever path it ends.
AgentsAreOwned ==
  \A p \in Pids : proc[p] = "alive" =>
    \E r \in Workers : at[r] \in Attached /\ child[r] = p

\* The registry holds exactly the children of the turns under way, so what
\* the shutdown works from is neither stale nor incomplete.
RegistryIsCurrent ==
  registry = {<<r, child[r]>> : r \in {s \in Workers : at[s] \in Guarded}}

\* A live agent that is being read from has a watchdog with its number, on
\* every turn of the run and whenever the flag was set.
TurnIsWatched ==
  \A r \in Workers :
    at[r] = "reading" /\ proc[child[r]] = "alive" => <<r, child[r]>> \in watch

\* A cancelled run ends, without waiting for a timeout of its turn.
CancelEndsRun ==
  \A r \in Workers : flag[r] ~> (at[r] \in {"done", "gone"} \/ down = "exit")
=============================================================================

---------------------------- MODULE StatusSurface ----------------------------
(***************************************************************************)
(* What an operator is shown of the scheduler (src/server/mod.rs): the     *)
(* page, whose parts are polled one by one afterwards, and its JSON.       *)
(*                                                                         *)
(* Each answer is rendered under one read lock, so it is a function of a   *)
(* state.  Markup, clocks, sessions and tokens are left out (SessionUsage  *)
(* has the latter), and so is which rows are called blocked: that is said  *)
(* of the blockers as they were when the issue was fetched last.           *)
(***************************************************************************)
EXTENDS Orchestrator

\* render_session_rows: each row has a button that posts a cancel.
SessionRows == {[issue |-> i, column |-> entryState[i]] : i \in Running}

RetryRows == {[issue |-> i, attempt |-> retry[i]] : i \in Queued}

\* The part of render_blocked_rows that shows the retries as delayed.
DelayedRows == RetryRows

\* A card for each column that has a running issue.
SummaryGrid ==
  [s \in {entryState[i] : i \in Running} |-> Cardinality(RunningInState(s))]

StatGrid == [running |-> Cardinality(Running), retrying |-> Cardinality(Queued)]

\* The page; a fragment is one of its fields, fetched by itself.
Dashboard ==
  [stats |-> StatGrid, summary |-> SummaryGrid, delayed |-> DelayedRows,
   sessions |-> SessionRows, retries |-> RetryRows]

ApiState ==
  [counts |-> StatGrid, running |-> SessionRows, retrying |-> RetryRows,
   byState |-> SummaryGrid, delayed |-> RetryRows]

\* The attempt of a running issue; there is an answer for no other issue, one
\* that waits in the retry queue included.
ApiIssue == [i \in Running |-> attempt[running[i]]]

-----------------------------------------------------------------------------
IssuesOf(rows) == {row.issue : row \in rows}

\* An operator sees every claim in one place: each claimed issue is listed
\* once, as running or as retrying, but for the one process_retries has in its
\* hands between two locks, and nothing else is listed; no more are running
\* than the cap allows; none is shown in a column that is not active, although
\* an issue that has left them goes on for a while; a button to kill reaches
\* an agent that is alive; and the attempt shown is one that may be retried.
StatusIsFaithful ==
  /\ IssuesOf(ApiState.running) \cap IssuesOf(ApiState.retrying) = {}
  /\ IssuesOf(ApiState.running) \cup IssuesOf(ApiState.retrying)
       = claimed \ Held
  /\ ApiState.counts.running <= MaxConcurrent
  /\ \A s \in DOMAIN Dashboard.summary : Dispatchable(s)
  /\ \A row \in Dashboard.sessions :
       running[row.issue] \in Live /\ ApiIssue[row.issue] <= MaxAttempts
=============================================================================

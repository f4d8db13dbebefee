------------------------------ MODULE WorkTree ------------------------------
(***************************************************************************)
(* The clone in a workspace, as far as the git commands of a run           *)
(* (src/git/local.rs, called by run_worker) can tell: whether the branch   *)
(* the issue is named after has been made, whether HEAD is on it or        *)
(* elsewhere (on another branch, or detached), and where the last commits  *)
(* are that have not been pushed, unless a reset or the deletion of the    *)
(* clone has lost them.  Uncommitted changes are part of what a status     *)
(* reports and of nothing else.                                            *)
(***************************************************************************)

Places == {"named", "other"}

Tree == [at : Places, made : BOOLEAN, ahead : {"none", "lost"} \cup Places]

FreshTree == [at |-> "other", made |-> FALSE, ahead |-> "none"]

\* The clone is removed, and what has not been pushed with it.
Deleted(t) == [FreshTree EXCEPT !.ahead = IF t.ahead = "none" THEN "none" ELSE "lost"]

\* run_git: a command that fails changes nothing.
MayFail(t, trees) == {t} \cup trees

\* git checkout -b, which takes what HEAD has along and refuses a branch that
\* is there already.
CheckoutNew(t) ==
  {u \in {[at |-> "named", made |-> TRUE,
           ahead |-> IF t.ahead = t.at THEN "named" ELSE t.ahead]} : ~t.made}

\* git push of the branch at p.
Push(t, p) == [t EXCEPT !.ahead = IF @ = p THEN "none" ELSE @]

\* What a script or an agent may do: commit, push, or check something out.
Worked(t) ==
  {[t EXCEPT !.ahead = t.at], Push(t, t.at), [t EXCEPT !.at = "other"]}
  \cup {[t EXCEPT !.at = "named"] : p \in {q \in Places : t.made}}
  \cup CheckoutNew(t)

\* git reset --hard: HEAD moves to the target, and takes its branch with it.
ResetHard(t, target) ==
  [t EXCEPT !.ahead = IF @ = t.at /\ @ # target THEN "lost" ELSE @]

\* What status may report; HEAD elsewhere may be detached.
Statuses(t) ==
  {"clean", "dirty", "error"} \cup {s \in {"detached"} : t.at = "other"}

\* Before each turn: unless the tree is clean, it is reset to the branch the
\* issue is named after, if it is named and the branch is there, or to
\* origin/main.  The agent's prompt file, for one, makes it dirty.
Synced(t, named) ==
  LET target == IF named THEN "named" ELSE "origin"
      reset == {u \in {ResetHard(t, target)} : target = "origin" \/ t.made}
  IN  UNION {IF s \in {"dirty", "detached"} THEN MayFail(t, reset) ELSE {t} :
               s \in Statuses(t)}
=============================================================================

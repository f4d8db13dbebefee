----------------------------- MODULE MCService -----------------------------
(***************************************************************************)
(* Service with files that disagree about the column "review".             *)
(***************************************************************************)
EXTENDS Service

\* review is a column to work in, or one in which the work is over, or, in a
\* file without a front matter, one the configuration does not know
MCContents ==
  {[kind |-> "good", active |-> {"todo", "review"}, terminal |-> {}],
   [kind |-> "good", active |-> {"todo"}, terminal |-> {"review"}],
   [kind |-> "invalid", active |-> {"todo"}, terminal |-> {}]}
=============================================================================

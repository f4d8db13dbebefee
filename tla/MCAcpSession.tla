---------------------------- MODULE MCAcpSession ----------------------------
(***************************************************************************)
(* AcpSession with requests to edit: the default mode allows them, the plan *)
(* mode rejects them.                                                      *)
(***************************************************************************)
EXTENDS AcpSession

MCAsks == {[tool |-> "edit", offers |-> {"allow", "reject"}]}
=============================================================================

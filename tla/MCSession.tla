----------------------------- MODULE MCSession ------------------------------
(* Session on small instances; no symmetry, for the sake of the temporal properties. *)
EXTENDS Session

=============================================================================

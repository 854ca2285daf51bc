----------------------------- MODULE MCAccounts -----------------------------
(* Accounts on small instances; no symmetry, for the sake of the temporal properties. *)
EXTENDS Accounts

=============================================================================

---------------------------- MODULE MCDocuments -----------------------------
(* Documents on small instances; no symmetry, for the sake of the temporal property. *)
EXTENDS Documents

=============================================================================

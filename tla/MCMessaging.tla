---------------------------- MODULE MCMessaging -----------------------------
(* Messaging on small instances; no symmetry, for the sake of the temporal properties. *)
EXTENDS Messaging

\* The supervisor and the student are at one establishment.
Together == [u \in Users |-> "here"]

\* The student sends more.
MCMaxMessages == [u \in Users |-> IF u \in Students THEN 2 ELSE 1]

\* Two instants in a millisecond, and then one in each.
MCMs == [t \in Time |-> IF t <= 1 THEN t ELSE t - 1]

=============================================================================

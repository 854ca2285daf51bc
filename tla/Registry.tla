------------------------------ MODULE Registry ------------------------------
(***************************************************************************)
(* What the directory of establishments promises: a register in which no   *)
(* two open establishments have the same keys, each has one supervisor at  *)
(* most, nobody moves from one to another, whoever leaves or is closed     *)
(* never comes back, and a closing takes the supervisor along.             *)
(* (establishment.service.ts; schema.prisma, Establishment and Supervisor) *)
(***************************************************************************)
CONSTANTS Establishments, Supervisors, KeyPairs

VARIABLES
  key,         \* of each open establishment
  post,        \* of each supervisor, the establishment
  closed,      \* establishments that are gone
  dismissed    \* supervisors that are gone

registryVars == <<key, post, closed, dismissed>>

Init ==
  /\ key = [e \in {} |-> {}]
  /\ post = [s \in {} |-> {}]
  /\ closed = {}
  /\ dismissed = {}

Free(k, self) == \A e \in DOMAIN key \ self : key[e] # k

\* A new supervisor, where there is none.
Appointed(s, e) ==
  /\ s \notin DOMAIN post \cup dismissed
  /\ \A u \in DOMAIN post : post[u] # e
  /\ post' = [u \in DOMAIN post \cup {s} |-> IF u = s THEN e ELSE post[u]]
  /\ UNCHANGED dismissed

\* A new establishment, alone or with its supervisor.
Open(e, k) ==
  /\ e \notin DOMAIN key \cup closed
  /\ Free(k, {})
  /\ key' = [f \in DOMAIN key \cup {e} |-> IF f = e THEN k ELSE key[f]]
  /\ \/ UNCHANGED <<post, dismissed>>
     \/ \E s \in Supervisors : Appointed(s, e)
  /\ UNCHANGED closed

Appoint(s, e) ==
  /\ e \in DOMAIN key
  /\ Appointed(s, e)
  /\ UNCHANGED <<key, closed>>

Rename(e, k) ==
  /\ e \in DOMAIN key
  /\ Free(k, {e})
  /\ key' = [key EXCEPT ![e] = k]
  /\ UNCHANGED <<post, closed, dismissed>>

Leave(gone) ==
  /\ post' = [s \in DOMAIN post \ gone |-> post[s]]
  /\ dismissed' = dismissed \cup gone

Dismiss(s) ==
  /\ s \in DOMAIN post
  /\ Leave({s})
  /\ UNCHANGED <<key, closed>>

\* An establishment goes with whoever supervises it.
Close(e) ==
  /\ e \in DOMAIN key
  /\ key' = [f \in DOMAIN key \ {e} |-> key[f]]
  /\ closed' = closed \cup {e}
  /\ Leave({s \in DOMAIN post : post[s] = e})

Next ==
  \/ \E e \in Establishments :
       \/ \E k \in KeyPairs : Open(e, k) \/ Rename(e, k)
       \/ \E s \in Supervisors : Appoint(s, e)
       \/ Close(e)
  \/ \E s \in Supervisors : Dismiss(s)

Spec == Init /\ [][Next]_registryVars

=============================================================================

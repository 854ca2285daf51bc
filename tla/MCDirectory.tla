---------------------------- MODULE MCDirectory -----------------------------
(* Directory on small instances: one name typed in two ways, with and without *)
(* a branch.                                                                  *)
EXTENDS Directory

CONSTANTS nameA, nameB, branchX, noKey

MCNames == {[key |-> nameA, typed |-> nameA], [key |-> nameA, typed |-> nameB]}
MCBranches == {[key |-> branchX, typed |-> branchX]}
MCNoBranch == [key |-> noKey, typed |-> noKey]

=============================================================================

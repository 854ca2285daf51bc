--------------------------- MODULE MCAddressForm ----------------------------
(***************************************************************************)
(* Two regions with one chain of places each; the cities of both are       *)
(* called the same, and one has a barangay.  An establishment from before  *)
(* has a province and no city.                                             *)
(***************************************************************************)
EXTENDS AddressForm, TLC

CONSTANTS r1, p1, c1, b1, r2, p2, c2

MCPlaces == {r1, p1, c1, b1, r2, p2, c2}

MCLevelOf == [p \in MCPlaces |->
  IF p \in {r1, r2} THEN 1 ELSE IF p \in {p1, p2} THEN 2 ELSE IF p \in {c1, c2} THEN 3 ELSE 4]

MCParentOf ==
  [p \in MCPlaces |-> CASE p = p1 -> r1 [] p = c1 -> p1 [] p = b1 -> c1
                        [] p = p2 -> r2 [] p = c2 -> p2
                        [] OTHER -> NoPlace]

MCNames == {"NORTH", "SOUTH", "Rizal", "Luna", "San Jose", "Poblacion"}

MCNameOf ==
  [p \in MCPlaces |-> CASE p = r1 -> "NORTH" [] p = r2 -> "SOUTH"
                        [] p = p1 -> "Rizal" [] p = p2 -> "Luna"
                        [] p \in {c1, c2} -> "San Jose" [] OTHER -> "Poblacion"]

MCBefore == {<<"SOUTH", "Luna", NoName, NoName>>}

MCSymmetry == Permutations(Rows)
=============================================================================

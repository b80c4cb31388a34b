---------------------------- MODULE PropertyMap ----------------------------
(***************************************************************************)
(* What PropertyList promises its callers: a persistent map from property  *)
(* names to values, updated one request at a time.  A request takes effect *)
(* as a whole or not at all.  The one exception the firmware makes is      *)
(* named here: while the contents are atRisk they may be lost, all of      *)
(* them at once.                                                           *)
(***************************************************************************)
CONSTANTS
  Keys,       (* property names                                            *)
  ArrayKeys,  (* the names an array prefix covers, such as custom_url_arr0 *)
  Values,     (* the values a property can have                            *)
  NoValue     (* what reading a property that is not stored returns        *)

VARIABLES
  map,        (* the stored value of every name                            *)
  atRisk      (* whether the contents can be lost at this moment           *)

Init ==
  /\ map = [k \in Keys |-> NoValue]
  /\ atRisk = FALSE

\* Store v under k; storing NoValue deletes the property.
Put(k, v) == map' = [map EXCEPT ![k] = v]

\* Delete every element of an array property.
RemoveArray == map' = [k \in Keys |-> IF k \in ArrayKeys THEN NoValue ELSE map[k]]

\* Lose or discard everything.
Clear == atRisk /\ map' = [k \in Keys |-> NoValue]

Next ==
  /\ atRisk' \in BOOLEAN
  /\ \/ UNCHANGED map
     \/ \E k \in Keys, v \in Values \cup {NoValue} : Put(k, v)
     \/ RemoveArray
     \/ Clear

Spec == Init /\ [][Next]_<<map, atRisk>>
============================================================================

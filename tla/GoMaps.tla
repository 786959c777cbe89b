------------------------------- MODULE GoMaps -------------------------------
(* Go maps as partial functions: what make, m[k] = v and delete(m, k) do.   *)
(* A lookup is m[k] guarded by k \in DOMAIN m.                              *)

EmptyMap == [x \in {} |-> x]

MapPut(m, k, v) == [x \in DOMAIN m \cup {k} |-> IF x = k THEN v ELSE m[x]]

MapDelete(m, k) == [x \in DOMAIN m \ {k} |-> m[x]]

(* m is a map from some of the keys K to values in V *)
IsMap(m, K, V) ==
  /\ m = [x \in DOMAIN m |-> m[x]]
  /\ DOMAIN m \subseteq K
  /\ \A x \in DOMAIN m : m[x] \in V
=============================================================================

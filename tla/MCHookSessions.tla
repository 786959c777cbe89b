--------------------------- MODULE MCHookSessions ---------------------------
(* HookSessions on small instances.  Literals, session ids and connections  *)
(* are interchangeable: no definition names one of them.  Objects are not   *)
(* permuted, because FreshObject chooses among them.                        *)
EXTENDS HookSessions, TLC

Symmetry == Permutations(Literals) \cup Permutations(SessionIds)
              \cup Permutations(Conns)
=============================================================================

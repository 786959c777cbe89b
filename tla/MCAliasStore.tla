---------------------------- MODULE MCAliasStore ----------------------------
(* AliasStore on small instances.  Keys, literals and connections are       *)
(* interchangeable: no definition names one of them.                        *)
EXTENDS AliasStore, TLC

Symmetry == Permutations(Keys) \cup Permutations(Literals)
              \cup Permutations(Conns)
=============================================================================

--------------------------- MODULE MCHookSettings ---------------------------
(* HookSettings on small instances.  Processes and the user's entries are   *)
(* interchangeable: no definition names one of them.                        *)
EXTENDS HookSettings, TLC

Symmetry == Permutations(Procs) \cup Permutations(UserEntries)
=============================================================================

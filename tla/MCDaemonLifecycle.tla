------------------------- MODULE MCDaemonLifecycle -------------------------
(* DaemonLifecycle on small instances.  Processes and commands are          *)
(* interchangeable: no definition names one of them.  The symmetry serves   *)
(* invariants only, no liveness.                                            *)
EXTENDS DaemonLifecycle, TLC

Symmetry == Permutations(Daemons) \cup Permutations(Clients)
=============================================================================

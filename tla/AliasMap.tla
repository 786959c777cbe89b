------------------------------ MODULE AliasMap ------------------------------
(* What the alias store promises, without value ids, dedup, garbage         *)
(* collection, handlers or locks: a map from alias keys to secrets, saved   *)
(* to disk one snapshot at a time, of which a crash brings back the last    *)
(* snapshot that was committed.  AliasStore implements it.                  *)
EXTENDS GoMaps

CONSTANTS Keys,     \* alias keys, a project and a name each
          Literals  \* secret values

VARIABLES map,      \* the aliases clients see
          saving,   \* the snapshots on their way to disk: none or one
          durable   \* the snapshot a new daemon would load

vars == <<map, saving, durable>>

Init ==
  /\ map = EmptyMap
  /\ saving = {}
  /\ durable = EmptyMap

Set(k, l) ==
  /\ map' = MapPut(map, k, l)
  /\ UNCHANGED <<saving, durable>>

Unset(k) ==
  /\ k \in DOMAIN map
  /\ map' = MapDelete(map, k)
  /\ UNCHANGED <<saving, durable>>

(* A snapshot is the whole map at one moment, and waits for the one before  *)
Snapshot ==
  /\ saving = {}
  /\ saving' = {map}
  /\ UNCHANGED <<map, durable>>

Commit ==
  /\ saving = {durable'}
  /\ saving' = {}
  /\ UNCHANGED map

Abort ==
  /\ saving' = {}
  /\ UNCHANGED <<map, durable>>

Crash ==
  /\ map' = durable
  /\ saving' = {}
  /\ UNCHANGED durable

Next ==
  \/ \E k \in Keys, l \in Literals : Set(k, l)
  \/ \E k \in Keys : Unset(k)
  \/ Snapshot
  \/ Commit
  \/ Abort
  \/ Crash

Spec == Init /\ [][Next]_vars
=============================================================================

-------------------------- MODULE AliasStoreProofs --------------------------
(* Theorems about AliasStore for any number of connections, keys and        *)
(* secrets, and any bounds on requests, failures and restarts.              *)
EXTENDS AliasStore, TLAPS

-----------------------------------------------------------------------------
(* Maps and snapshots *)

(* An entry more leaves a map a map. *)
LEMMA MapPutIsMap ==
  ASSUME NEW m, NEW K, NEW V, IsMap(m, K, V), NEW k \in K, NEW v \in V
  PROVE  IsMap(MapPut(m, k, v), K, V)
BY DEF IsMap, MapPut

(* So does an entry less. *)
LEMMA MapDeleteIsMap ==
  ASSUME NEW m, NEW K, NEW V, IsMap(m, K, V), NEW k
  PROVE  IsMap(MapDelete(m, k), K, V)
BY DEF IsMap, MapDelete

(* Nothing is a snapshot. *)
LEMMA EmptySnapshotSound == SnapshotType(EmptySnapshot) /\ SoundSnapshot(EmptySnapshot)
BY DEF EmptySnapshot, SnapshotType, SoundSnapshot, AliasesFound, IsMap, EmptyMap

(* A hash stands for its literal alone. *)
LEMMA HashInjective ==
  ASSUME NEW a, NEW b, hashOf(a) = hashOf(b)
  PROVE  a = b
BY DEF hashOf

(* In a content-addressed store a literal has one id. *)
LEMMA OneIdPerLiteral ==
  ASSUME ContentAddressed,
         NEW i \in DOMAIN values, NEW j \in DOMAIN values, values[i] = values[j]
  PROVE  i = j
BY DEF ContentAddressed

(* A step that leaves memory and snapshots alone leaves them sound. *)
LEMMA MemoryUnchanged ==
  ASSUME IndInv, UNCHANGED <<memory, doc, file>>
  PROVE  /\ RefIntegrity' /\ ContentAddressed' /\ IdsInv' /\ SnapshotInv'
         /\ MemoryTyped'
<1> USE DEF IndInv, memory
<1>1. RefIntegrity'
  BY DEF RefIntegrity, AliasesFound
<1>2. ContentAddressed'
  BY DEF ContentAddressed
<1>3. IdsInv' /\ SnapshotInv'
  BY DEF IdsInv, SnapshotInv, SoundSnapshot, AliasesFound
<1>4. MemoryTyped'
  BY DEF TypeOK, MemoryTyped
<1>5. QED BY <1>1, <1>2, <1>3, <1>4

-----------------------------------------------------------------------------
(* The inductive invariant *)

(* Before any request nothing is stored. *)
LEMMA InitIndInv == Init => IndInv
<1> SUFFICES ASSUME Init PROVE IndInv
  OBVIOUS
<1> USE DEF Init
<1>1. TypeOK
  <2>1. MemoryTyped
    BY DEF MemoryTyped, IsMap, EmptyMap
  <2>2. DiskTyped
    BY EmptySnapshotSound, NoneAssumption DEF DiskTyped, EmptySnapshot
  <2>3. HandlerTyped
    BY DEF HandlerTyped, Labels
  <2>4. CountersTyped
    BY DEF CountersTyped
  <2>5. QED BY <2>1, <2>2, <2>3, <2>4 DEF TypeOK
<1>2. RefIntegrity /\ ContentAddressed /\ IdsInv
  BY DEF RefIntegrity, AliasesFound, ContentAddressed, IdsInv, EmptyMap
<1>3. SnapshotInv
  BY EmptySnapshotSound DEF SnapshotInv
<1>4. MutexInv
  BY NoneAssumption DEF MutexInv
<1>5. RequestInv
  BY DEF RequestInv, Threads
<1>6. SavedInv
  BY DEF SavedInv, EmptySnapshot
<1>7. QED BY <1>1, <1>2, <1>3, <1>4, <1>5, <1>6 DEF IndInv

(* A handler starts with nothing changed yet. *)
LEMMA ReceiveIndInv ==
  ASSUME IndInv, NEW c \in Conns, NEW r \in Requests, Receive(c, r)
  PROVE  IndInv'
<1> USE DEF IndInv
<1>1. /\ RefIntegrity' /\ ContentAddressed' /\ IdsInv' /\ SnapshotInv'
      /\ MemoryTyped'
  BY MemoryUnchanged DEF Receive, disk
<1>2. c \in Threads
  BY DEF Threads
<1>3. TypeOK'
  <2>1. DiskTyped'
    BY DEF Receive, disk, TypeOK, DiskTyped
  <2>2. HandlerTyped'
    BY <1>2 DEF Receive, Goto, TypeOK, HandlerTyped, Labels
  <2>3. CountersTyped'
    BY DEF Receive, ghost, TypeOK, CountersTyped
  <2>4. QED BY <1>1, <2>1, <2>2, <2>3 DEF TypeOK
<1>4. MutexInv'
  BY <1>2 DEF Receive, Goto, disk, TypeOK, HandlerTyped, MutexInv
<1>5. RequestInv'
  BY <1>2 DEF Receive, Goto, TypeOK, HandlerTyped, RequestInv
<1>6. SavedInv'
  BY <1>2 DEF Receive, Goto, disk, memory, ghost, TypeOK, HandlerTyped, SavedInv
<1>7. QED BY <1>1, <1>3, <1>4, <1>5, <1>6

(* Finding the literal changes no more than where the handler is. *)
LEMMA PutValueDedupIndInv ==
  ASSUME IndInv, NEW c \in Conns, PutValueDedup(c)
  PROVE  IndInv'
<1> USE DEF IndInv
<1>1. /\ RefIntegrity' /\ ContentAddressed' /\ IdsInv' /\ SnapshotInv'
      /\ MemoryTyped'
  BY MemoryUnchanged DEF PutValueDedup, disk
<1>2. c \in Threads
  BY DEF Threads
<1>3. TypeOK'
  <2>1. DiskTyped'
    BY DEF PutValueDedup, disk, TypeOK, DiskTyped
  <2>2. hashes[hashOf(req[c].lit)] \in Ids
    BY DEF PutValueDedup, TypeOK, MemoryTyped, IsMap
  <2>3. HandlerTyped'
    BY <1>2, <2>2 DEF PutValueDedup, Persist, Goto, TypeOK, HandlerTyped, Labels
  <2>4. CountersTyped'
    BY DEF PutValueDedup, bounds, ghost, TypeOK, CountersTyped
  <2>5. QED BY <1>1, <2>1, <2>3, <2>4 DEF TypeOK
<1>4. MutexInv'
  BY <1>2 DEF PutValueDedup, Persist, Goto, disk, TypeOK, HandlerTyped, MutexInv
<1>5. RequestInv'
  BY <1>2 DEF PutValueDedup, Persist, Goto, TypeOK, HandlerTyped, RequestInv
<1>6. SavedInv'
  BY <1>2 DEF PutValueDedup, Persist, Goto, disk, memory, ghost, TypeOK,
              HandlerTyped, SavedInv
<1>7. QED BY <1>1, <1>3, <1>4, <1>5, <1>6

(* A new value takes an id that no value and no snapshot has. *)
LEMMA PutValueNewIndInv ==
  ASSUME IndInv, NEW c \in Conns, PutValueNew(c)
  PROVE  IndInv'
<1> USE DEF IndInv
<1> DEFINE lit == req[c].lit
<1>1. c \in Threads /\ nextId \in Nat /\ nextId' = nextId + 1 /\ nextId' \in Ids
  BY DEF Threads, TypeOK, MemoryTyped, PutValueNew, Ids
<1>2. lit \in Literals
  BY <1>1 DEF PutValueNew, TypeOK, HandlerTyped, RequestInv, Requests, NoRequest
<1>3. /\ values' = MapPut(values, nextId', lit)
      /\ hashes' = MapPut(hashes, hashOf(lit), nextId')
      /\ hashOf(lit) \notin DOMAIN hashes
      /\ UNCHANGED <<aliases, mu, doc, tmp, file, req, res, acked, unlinked>>
      /\ vid' = [vid EXCEPT ![c] = nextId']
      /\ ver' = ver + 1 /\ need' = [need EXCEPT ![c] = ver + 1]
      /\ pc[c] = "put_value" /\ pc' = [pc EXCEPT ![c] = "lock"]
      /\ next' = [next EXCEPT ![c] = "put_alias"]
  BY DEF PutValueNew, Mutated, Persist, Goto, disk
<1>4. nextId' \notin DOMAIN values
  BY <1>1 DEF IdsInv
<1>5. TypeOK'
  <2>1. IsMap(values', Ids, Literals)
    BY <1>1, <1>2, <1>3, MapPutIsMap DEF TypeOK, MemoryTyped
  <2>2. IsMap(hashes', {hashOf(l) : l \in Literals}, Ids)
    BY <1>1, <1>2, <1>3, MapPutIsMap DEF TypeOK, MemoryTyped
  <2>3. MemoryTyped'
    BY <1>1, <1>3, <2>1, <2>2 DEF TypeOK, MemoryTyped
  <2>4. DiskTyped'
    BY <1>3 DEF TypeOK, DiskTyped
  <2>5. HandlerTyped'
    BY <1>1, <1>3 DEF TypeOK, HandlerTyped, Labels
  <2>6. CountersTyped'
    BY <1>1, <1>3 DEF PutValueNew, bounds, TypeOK, MemoryTyped, CountersTyped
  <2>7. QED BY <2>3, <2>4, <2>5, <2>6 DEF TypeOK
<1>6. RefIntegrity'
  BY <1>3, <1>4 DEF RefIntegrity, AliasesFound, MapPut
<1>7. ContentAddressed'
  <2>1. ASSUME NEW id \in DOMAIN values'
        PROVE  hashOf(values'[id]) \in DOMAIN hashes' /\ hashes'[hashOf(values'[id])] = id
    BY <1>3, <1>4 DEF ContentAddressed, MapPut
  <2>2. ASSUME NEW h \in DOMAIN hashes'
        PROVE  hashes'[h] \in DOMAIN values' /\ hashOf(values'[hashes'[h]]) = h
    BY <1>3, <1>4 DEF ContentAddressed, MapPut
  <2>3. QED BY <2>1, <2>2 DEF ContentAddressed
<1>8. IdsInv'
  BY <1>1, <1>3 DEF IdsInv, MapPut
<1>9. SnapshotInv'
  BY <1>1, <1>3 DEF SnapshotInv, SoundSnapshot, AliasesFound
<1>10. MutexInv'
  BY <1>1, <1>3 DEF TypeOK, HandlerTyped, MutexInv
<1>11. RequestInv'
  BY <1>1, <1>3 DEF TypeOK, HandlerTyped, RequestInv
<1>12. SavedInv'
  BY <1>1, <1>3 DEF TypeOK, HandlerTyped, MemoryTyped, DiskTyped, SnapshotType,
                    CountersTyped, SavedInv
<1>13. QED BY <1>5, <1>6, <1>7, <1>8, <1>9, <1>10, <1>11, <1>12

(* The alias is bound to a value that is there at that moment. *)
LEMMA PutAliasIndInv ==
  ASSUME IndInv, NEW c \in Conns, PutAlias(c)
  PROVE  IndInv'
<1> USE DEF IndInv
<1> DEFINE entry == [id |-> vid[c], hash |-> hashOf(values[vid[c]])]
<1>1. c \in Threads /\ vid[c] \in DOMAIN values
  BY DEF Threads, PutAlias
<1>2. vid[c] \in Ids /\ values[vid[c]] \in Literals
  BY <1>1 DEF TypeOK, MemoryTyped, IsMap
<1>3. Key(c) \in Keys
  BY <1>1 DEF PutAlias, RequestInv, Requests, Key
<1>4. /\ aliases' = MapPut(aliases, Key(c), entry)
      /\ UNCHANGED <<values, hashes, nextId, mu, doc, tmp, file, req, vid, res,
                     acked, unlinked>>
      /\ ver' = ver + 1 /\ need' = [need EXCEPT ![c] = ver + 1]
      /\ pc[c] = "put_alias" /\ pc' = [pc EXCEPT ![c] = "lock"]
      /\ next' = [next EXCEPT ![c] = "done"]
  BY DEF PutAlias, SetAlias, Mutated, Persist, Goto, disk
<1>5. TypeOK'
  <2>1. entry \in AliasRecord
    BY <1>2 DEF AliasRecord
  <2>2. IsMap(aliases', Keys, AliasRecord)
    BY <1>3, <1>4, <2>1, MapPutIsMap DEF TypeOK, MemoryTyped
  <2>3. MemoryTyped'
    BY <1>4, <2>2 DEF TypeOK, MemoryTyped
  <2>4. DiskTyped'
    BY <1>4 DEF TypeOK, DiskTyped
  <2>5. HandlerTyped'
    BY <1>1, <1>4 DEF TypeOK, HandlerTyped, Labels
  <2>6. CountersTyped'
    BY <1>1, <1>4 DEF PutAlias, SetAlias, bounds, TypeOK, MemoryTyped, CountersTyped
  <2>7. QED BY <2>3, <2>4, <2>5, <2>6 DEF TypeOK
<1>6. RefIntegrity'
  BY <1>1, <1>4 DEF RefIntegrity, AliasesFound, MapPut
<1>7. ContentAddressed' /\ IdsInv' /\ SnapshotInv'
  BY <1>4 DEF ContentAddressed, IdsInv, SnapshotInv, SoundSnapshot, AliasesFound
<1>8. MutexInv'
  BY <1>1, <1>4 DEF TypeOK, HandlerTyped, MutexInv
<1>9. RequestInv'
  BY <1>1, <1>4 DEF TypeOK, HandlerTyped, RequestInv
<1>10. SavedInv'
  BY <1>1, <1>4 DEF TypeOK, HandlerTyped, MemoryTyped, DiskTyped, SnapshotType,
                    CountersTyped, SavedInv
<1>11. QED BY <1>5, <1>6, <1>7, <1>8, <1>9, <1>10

(* A step that moves one handler on, to a label outside persist, keeps the  *)
(* invariant if it answers with success only what is saved.                 *)
LEMMA HandlerStepIndInv ==
  ASSUME IndInv, NEW c \in Conns,
         NEW label \in {"put_alias", "delete_alias", "delete_value", "answer"},
         pc[c] \notin {"idle", "exit", "export", "write", "rename"},
         pc' = [pc EXCEPT ![c] = label],
         vid' \in [Threads -> Ids \cup {None}],
         res' \in [Threads -> {"none", "ok", "error", "not_found"}],
         \A t \in Threads : t # c => res'[t] = res[t],
         label = "delete_value" => need[c] <= file.ver,
         label = "answer" /\ res'[c] = "ok" => need[c] <= file.ver,
         UNCHANGED <<memory, disk, req, next, bounds, ghost>>
  PROVE  IndInv'
<1> USE DEF IndInv
<1>1. /\ RefIntegrity' /\ ContentAddressed' /\ IdsInv' /\ SnapshotInv'
      /\ MemoryTyped'
  BY MemoryUnchanged DEF disk
<1>2. c \in Threads
  BY DEF Threads
<1>3. TypeOK'
  <2>1. DiskTyped'
    BY DEF disk, TypeOK, DiskTyped
  <2>2. HandlerTyped'
    BY <1>2 DEF TypeOK, HandlerTyped, Labels
  <2>3. CountersTyped'
    BY DEF bounds, ghost, TypeOK, CountersTyped
  <2>4. QED BY <1>1, <2>1, <2>2, <2>3 DEF TypeOK
<1>4. MutexInv'
  BY <1>2 DEF disk, TypeOK, HandlerTyped, MutexInv
<1>5. RequestInv'
  BY <1>2 DEF TypeOK, HandlerTyped, RequestInv
<1>6. SavedInv'
  <2>1. UNCHANGED <<acked, need, file, ver, doc>>
    BY DEF disk, memory, ghost
  <2>2. ASSUME NEW t \in Threads
        PROVE  \/ pc'[t] \in {"list_refs", "delete_value"}
               \/ pc'[t] = "answer" /\ res'[t] = "ok"
               => need[t] <= file.ver
    <3>1. CASE t = c
      <4>1. pc'[t] = label
        BY <1>2, <3>1 DEF TypeOK, HandlerTyped
      <4>2. QED BY <3>1, <4>1
    <3>2. CASE t # c
      BY <1>2, <3>2 DEF TypeOK, HandlerTyped, SavedInv
    <3>3. QED BY <3>1, <3>2
  <2>3. ASSUME NEW t \in Threads, pc'[t] \in {"write", "rename"}
        PROVE  pc[t] \in {"write", "rename"}
    BY <1>2, <2>3 DEF TypeOK, HandlerTyped
  <2>4. QED BY <2>1, <2>2, <2>3 DEF SavedInv
<1>7. QED BY <1>1, <1>3, <1>4, <1>5, <1>6

(* The value of an alias.add may be gone when the alias is to be set. *)
LEMMA PutAliasNotFoundIndInv ==
  ASSUME IndInv, NEW c \in Conns, PutAliasNotFound(c)
  PROVE  IndInv'
<1>1. c \in Threads
  BY DEF Threads
<1>2. QED
  BY <1>1, HandlerStepIndInv
  DEF PutAliasNotFound, Reply, Goto, IndInv, TypeOK, HandlerTyped

(* alias.forget takes the value id its alias has. *)
LEMMA GetAliasIndInv ==
  ASSUME IndInv, NEW c \in Conns, GetAlias(c)
  PROVE  IndInv'
<1>1. c \in Threads
  BY DEF Threads
<1>2. CASE Key(c) \in DOMAIN aliases
  <2>1. aliases[Key(c)].id \in Ids
    BY <1>2 DEF IndInv, TypeOK, MemoryTyped, IsMap, AliasRecord
  <2>2. QED
    BY <1>1, <1>2, <2>1, HandlerStepIndInv
    DEF GetAlias, Goto, IndInv, TypeOK, HandlerTyped
<1>3. CASE Key(c) \notin DOMAIN aliases
  BY <1>1, <1>3, HandlerStepIndInv
  DEF GetAlias, Reply, Goto, IndInv, TypeOK, HandlerTyped
<1>4. QED BY <1>2, <1>3

(* Another alias.forget may have been first. *)
LEMMA DeleteAliasNotFoundIndInv ==
  ASSUME IndInv, NEW c \in Conns, DeleteAliasNotFound(c)
  PROVE  IndInv'
<1>1. c \in Threads
  BY DEF Threads
<1>2. QED
  BY <1>1, HandlerStepIndInv
  DEF DeleteAliasNotFound, Reply, Goto, IndInv, TypeOK, HandlerTyped

(* The alias is gone from the file when its references are looked at. *)
LEMMA ListRefsIndInv ==
  ASSUME IndInv, NEW c \in Conns, ListRefs(c)
  PROVE  IndInv'
<1>1. c \in Threads
  BY DEF Threads
<1>2. need[c] <= file.ver
  BY <1>1 DEF ListRefs, IndInv, SavedInv
<1>3. CASE Referenced(vid[c], aliases)
  BY <1>1, <1>2, <1>3, HandlerStepIndInv
  DEF ListRefs, Reply, Goto, IndInv, TypeOK, HandlerTyped
<1>4. CASE ~Referenced(vid[c], aliases)
  BY <1>1, <1>2, <1>4, HandlerStepIndInv
  DEF ListRefs, Goto, IndInv, TypeOK, HandlerTyped
<1>5. QED BY <1>3, <1>4

(* A value collected already, or in use again, is left as it is. *)
LEMMA DeleteValueRefusedIndInv ==
  ASSUME IndInv, NEW c \in Conns, DeleteValueRefused(c)
  PROVE  IndInv'
<1>1. c \in Threads
  BY DEF Threads
<1>2. need[c] <= file.ver
  BY <1>1 DEF DeleteValueRefused, IndInv, SavedInv
<1>3. QED
  BY <1>1, <1>2, HandlerStepIndInv
  DEF DeleteValueRefused, Reply, Goto, IndInv, TypeOK, HandlerTyped

(* An alias less leaves the others their values. *)
LEMMA DeleteAliasIndInv ==
  ASSUME IndInv, NEW c \in Conns, DeleteAlias(c)
  PROVE  IndInv'
<1> USE DEF IndInv
<1>1. c \in Threads /\ Key(c) \in DOMAIN aliases
  BY DEF Threads, DeleteAlias
<1>2. aliases[Key(c)].id \in Ids
  BY <1>1 DEF TypeOK, MemoryTyped, IsMap, AliasRecord
<1>3. /\ aliases' = MapDelete(aliases, Key(c))
      /\ unlinked' = unlinked \cup {aliases[Key(c)].id}
      /\ UNCHANGED <<values, hashes, nextId, mu, doc, tmp, file, req, vid, res,
                     acked>>
      /\ ver' = ver + 1 /\ need' = [need EXCEPT ![c] = ver + 1]
      /\ pc[c] = "delete_alias" /\ pc' = [pc EXCEPT ![c] = "lock"]
      /\ next' = [next EXCEPT ![c] = "list_refs"]
  BY DEF DeleteAlias, Mutated, Persist, Goto, disk
<1>4. TypeOK'
  <2>1. IsMap(aliases', Keys, AliasRecord)
    BY <1>3, MapDeleteIsMap DEF TypeOK, MemoryTyped
  <2>2. MemoryTyped'
    BY <1>3, <2>1 DEF TypeOK, MemoryTyped
  <2>3. DiskTyped'
    BY <1>3 DEF TypeOK, DiskTyped
  <2>4. HandlerTyped'
    BY <1>1, <1>3 DEF TypeOK, HandlerTyped, Labels
  <2>5. CountersTyped'
    BY <1>1, <1>2, <1>3 DEF DeleteAlias, bounds, TypeOK, MemoryTyped, CountersTyped
  <2>6. QED BY <2>2, <2>3, <2>4, <2>5 DEF TypeOK
<1>5. RefIntegrity'
  BY <1>3 DEF RefIntegrity, AliasesFound, MapDelete
<1>6. ContentAddressed' /\ IdsInv' /\ SnapshotInv'
  BY <1>3 DEF ContentAddressed, IdsInv, SnapshotInv, SoundSnapshot, AliasesFound
<1>7. MutexInv'
  BY <1>1, <1>3 DEF TypeOK, HandlerTyped, MutexInv
<1>8. RequestInv'
  BY <1>1, <1>3 DEF TypeOK, HandlerTyped, RequestInv
<1>9. SavedInv'
  BY <1>1, <1>3 DEF TypeOK, HandlerTyped, MemoryTyped, DiskTyped, SnapshotType,
                    CountersTyped, SavedInv
<1>10. QED BY <1>4, <1>5, <1>6, <1>7, <1>8, <1>9

(* A value goes together with its hash, and only if no alias needs it. *)
LEMMA DeleteValueIndInv ==
  ASSUME IndInv, NEW c \in Conns, DeleteValue(c)
  PROVE  IndInv'
<1> USE DEF IndInv
<1>1. c \in Threads /\ vid[c] \in DOMAIN values
  BY DEF Threads, DeleteValue
<1>2. /\ values' = MapDelete(values, vid[c])
      /\ hashes' = MapDelete(hashes, hashOf(values[vid[c]]))
      /\ ~Referenced(vid[c], aliases)
      /\ UNCHANGED <<aliases, nextId, mu, doc, tmp, file, req, vid, res, acked,
                     unlinked>>
      /\ ver' = ver + 1 /\ need' = [need EXCEPT ![c] = ver + 1]
      /\ pc[c] = "delete_value" /\ pc' = [pc EXCEPT ![c] = "lock"]
      /\ next' = [next EXCEPT ![c] = "done"]
  BY DEF DeleteValue, RemoveValue, Mutated, Persist, Goto, disk
<1>3. TypeOK'
  <2>1. /\ IsMap(values', Ids, Literals)
        /\ IsMap(hashes', {hashOf(l) : l \in Literals}, Ids)
    BY <1>2, MapDeleteIsMap DEF TypeOK, MemoryTyped
  <2>2. MemoryTyped'
    BY <1>2, <2>1 DEF TypeOK, MemoryTyped
  <2>3. DiskTyped'
    BY <1>2 DEF TypeOK, DiskTyped
  <2>4. HandlerTyped'
    BY <1>1, <1>2 DEF TypeOK, HandlerTyped, Labels
  <2>5. CountersTyped'
    BY <1>1, <1>2 DEF DeleteValue, RemoveValue, bounds, TypeOK, MemoryTyped,
                      CountersTyped
  <2>6. QED BY <2>2, <2>3, <2>4, <2>5 DEF TypeOK
<1>4. RefIntegrity'
  BY <1>2 DEF RefIntegrity, AliasesFound, MapDelete, Referenced
<1>5. ContentAddressed'
  <2>1. ASSUME NEW id \in DOMAIN values'
        PROVE  hashOf(values'[id]) \in DOMAIN hashes' /\ hashes'[hashOf(values'[id])] = id
    <3>1. id \in DOMAIN values /\ id # vid[c] /\ values'[id] = values[id]
      BY <1>2 DEF MapDelete
    <3>2. hashOf(values[id]) # hashOf(values[vid[c]])
      BY <1>1, <3>1 DEF ContentAddressed
    <3>3. QED BY <1>2, <3>1, <3>2 DEF ContentAddressed, MapDelete
  <2>2. ASSUME NEW h \in DOMAIN hashes'
        PROVE  hashes'[h] \in DOMAIN values' /\ hashOf(values'[hashes'[h]]) = h
    BY <1>2 DEF ContentAddressed, MapDelete
  <2>3. QED BY <2>1, <2>2 DEF ContentAddressed
<1>6. IdsInv' /\ SnapshotInv'
  BY <1>2 DEF IdsInv, MapDelete, SnapshotInv, SoundSnapshot, AliasesFound
<1>7. MutexInv'
  BY <1>1, <1>2 DEF TypeOK, HandlerTyped, MutexInv
<1>8. RequestInv'
  BY <1>1, <1>2 DEF TypeOK, HandlerTyped, RequestInv
<1>9. SavedInv'
  BY <1>1, <1>2 DEF TypeOK, HandlerTyped, MemoryTyped, DiskTyped, SnapshotType,
                    CountersTyped, SavedInv
<1>10. QED BY <1>3, <1>4, <1>5, <1>6, <1>7, <1>8, <1>9

-----------------------------------------------------------------------------
(* Saves *)

(* The lock goes to a thread when no other has it. *)
LEMMA LockIndInv ==
  ASSUME IndInv, NEW t \in Threads, Lock(t)
  PROVE  IndInv'
<1> USE DEF IndInv
<1>1. /\ RefIntegrity' /\ ContentAddressed' /\ IdsInv' /\ SnapshotInv'
      /\ MemoryTyped'
  BY MemoryUnchanged DEF Lock
<1>2. TypeOK'
  <2>1. DiskTyped'
    BY DEF Lock, TypeOK, DiskTyped
  <2>2. HandlerTyped'
    BY DEF Lock, Goto, TypeOK, HandlerTyped, Labels
  <2>3. CountersTyped'
    BY DEF Lock, bounds, ghost, TypeOK, CountersTyped
  <2>4. QED BY <1>1, <2>1, <2>2, <2>3 DEF TypeOK
<1>3. MutexInv'
  BY NoneAssumption DEF Lock, Goto, TypeOK, HandlerTyped, MutexInv
<1>4. RequestInv'
  BY DEF Lock, Goto, TypeOK, HandlerTyped, RequestInv, Threads
<1>5. SavedInv'
  BY DEF Lock, Goto, memory, ghost, TypeOK, HandlerTyped, SavedInv
<1>6. QED BY <1>1, <1>2, <1>3, <1>4, <1>5

(* A snapshot of a sound store is sound. *)
LEMMA ExportIndInv ==
  ASSUME IndInv, NEW t \in Threads, Export(t)
  PROVE  IndInv'
<1> USE DEF IndInv
<1> DEFINE snap == [values |-> values, aliases |-> aliases, ver |-> ver]
<1>1. /\ doc' = [doc EXCEPT ![t] = snap]
      /\ pc[t] = "export" /\ pc' = [pc EXCEPT ![t] = "write"]
      /\ UNCHANGED <<values, hashes, aliases, nextId, ver, mu, tmp, file, req,
                     vid, next, res, ops, failures, crashes, need, acked, unlinked>>
  BY DEF Export, Goto, memory, bounds, ghost
<1>2. SnapshotType(snap)
  BY DEF TypeOK, MemoryTyped, SnapshotType
<1>3. SoundSnapshot(snap)
  BY OneIdPerLiteral DEF SoundSnapshot, RefIntegrity, IdsInv
<1>4. TypeOK'
  <2>1. DiskTyped'
    BY <1>1, <1>2 DEF TypeOK, DiskTyped
  <2>2. HandlerTyped'
    BY <1>1 DEF TypeOK, HandlerTyped, Labels
  <2>3. MemoryTyped' /\ CountersTyped'
    BY <1>1 DEF TypeOK, MemoryTyped, CountersTyped
  <2>4. QED BY <2>1, <2>2, <2>3 DEF TypeOK
<1>5. RefIntegrity' /\ ContentAddressed' /\ IdsInv'
  BY <1>1 DEF RefIntegrity, AliasesFound, ContentAddressed, IdsInv
<1>6. SnapshotInv'
  BY <1>1, <1>3 DEF TypeOK, DiskTyped, SnapshotInv, SoundSnapshot, AliasesFound
<1>7. MutexInv'
  BY <1>1 DEF TypeOK, HandlerTyped, DiskTyped, MutexInv
<1>8. RequestInv'
  BY <1>1 DEF TypeOK, HandlerTyped, RequestInv, Threads
<1>9. SavedInv'
  BY <1>1 DEF TypeOK, HandlerTyped, MemoryTyped, DiskTyped, SnapshotType,
              CountersTyped, SavedInv
<1>10. QED BY <1>4, <1>5, <1>6, <1>7, <1>8, <1>9

(* The temporary file is the snapshot, once it is whole. *)
LEMMA WriteTmpIndInv ==
  ASSUME IndInv, NEW t \in Threads, WriteTmp(t)
  PROVE  IndInv'
<1> USE DEF IndInv
<1>1. /\ RefIntegrity' /\ ContentAddressed' /\ IdsInv' /\ SnapshotInv'
      /\ MemoryTyped'
  BY MemoryUnchanged DEF WriteTmp
<1>2. TypeOK'
  <2>1. DiskTyped'
    BY DEF WriteTmp, TypeOK, DiskTyped
  <2>2. HandlerTyped'
    BY DEF WriteTmp, Goto, TypeOK, HandlerTyped, Labels
  <2>3. CountersTyped'
    BY DEF WriteTmp, bounds, ghost, TypeOK, CountersTyped
  <2>4. QED BY <1>1, <2>1, <2>2, <2>3 DEF TypeOK
<1>3. MutexInv'
  <2>1. mu = t
    BY DEF WriteTmp, MutexInv
  <2>2. QED BY <2>1 DEF WriteTmp, Goto, TypeOK, HandlerTyped, MutexInv
<1>4. RequestInv'
  BY DEF WriteTmp, Goto, TypeOK, HandlerTyped, RequestInv, Threads
<1>5. SavedInv'
  BY DEF WriteTmp, Goto, memory, ghost, TypeOK, HandlerTyped, SavedInv
<1>6. QED BY <1>1, <1>2, <1>3, <1>4, <1>5

(* The file becomes a newer snapshot, and the thread goes on. *)
LEMMA RenameIndInv ==
  ASSUME IndInv, NEW t \in Threads, Rename(t)
  PROVE  IndInv'
<1> USE DEF IndInv
<1> DEFINE label == IF next[t] = "done" THEN "answer" ELSE next[t]
<1>1. /\ file' = doc[t] /\ mu' = None /\ mu = t /\ tmp' = NoDocument
      /\ doc' = [doc EXCEPT ![t] = EmptySnapshot]
      /\ pc[t] = "rename" /\ pc' = [pc EXCEPT ![t] = label]
      /\ \/ res' = res
         \/ label = "answer" /\ res' = [res EXCEPT ![t] = "ok"]
      /\ UNCHANGED <<values, hashes, aliases, nextId, ver, req, vid, next, ops,
                     failures, crashes, need, acked, unlinked>>
  BY DEF Rename, Resume, Reply, Goto, memory, bounds, ghost, MutexInv
<1>2. label \in {"answer", "idle", "put_alias", "list_refs", "exit"}
  BY DEF TypeOK, HandlerTyped
<1> HIDE DEF label
<1>3. TypeOK'
  <2>1. DiskTyped'
    BY <1>1, EmptySnapshotSound DEF TypeOK, DiskTyped
  <2>2. HandlerTyped'
    BY <1>1, <1>2 DEF TypeOK, HandlerTyped, Labels
  <2>3. MemoryTyped' /\ CountersTyped'
    BY <1>1 DEF TypeOK, MemoryTyped, CountersTyped
  <2>4. QED BY <2>1, <2>2, <2>3 DEF TypeOK
<1>4. RefIntegrity' /\ ContentAddressed' /\ IdsInv'
  BY <1>1 DEF RefIntegrity, AliasesFound, ContentAddressed, IdsInv
<1>5. SnapshotInv'
  <2>1. ASSUME NEW s, SoundSnapshot(s) PROVE SoundSnapshot(s)'
    BY <1>1, <2>1 DEF SoundSnapshot, AliasesFound
  <2>2. QED
    BY <1>1, <2>1, EmptySnapshotSound DEF TypeOK, DiskTyped, SnapshotInv
<1>6. MutexInv'
  BY <1>1, <1>2, NoneAssumption DEF TypeOK, HandlerTyped, MutexInv
<1>7. RequestInv'
  BY <1>1, <1>2 DEF TypeOK, HandlerTyped, RequestInv, Threads
<1>8. SavedInv'
  <2>1. \A u \in Threads \ {t} : pc[u] \notin {"write", "rename"}
    BY <1>1 DEF MutexInv
  <2>2. /\ file.ver <= doc[t].ver /\ doc[t].ver <= ver /\ need[t] <= doc[t].ver
        /\ {file.ver, doc[t].ver, ver, acked} \subseteq Nat
    BY <1>1 DEF SavedInv, TypeOK, DiskTyped, SnapshotType, MemoryTyped, CountersTyped
  <2>3. acked <= file'.ver /\ file'.ver <= ver'
    BY <1>1, <2>2 DEF SavedInv
  <2>4. ASSUME NEW u \in Threads
        PROVE  /\ need[u] <= ver
               /\ pc'[u] \notin {"write", "rename"}
               /\ \/ pc'[u] \in {"list_refs", "delete_value"}
                  \/ pc'[u] = "answer" /\ res'[u] = "ok"
                  => need[u] <= doc[t].ver
    <3>1. CASE u = t
      BY <1>1, <1>2, <2>2, <3>1 DEF SavedInv, TypeOK, HandlerTyped
    <3>2. CASE u # t
      <4>1. pc'[u] = pc[u] /\ res'[u] = res[u] /\ need[u] \in Nat
        BY <1>1, <3>2 DEF TypeOK, HandlerTyped, CountersTyped
      <4>2. QED BY <2>1, <2>2, <3>2, <4>1 DEF SavedInv
    <3>3. QED BY <3>1, <3>2
  <2>5. QED BY <1>1, <2>3, <2>4 DEF SavedInv
<1>9. QED BY <1>3, <1>4, <1>5, <1>6, <1>7, <1>8

(* A save that fails leaves the file as it was. *)
LEMMA PersistFailsIndInv ==
  ASSUME IndInv, NEW t \in Threads, PersistFails(t)
  PROVE  IndInv'
<1> USE DEF IndInv
<1> DEFINE label == IF t = Main THEN "exit" ELSE "answer"
<1>1. /\ mu' = None /\ mu = t /\ tmp' = NoDocument
      /\ doc' = [doc EXCEPT ![t] = EmptySnapshot]
      /\ pc[t] \in {"write", "rename"} /\ pc' = [pc EXCEPT ![t] = label]
      /\ res' = IF t = Main THEN res ELSE [res EXCEPT ![t] = "error"]
      /\ failures' = failures + 1
      /\ UNCHANGED <<values, hashes, aliases, nextId, ver, file, req, vid, next,
                     ops, crashes, need, acked, unlinked>>
  BY DEF PersistFails, Fail, Reply, Goto, memory, ghost, MutexInv
<1>2. label \in {"answer", "exit"} /\ (label = "answer" => t # Main)
  OBVIOUS
<1> HIDE DEF label
<1>3. TypeOK'
  <2>1. DiskTyped'
    BY <1>1, EmptySnapshotSound DEF TypeOK, DiskTyped
  <2>2. HandlerTyped'
    BY <1>1, <1>2 DEF TypeOK, HandlerTyped, Labels
  <2>3. MemoryTyped' /\ CountersTyped'
    BY <1>1 DEF TypeOK, MemoryTyped, CountersTyped
  <2>4. QED BY <2>1, <2>2, <2>3 DEF TypeOK
<1>4. RefIntegrity' /\ ContentAddressed' /\ IdsInv'
  BY <1>1 DEF RefIntegrity, AliasesFound, ContentAddressed, IdsInv
<1>5. SnapshotInv'
  <2>1. ASSUME NEW s, SoundSnapshot(s) PROVE SoundSnapshot(s)'
    BY <1>1, <2>1 DEF SoundSnapshot, AliasesFound
  <2>2. QED
    BY <1>1, <2>1, EmptySnapshotSound DEF TypeOK, DiskTyped, SnapshotInv
<1>6. MutexInv'
  BY <1>1, <1>2, NoneAssumption DEF TypeOK, HandlerTyped, MutexInv
<1>7. RequestInv'
  BY <1>1, <1>2 DEF TypeOK, HandlerTyped, RequestInv, Threads
<1>8. SavedInv'
  BY <1>1, <1>2 DEF TypeOK, HandlerTyped, DiskTyped, SavedInv, MutexInv
<1>9. QED BY <1>3, <1>4, <1>5, <1>6, <1>7, <1>8

-----------------------------------------------------------------------------
(* The rest of a process's life *)

(* An answer of success is of what is in the file. *)
LEMMA AnswerIndInv ==
  ASSUME IndInv, NEW c \in Conns, Answer(c)
  PROVE  IndInv'
<1> USE DEF IndInv
<1>1. /\ RefIntegrity' /\ ContentAddressed' /\ IdsInv' /\ SnapshotInv'
      /\ MemoryTyped'
  BY MemoryUnchanged DEF Answer, disk
<1>2. c \in Threads
  BY DEF Threads
<1>3. /\ acked' \in {acked, need[c]}
      /\ acked' = need[c] => res[c] = "ok" \/ need[c] = acked
  BY DEF Answer
<1>4. TypeOK'
  <2>1. DiskTyped'
    BY DEF Answer, disk, TypeOK, DiskTyped
  <2>2. HandlerTyped'
    BY <1>2 DEF Answer, TypeOK, HandlerTyped, Labels
  <2>3. CountersTyped'
    BY <1>2, <1>3 DEF Answer, bounds, TypeOK, CountersTyped
  <2>4. QED BY <1>1, <2>1, <2>2, <2>3 DEF TypeOK
<1>5. MutexInv'
  BY <1>2 DEF Answer, disk, TypeOK, HandlerTyped, MutexInv
<1>6. RequestInv'
  BY <1>2 DEF Answer, TypeOK, HandlerTyped, RequestInv
<1>7. SavedInv'
  <2>1. UNCHANGED <<file, ver, doc>> /\ {file.ver, ver, acked} \subseteq Nat
    BY DEF Answer, disk, memory, TypeOK, DiskTyped, SnapshotType, MemoryTyped,
           CountersTyped
  <2>2. acked' <= file.ver
    BY <1>2, <1>3 DEF Answer, SavedInv
  <2>3. ASSUME NEW t \in Threads
        PROVE  \/ pc'[t] = "idle" /\ need'[t] = 0
               \/ pc'[t] = pc[t] /\ need'[t] = need[t] /\ res'[t] = res[t]
    BY <1>2 DEF Answer, TypeOK, HandlerTyped, CountersTyped
  <2>4. QED BY <2>1, <2>2, <2>3 DEF SavedInv
<1>8. QED BY <1>1, <1>4, <1>5, <1>6, <1>7

(* The save of a store that is closed is a save as any other. *)
LEMMA CloseIndInv ==
  ASSUME IndInv, Close
  PROVE  IndInv'
<1> USE DEF IndInv
<1>1. /\ RefIntegrity' /\ ContentAddressed' /\ IdsInv' /\ SnapshotInv'
      /\ MemoryTyped'
  BY MemoryUnchanged DEF Close, disk
<1>2. Main \in Threads
  BY DEF Threads
<1>3. TypeOK'
  <2>1. DiskTyped'
    BY DEF Close, disk, TypeOK, DiskTyped
  <2>2. HandlerTyped'
    BY <1>2 DEF Close, Persist, Goto, TypeOK, HandlerTyped, Labels
  <2>3. CountersTyped'
    BY DEF Close, bounds, ghost, TypeOK, CountersTyped
  <2>4. QED BY <1>1, <2>1, <2>2, <2>3 DEF TypeOK
<1>4. MutexInv'
  BY <1>2 DEF Close, Persist, Goto, disk, TypeOK, HandlerTyped, MutexInv
<1>5. RequestInv'
  BY MainAssumption DEF Close, Persist, Goto, TypeOK, HandlerTyped, RequestInv, Threads
<1>6. SavedInv'
  BY <1>2 DEF Close, Persist, Goto, disk, memory, ghost, TypeOK, HandlerTyped,
              SavedInv
<1>7. QED BY <1>1, <1>3, <1>4, <1>5, <1>6

(* The index that Replace rebuilds is the inverse of the values. *)
LEMMA HashIndexInverse ==
  ASSUME NEW vals, IsMap(vals, Ids, Literals),
         \A i, j \in DOMAIN vals : vals[i] = vals[j] => i = j
  PROVE  /\ IsMap(HashIndex(vals), {hashOf(l) : l \in Literals}, Ids)
         /\ \A id \in DOMAIN vals :
              /\ hashOf(vals[id]) \in DOMAIN HashIndex(vals)
              /\ HashIndex(vals)[hashOf(vals[id])] = id
         /\ \A h \in DOMAIN HashIndex(vals) :
              /\ HashIndex(vals)[h] \in DOMAIN vals
              /\ hashOf(vals[HashIndex(vals)[h]]) = h
<1> DEFINE hs == {hashOf(vals[id]) : id \in DOMAIN vals}
           idOf(h) == CHOOSE id \in DOMAIN vals : hashOf(vals[id]) = h
<1>1. HashIndex(vals) = [h \in hs |-> idOf(h)]
  BY DEF HashIndex
<1>2. ASSUME NEW h \in hs
      PROVE  idOf(h) \in DOMAIN vals /\ hashOf(vals[idOf(h)]) = h
  OBVIOUS
<1>3. ASSUME NEW id \in DOMAIN vals
      PROVE  hashOf(vals[id]) \in hs /\ idOf(hashOf(vals[id])) = id
  <2>1. hashOf(vals[id]) \in hs
    OBVIOUS
  <2>2. vals[idOf(hashOf(vals[id]))] = vals[id] /\ idOf(hashOf(vals[id])) \in DOMAIN vals
    BY <2>1, <1>2, HashInjective
  <2>3. QED BY <2>1, <2>2
<1>4. \A h \in hs : h \in {hashOf(l) : l \in Literals}
  BY DEF IsMap
<1> HIDE DEF hs, idOf
<1>5. IsMap(HashIndex(vals), {hashOf(l) : l \in Literals}, Ids)
  BY <1>1, <1>2, <1>4 DEF IsMap
<1>6. QED BY <1>1, <1>2, <1>3, <1>5

(* A new daemon's memory is the file. *)
LEMMA RestartIndInv ==
  ASSUME IndInv, Restart
  PROVE  IndInv'
<1> USE DEF IndInv
<1>1. /\ values' = file.values /\ aliases' = file.aliases
      /\ hashes' = HashIndex(file.values) /\ ver' = file.ver
      /\ mu' = None /\ doc' = [t \in Threads |-> EmptySnapshot]
      /\ pc' = [t \in Threads |-> "idle"]
      /\ need' = [t \in Threads |-> 0] /\ crashes' = crashes + 1
      /\ UNCHANGED <<nextId, tmp, file, ops, failures, acked, unlinked>>
  BY DEF Restart
<1>2. SnapshotType(file) /\ SoundSnapshot(file)
  BY DEF TypeOK, DiskTyped, SnapshotInv
<1>3. /\ IsMap(values', Ids, Literals)
      /\ \A i, j \in DOMAIN values' : values'[i] = values'[j] => i = j
  BY <1>1, <1>2 DEF SnapshotType, SoundSnapshot
<1>4. TypeOK'
  <2>1. IsMap(hashes', {hashOf(l) : l \in Literals}, Ids)
    BY <1>1, <1>3, HashIndexInverse
  <2>2. MemoryTyped'
    BY <1>1, <1>2, <1>3, <2>1 DEF SnapshotType, TypeOK, MemoryTyped
  <2>3. DiskTyped'
    BY <1>1, EmptySnapshotSound DEF TypeOK, DiskTyped
  <2>4. HandlerTyped'
    BY DEF Restart, TypeOK, HandlerTyped, Labels
  <2>5. CountersTyped'
    BY <1>1 DEF TypeOK, CountersTyped
  <2>6. QED BY <2>2, <2>3, <2>4, <2>5 DEF TypeOK
<1>5. RefIntegrity'
  BY <1>1, <1>2 DEF RefIntegrity, SoundSnapshot, AliasesFound
<1>6. ContentAddressed'
  BY <1>1, <1>3, HashIndexInverse DEF ContentAddressed
<1>7. IdsInv'
  BY <1>1, <1>2 DEF IdsInv, SoundSnapshot
<1>8. SnapshotInv'
  <2>1. ASSUME NEW s, SoundSnapshot(s) PROVE SoundSnapshot(s)'
    BY <1>1, <2>1 DEF SoundSnapshot, AliasesFound
  <2>2. QED
    BY <1>1, <2>1, EmptySnapshotSound DEF SnapshotInv
<1>9. MutexInv' /\ RequestInv'
  BY <1>1, NoneAssumption DEF MutexInv, RequestInv, Threads
<1>10. SavedInv'
  BY <1>1, <1>2 DEF SnapshotType, SavedInv, TypeOK, CountersTyped
<1>11. QED BY <1>4, <1>5, <1>6, <1>7, <1>8, <1>9, <1>10

(* The invariant is about the present alone. *)
LEMMA StutterIndInv ==
  ASSUME IndInv, UNCHANGED vars
  PROVE  IndInv'
<1>1. /\ TypeOK'
  BY DEF IndInv, vars, memory, disk, handler, bounds, ghost, TypeOK, MemoryTyped,
         DiskTyped, HandlerTyped, CountersTyped
<1>2. RefIntegrity' /\ ContentAddressed' /\ IdsInv' /\ SnapshotInv'
  BY DEF IndInv, vars, memory, disk, RefIntegrity, ContentAddressed, IdsInv,
         SnapshotInv, AliasesFound, SoundSnapshot
<1>3. MutexInv' /\ RequestInv' /\ SavedInv'
  BY DEF IndInv, vars, memory, disk, handler, ghost, MutexInv, RequestInv, SavedInv
<1>4. QED BY <1>1, <1>2, <1>3 DEF IndInv

(* Every step preserves the invariant. *)
LEMMA NextIndInv == IndInv /\ [Next]_vars => IndInv'
<1> SUFFICES ASSUME IndInv, [Next]_vars PROVE IndInv'
  OBVIOUS
<1>1. CASE \E c \in Conns : \E r \in Requests : Receive(c, r)
  BY <1>1, ReceiveIndInv
<1>2. CASE \E c \in Conns : Handle(c)
  BY <1>2, PutValueDedupIndInv, PutValueNewIndInv, PutAliasIndInv,
     PutAliasNotFoundIndInv, GetAliasIndInv, DeleteAliasIndInv,
     DeleteAliasNotFoundIndInv, ListRefsIndInv, DeleteValueIndInv,
     DeleteValueRefusedIndInv, AnswerIndInv
  DEF Handle
<1>3. CASE \E t \in Threads : Lock(t)
  BY <1>3, LockIndInv
<1>4. CASE \E t \in Threads : Save(t)
  BY <1>4, ExportIndInv, WriteTmpIndInv, RenameIndInv, PersistFailsIndInv DEF Save
<1>5. CASE Close
  BY <1>5, CloseIndInv
<1>6. CASE Restart
  BY <1>6, RestartIndInv
<1>7. CASE Quiet \/ UNCHANGED vars
  BY <1>7, StutterIndInv DEF Quiet
<1>8. QED
  BY <1>1, <1>2, <1>3, <1>4, <1>5, <1>6, <1>7 DEF Next

(* The invariant of the store, its saves and its handlers holds throughout. *)
THEOREM StoreIndInv == Spec => []IndInv
<1>1. Init => IndInv
  BY InitIndInv
<1>2. IndInv /\ [Next]_vars => IndInv'
  BY NextIndInv
<1>3. QED BY <1>1, <1>2, PTL DEF Spec

-----------------------------------------------------------------------------
(* Safety *)

(* Types: what is renamed over aliases.json is a whole document. *)
THEOREM StoreTyped == Spec => []TypeOK
<1>1. IndInv => TypeOK
  BY DEF IndInv
<1>2. QED BY <1>1, StoreIndInv, PTL

(* However adds and forgets interleave, no alias loses its value. *)
THEOREM RefIntegrityHolds == Spec => []RefIntegrity
<1>1. IndInv => RefIntegrity
  BY DEF IndInv
<1>2. QED BY <1>1, StoreIndInv, PTL

(* A secret is stored once, and its hash says where. *)
THEOREM ContentAddressedHolds == Spec => []ContentAddressed
<1>1. IndInv => ContentAddressed
  BY DEF IndInv
<1>2. QED BY <1>1, StoreIndInv, PTL

(* A daemon that dies at any moment leaves a file the next one can load. *)
THEOREM FileLoadableHolds == Spec => []FileLoadable
<1>1. IndInv => FileLoadable
  BY DEF IndInv, SnapshotInv, SoundSnapshot, FileLoadable
<1>2. QED BY <1>1, StoreIndInv, PTL

(* What a client was told is done is in the file. *)
THEOREM AckedDurableHolds == Spec => []AckedDurable
<1>1. IndInv => AckedDurable
  BY DEF IndInv, SavedInv, AckedDurable
<1>2. QED BY <1>1, StoreIndInv, PTL

-----------------------------------------------------------------------------
(* The secret of a key *)

(* alias.add, between its two calls: what it is about to bind.              *)
Adding(c) ==
  \/ pc[c] = "put_alias"
  \/ pc[c] \in {"lock", "export", "write", "rename"} /\ next[c] = "put_alias"

(* The value id a handler holds stands for the secret of its request, or    *)
(* for none any more, because ids are not used twice.                       *)
Held(c) ==
  /\ pc[c] \in {"get_alias", "delete_alias"} => req[c].method = "alias.forget"
  /\ Adding(c) => /\ req[c].method = "alias.add"
                  /\ vid[c] \in 1 .. nextId
                  /\ vid[c] \in DOMAIN values => values[vid[c]] = req[c].lit

HeldInv == \A c \in Conns : Held(c)

(* No step of a daemon gives a value id another value. *)
LEMMA ValuesStep ==
  ASSUME IndInv, [Next]_vars, ~Restart
  PROVE  /\ nextId' \in {nextId, nextId + 1}
         /\ \A id \in DOMAIN values' :
              id = nextId + 1 \/ (id \in DOMAIN values /\ values'[id] = values[id])
<1>1. CASE UNCHANGED <<values, nextId>>
  BY <1>1
<1>2. ASSUME NEW c \in Conns, PutValueNew(c)
      PROVE  /\ nextId' = nextId + 1
             /\ \A id \in DOMAIN values' :
                  id = nextId + 1 \/ (id \in DOMAIN values /\ values'[id] = values[id])
  <2>1. /\ nextId \in Nat /\ nextId' = nextId + 1
        /\ values' = MapPut(values, nextId + 1, req[c].lit)
    BY <1>2 DEF PutValueNew, IndInv, TypeOK, MemoryTyped
  <2>2. QED BY <2>1 DEF MapPut
<1>3. ASSUME NEW c \in Conns, DeleteValue(c)
      PROVE  /\ nextId' = nextId
             /\ \A id \in DOMAIN values' :
                  id \in DOMAIN values /\ values'[id] = values[id]
  BY <1>3 DEF DeleteValue, RemoveValue, MapDelete
<1>4. \/ UNCHANGED <<values, nextId>>
      \/ \E c \in Conns : PutValueNew(c) \/ DeleteValue(c)
  BY DEF Next, vars, memory, Receive, Handle, PutValueDedup, PutAlias, SetAlias,
         PutAliasNotFound, GetAlias, DeleteAlias, DeleteAliasNotFound, ListRefs,
         DeleteValueRefused, Answer, Lock, Save, Export, WriteTmp, Rename,
         PersistFails, Fail, Close, Quiet
<1>5. QED BY <1>1, <1>2, <1>3, <1>4

(* A handler takes steps of its own ... *)
LEMMA OwnStepHeld ==
  ASSUME IndInv, HeldInv, NEW c \in Conns,
         (\E r \in Requests : Receive(c, r)) \/ Handle(c) \/ Lock(c) \/ Save(c)
  PROVE  Held(c)'
<1> USE DEF IndInv
<1>1. /\ pc \in [Threads -> Labels] /\ c \in Threads /\ Held(c)
      /\ req \in [Threads -> Requests \cup {NoRequest}]
      /\ vid \in [Threads -> Ids \cup {None}]
      /\ next \in [Threads -> {"idle", "put_alias", "list_refs", "done", "exit"}]
      /\ nextId \in Nat
  BY DEF TypeOK, HandlerTyped, MemoryTyped, Threads, HeldInv
<1>2. ASSUME NEW r \in Requests, Receive(c, r) PROVE Held(c)'
  BY <1>1, <1>2 DEF Receive, Goto, Held, Adding, Requests
<1>3. CASE PutValueDedup(c)
  <2>1. PICK id \in DOMAIN values : hashOf(values[id]) = hashOf(req[c].lit)
                                    /\ vid' = [vid EXCEPT ![c] = id]
    BY <1>3 DEF PutValueDedup, ContentAddressed
  <2>2. values[id] = req[c].lit /\ id \in 1 .. nextId
    BY <2>1, HashInjective DEF IdsInv
  <2>3. UNCHANGED <<values, nextId, req>> /\ req[c].method = "alias.add"
    BY <1>3 DEF PutValueDedup, memory, RequestInv
  <2>4. pc'[c] = "lock" /\ vid'[c] = id
    BY <1>1, <1>3, <2>1 DEF PutValueDedup, Persist, Goto
  <2>5. QED BY <2>2, <2>3, <2>4 DEF Held
<1>4. CASE PutValueNew(c)
  <2>1. pc'[c] = "lock" /\ vid'[c] = nextId' /\ nextId' = nextId + 1
    BY <1>1, <1>4 DEF PutValueNew, Persist, Goto
  <2>2. values'[nextId'] = req[c].lit /\ req' = req /\ req[c].method = "alias.add"
    BY <1>4 DEF PutValueNew, MapPut, RequestInv
  <2>3. QED BY <1>1, <2>1, <2>2 DEF Held
<1>5. CASE PutAlias(c) \/ DeleteAlias(c) \/ DeleteValue(c)
  <2>1. pc'[c] = "lock" /\ next'[c] \in {"done", "list_refs"}
    BY <1>1, <1>5 DEF PutAlias, SetAlias, DeleteAlias, DeleteValue, RemoveValue,
                      Persist, Goto
  <2>2. QED BY <2>1 DEF Held, Adding
<1>6. CASE \/ PutAliasNotFound(c) \/ DeleteAliasNotFound(c) \/ ListRefs(c)
           \/ DeleteValueRefused(c) \/ Answer(c) \/ PersistFails(c)
  <2>1. pc'[c] \in {"answer", "delete_value", "idle", "exit"}
    BY <1>1, <1>6 DEF PutAliasNotFound, DeleteAliasNotFound, ListRefs,
                      DeleteValueRefused, Answer, PersistFails, Fail, Reply, Goto
  <2>2. QED BY <2>1 DEF Held, Adding
<1>7. CASE GetAlias(c)
  <2>1. pc'[c] \in {"delete_alias", "answer"} /\ pc[c] = "get_alias" /\ req' = req
    BY <1>1, <1>7 DEF GetAlias, Reply, Goto
  <2>2. QED BY <1>1, <2>1 DEF Held, Adding
<1>8. CASE Lock(c) \/ Export(c) \/ WriteTmp(c)
  <2>1. /\ pc[c] \in {"lock", "export", "write"}
        /\ pc'[c] \in {"export", "write", "rename"}
        /\ UNCHANGED <<values, nextId, req, vid, next>>
    BY <1>1, <1>8 DEF Lock, Export, WriteTmp, Goto, memory
  <2>2. QED BY <1>1, <2>1 DEF Held, Adding
<1>9. CASE Rename(c)
  <2>1. /\ pc[c] = "rename" /\ UNCHANGED <<values, nextId, req, vid, next>>
        /\ pc'[c] = IF next[c] = "done" THEN "answer" ELSE next[c]
    BY <1>1, <1>9 DEF Rename, Resume, Reply, Goto, memory
  <2>2. QED BY <1>1, <2>1 DEF Held, Adding
<1>10. QED
  BY <1>2, <1>3, <1>4, <1>5, <1>6, <1>7, <1>8, <1>9 DEF Handle, Save

(* ... and stays where it is when another thread does.                      *)
LEMMA OtherStepHeld ==
  ASSUME IndInv, [Next]_vars, ~Restart, NEW c \in Conns,
         ~\E r \in Requests : Receive(c, r), ~Handle(c), ~Lock(c), ~Save(c)
  PROVE  /\ pc'[c] = pc[c] /\ next'[c] = next[c]
         /\ req'[c] = req[c] /\ vid'[c] = vid[c]
<1>1. /\ pc \in [Threads -> Labels] /\ c \in Threads /\ c # Main
      /\ req \in [Threads -> Requests \cup {NoRequest}]
      /\ vid \in [Threads -> Ids \cup {None}]
      /\ next \in [Threads -> {"idle", "put_alias", "list_refs", "done", "exit"}]
  BY MainAssumption DEF IndInv, TypeOK, HandlerTyped, Threads
<1>2. ASSUME NEW d \in Conns, NEW r \in Requests, Receive(d, r)
      PROVE  /\ pc'[c] = pc[c] /\ next'[c] = next[c]
             /\ req'[c] = req[c] /\ vid'[c] = vid[c]
  <2>1. d # c
    BY <1>2
  <2>2. QED BY <1>1, <1>2, <2>1 DEF Receive, Goto
<1>3. ASSUME NEW d \in Conns, Handle(d)
      PROVE  /\ pc'[c] = pc[c] /\ next'[c] = next[c]
             /\ req'[c] = req[c] /\ vid'[c] = vid[c]
  <2>1. d # c
    BY <1>3
  <2>2. QED
    BY <1>1, <1>3, <2>1
    DEF Handle, PutValueDedup, PutValueNew, PutAlias, SetAlias, PutAliasNotFound,
        GetAlias, DeleteAlias, DeleteAliasNotFound, ListRefs, DeleteValue,
        RemoveValue, DeleteValueRefused, Answer, Persist, Reply, Goto
<1>4. ASSUME NEW t \in Threads, Lock(t) \/ Save(t)
      PROVE  /\ pc'[c] = pc[c] /\ next'[c] = next[c]
             /\ req'[c] = req[c] /\ vid'[c] = vid[c]
  <2>1. t # c
    BY <1>4
  <2>2. QED
    BY <1>1, <1>4, <2>1
    DEF Lock, Save, Export, WriteTmp, Rename, Resume, PersistFails, Fail, Reply, Goto
<1>5. CASE Close
  BY <1>1, <1>5 DEF Close, Persist, Goto
<1>6. CASE Quiet \/ UNCHANGED vars
  BY <1>6 DEF Quiet, vars, handler
<1>7. QED BY <1>2, <1>3, <1>4, <1>5, <1>6 DEF Next

(* Each step keeps what handlers hold. *)
LEMMA NextHeldInv == IndInv /\ HeldInv /\ [Next]_vars => HeldInv'
<1> SUFFICES ASSUME IndInv, HeldInv, [Next]_vars, NEW c \in Conns PROVE Held(c)'
  BY DEF HeldInv
<1>1. CASE Restart
  BY <1>1 DEF Restart, Held, Adding, Threads
<1>2. CASE (\E r \in Requests : Receive(c, r)) \/ Handle(c) \/ Lock(c) \/ Save(c)
  BY <1>2, OwnStepHeld
<1>3. CASE /\ ~Restart /\ ~\E r \in Requests : Receive(c, r)
           /\ ~Handle(c) /\ ~Lock(c) /\ ~Save(c)
  <2>1. /\ pc'[c] = pc[c] /\ next'[c] = next[c]
        /\ req'[c] = req[c] /\ vid'[c] = vid[c]
    BY <1>3, OtherStepHeld
  <2>2. /\ nextId' \in {nextId, nextId + 1}
        /\ \A id \in DOMAIN values' :
             id = nextId + 1 \/ (id \in DOMAIN values /\ values'[id] = values[id])
    BY <1>3, ValuesStep
  <2>3. Held(c) /\ nextId \in Nat
    BY DEF HeldInv, IndInv, TypeOK, MemoryTyped
  <2>4. QED BY <2>1, <2>2, <2>3 DEF Held, Adding
<1>4. QED BY <1>1, <1>2, <1>3

(* An alias has one secret, that of its value. *)
LEMMA SecretsOfAlias ==
  ASSUME RefIntegrity, NEW k
  PROVE  SecretsOf(k) = IF k \in DOMAIN aliases THEN {values[aliases[k].id]} ELSE {}
<1>1. CASE k \in DOMAIN aliases
  BY <1>1 DEF RefIntegrity, AliasesFound, SecretsOf
<1>2. CASE k \notin DOMAIN aliases
  BY <1>2 DEF SecretsOf
<1>3. QED BY <1>1, <1>2

(* What the secrets of the aliases depend on changes in four steps alone. *)
LEMMA StoreSteps ==
  ASSUME [Next]_vars
  PROVE  \/ UNCHANGED <<values, aliases>>
         \/ \E c \in Conns : \/ PutValueNew(c) \/ PutAlias(c)
                             \/ DeleteAlias(c) \/ DeleteValue(c)
         \/ Restart
BY DEF Next, vars, memory, Receive, Handle, PutValueDedup, PutAliasNotFound,
       GetAlias, DeleteAliasNotFound, ListRefs, DeleteValueRefused, Answer, Lock,
       Save, Export, WriteTmp, Rename, PersistFails, Fail, Close, Quiet

(* The value of an alias is the same after a new value and a collection.    *)
LEMMA SecretsKept ==
  ASSUME IndInv, NEW c \in Conns, PutValueNew(c) \/ DeleteValue(c),
         NEW k \in DOMAIN aliases
  PROVE  aliases' = aliases /\ values'[aliases[k].id] = values[aliases[k].id]
<1>1. aliases[k].id \in DOMAIN values
  BY DEF IndInv, RefIntegrity, AliasesFound
<1>2. CASE PutValueNew(c)
  <2>1. aliases' = aliases /\ nextId \in Nat /\ nextId' = nextId + 1
    BY <1>2 DEF PutValueNew, IndInv, TypeOK, MemoryTyped
  <2>2. aliases[k].id # nextId'
    BY <1>1, <2>1 DEF IndInv, IdsInv
  <2>3. QED BY <1>1, <1>2, <2>1, <2>2 DEF PutValueNew, MapPut
<1>3. CASE DeleteValue(c)
  <2>1. aliases' = aliases /\ values' = MapDelete(values, vid[c])
    BY <1>3 DEF DeleteValue, RemoveValue
  <2>2. aliases[k].id # vid[c]
    BY <1>3 DEF DeleteValue, Referenced
  <2>3. QED BY <1>1, <2>1, <2>2 DEF MapDelete
<1>4. QED BY <1>2, <1>3

(* A step gives a key another secret for a request for that key, and the    *)
(* one the request names, or it is a restart.                               *)
LEMMA StepKeysIndependent ==
  ASSUME IndInv, HeldInv, IndInv', [Next]_vars, NEW k \in Keys
  PROVE  \/ SecretsOf(k)' = SecretsOf(k)
         \/ \E c \in Conns :
              /\ req[c].key = k
              /\ SecretsOf(k)' = IF req[c].method = "alias.add"
                                 THEN {req[c].lit} ELSE {}
         \/ crashes' # crashes
<1>1. SecretsOf(k) = IF k \in DOMAIN aliases THEN {values[aliases[k].id]} ELSE {}
  BY SecretsOfAlias DEF IndInv
<1>2. SecretsOf(k)' = IF k \in DOMAIN aliases' THEN {values'[aliases'[k].id]} ELSE {}
  <2>1. k \in DOMAIN aliases' => aliases'[k].id \in DOMAIN values'
    BY DEF IndInv, RefIntegrity, AliasesFound
  <2>2. CASE k \in DOMAIN aliases'
    BY <2>1, <2>2 DEF SecretsOf
  <2>3. CASE k \notin DOMAIN aliases'
    BY <2>3 DEF SecretsOf
  <2>4. QED BY <2>2, <2>3
<1>3. CASE UNCHANGED <<values, aliases>>
  BY <1>1, <1>2, <1>3
<1>4. ASSUME NEW c \in Conns, PutValueNew(c) \/ DeleteValue(c)
      PROVE  SecretsOf(k)' = SecretsOf(k)
  <2>1. aliases' = aliases
    BY <1>4 DEF PutValueNew, DeleteValue, RemoveValue
  <2>2. QED BY <1>1, <1>2, <1>4, <2>1, SecretsKept
<1>5. ASSUME NEW c \in Conns, PutAlias(c)
      PROVE  \/ SecretsOf(k)' = SecretsOf(k)
             \/ /\ req[c].key = k /\ req[c].method = "alias.add"
                /\ SecretsOf(k)' = {req[c].lit}
  <2>1. /\ req[c].method = "alias.add" /\ values[vid[c]] = req[c].lit
        /\ values' = values
        /\ aliases' = MapPut(aliases, req[c].key,
                             [id |-> vid[c], hash |-> hashOf(values[vid[c]])])
    BY <1>5 DEF PutAlias, SetAlias, Key, HeldInv, Held, Adding
  <2>2. CASE k = req[c].key
    BY <1>2, <2>1, <2>2 DEF MapPut
  <2>3. CASE k # req[c].key
    BY <1>1, <1>2, <2>1, <2>3 DEF MapPut
  <2>4. QED BY <2>1, <2>2, <2>3
<1>6. ASSUME NEW c \in Conns, DeleteAlias(c)
      PROVE  \/ SecretsOf(k)' = SecretsOf(k)
             \/ /\ req[c].key = k /\ req[c].method # "alias.add"
                /\ SecretsOf(k)' = {}
  <2>1. /\ req[c].method = "alias.forget" /\ values' = values
        /\ aliases' = MapDelete(aliases, req[c].key)
    BY <1>6 DEF DeleteAlias, Key, HeldInv, Held
  <2>2. CASE k = req[c].key
    BY <1>2, <2>1, <2>2 DEF MapDelete
  <2>3. CASE k # req[c].key
    BY <1>1, <1>2, <2>1, <2>3 DEF MapDelete
  <2>4. QED BY <2>1, <2>2, <2>3
<1>7. CASE Restart
  BY <1>7 DEF Restart, IndInv, TypeOK, CountersTyped
<1>8. QED
  BY <1>3, <1>4, <1>5, <1>6, <1>7, StoreSteps

(* Dedup and collection work across keys, but no request changes the secret *)
(* of a key that is not its own.                                            *)
THEOREM KeysIndependentHolds == Spec => KeysIndependent
<1>1. Init => IndInv /\ HeldInv
  <2>1. Init => HeldInv
    BY DEF Init, HeldInv, Held, Adding, Threads
  <2>2. QED BY <2>1, InitIndInv
<1>2. IndInv /\ HeldInv /\ [Next]_vars => IndInv' /\ HeldInv'
  BY NextIndInv, NextHeldInv
<1>3. IndInv /\ HeldInv /\ IndInv' /\ [Next]_vars =>
        [\A k \in Keys :
           \/ SecretsOf(k)' = SecretsOf(k)
           \/ \E c \in Conns :
                /\ req[c].key = k
                /\ SecretsOf(k)' = IF req[c].method = "alias.add"
                                   THEN {req[c].lit} ELSE {}
           \/ crashes' # crashes]_vars
  BY StepKeysIndependent
<1>4. QED BY <1>1, <1>2, <1>3, PTL DEF Spec, KeysIndependent

-----------------------------------------------------------------------------
(* AliasStore implements AliasMap *)

(* What AliasMap sees of the store.                                         *)
MapOf    == [k \in DOMAIN aliases |-> values[aliases[k].id]]
SavingOf == {View(doc[t]) : t \in Exported}

(* The store begins as an empty map. *)
LEMMA InitImplements == Init => AM!Init
<1> SUFFICES ASSUME Init PROVE AM!Init
  OBVIOUS
<1>1. MapOf = EmptyMap
  BY DEF Init, MapOf, EmptyMap
<1>2. SavingOf = {}
  BY DEF Init, SavingOf, Exported
<1>3. View(file) = EmptyMap
  BY DEF Init, View, EmptySnapshot, EmptyMap
<1>4. QED BY <1>1, <1>2, <1>3 DEF AM!Init, MapOf, SavingOf, AM!EmptyMap, EmptyMap

(* A step that leaves the aliases' secrets and the saves alone is no step   *)
(* of AliasMap.                                                             *)
LEMMA HiddenStep ==
  ASSUME aliases' = aliases, UNCHANGED <<doc, file>>, Exported' = Exported,
         \A k \in DOMAIN aliases : values'[aliases[k].id] = values[aliases[k].id]
  PROVE  UNCHANGED AM!vars
<1>1. MapOf' = MapOf
  BY DEF MapOf
<1>2. SavingOf' = SavingOf
  BY DEF SavingOf, View
<1>3. View(file)' = View(file)
  BY DEF View
<1>4. QED BY <1>1, <1>2, <1>3 DEF AM!vars, MapOf, SavingOf

(* The steps inside handlers, and those of persist up to Export and between *)
(* Export and rename, are hidden.                                           *)
LEMMA ExportedUnchanged ==
  ASSUME IndInv, NEW t \in Threads, NEW label,
         pc' = [pc EXCEPT ![t] = label],
         pc[t] \in {"write", "rename"} <=> label \in {"write", "rename"}
  PROVE  Exported' = Exported
BY DEF IndInv, TypeOK, HandlerTyped, Exported

(* PutAlias binds the key to a secret. *)
LEMMA PutAliasImplements ==
  ASSUME IndInv, NEW c \in Conns, PutAlias(c)
  PROVE  AM!Next
<1>1. c \in Threads /\ Key(c) \in Keys /\ values[vid[c]] \in Literals
  BY DEF PutAlias, IndInv, RequestInv, Requests, Key, TypeOK, MemoryTyped, IsMap, Threads
<1>2. /\ aliases' = MapPut(aliases, Key(c), [id   |-> vid[c],
                                             hash |-> hashOf(values[vid[c]])])
      /\ UNCHANGED <<values, doc, file>>
      /\ pc[c] = "put_alias" /\ pc' = [pc EXCEPT ![c] = "lock"]
  BY DEF PutAlias, SetAlias, Persist, Goto, disk
<1>3. MapOf' = AM!MapPut(MapOf, Key(c), values[vid[c]])
  BY <1>2 DEF MapOf, MapPut, AM!MapPut
<1>4. Exported' = Exported
  BY <1>1, <1>2, ExportedUnchanged
<1>5. SavingOf' = SavingOf /\ View(file)' = View(file)
  BY <1>2, <1>4 DEF SavingOf, View
<1>6. AM!Set(Key(c), values[vid[c]])
  BY <1>3, <1>5 DEF AM!Set, MapOf, SavingOf
<1>7. QED BY <1>1, <1>6 DEF AM!Next, AM!Set

(* DeleteAlias unbinds it. *)
LEMMA DeleteAliasImplements ==
  ASSUME IndInv, NEW c \in Conns, DeleteAlias(c)
  PROVE  AM!Next
<1>1. c \in Threads /\ Key(c) \in DOMAIN aliases /\ Key(c) \in Keys
  BY DEF DeleteAlias, IndInv, TypeOK, MemoryTyped, IsMap, Threads
<1>2. /\ aliases' = MapDelete(aliases, Key(c))
      /\ UNCHANGED <<values, doc, file>>
      /\ pc[c] = "delete_alias" /\ pc' = [pc EXCEPT ![c] = "lock"]
  BY DEF DeleteAlias, Persist, Goto, disk
<1>3. MapOf' = AM!MapDelete(MapOf, Key(c)) /\ Key(c) \in DOMAIN MapOf
  BY <1>1, <1>2 DEF MapOf, MapDelete, AM!MapDelete
<1>4. Exported' = Exported
  BY <1>1, <1>2, ExportedUnchanged
<1>5. SavingOf' = SavingOf /\ View(file)' = View(file)
  BY <1>2, <1>4 DEF SavingOf, View
<1>6. AM!Unset(Key(c))
  BY <1>3, <1>5 DEF AM!Unset, MapOf, SavingOf
<1>7. QED BY <1>1, <1>6 DEF AM!Next, AM!Unset

(* Export takes a snapshot of the map, and no other is on its way. *)
LEMMA ExportImplements ==
  ASSUME IndInv, NEW t \in Threads, Export(t)
  PROVE  AM!Next
<1>1. /\ doc' = [doc EXCEPT ![t] = [values |-> values, aliases |-> aliases,
                                    ver |-> ver]]
      /\ UNCHANGED <<values, aliases, file>>
      /\ pc[t] = "export" /\ pc' = [pc EXCEPT ![t] = "write"]
  BY DEF Export, Goto, memory
<1>2. Exported = {}
  BY <1>1 DEF IndInv, MutexInv, Exported
<1>3. Exported' = {t} /\ doc'[t] = [values |-> values, aliases |-> aliases, ver |-> ver]
  BY <1>1, <1>2 DEF IndInv, TypeOK, HandlerTyped, DiskTyped, Exported
<1>4. View(doc[t])' = MapOf /\ MapOf' = MapOf /\ View(file)' = View(file)
  BY <1>1, <1>3 DEF View, MapOf
<1>5. SavingOf = {} /\ SavingOf' = {MapOf}
  BY <1>2, <1>3, <1>4 DEF SavingOf
<1>6. AM!Snapshot
  BY <1>4, <1>5 DEF AM!Snapshot, MapOf, SavingOf
<1>7. QED BY <1>6 DEF AM!Next

(* The rename commits exactly the snapshot on its way. *)
LEMMA RenameImplements ==
  ASSUME IndInv, NEW t \in Threads, Rename(t)
  PROVE  AM!Next
<1>1. /\ file' = doc[t] /\ mu = t /\ pc[t] = "rename"
      /\ UNCHANGED <<values, aliases>>
  BY DEF Rename, memory, IndInv, MutexInv
<1>2. Exported = {t}
  BY <1>1 DEF IndInv, MutexInv, Exported
<1>3. Exported' = {}
  <2>1. pc'[t] \notin {"write", "rename"} /\ \A u \in Threads \ {t} : pc'[u] = pc[u]
    BY DEF Rename, Resume, Reply, Goto, IndInv, TypeOK, HandlerTyped
  <2>2. QED BY <1>2, <2>1 DEF Exported
<1>4. MapOf' = MapOf /\ View(file)' = View(doc[t])
  BY <1>1 DEF MapOf, View
<1>5. SavingOf = {View(file)'} /\ SavingOf' = {}
  BY <1>2, <1>3, <1>4 DEF SavingOf
<1>6. AM!Commit
  BY <1>4, <1>5 DEF AM!Commit, MapOf, SavingOf
<1>7. QED BY <1>6 DEF AM!Next

(* A save that fails commits nothing. *)
LEMMA PersistFailsImplements ==
  ASSUME IndInv, NEW t \in Threads, PersistFails(t)
  PROVE  AM!Next
<1>1. mu = t /\ UNCHANGED <<values, aliases, file>>
  BY DEF PersistFails, Fail, memory, IndInv, MutexInv
<1>2. Exported' = {}
  <2>1. pc'[t] \in {"exit", "answer"} /\ \A u \in Threads \ {t} : pc'[u] = pc[u]
    BY DEF PersistFails, Fail, Reply, Goto, IndInv, TypeOK, HandlerTyped
  <2>2. \A u \in Threads \ {t} : pc[u] \notin {"write", "rename"}
    BY <1>1 DEF IndInv, MutexInv
  <2>3. QED BY <2>1, <2>2 DEF Exported
<1>3. MapOf' = MapOf /\ View(file)' = View(file) /\ SavingOf' = {}
  BY <1>1, <1>2 DEF MapOf, View, SavingOf
<1>4. AM!Abort
  BY <1>3 DEF AM!Abort, MapOf, SavingOf
<1>5. QED BY <1>4 DEF AM!Next

(* A crash brings back what was committed last. *)
LEMMA RestartImplements ==
  ASSUME Restart
  PROVE  AM!Next
<1>1. MapOf' = View(file) /\ View(file)' = View(file)
  BY DEF Restart, MapOf, View
<1>2. SavingOf' = {}
  BY DEF Restart, SavingOf, Exported
<1>3. AM!Crash
  BY <1>1, <1>2 DEF AM!Crash, MapOf, SavingOf
<1>4. QED BY <1>3 DEF AM!Next

(* All other steps of a handler, and its first and second of a save ... *)
LEMMA HandlerHidden ==
  ASSUME IndInv, NEW c \in Conns,
         \/ \E r \in Requests : Receive(c, r)
         \/ PutValueDedup(c) \/ PutAliasNotFound(c) \/ GetAlias(c)
         \/ DeleteAliasNotFound(c) \/ ListRefs(c) \/ DeleteValueRefused(c)
         \/ Answer(c)
  PROVE  UNCHANGED AM!vars
<1>1. c \in Threads
  BY DEF Threads
<1>2. UNCHANGED <<values, aliases, doc, file>>
  BY DEF Receive, PutValueDedup, PutAliasNotFound, GetAlias, DeleteAliasNotFound,
         ListRefs, DeleteValueRefused, Answer, memory, disk
<1>3. PICK label \in {"put_value", "get_alias", "lock", "answer", "delete_alias",
                      "delete_value", "idle"} : pc' = [pc EXCEPT ![c] = label]
  BY DEF Receive, PutValueDedup, PutAliasNotFound, GetAlias, DeleteAliasNotFound,
         ListRefs, DeleteValueRefused, Answer, Persist, Reply, Goto
<1>4. pc[c] \notin {"write", "rename"}
  BY DEF Receive, PutValueDedup, PutAliasNotFound, GetAlias, DeleteAliasNotFound,
         ListRefs, DeleteValueRefused, Answer
<1>5. Exported' = Exported
  BY <1>1, <1>3, <1>4, ExportedUnchanged
<1>6. QED BY <1>2, <1>5, HiddenStep

(* ... a new value and a collected one, which no alias has ... *)
LEMMA ValueHidden ==
  ASSUME IndInv, NEW c \in Conns, PutValueNew(c) \/ DeleteValue(c)
  PROVE  UNCHANGED AM!vars
<1>1. c \in Threads
  BY DEF Threads
<1>2. /\ UNCHANGED <<aliases, doc, file>>
      /\ pc[c] \in {"put_value", "delete_value"} /\ pc' = [pc EXCEPT ![c] = "lock"]
  BY DEF PutValueNew, DeleteValue, RemoveValue, Persist, Goto, disk
<1>3. Exported' = Exported
  BY <1>1, <1>2, ExportedUnchanged
<1>4. QED BY <1>2, <1>3, SecretsKept, HiddenStep

(* ... taking the lock, writing the temporary file, and closing the store.  *)
LEMMA SaveHidden ==
  ASSUME IndInv, NEW t \in Threads, Lock(t) \/ WriteTmp(t) \/ (Close /\ t = Main)
  PROVE  UNCHANGED AM!vars
<1>1. UNCHANGED <<values, aliases, doc, file>>
  BY DEF Lock, WriteTmp, Close, memory, disk
<1>2. \/ pc[t] \in {"lock", "idle"} /\ \E label \in {"export", "lock"} :
                                          pc' = [pc EXCEPT ![t] = label]
      \/ pc[t] = "write" /\ pc' = [pc EXCEPT ![t] = "rename"]
  BY DEF Lock, WriteTmp, Close, Persist, Goto
<1>3. Exported' = Exported
  BY <1>2, ExportedUnchanged
<1>4. QED BY <1>1, <1>3, HiddenStep

(* Every step of the store is one of the map or none.                       *)
LEMMA StepImplements ==
  ASSUME IndInv, [Next]_vars
  PROVE  [AM!Next]_AM!vars
<1>1. ASSUME NEW c \in Conns, NEW r \in Requests, Receive(c, r)
      PROVE  UNCHANGED AM!vars
  BY <1>1, HandlerHidden
<1>2. ASSUME NEW c \in Conns, Handle(c) PROVE [AM!Next]_AM!vars
  BY <1>2, HandlerHidden, ValueHidden, PutAliasImplements, DeleteAliasImplements
  DEF Handle
<1>3. ASSUME NEW t \in Threads, Lock(t) PROVE UNCHANGED AM!vars
  BY <1>3, SaveHidden
<1>4. ASSUME NEW t \in Threads, Save(t) PROVE [AM!Next]_AM!vars
  BY <1>4, SaveHidden, ExportImplements, RenameImplements, PersistFailsImplements
  DEF Save
<1>5. CASE Close
  BY <1>5, SaveHidden DEF Threads
<1>6. CASE Restart
  BY <1>6, RestartImplements
<1>7. CASE Quiet \/ UNCHANGED vars
  <2>1. UNCHANGED <<values, aliases, doc, file, pc>>
    BY <1>7 DEF Quiet, vars, memory, disk, handler
  <2>2. QED BY <2>1, HiddenStep DEF Exported
<1>8. QED
  BY <1>1, <1>2, <1>3, <1>4, <1>5, <1>6, <1>7 DEF Next

(* Clients and disk see a map that is saved one whole snapshot at a time,   *)
(* of which a crash brings back the last that was committed.                *)
THEOREM StoreImplementsMap == Spec => ImplementsAliasMap
<1>1. Init => AM!Init
  BY InitImplements
<1>2. IndInv /\ [Next]_vars => [AM!Next]_AM!vars
  BY StepImplements
<1>3. QED
  BY <1>1, <1>2, StoreIndInv, PTL DEF Spec, ImplementsAliasMap, AM!Spec
=============================================================================

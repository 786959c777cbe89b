----------------------------- MODULE AliasStore -----------------------------
(* The alias store and its handlers: the in-memory maps                     *)
(* (src/internal/store/memory), their copy on disk (src/internal/store/disk)*)
(* and the alias.add and alias.forget requests that drive them              *)
(* (src/internal/daemon/alias_handlers.go).                                 *)
(*                                                                          *)
(* Each method of memory.Store is atomic under its own lock.  A mutating    *)
(* method of disk.Store is the method of memory.Store followed, under       *)
(* another lock, by persist: Export, write aliases.json.tmp, rename.  The   *)
(* handlers call several methods with no lock around them, so requests      *)
(* interleave between any two of those steps, and a crash may come at any.  *)
EXTENDS Naturals, FiniteSets, GoMaps

CONSTANTS Conns,        \* client connections, one request at a time each
          Main,         \* the goroutine that closes the store at shutdown
          Keys,         \* alias keys: project and name
          Literals,     \* secret values
          None,         \* no thread, no request, no value id
          MaxOps,       \* bound: requests in a behaviour
          MaxFailures,  \* bound: failing writes and renames
          MaxCrashes    \* bound: daemon restarts

Threads == Conns \cup {Main}

ASSUME MainAssumption == Main \notin Conns
ASSUME NoneAssumption == None \notin Threads \cup Keys \cup Literals \cup Nat
ASSUME BoundsAssumption == {MaxOps, MaxFailures, MaxCrashes} \subseteq Nat

VARIABLES
  values,    \* memory.Store.values: value id -> literal
  hashes,    \* memory.Store.hashes: hash -> value id
  aliases,   \* memory.Store.aliases: key -> value id and hash
  nextId,    \* value ids handed out so far; an id is never used twice
  mu,        \* disk.Store.mu: the thread that persists
  doc,       \* the snapshot each thread has exported
  tmp,       \* aliases.json.tmp: a snapshot, or NoDocument
  file,      \* aliases.json
  pc,        \* where each thread is
  req,       \* the request it serves
  vid,       \* the value id its handler holds
  next,      \* where it goes on after persist
  res,       \* its answer
  ver,       \* ghost: mutations behind the contents of memory
  need,      \* ghost: ver after the thread's last mutation
  acked,     \* ghost: largest need of a request answered with success
  unlinked,  \* ghost: value ids an alias.forget took an alias from
  ops, failures, crashes   \* counters for the bounds

memory  == <<values, hashes, aliases, nextId, ver>>
disk    == <<mu, doc, tmp, file>>
handler == <<pc, req, vid, next, res>>
bounds  == <<ops, failures, crashes>>
ghost   == <<need, acked, unlinked>>
vars    == <<memory, disk, handler, bounds, ghost>>

-----------------------------------------------------------------------------
(* sha256, collision-free *)
hashOf(lit) == <<"sha256", lit>>

Requests ==
  [method : {"alias.add"}, key : Keys, lit : Literals]
    \cup [method : {"alias.forget"}, key : Keys, lit : {None}]

NoRequest == [method |-> "none", key |-> None, lit |-> None]

Key(c) == req[c].key

EmptySnapshot == [values |-> EmptyMap, aliases |-> EmptyMap, ver |-> 0]

(* A file that is absent or cut off *)
NoDocument == [EmptySnapshot EXCEPT !.ver = None]

Referenced(id, as) == \E k \in DOMAIN as : as[k].id = id

Goto(t, label) == pc' = [pc EXCEPT ![t] = label]

Reply(c, result) ==
  /\ Goto(c, "answer")
  /\ res' = [res EXCEPT ![c] = result]

(* disk.afterMutate: save, then go on at label *)
Persist(t, label) ==
  /\ Goto(t, "lock")
  /\ next' = [next EXCEPT ![t] = label]

Mutated(t) ==
  /\ ver' = ver + 1
  /\ need' = [need EXCEPT ![t] = ver + 1]

Init ==
  /\ values = EmptyMap
  /\ hashes = EmptyMap
  /\ aliases = EmptyMap
  /\ nextId = 0
  /\ ver = 0
  /\ mu = None
  /\ doc = [t \in Threads |-> EmptySnapshot]
  /\ tmp = NoDocument
  /\ file = EmptySnapshot
  /\ pc = [t \in Threads |-> "idle"]
  /\ req = [t \in Threads |-> NoRequest]
  /\ vid = [t \in Threads |-> None]
  /\ next = [t \in Threads |-> "idle"]
  /\ res = [t \in Threads |-> "none"]
  /\ need = [t \in Threads |-> 0]
  /\ acked = 0
  /\ unlinked = {}
  /\ ops = 0
  /\ failures = 0
  /\ crashes = 0

Receive(c, r) ==
  /\ pc[c] = "idle"
  /\ ops < MaxOps
  /\ ops' = ops + 1
  /\ req' = [req EXCEPT ![c] = r]
  /\ Goto(c, IF r.method = "alias.add" THEN "put_value" ELSE "get_alias")
  /\ UNCHANGED <<memory, disk, vid, next, res, failures, crashes, ghost>>

-----------------------------------------------------------------------------
(* alias.add: PutValue, then PutAlias with the id it returned *)

(* The literal is known already: its id again, and a save all the same *)
PutValueDedup(c) ==
  /\ pc[c] = "put_value"
  /\ hashOf(req[c].lit) \in DOMAIN hashes
  /\ vid' = [vid EXCEPT ![c] = hashes[hashOf(req[c].lit)]]
  /\ Persist(c, "put_alias")
  /\ UNCHANGED <<memory, disk, req, res, bounds, ghost>>

PutValueNew(c) ==
  /\ pc[c] = "put_value"
  /\ hashOf(req[c].lit) \notin DOMAIN hashes
  /\ nextId' = nextId + 1
  /\ values' = MapPut(values, nextId', req[c].lit)
  /\ hashes' = MapPut(hashes, hashOf(req[c].lit), nextId')
  /\ vid' = [vid EXCEPT ![c] = nextId']
  /\ Mutated(c)
  /\ Persist(c, "put_alias")
  /\ UNCHANGED <<aliases, disk, req, res, bounds, acked, unlinked>>

SetAlias(c, hash) ==
  /\ aliases' = MapPut(aliases, Key(c), [id |-> vid[c], hash |-> hash])
  /\ Mutated(c)
  /\ Persist(c, "done")
  /\ UNCHANGED <<values, hashes, nextId, disk, req, vid, res, bounds, acked,
                 unlinked>>

(* mutant: the alias is stored without a look at the value *)
PutAliasUnchecked(c) ==
  /\ pc[c] = "put_alias"
  /\ SetAlias(c, hashOf(req[c].lit))

(* mutant: afterMutate is forgotten, the handler answers at once *)
PutAliasUnsaved(c) ==
  /\ pc[c] = "put_alias"
  /\ vid[c] \in DOMAIN values
  /\ aliases' = MapPut(aliases, Key(c), [id   |-> vid[c],
                                        hash |-> hashOf(values[vid[c]])])
  /\ Mutated(c)
  /\ Reply(c, "ok")
  /\ UNCHANGED <<values, hashes, nextId, disk, req, vid, next, bounds, acked,
                 unlinked>>

PutAlias(c) ==
  /\ pc[c] = "put_alias"
  /\ vid[c] \in DOMAIN values
  /\ SetAlias(c, hashOf(values[vid[c]]))

(* ErrNotFound: the value was collected between the two calls *)
PutAliasNotFound(c) ==
  /\ pc[c] = "put_alias"
  /\ vid[c] \notin DOMAIN values
  /\ Reply(c, "error")
  /\ UNCHANGED <<memory, disk, req, vid, next, bounds, ghost>>

-----------------------------------------------------------------------------
(* alias.forget: GetAlias, DeleteAlias, ListAliasesByValue, DeleteValue.    *)
(* The value id comes from the first call, whatever the key holds later.    *)

GetAlias(c) ==
  /\ pc[c] = "get_alias"
  /\ IF Key(c) \in DOMAIN aliases
     THEN /\ vid' = [vid EXCEPT ![c] = aliases[Key(c)].id]
          /\ Goto(c, "delete_alias")
          /\ UNCHANGED res
     ELSE /\ Reply(c, "not_found")
          /\ UNCHANGED vid
  /\ UNCHANGED <<memory, disk, req, next, bounds, ghost>>

DeleteAlias(c) ==
  /\ pc[c] = "delete_alias"
  /\ Key(c) \in DOMAIN aliases
  /\ aliases' = MapDelete(aliases, Key(c))
  /\ unlinked' = unlinked \cup {aliases[Key(c)].id}
  /\ Mutated(c)
  /\ Persist(c, "list_refs")
  /\ UNCHANGED <<values, hashes, nextId, disk, req, vid, res, bounds, acked>>

(* ErrNotFound: another alias.forget was first *)
DeleteAliasNotFound(c) ==
  /\ pc[c] = "delete_alias"
  /\ Key(c) \notin DOMAIN aliases
  /\ Reply(c, "error")
  /\ UNCHANGED <<memory, disk, req, vid, next, bounds, ghost>>

ListRefs(c) ==
  /\ pc[c] = "list_refs"
  /\ IF Referenced(vid[c], aliases)
     THEN Reply(c, "ok")
     ELSE Goto(c, "delete_value") /\ UNCHANGED res
  /\ UNCHANGED <<memory, disk, req, vid, next, bounds, ghost>>

RemoveValue(c) ==
  /\ values' = MapDelete(values, vid[c])
  /\ Mutated(c)
  /\ Persist(c, "done")
  /\ UNCHANGED <<aliases, nextId, disk, req, vid, res, bounds, acked, unlinked>>

(* mutant: no second look at the references *)
DeleteValueInUse(c) ==
  /\ pc[c] = "delete_value"
  /\ vid[c] \in DOMAIN values
  /\ hashes' = MapDelete(hashes, hashOf(values[vid[c]]))
  /\ RemoveValue(c)

(* mutant: the hash stays behind *)
DeleteValueOnly(c) ==
  /\ pc[c] = "delete_value"
  /\ vid[c] \in DOMAIN values
  /\ ~Referenced(vid[c], aliases)
  /\ UNCHANGED hashes
  /\ RemoveValue(c)

DeleteValue(c) ==
  /\ pc[c] = "delete_value"
  /\ vid[c] \in DOMAIN values
  /\ ~Referenced(vid[c], aliases)
  /\ hashes' = MapDelete(hashes, hashOf(values[vid[c]]))
  /\ RemoveValue(c)

(* ErrNotFound is ignored, ErrValueInUse is an error although the alias is  *)
(* gone                                                                     *)
DeleteValueRefused(c) ==
  /\ pc[c] = "delete_value"
  /\ vid[c] \in DOMAIN values => Referenced(vid[c], aliases)
  /\ Reply(c, IF vid[c] \in DOMAIN values THEN "error" ELSE "ok")
  /\ UNCHANGED <<memory, disk, req, vid, next, bounds, ghost>>

-----------------------------------------------------------------------------
(* persist *)

(* mutant: persist without the lock *)
LockNothing(t) ==
  /\ pc[t] = "lock"
  /\ Goto(t, "export")
  /\ UNCHANGED <<memory, disk, req, vid, next, res, bounds, ghost>>

Lock(t) ==
  /\ pc[t] = "lock"
  /\ mu = None
  /\ mu' = t
  /\ Goto(t, "export")
  /\ UNCHANGED <<memory, doc, tmp, file, req, vid, next, res, bounds, ghost>>

Export(t) ==
  /\ pc[t] = "export"
  /\ doc' = [doc EXCEPT ![t] =
       [values |-> values, aliases |-> aliases, ver |-> ver]]
  /\ Goto(t, "write")
  /\ UNCHANGED <<memory, mu, tmp, file, req, vid, next, res, bounds, ghost>>

(* mutant: the aliases are read again while the file is written *)
WriteTmpTorn(t) ==
  /\ pc[t] = "write"
  /\ tmp' = [doc[t] EXCEPT !.aliases = aliases]
  /\ Goto(t, "rename")
  /\ UNCHANGED <<memory, mu, doc, file, req, vid, next, res, bounds, ghost>>

WriteTmp(t) ==
  /\ pc[t] = "write"
  /\ tmp' = doc[t]
  /\ Goto(t, "rename")
  /\ UNCHANGED <<memory, mu, doc, file, req, vid, next, res, bounds, ghost>>

(* What the caller of persist does next; "done" is the end of a handler *)
Resume(t) ==
  IF next[t] = "done" THEN Reply(t, "ok")
  ELSE Goto(t, next[t]) /\ UNCHANGED res

(* Rename and the deferred unlock *)
Rename(t) ==
  /\ pc[t] = "rename"
  /\ file' = tmp
  /\ tmp' = NoDocument
  /\ mu' = None
  /\ Resume(t)
  /\ doc' = [doc EXCEPT ![t] = EmptySnapshot]
  /\ UNCHANGED <<memory, req, vid, next, bounds, ghost>>

Fail(t) ==
  /\ pc[t] \in {"write", "rename"}
  /\ failures < MaxFailures
  /\ failures' = failures + 1
  /\ tmp' = NoDocument
  /\ doc' = [doc EXCEPT ![t] = EmptySnapshot]
  /\ IF t = Main THEN Goto(t, "exit") /\ UNCHANGED res ELSE Reply(t, "error")
  /\ UNCHANGED <<memory, file, req, vid, next, ops, crashes, ghost>>

(* mutant: the error path returns with the lock held *)
PersistFailsLocked(t) ==
  /\ UNCHANGED mu
  /\ Fail(t)

(* The write stops in the middle, or the rename fails and the temporary     *)
(* file is removed.  Memory keeps the change; the request gets an error.    *)
PersistFails(t) ==
  /\ mu' = None
  /\ Fail(t)

-----------------------------------------------------------------------------
Answer(c) ==
  /\ pc[c] = "answer"
  /\ acked' = IF res[c] = "ok" /\ need[c] > acked THEN need[c] ELSE acked
  /\ pc' = [pc EXCEPT ![c] = "idle"]
  /\ req' = [req EXCEPT ![c] = NoRequest]
  /\ vid' = [vid EXCEPT ![c] = None]
  /\ next' = [next EXCEPT ![c] = "idle"]
  /\ res' = [res EXCEPT ![c] = "none"]
  /\ need' = [need EXCEPT ![c] = 0]
  /\ UNCHANGED <<memory, disk, bounds, unlinked>>

(* runDaemonForeground's deferred st.Close(): one more persist, while        *)
(* handlers that outlive Server.Stop may still run.                          *)
Close ==
  /\ pc[Main] = "idle"
  /\ crashes < MaxCrashes
  /\ Persist(Main, "exit")
  /\ UNCHANGED <<memory, disk, req, vid, res, bounds, ghost>>

(* Replace accepts a snapshot only if every alias finds its value *)
Loadable(snap) ==
  \A k \in DOMAIN snap.aliases : snap.aliases[k].id \in DOMAIN snap.values

(* The index Replace rebuilds *)
HashIndex(vals) ==
  [h \in {hashOf(vals[id]) : id \in DOMAIN vals} |->
     CHOOSE id \in DOMAIN vals : hashOf(vals[id]) = h]

(* The daemon exits or crashes, whatever its threads are at, and a new one  *)
(* loads aliases.json; a leftover aliases.json.tmp is ignored.              *)
Restart ==
  /\ crashes < MaxCrashes
  /\ crashes' = crashes + 1
  /\ Loadable(file)
  /\ values' = file.values
  /\ hashes' = HashIndex(file.values)
  /\ aliases' = file.aliases
  /\ ver' = file.ver
  /\ mu' = None
  /\ doc' = [t \in Threads |-> EmptySnapshot]
  /\ pc' = [t \in Threads |-> "idle"]
  /\ req' = [t \in Threads |-> NoRequest]
  /\ vid' = [t \in Threads |-> None]
  /\ next' = [t \in Threads |-> "idle"]
  /\ res' = [t \in Threads |-> "none"]
  /\ need' = [t \in Threads |-> 0]
  /\ UNCHANGED <<nextId, tmp, file, ops, failures, acked, unlinked>>

(* The clients have sent all they will *)
Quiet ==
  /\ ops = MaxOps
  /\ \A c \in Conns : pc[c] = "idle"
  /\ pc[Main] \in {"idle", "exit"}
  /\ UNCHANGED vars

Handle(c) ==
  \/ PutValueDedup(c)
  \/ PutValueNew(c)
  \/ PutAlias(c)
  \/ PutAliasNotFound(c)
  \/ GetAlias(c)
  \/ DeleteAlias(c)
  \/ DeleteAliasNotFound(c)
  \/ ListRefs(c)
  \/ DeleteValue(c)
  \/ DeleteValueRefused(c)
  \/ Answer(c)

Save(t) ==
  \/ Export(t)
  \/ WriteTmp(t)
  \/ Rename(t)
  \/ PersistFails(t)

Next ==
  \/ \E c \in Conns : \E r \in Requests : Receive(c, r)
  \/ \E c \in Conns : Handle(c)
  \/ \E t \in Threads : Lock(t)
  \/ \E t \in Threads : Save(t)
  \/ Close
  \/ Restart
  \/ Quiet

Spec == Init /\ [][Next]_vars

(* A runnable goroutine runs on, and sync.Mutex starves nobody *)
Fairness ==
  /\ \A c \in Conns : WF_vars(Handle(c))
  /\ \A t \in Threads : WF_vars(Save(t)) /\ SF_vars(Lock(t))

FairSpec == Spec /\ Fairness

-----------------------------------------------------------------------------
(* Types *)

Ids == Nat \ {0}

AliasRecord == [id : Ids, hash : {hashOf(l) : l \in Literals}]

SnapshotType(s) ==
  /\ s = [values |-> s.values, aliases |-> s.aliases, ver |-> s.ver]
  /\ IsMap(s.values, Ids, Literals)
  /\ IsMap(s.aliases, Keys, AliasRecord)
  /\ s.ver \in Nat

Labels == {"idle", "put_value", "put_alias", "get_alias", "delete_alias",
           "list_refs", "delete_value", "lock", "export", "write", "rename",
           "answer", "exit"}

MemoryTyped ==
  /\ IsMap(values, Ids, Literals)
  /\ IsMap(hashes, {hashOf(l) : l \in Literals}, Ids)
  /\ IsMap(aliases, Keys, AliasRecord)
  /\ nextId \in Nat
  /\ ver \in Nat

DiskTyped ==
  /\ mu \in Threads \cup {None}
  /\ doc = [t \in Threads |-> doc[t]]
  /\ \A t \in Threads : SnapshotType(doc[t])
  /\ tmp = NoDocument \/ SnapshotType(tmp)
  /\ SnapshotType(file)

HandlerTyped ==
  /\ pc \in [Threads -> Labels]
  /\ req \in [Threads -> Requests \cup {NoRequest}]
  /\ vid \in [Threads -> Ids \cup {None}]
  /\ next \in [Threads -> {"idle", "put_alias", "list_refs", "done", "exit"}]
  /\ res \in [Threads -> {"none", "ok", "error", "not_found"}]

CountersTyped ==
  /\ need \in [Threads -> Nat]
  /\ acked \in Nat
  /\ unlinked \subseteq Ids
  /\ {ops, failures, crashes} \subseteq Nat

(* Every variable has its type: what is renamed over aliases.json is a      *)
(* complete document, never the remains of a write that failed (disk.go     *)
(* persist).                                                                *)
TypeOK == MemoryTyped /\ DiskTyped /\ HandlerTyped /\ CountersTyped

-----------------------------------------------------------------------------
(* Properties *)

AliasesFound(as, vals) ==
  \A k \in DOMAIN as :
    as[k].id \in DOMAIN vals /\ as[k].hash = hashOf(vals[as[k].id])

(* Every alias finds its value, with the hash it shows, although a forget   *)
(* may collect the value between the two halves of an add that shares it    *)
(* (memory.go:118-122, 140-143).                                            *)
RefIntegrity == AliasesFound(aliases, values)

(* The hash index is exactly the inverse of values: a literal is stored     *)
(* once, and a collected one can be stored again (memory.go:85-93, 123-124).*)
ContentAddressed ==
  /\ \A id \in DOMAIN values :
       /\ hashOf(values[id]) \in DOMAIN hashes
       /\ hashes[hashOf(values[id])] = id
  /\ \A h \in DOMAIN hashes :
       hashes[h] \in DOMAIN values /\ hashOf(values[hashes[h]]) = h

(* Whenever the daemon dies, aliases.json is a store the next one can load: *)
(* Replace finds the value of every alias (memory/export.go:52-54).         *)
FileLoadable == AliasesFound(file.aliases, file.values)

(* A request answered with success is in aliases.json, whichever of the     *)
(* concurrent saves wrote it last: an older snapshot never replaces a newer *)
(* one (disk.go:146-153).                                                   *)
AckedDurable == acked <= file.ver

(* The secret behind a key changes only on behalf of a request for that     *)
(* key, and then to what the request says, or when the daemon restarts:     *)
(* dedup and collection, which work across keys, are invisible.             *)
SecretsOf(k) ==
  {values[aliases[i].id] :
     i \in {i \in {k} \cap DOMAIN aliases : aliases[i].id \in DOMAIN values}}

KeysIndependent ==
  [][\A k \in Keys :
       \/ SecretsOf(k)' = SecretsOf(k)
       \/ \E c \in Conns :
            /\ req[c].key = k
            /\ SecretsOf(k)' = IF req[c].method = "alias.add"
                               THEN {req[c].lit} ELSE {}
       \/ crashes' # crashes]_vars

(* "removes an alias and GCs the value when unreferenced" (protocol.go:196):*)
(* with no request under way and nothing having failed, no value that an    *)
(* alias.forget took an alias from is left without one.                     *)
ForgetCollects ==
  (/\ \A t \in Threads : pc[t] = "idle"
   /\ failures = 0
   /\ crashes = 0) =>
     \A id \in unlinked \cap DOMAIN values : Referenced(id, aliases)

(* Every request is answered, unless the daemon dies: no path of persist    *)
(* keeps the lock (disk.go:150-151), even when writing fails.               *)
Answered == \A c \in Conns : pc[c] # "idle" ~> pc[c] = "idle"

-----------------------------------------------------------------------------
(* The inductive invariant of AliasStoreProofs *)

(* A value id is handed out once, so the next one is free.                  *)
IdsInv == DOMAIN values \subseteq 1 .. nextId

(* A snapshot can become the store: its aliases find their values, a value  *)
(* has one id, and none of the ids is still to be handed out.               *)
SoundSnapshot(s) ==
  /\ AliasesFound(s.aliases, s.values)
  /\ DOMAIN s.values \subseteq 1 .. nextId
  /\ \A i, j \in DOMAIN s.values : s.values[i] = s.values[j] => i = j

SnapshotInv == SoundSnapshot(file) /\ \A t \in Threads : SoundSnapshot(doc[t])

(* The lock's owner alone is between Export and the rename, and what it is  *)
(* about to rename is what it exported.                                     *)
MutexInv ==
  \A t \in Threads :
    /\ pc[t] \in {"export", "write", "rename"} <=> mu = t
    /\ pc[t] = "rename" => tmp = doc[t]

(* A handler that is at work has a request, and alias.add alone a value.    *)
RequestInv ==
  \A c \in Conns :
    /\ pc[c] \notin {"idle", "exit"} => req[c] \in Requests
    /\ pc[c] = "put_value" => req[c].method = "alias.add"

(* A save holds all that its thread has changed and no less than the file,  *)
(* and a handler past its last save finds its changes in the file.          *)
SavedInv ==
  /\ acked <= file.ver /\ file.ver <= ver
  /\ \A t \in Threads :
       /\ need[t] <= ver
       /\ pc[t] \in {"write", "rename"} =>
            file.ver <= doc[t].ver /\ doc[t].ver <= ver /\ need[t] <= doc[t].ver
       /\ \/ pc[t] \in {"list_refs", "delete_value"}
          \/ pc[t] = "answer" /\ res[t] = "ok"
          => need[t] <= file.ver

(* The state of the store and of every save is consistent with each other.  *)
(* That it holds keeps RefIntegrity, ContentAddressed and AckedDurable.     *)
IndInv ==
  /\ TypeOK /\ RefIntegrity /\ ContentAddressed
  /\ IdsInv /\ SnapshotInv /\ MutexInv /\ RequestInv /\ SavedInv

-----------------------------------------------------------------------------
(* AliasStore implements AliasMap: ids, the hash index, values without      *)
(* alias and the handlers' positions are hidden.                            *)

View(s) == [k \in DOMAIN s.aliases |-> s.values[s.aliases[k].id]]

Exported == {t \in Threads : pc[t] \in {"write", "rename"}}

AM == INSTANCE AliasMap WITH
        map     <- [k \in DOMAIN aliases |-> values[aliases[k].id]],
        saving  <- {View(doc[t]) : t \in Exported},
        durable <- View(file)

(* Clients and disk see the behaviour of AliasMap.                          *)
ImplementsAliasMap == AM!Spec
=============================================================================

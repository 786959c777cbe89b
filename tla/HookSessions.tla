---------------------------- MODULE HookSessions ----------------------------
(* The daemon's hook handlers over the session registry                     *)
(* (src/internal/daemon/handlers.go), the placeholder map of each session   *)
(* (SessionMap) and the audit log (src/internal/audit/log.go).              *)
(*                                                                          *)
(* One goroutine serves each connection, so requests interleave between any *)
(* two critical sections: the registry's read lock, its write lock, each    *)
(* call on a Session and the audit log's Append.  A payload is reduced to   *)
(* what the handlers act on: for a redacting request the findings the       *)
(* detector reports in it, in order; for hook.pre_tool the candidate        *)
(* placeholders Pattern() matches in it, in order.                          *)
EXTENDS Naturals, Sequences, FiniteSets, SessionMap

CONSTANTS Conns,          \* client connections, one request at a time each
          SessionIds,     \* session ids the hosts use
          Objects,        \* addresses of Session objects
          NoObject,       \* nil *Session
          Methods,        \* requests the hosts' hooks send
          MaxItems,       \* bound: findings or candidates in one payload
          MaxCounter,     \* bound: largest n in a candidate PREFIX_n
          MaxRequests,    \* bound: requests in a behaviour
          MaxEpoch,       \* bound: times a session id loses its session
          MaxAuditErrors  \* bound: failing Append calls

ASSUME NoObjectAssumption == NoObject \notin Objects
ASSUME MethodsAssumption ==
  Methods \subseteq {"session.start", "session.stop", "hook.prompt",
                     "hook.pre_tool", "hook.post_tool"}
ASSUME BoundsAssumption ==
  {MaxItems, MaxCounter, MaxRequests, MaxEpoch, MaxAuditErrors} \subseteq Nat

VARIABLES
  pc,          \* where the goroutine of each connection is
  req,         \* the request it serves
  sess,        \* the *Session its Substituter holds
  spans,       \* Rehydrate pass 1: which candidates are registered
  out,         \* the rewritten payload: [name, lit] per item
  registry,    \* sessionRegistry.m
  heap,        \* the Session objects
  audit,       \* lines of the audit log
  auditErrors, \* Append calls that failed
  requests,    \* requests received, for MaxRequests
  owner,       \* ghost: object -> <<session id, epoch>> it was made for
  epoch,       \* ghost: how often a session id has lost its session
  ep,          \* ghost: epoch of the session a goroutine holds
  shown,       \* ghost: redactions that reached a client
  received,    \* ghost: secrets sent to the daemon, per session and epoch
  must         \* ghost: of shown, what a pre_tool request refers to

conns == <<pc, req, sess, spans, out>>
store == <<registry, heap, owner, epoch>>
log   == <<audit, auditErrors>>
ghost == <<ep, shown, received, must>>
vars  == <<conns, store, log, ghost, requests>>

-----------------------------------------------------------------------------
(* Requests *)

Redacting == {"hook.prompt", "hook.post_tool"}

Finding == [lit : Literals, prefix : Prefixes]

(* Text a tool input may hold: any name a model has seen or invents *)
Candidates == Prefixes \X (1 .. MaxCounter)

UpTo(n, S) == UNION {[1 .. k -> S] : k \in 0 .. n}

Requests ==
  [method : Methods \cap {"session.start", "session.stop"},
   sid : SessionIds, items : {<< >>}]
    \cup [method : Methods \cap Redacting,
          sid : SessionIds, items : UpTo(MaxItems, Finding)]
    \cup [method : Methods \cap {"hook.pre_tool"},
          sid : SessionIds, items : UpTo(MaxItems, Candidates)]

NoRequest == [method |-> "none", sid |-> NoObject, items |-> << >>]

Redacts(c) == req[c].method \in Redacting

(* Literals a redacting request carries *)
Secrets(r) == {r.items[i].lit : i \in DOMAIN r.items}

Goto(c, label) == pc' = [pc EXCEPT ![c] = label]

-----------------------------------------------------------------------------
Init ==
  /\ pc = [c \in Conns |-> "idle"]
  /\ req = [c \in Conns |-> NoRequest]
  /\ sess = [c \in Conns |-> NoObject]
  /\ spans = [c \in Conns |-> << >>]
  /\ out = [c \in Conns |-> << >>]
  /\ registry = EmptyMap
  /\ heap = [o \in Objects |-> NewSession]
  /\ audit = {}
  /\ auditErrors = 0
  /\ requests = 0
  /\ owner = EmptyMap
  /\ epoch = [s \in SessionIds |-> 0]
  /\ ep = [c \in Conns |-> 0]
  /\ shown = {}
  /\ received = {}
  /\ must = [c \in Conns |-> {}]

(* Bound: no more stops under way than MaxEpoch allows *)
StopsBounded(r) ==
  r.method = "session.stop" =>
    epoch[r.sid] + Cardinality({c \in Conns : /\ pc[c] = "drop"
                                              /\ req[c].sid = r.sid}) < MaxEpoch

(* serveConn hands a decoded request to Dispatch.  A session.start without  *)
(* an id mints a fresh one, which is a start with an id nobody used before. *)
Receive(c, r) ==
  /\ pc[c] = "idle"
  /\ requests < MaxRequests
  /\ StopsBounded(r)
  /\ requests' = requests + 1
  /\ Goto(c, IF r.method = "session.stop" THEN "drop" ELSE "lookup")
  /\ req' = [req EXCEPT ![c] = r]
  /\ must' = [must EXCEPT ![c] =
       {s \in shown : /\ r.method = "hook.pre_tool"
                      /\ s.sid = r.sid
                      /\ s.name \in {r.items[i] : i \in DOMAIN r.items}}]
  /\ UNCHANGED <<sess, spans, out, store, log, ep, shown, received>>

-----------------------------------------------------------------------------
(* getOrCreate: a lookup under the read lock, then another one under the    *)
(* write lock, which installs a new session if the id is still unknown.     *)

(* session.start is done, and so are Redact without a finding and Rehydrate *)
(* without a candidate.                                                     *)
AfterGet(c) == IF req[c].items = << >> THEN "answer"
               ELSE IF Redacts(c) THEN "redact" ELSE "find"

(* getOrCreate returns o *)
Obtain(c, o) ==
  /\ sess' = [sess EXCEPT ![c] = o]
  /\ ep' = [ep EXCEPT ![c] = epoch[req[c].sid]]
  /\ received' = received \cup
       (IF Redacts(c)
        THEN {<<req[c].sid, epoch[req[c].sid], l>> : l \in Secrets(req[c])}
        ELSE {})
  /\ Goto(c, AfterGet(c))

LookupHit(c) ==
  /\ pc[c] = "lookup"
  /\ req[c].sid \in DOMAIN registry
  /\ Obtain(c, registry[req[c].sid])
  /\ UNCHANGED <<req, spans, out, store, log, shown, must>>

LookupMiss(c) ==
  /\ pc[c] = "lookup"
  /\ req[c].sid \notin DOMAIN registry
  /\ Goto(c, "create")
  /\ UNCHANGED <<req, sess, spans, out, store, log, ghost>>

(* Another goroutine created the session between the two locks *)
RecheckHit(c) ==
  /\ pc[c] = "create"
  /\ req[c].sid \in DOMAIN registry
  /\ Obtain(c, registry[req[c].sid])
  /\ UNCHANGED <<req, spans, out, store, log, shown, must>>

(* The allocator returns an address no Session had before; which one makes  *)
(* no difference to any handler.                                            *)
FreshObject == CHOOSE o \in Objects : o \notin DOMAIN owner

Install(c, o) ==
  /\ DOMAIN owner # Objects
  /\ registry' = MapPut(registry, req[c].sid, o)
  /\ heap' = [heap EXCEPT ![o] = NewSession]
  /\ owner' = MapPut(owner, o, <<req[c].sid, epoch[req[c].sid]>>)
  /\ Obtain(c, o)
  /\ UNCHANGED <<req, spans, out, epoch, log, shown, must>>

(* mutant: no second lookup under the write lock *)
CreateUnchecked(c) ==
  /\ pc[c] = "create"
  /\ Install(c, FreshObject)

Create(c) ==
  /\ pc[c] = "create"
  /\ req[c].sid \notin DOMAIN registry
  /\ Install(c, FreshObject)

-----------------------------------------------------------------------------
(* Redact: one PlaceholderFor per finding, left to right.  An error ends    *)
(* the request with an error response and no audit event.                   *)

Redact(c) ==
  /\ pc[c] = "redact"
  /\ LET i == Len(out[c]) + 1
         f == req[c].items[i]
         r == PlaceholderFor(heap[sess[c]], f.lit, f.prefix)
     IN  /\ heap' = [heap EXCEPT ![sess[c]] = r.session]
         /\ IF r.name = NoName
            THEN /\ Goto(c, "failed")
                 /\ UNCHANGED out
            ELSE /\ out' = [out EXCEPT ![c] =
                              Append(@, [name |-> r.name, lit |-> f.lit])]
                 /\ Goto(c, IF i = Len(req[c].items) THEN "record" ELSE "redact")
  /\ UNCHANGED <<req, sess, spans, registry, owner, epoch, log, ghost>>

(* The audit lines of the first n redactions of a request *)
AuditLines(c, n) ==
  {[sid |-> req[c].sid, tool |-> req[c].method, name |-> out[c][i].name] :
     i \in 1 .. n}

(* mutant: the last event of the batch is left out *)
RecordRedactionsShort(c) ==
  /\ pc[c] = "record"
  /\ audit' = audit \cup AuditLines(c, Len(out[c]) - 1)
  /\ Goto(c, "answer")
  /\ UNCHANGED <<req, sess, spans, out, store, auditErrors, ghost>>

RecordRedactions(c) ==
  /\ pc[c] = "record"
  /\ audit' = audit \cup AuditLines(c, Len(out[c]))
  /\ Goto(c, "answer")
  /\ UNCHANGED <<req, sess, spans, out, store, auditErrors, ghost>>

(* Append fails after n of the lines; recordRedactions ignores the error *)
RecordRedactionsFails(c, n) ==
  /\ pc[c] = "record"
  /\ auditErrors < MaxAuditErrors
  /\ n < Len(out[c])
  /\ audit' = audit \cup AuditLines(c, n)
  /\ auditErrors' = auditErrors + 1
  /\ Goto(c, "answer")
  /\ UNCHANGED <<req, sess, spans, out, store, ghost>>

-----------------------------------------------------------------------------
(* Rehydrate: pass 1 keeps the candidates that resolve, pass 2 resolves     *)
(* them again and writes what it gets.                                      *)

Scan(c, registered) ==
  /\ pc[c] = "find"
  /\ spans' = [spans EXCEPT ![c] = Append(@, registered)]
  /\ Goto(c, IF Len(spans[c]) + 1 = Len(req[c].items) THEN "resolve" ELSE "find")
  /\ UNCHANGED <<req, sess, out, store, log, ghost>>

(* mutant: the first unknown candidate ends pass 1 *)
FindRegisteredStops(c) ==
  Scan(c, /\ Registered(heap[sess[c]], req[c].items[Len(spans[c]) + 1])
          /\ \A i \in DOMAIN spans[c] : spans[c][i])

FindRegistered(c) ==
  Scan(c, Registered(heap[sess[c]], req[c].items[Len(spans[c]) + 1]))

(* What pass 2 writes for a candidate it leaves as it stood; not a literal  *)
PassThrough == NoName
Resolve(c) ==
  /\ pc[c] = "resolve"
  /\ LET i == Len(out[c]) + 1
         n == req[c].items[i]
         s == heap[sess[c]]
     IN  /\ out' = [out EXCEPT ![c] = Append(@,
              [name |-> n,
               lit  |-> IF spans[c][i] /\ Registered(s, n)
                        THEN ResolveAlias(s, n) ELSE PassThrough])]
         /\ Goto(c, IF i = Len(req[c].items) THEN "answer" ELSE "resolve")
  /\ UNCHANGED <<req, sess, spans, store, log, ghost>>

-----------------------------------------------------------------------------
(* setResult or setError, then writeResponse; the goroutine takes the next  *)
(* request from its connection.                                             *)

ShownBy(c) ==
  {[sid |-> req[c].sid, epoch |-> ep[c], tool |-> req[c].method,
    name |-> out[c][i].name, lit |-> out[c][i].lit] : i \in DOMAIN out[c]}

Answer(c) ==
  /\ pc[c] \in {"answer", "failed"}
  /\ shown' = shown \cup
       (IF pc[c] = "answer" /\ Redacts(c) THEN ShownBy(c) ELSE {})
  /\ pc' = [pc EXCEPT ![c] = "idle"]
  /\ req' = [req EXCEPT ![c] = NoRequest]
  /\ sess' = [sess EXCEPT ![c] = NoObject]
  /\ spans' = [spans EXCEPT ![c] = << >>]
  /\ out' = [out EXCEPT ![c] = << >>]
  /\ ep' = [ep EXCEPT ![c] = 0]
  /\ must' = [must EXCEPT ![c] = {}]
  /\ UNCHANGED <<store, log, received>>

(* session.stop: drop(id) under the write lock.  Goroutines that hold the   *)
(* session go on with it.                                                   *)
Drop(c) ==
  /\ epoch' = IF req[c].sid \in DOMAIN registry
              THEN [epoch EXCEPT ![req[c].sid] = @ + 1] ELSE epoch
  /\ Goto(c, "answer")
  /\ UNCHANGED <<req, sess, spans, out, heap, owner, log, ghost>>

(* mutant: the entry stays in the registry *)
SessionStopKeeps(c) ==
  /\ pc[c] = "drop"
  /\ UNCHANGED registry
  /\ Drop(c)

SessionStop(c) ==
  /\ pc[c] = "drop"
  /\ registry' = MapDelete(registry, req[c].sid)
  /\ Drop(c)

(* The daemon ends (lockie stop, a signal, a crash) and a new one starts:   *)
(* sessions live in memory only, the audit log in a file.                   *)
Restart ==
  /\ \A s \in SessionIds : epoch[s] < MaxEpoch
  /\ epoch' = [s \in SessionIds |-> epoch[s] + 1]
  /\ registry' = EmptyMap
  /\ pc' = [c \in Conns |-> "idle"]
  /\ req' = [c \in Conns |-> NoRequest]
  /\ sess' = [c \in Conns |-> NoObject]
  /\ spans' = [c \in Conns |-> << >>]
  /\ out' = [c \in Conns |-> << >>]
  /\ ep' = [c \in Conns |-> 0]
  /\ must' = [c \in Conns |-> {}]
  /\ UNCHANGED <<heap, owner, log, requests, shown, received>>

Step(c) ==
  \/ LookupHit(c)
  \/ LookupMiss(c)
  \/ RecheckHit(c)
  \/ Create(c)
  \/ Redact(c)
  \/ RecordRedactions(c)
  \/ \E n \in 0 .. MaxItems : RecordRedactionsFails(c, n)
  \/ FindRegistered(c)
  \/ Resolve(c)
  \/ Answer(c)
  \/ SessionStop(c)

(* The clients have sent all they will: the daemon waits for ever, which is *)
(* no deadlock.                                                             *)
Quiet ==
  /\ requests = MaxRequests
  /\ \A c \in Conns : pc[c] = "idle"
  /\ UNCHANGED vars

Next ==
  \/ \E c \in Conns : \E r \in Requests : Receive(c, r)
  \/ \E c \in Conns : Step(c) /\ UNCHANGED requests
  \/ Restart
  \/ Quiet

Spec == Init /\ [][Next]_vars

-----------------------------------------------------------------------------
(* Properties *)

Labels == {"idle", "lookup", "create", "redact", "record", "find", "resolve",
           "answer", "failed", "drop"}

RequestType ==
  [method : {"session.start", "session.stop"}, sid : SessionIds,
   items : {<< >>}]
    \cup [method : Redacting, sid : SessionIds, items : Seq(Finding)]
    \cup [method : {"hook.pre_tool"}, sid : SessionIds, items : Seq(Names)]

ShownType == [sid : SessionIds, epoch : Nat, tool : Redacting,
              name : Names, lit : Literals]

Item == [name : Names, lit : Literals \cup {PassThrough}]

ConnsTyped ==
  /\ pc \in [Conns -> Labels]
  /\ req \in [Conns -> RequestType \cup {NoRequest}]
  /\ sess \in [Conns -> Objects \cup {NoObject}]
  /\ spans \in [Conns -> Seq(BOOLEAN)]
  /\ out \in [Conns -> Seq(Item)]

StoreTyped ==
  /\ IsMap(registry, SessionIds, Objects)
  /\ heap = [o \in Objects |-> heap[o]]
  /\ \A o \in Objects : IsSession(heap[o])
  /\ IsMap(owner, Objects, SessionIds \X Nat)
  /\ epoch \in [SessionIds -> Nat]

LogTyped ==
  /\ audit \subseteq [sid : SessionIds, tool : Redacting, name : Names]
  /\ auditErrors \in Nat
  /\ requests \in Nat

GhostTyped ==
  /\ ep \in [Conns -> Nat]
  /\ shown \subseteq ShownType
  /\ received \subseteq SessionIds \X Nat \X Literals
  /\ must \in [Conns -> SUBSET ShownType]

(* Every variable has its type; in particular a placeholder's number starts *)
(* at 1, as Pattern() expects of PREFIX_n (mint.go PlaceholderFor).         *)
TypeOK == ConnsTyped /\ StoreTyped /\ LogTyped /\ GhostTyped

(* A placeholder that a client was shown while its session still lives      *)
(* resolves, in the session every later request will find, to the secret it *)
(* replaced.  Two first requests racing in getOrCreate must not leave one   *)
(* of them with a Session nobody else sees (handlers.go:238-241).           *)
ShownResolves ==
  \A s \in shown :
    s.epoch = epoch[s.sid] =>
      /\ s.sid \in DOMAIN registry
      /\ Registered(heap[registry[s.sid]], s.name)
      /\ ResolveAlias(heap[registry[s.sid]], s.name) = s.lit

(* Within the life of a session, all answers together use one placeholder   *)
(* per secret and one secret per placeholder, whatever requests minted them *)
(* concurrently (mint.go:41-42, 23).                                        *)
OneNamePerLiteral ==
  \A s, t \in shown :
    s.sid = t.sid /\ s.epoch = t.epoch => (s.name = t.name <=> s.lit = t.lit)

(* Rehydration gives a session only secrets that were sent to that session  *)
(* since it last began: never another session's, and after session.stop     *)
(* never those from before (handlers.go drop, "vanish on Stop" mint.go:17). *)
OwnSecretsOnly ==
  \A c \in Conns :
    req[c].method = "hook.pre_tool" =>
      \A i \in DOMAIN out[c] :
        out[c][i].lit # PassThrough =>
          <<req[c].sid, ep[c], out[c][i].lit>> \in received

(* A tool input is rehydrated completely: each placeholder the session's    *)
(* client had been shown before it sent the request comes back as its       *)
(* secret, although other requests mint between the two passes of Rehydrate *)
(* (substitute.go:136-154).                                                 *)
RehydratesShown ==
  \A c \in Conns :
    req[c].method = "hook.pre_tool" =>
      \A i \in DOMAIN out[c] : \A s \in must[c] :
        s.epoch = ep[c] /\ s.name = out[c][i].name => out[c][i].lit = s.lit

(* The branch of PlaceholderFor that mint.go:60-63 calls programmer error,  *)
(* a minted name already in use, is never taken: no request fails on it.    *)
NoMintCollision == \A c \in Conns : pc[c] # "failed"

(* As long as Append works, a redaction is in the audit log before the      *)
(* client sees it (handlers.go:156-157, 195-196).                           *)
ShownIsAudited ==
  auditErrors = 0 =>
    \A s \in shown : [sid |-> s.sid, tool |-> s.tool, name |-> s.name] \in audit

-----------------------------------------------------------------------------
(* The inductive invariant behind the safety properties *)

(* getOrCreate has returned and the goroutine may still use what it got *)
HoldsSession(c) ==
  \/ pc[c] \in {"redact", "record", "find", "resolve"}
  \/ pc[c] = "answer" /\ req[c].method # "session.stop"

ControlInv ==
  \A c \in Conns :
    /\ pc[c] # "failed"
    /\ pc[c] = "idle" <=> req[c] = NoRequest
    /\ pc[c] = "drop" => req[c].method = "session.stop"
    /\ pc[c] \in {"lookup", "create"} => req[c].method # "session.stop"
    /\ pc[c] \in {"redact", "record"} => Redacts(c)
    /\ pc[c] \in {"find", "resolve"} => req[c].method = "hook.pre_tool"
    /\ pc[c] \in {"idle", "lookup", "create", "drop", "find"} => out[c] = << >>
    /\ pc[c] \in {"redact", "resolve"} => Len(out[c]) < Len(req[c].items)
    /\ pc[c] = "find" => Len(spans[c]) < Len(req[c].items)
    /\ pc[c] = "resolve" => Len(spans[c]) = Len(req[c].items)
    /\ req[c].method = "session.stop" => out[c] = << >>
    /\ pc[c] \in {"idle", "lookup", "create", "drop"} => spans[c] = << >>

(* The registry holds, for each live session id, the one object made for it *)
(* in its current epoch.                                                    *)
OwnerInv ==
  /\ \A s \in DOMAIN registry :
       registry[s] \in DOMAIN owner /\ owner[registry[s]] = <<s, epoch[s]>>
  /\ \A o \in DOMAIN owner :
       /\ owner[o][2] <= epoch[owner[o][1]]
       /\ owner[o][2] = epoch[owner[o][1]] =>
            /\ owner[o][1] \in DOMAIN registry
            /\ registry[owner[o][1]] = o
  /\ \A o, p \in DOMAIN owner : owner[o] = owner[p] => o = p

HolderInv ==
  \A c \in Conns :
    HoldsSession(c) =>
      sess[c] \in DOMAIN owner /\ owner[sess[c]] = <<req[c].sid, ep[c]>>

HeapInv == \A o \in Objects : Consistent(heap[o])

Resolves(o, name, lit) ==
  Registered(heap[o], name) /\ ResolveAlias(heap[o], name) = lit

RedactedInv ==
  \A c \in Conns :
    Redacts(c) =>
      \A i \in DOMAIN out[c] : Resolves(sess[c], out[c][i].name, out[c][i].lit)

ShownInv ==
  \A s \in shown :
    \E o \in DOMAIN owner :
      owner[o] = <<s.sid, s.epoch>> /\ Resolves(o, s.name, s.lit)

SecretInv ==
  /\ \A o \in DOMAIN owner : \A l \in DOMAIN heap[o].byLiteral :
       <<owner[o][1], owner[o][2], l>> \in received
  /\ \A c \in Conns :
       HoldsSession(c) /\ Redacts(c) =>
         \A l \in Secrets(req[c]) : <<req[c].sid, ep[c], l>> \in received

(* Inductive, and it implies ShownResolves, OneNamePerLiteral,              *)
(* OwnSecretsOnly and NoMintCollision (HookSessionsProofs): what a session  *)
(* object knows is tied to the session id and epoch it was made for.        *)
IndInv ==
  /\ TypeOK
  /\ ControlInv
  /\ OwnerInv
  /\ HolderInv
  /\ HeapInv
  /\ RedactedInv
  /\ ShownInv
  /\ SecretInv
  /\ OwnSecretsOnly
=============================================================================

------------------------- MODULE HookSessionsProofs -------------------------
(* Theorems about HookSessions for any number of connections, sessions,     *)
(* secrets and prefixes, and any bounds.                                    *)
EXTENDS HookSessions, SessionMapProofs, TLAPS

-----------------------------------------------------------------------------
(* Requests *)

(* Every request a client may send has the type of requests. *)
LEMMA RequestsTyped == Requests \subseteq RequestType
<1>1. ASSUME NEW n \in Nat, NEW S PROVE UpTo(n, S) \subseteq Seq(S)
  BY DEF UpTo
<1>2. Candidates \subseteq Names
  BY DEF Candidates, Names
<1>3. UpTo(MaxItems, Finding) \subseteq Seq(Finding)
  BY <1>1, BoundsAssumption
<1>4. UpTo(MaxItems, Candidates) \subseteq Seq(Names)
  <2>1. UpTo(MaxItems, Candidates) \subseteq UpTo(MaxItems, Names)
    BY <1>2 DEF UpTo
  <2>2. QED BY <1>1, <2>1, BoundsAssumption
<1>5. QED BY <1>3, <1>4 DEF Requests, RequestType

(* What a handler relies on about the fields of a request. *)
LEMMA RequestFacts ==
  ASSUME NEW r \in RequestType
  PROVE  /\ r.sid \in SessionIds
         /\ r.method \in {"session.start", "session.stop", "hook.prompt",
                          "hook.post_tool", "hook.pre_tool"}
         /\ r.method \in Redacting => r.items \in Seq(Finding)
         /\ r.method = "hook.pre_tool" => r.items \in Seq(Names)
         /\ r.method \in {"session.start", "session.stop"} => r.items = << >>
         /\ r # NoRequest
BY DEF RequestType, Redacting, NoRequest

-----------------------------------------------------------------------------
(* The inductive invariant *)

(* A daemon that has just started has no session and has shown nothing. *)
LEMMA InitIndInv == Init => IndInv
<1> SUFFICES ASSUME Init PROVE IndInv
  OBVIOUS
<1>1. TypeOK
  BY NewSessionConsistent DEF Init, TypeOK, ConnsTyped, StoreTyped, LogTyped,
    GhostTyped, IsMap, EmptyMap, Labels
<1>2. ControlInv
  BY DEF Init, ControlInv
<1>3. OwnerInv
  BY DEF Init, OwnerInv, EmptyMap
<1>4. HolderInv
  BY DEF Init, HolderInv, HoldsSession
<1>5. HeapInv
  BY NewSessionConsistent DEF Init, HeapInv
<1>6. RedactedInv /\ OwnSecretsOnly
  BY DEF Init, RedactedInv, OwnSecretsOnly
<1>7. ShownInv
  BY DEF Init, ShownInv
<1>8. SecretInv
  BY DEF Init, SecretInv, EmptyMap, HoldsSession
<1>9. QED BY <1>1, <1>2, <1>3, <1>4, <1>5, <1>6, <1>7, <1>8 DEF IndInv

(* A request that arrives touches no session. *)
LEMMA ReceiveIndInv ==
  ASSUME IndInv, NEW c \in Conns, NEW r \in Requests, Receive(c, r)
  PROVE  IndInv'
<1> USE DEF IndInv, TypeOK
<1>0. r \in RequestType
  BY RequestsTyped
<1>1. ConnsTyped'
  BY <1>0 DEF Receive, ConnsTyped, Labels, Goto
<1>2. StoreTyped'
  BY DEF Receive, StoreTyped, store
<1>3. LogTyped'
  BY DEF Receive, LogTyped, log
<1>4. GhostTyped'
  BY DEF Receive, GhostTyped
<1>5. ControlInv'
  BY <1>0, RequestFacts DEF Receive, ControlInv, ConnsTyped, Goto, Redacts
<1>6. OwnerInv'
  BY DEF Receive, OwnerInv, store
<1>7. HolderInv'
  BY DEF Receive, HolderInv, HoldsSession, Goto, store
<1>8. HeapInv'
  BY DEF Receive, HeapInv, store
<1>9. RedactedInv'
  BY DEF Receive, RedactedInv, ControlInv, store, Redacts, Resolves
<1>10. OwnSecretsOnly'
  BY DEF Receive, OwnSecretsOnly, ControlInv
<1>11. ShownInv'
  BY DEF Receive, ShownInv, store, Resolves
<1>12. SecretInv'
  BY DEF Receive, SecretInv, HoldsSession, Goto, store, Redacts
<1>13. QED
  BY <1>1, <1>2, <1>3, <1>4, <1>5, <1>6, <1>7, <1>8, <1>9, <1>10, <1>11, <1>12

(* A goroutine that misses holds no session yet. *)
LEMMA LookupMissIndInv ==
  ASSUME IndInv, NEW c \in Conns, UNCHANGED requests, LookupMiss(c)
  PROVE  IndInv'
<1> USE DEF IndInv, TypeOK
<1>1. ConnsTyped'
  BY DEF LookupMiss, ConnsTyped, Labels, Goto
<1>2. StoreTyped'
  BY DEF LookupMiss, StoreTyped, store
<1>3. LogTyped'
  BY DEF LookupMiss, LogTyped, log
<1>4. GhostTyped'
  BY DEF LookupMiss, GhostTyped, ghost
<1>5. ControlInv'
  BY DEF LookupMiss, ControlInv, Goto, Redacts
<1>6. OwnerInv'
  BY DEF LookupMiss, OwnerInv, store
<1>7. HolderInv'
  BY DEF LookupMiss, HolderInv, HoldsSession, Goto, store, ghost
<1>8. HeapInv'
  BY DEF LookupMiss, HeapInv, store
<1>9. RedactedInv'
  BY DEF LookupMiss, RedactedInv, store, Redacts, Resolves
<1>10. OwnSecretsOnly'
  BY DEF LookupMiss, OwnSecretsOnly, ghost
<1>11. ShownInv'
  BY DEF LookupMiss, ShownInv, store, ghost, Resolves
<1>12. SecretInv'
  BY DEF LookupMiss, SecretInv, HoldsSession, Goto, store, ghost, Redacts
<1>13. QED
  BY <1>1, <1>2, <1>3, <1>4, <1>5, <1>6, <1>7, <1>8, <1>9, <1>10, <1>11, <1>12

(* What is shown is what Redact has minted in a live object. *)
LEMMA RecordRedactionsIndInv ==
  ASSUME IndInv, NEW c \in Conns, UNCHANGED requests, RecordRedactions(c)
  PROVE  IndInv'
<1> USE DEF IndInv, TypeOK
<1>0. req[c] \in RequestType
  BY DEF RecordRedactions, ControlInv, ConnsTyped
<1>a. \A k \in Nat : k <= Len(out[c]) =>
        AuditLines(c, k) \subseteq
          [sid : SessionIds, tool : Redacting, name : Names]
  <2>1. /\ req[c].sid \in SessionIds /\ req[c].method \in Redacting
        /\ out[c] \in Seq(Item)
    BY <1>0, RequestFacts DEF RecordRedactions, ControlInv, ConnsTyped,
      Redacts
  <2>2. \A i \in 1 .. Len(out[c]) : out[c][i].name \in Names
    <3>1. \A i \in 1 .. Len(out[c]) : out[c][i] \in Item
      BY <2>1
    <3>2. QED BY <3>1 DEF Item
  <2>3. QED BY <2>1, <2>2 DEF AuditLines
<1>c. Len(out[c]) \in Nat
  OBVIOUS
<1>1. ConnsTyped'
  BY DEF RecordRedactions, ConnsTyped, Labels, Goto
<1>2. StoreTyped'
  BY DEF RecordRedactions, StoreTyped, store
<1>3. LogTyped'
  BY <1>a, <1>c DEF RecordRedactions, LogTyped
<1>4. GhostTyped'
  BY DEF RecordRedactions, GhostTyped, ghost
<1>5. ControlInv'
  BY DEF RecordRedactions, ControlInv, Goto, Redacts
<1>6. OwnerInv'
  BY DEF RecordRedactions, OwnerInv, store
<1>7. HolderInv'
  BY DEF RecordRedactions, HolderInv, HoldsSession, Goto, store, ghost
<1>8. HeapInv'
  BY DEF RecordRedactions, HeapInv, store
<1>9. RedactedInv'
  BY DEF RecordRedactions, RedactedInv, store, Redacts, Resolves
<1>10. OwnSecretsOnly'
  BY DEF RecordRedactions, OwnSecretsOnly, ghost
<1>11. ShownInv'
  BY DEF RecordRedactions, ShownInv, store, ghost, Resolves
<1>12. SecretInv'
  BY DEF RecordRedactions, SecretInv, HoldsSession, Goto, store, ghost,
    Redacts
<1>13. QED
  BY <1>1, <1>2, <1>3, <1>4, <1>5, <1>6, <1>7, <1>8, <1>9, <1>10, <1>11, <1>12

(* The same when the audit log is cut off: the handler answers anyway. *)
LEMMA RecordRedactionsFailsIndInv ==
  ASSUME IndInv, NEW c \in Conns, NEW n \in Nat,
         UNCHANGED requests, RecordRedactionsFails(c, n)
  PROVE  IndInv'
<1> USE DEF IndInv, TypeOK
<1>0. req[c] \in RequestType
  BY DEF RecordRedactionsFails, ControlInv, ConnsTyped
<1>a. \A k \in Nat : k <= Len(out[c]) =>
        AuditLines(c, k) \subseteq
          [sid : SessionIds, tool : Redacting, name : Names]
  <2>1. /\ req[c].sid \in SessionIds /\ req[c].method \in Redacting
        /\ out[c] \in Seq(Item)
    BY <1>0, RequestFacts DEF RecordRedactionsFails, ControlInv, ConnsTyped,
      Redacts
  <2>2. \A i \in 1 .. Len(out[c]) : out[c][i].name \in Names
    <3>1. \A i \in 1 .. Len(out[c]) : out[c][i] \in Item
      BY <2>1
    <3>2. QED BY <3>1 DEF Item
  <2>3. QED BY <2>1, <2>2 DEF AuditLines
<1>c. Len(out[c]) \in Nat
  OBVIOUS
<1>1. ConnsTyped'
  BY DEF RecordRedactionsFails, ConnsTyped, Labels, Goto
<1>2. StoreTyped'
  BY DEF RecordRedactionsFails, StoreTyped, store
<1>3. LogTyped'
  BY <1>a, <1>c DEF RecordRedactionsFails, LogTyped
<1>4. GhostTyped'
  BY DEF RecordRedactionsFails, GhostTyped, ghost
<1>5. ControlInv'
  BY DEF RecordRedactionsFails, ControlInv, Goto, Redacts
<1>6. OwnerInv'
  BY DEF RecordRedactionsFails, OwnerInv, store
<1>7. HolderInv'
  BY DEF RecordRedactionsFails, HolderInv, HoldsSession, Goto, store, ghost
<1>8. HeapInv'
  BY DEF RecordRedactionsFails, HeapInv, store
<1>9. RedactedInv'
  BY DEF RecordRedactionsFails, RedactedInv, store, Redacts, Resolves
<1>10. OwnSecretsOnly'
  BY DEF RecordRedactionsFails, OwnSecretsOnly, ghost
<1>11. ShownInv'
  BY DEF RecordRedactionsFails, ShownInv, store, ghost, Resolves
<1>12. SecretInv'
  BY DEF RecordRedactionsFails, SecretInv, HoldsSession, Goto, store, ghost,
    Redacts
<1>13. QED
  BY <1>1, <1>2, <1>3, <1>4, <1>5, <1>6, <1>7, <1>8, <1>9, <1>10, <1>11, <1>12

(* The first pass only keeps names. *)
LEMMA FindRegisteredIndInv ==
  ASSUME IndInv, NEW c \in Conns, UNCHANGED requests, FindRegistered(c)
  PROVE  IndInv'
<1> USE DEF IndInv, TypeOK
<1>a. Registered(heap[sess[c]], req[c].items[Len(spans[c]) + 1]) \in BOOLEAN
  BY DEF Registered
<1>b. Append(spans[c], Registered(heap[sess[c]], req[c].items[Len(spans[c]) + 1]))
        \in Seq(BOOLEAN)
  BY <1>a DEF ConnsTyped
<1>1. ConnsTyped'
  BY <1>b DEF FindRegistered, Scan, ConnsTyped, Labels, Goto
<1>2. StoreTyped'
  BY DEF FindRegistered, Scan, StoreTyped, store
<1>3. LogTyped'
  BY DEF FindRegistered, Scan, LogTyped, log
<1>4. GhostTyped'
  BY DEF FindRegistered, Scan, GhostTyped, ghost
<1>5. ControlInv'
  BY DEF FindRegistered, Scan, ControlInv, ConnsTyped, Goto, Redacts
<1>6. OwnerInv'
  BY DEF FindRegistered, Scan, OwnerInv, store
<1>7. HolderInv'
  BY DEF FindRegistered, Scan, HolderInv, HoldsSession, Goto, store, ghost
<1>8. HeapInv'
  BY DEF FindRegistered, Scan, HeapInv, store
<1>9. RedactedInv'
  BY DEF FindRegistered, Scan, RedactedInv, store, Redacts, Resolves
<1>10. OwnSecretsOnly'
  BY DEF FindRegistered, Scan, OwnSecretsOnly, ghost
<1>11. ShownInv'
  BY DEF FindRegistered, Scan, ShownInv, store, ghost, Resolves
<1>12. SecretInv'
  BY DEF FindRegistered, Scan, SecretInv, HoldsSession, Goto, store, ghost,
    Redacts
<1>13. QED
  BY <1>1, <1>2, <1>3, <1>4, <1>5, <1>6, <1>7, <1>8, <1>9, <1>10, <1>11, <1>12

(* The second pass reads secrets of the object it holds. *)
LEMMA ResolveIndInv ==
  ASSUME IndInv, NEW c \in Conns, UNCHANGED requests, Resolve(c)
  PROVE  IndInv'
<1> USE DEF IndInv, TypeOK
<1>0. req[c] \in RequestType
  BY DEF Resolve, ControlInv, ConnsTyped
<1>b. /\ sess[c] \in Objects
      /\ owner[sess[c]] = <<req[c].sid, ep[c]>>
      /\ IsSession(heap[sess[c]]) /\ Consistent(heap[sess[c]])
  BY DEF Resolve, HolderInv, HoldsSession, HeapInv, StoreTyped, IsMap
<1> DEFINE n == req[c].items[Len(out[c]) + 1]
           known == spans[c][Len(out[c]) + 1] /\ Registered(heap[sess[c]], n)
           lit == IF known THEN ResolveAlias(heap[sess[c]], n) ELSE PassThrough
<1>c. /\ req[c].items \in Seq(Names) /\ out[c] \in Seq(Item)
      /\ Len(out[c]) < Len(req[c].items)
      /\ req[c].method = "hook.pre_tool"
  BY <1>0, RequestFacts DEF Resolve, ControlInv, ConnsTyped
<1>d. n \in Names
  BY <1>c
<1>e. lit # PassThrough => lit \in DOMAIN heap[sess[c]].byLiteral
  BY <1>b DEF Registered, ResolveAlias, Consistent
<1>f. lit \in Literals \cup {PassThrough}
  BY <1>b, <1>e DEF IsSession, IsMap
<1>g. lit # PassThrough => <<req[c].sid, ep[c], lit>> \in received
  BY <1>b, <1>e DEF SecretInv, HolderInv, HoldsSession, Resolve
<1>h. out' = [out EXCEPT ![c] = Append(@, [name |-> n, lit |-> lit])]
  BY DEF Resolve
<1> HIDE DEF n, lit
<1>i. Append(out[c], [name |-> n, lit |-> lit]) \in Seq(Item)
  BY <1>c, <1>d, <1>f DEF Item
<1>1. ConnsTyped'
  BY <1>h, <1>i DEF Resolve, ConnsTyped, Labels, Goto
<1>2. StoreTyped'
  BY DEF Resolve, StoreTyped, store
<1>3. LogTyped'
  BY DEF Resolve, LogTyped, log
<1>4. GhostTyped'
  BY DEF Resolve, GhostTyped, ghost
<1>5. ControlInv'
  BY <1>0, <1>c, <1>h DEF Resolve, ControlInv, ConnsTyped, Goto, Redacts
<1>6. OwnerInv'
  BY DEF Resolve, OwnerInv, store
<1>7. HolderInv'
  BY DEF Resolve, HolderInv, HoldsSession, Goto, store, ghost
<1>8. HeapInv'
  BY DEF Resolve, HeapInv, store
<1>9. RedactedInv'
  BY <1>c, <1>h DEF Resolve, RedactedInv, store, Redacts, Redacting, Resolves
<1>10. OwnSecretsOnly'
  <2>1. ASSUME NEW d \in Conns, req'[d].method = "hook.pre_tool",
               NEW i \in DOMAIN out'[d], out'[d][i].lit # PassThrough
        PROVE  <<req'[d].sid, ep'[d], out'[d][i].lit>> \in received'
    <3>1. CASE d = c
      <4>1. out'[c] = Append(out[c], [name |-> n, lit |-> lit])
        BY <1>h DEF ConnsTyped
      <4>a. DOMAIN out'[c] = DOMAIN out[c] \cup {Len(out[c]) + 1}
        BY <4>1, <1>c
      <4>2. CASE i \in DOMAIN out[c]
        BY <2>1, <3>1, <4>1, <4>2, <1>c DEF Resolve, OwnSecretsOnly, ghost
      <4>3. CASE i = Len(out[c]) + 1
        <5>1. out'[c][i] = [name |-> n, lit |-> lit]
          BY <4>1, <4>3, <1>c
        <5>2. out'[c][i].lit = lit
          BY <5>1
        <5>3. UNCHANGED <<req, ep, received>>
          BY DEF Resolve, ghost
        <5>4. QED BY <2>1, <3>1, <5>2, <5>3, <1>g
      <4>4. QED BY <2>1, <3>1, <4>a, <4>2, <4>3
    <3>2. CASE d # c
      BY <2>1, <3>2, <1>h DEF Resolve, OwnSecretsOnly, ghost
    <3>3. QED BY <3>1, <3>2
  <2>2. QED BY <2>1 DEF OwnSecretsOnly
<1>11. ShownInv'
  BY DEF Resolve, ShownInv, store, ghost, Resolves
<1>12. SecretInv'
  BY DEF Resolve, SecretInv, HoldsSession, Goto, store, ghost, Redacts
<1>13. QED
  BY <1>1, <1>2, <1>3, <1>4, <1>5, <1>6, <1>7, <1>8, <1>9, <1>10, <1>11, <1>12

(* An answer leaves the sessions alone. *)
LEMMA AnswerIndInv ==
  ASSUME IndInv, NEW c \in Conns, UNCHANGED requests, Answer(c)
  PROVE  IndInv'
<1> USE DEF IndInv, TypeOK
<1>a. /\ req[c] \in RequestType /\ pc[c] = "answer"
      /\ ep[c] \in Nat
  BY DEF Answer, ControlInv, ConnsTyped, GhostTyped
<1>b. Redacts(c) =>
        /\ sess[c] \in DOMAIN owner /\ sess[c] \in Objects
        /\ owner[sess[c]] = <<req[c].sid, ep[c]>>
        /\ IsSession(heap[sess[c]])
  BY <1>a DEF HolderInv, HoldsSession, Redacts, Redacting, StoreTyped, IsMap
<1>c. ASSUME Redacts(c), NEW s \in ShownBy(c)
      PROVE  /\ s \in ShownType
             /\ owner[sess[c]] = <<s.sid, s.epoch>>
             /\ Resolves(sess[c], s.name, s.lit)
  <2>1. PICK i \in DOMAIN out[c] :
          s = [sid |-> req[c].sid, epoch |-> ep[c], tool |-> req[c].method,
               name |-> out[c][i].name, lit |-> out[c][i].lit]
    BY DEF ShownBy
  <2>2. Resolves(sess[c], s.name, s.lit)
    BY <1>c, <2>1 DEF RedactedInv
  <2>3. s.name \in Names /\ s.lit \in Literals
    BY <1>b, <1>c, <2>2 DEF Resolves, Registered, ResolveAlias, IsSession,
      IsMap
  <2>4. QED BY <1>a, <1>b, <1>c, <2>1, <2>2, <2>3, RequestFacts DEF ShownType,
    Redacts
<1>1. ConnsTyped'
  <2>1. << >> \in Seq(BOOLEAN) /\ << >> \in Seq(Item)
    OBVIOUS
  <2>2. QED BY <2>1 DEF Answer, ConnsTyped, Labels
<1>2. StoreTyped'
  BY DEF Answer, StoreTyped, store
<1>3. LogTyped'
  BY DEF Answer, LogTyped, log
<1>4. GhostTyped'
  BY <1>c DEF Answer, GhostTyped
<1>5. ControlInv'
  BY DEF Answer, ControlInv, ConnsTyped, Redacts
<1>6. OwnerInv'
  BY DEF Answer, OwnerInv, store
<1>7. HolderInv'
  BY DEF Answer, HolderInv, HoldsSession, ConnsTyped, store
<1>8. HeapInv'
  BY DEF Answer, HeapInv, store
<1>9. RedactedInv'
  BY DEF Answer, RedactedInv, ConnsTyped, store, Redacts, Resolves
<1>10. OwnSecretsOnly'
  BY DEF Answer, OwnSecretsOnly, ConnsTyped
<1>11. ShownInv'
  BY <1>b, <1>c DEF Answer, ShownInv, store, Resolves
<1>12. SecretInv'
  BY DEF Answer, SecretInv, HoldsSession, ConnsTyped, store, Redacts
<1>13. QED
  BY <1>1, <1>2, <1>3, <1>4, <1>5, <1>6, <1>7, <1>8, <1>9, <1>10, <1>11, <1>12

(* A stop begins a new epoch of the id and drops its object. *)
LEMMA SessionStopIndInv ==
  ASSUME IndInv, NEW c \in Conns, UNCHANGED requests, SessionStop(c)
  PROVE  IndInv'
<1> USE DEF IndInv, TypeOK
<1>0. req[c] \in RequestType
  BY DEF SessionStop, ControlInv, ConnsTyped
<1>a. req[c].sid \in SessionIds
  BY <1>0, RequestFacts
<1>b. req[c].method = "session.stop"
  BY DEF ControlInv, SessionStop
<1>1. ConnsTyped'
  BY DEF SessionStop, Drop, ConnsTyped, Labels, Goto
<1>2. StoreTyped'
  BY <1>a DEF SessionStop, Drop, StoreTyped, IsMap, MapDelete
<1>3. LogTyped'
  BY DEF SessionStop, Drop, LogTyped, log
<1>4. GhostTyped'
  BY DEF SessionStop, Drop, GhostTyped, ghost
<1>5. ControlInv'
  BY DEF SessionStop, Drop, ControlInv, Goto, Redacts
<1>6. OwnerInv'
  BY <1>a DEF SessionStop, Drop, OwnerInv, StoreTyped, IsMap, MapDelete
<1>7. HolderInv'
  BY <1>b DEF SessionStop, Drop, HolderInv, HoldsSession, Goto, ghost
<1>8. HeapInv'
  BY DEF SessionStop, Drop, HeapInv
<1>9. RedactedInv'
  BY DEF SessionStop, Drop, RedactedInv, Redacts, Resolves
<1>10. OwnSecretsOnly'
  BY DEF SessionStop, Drop, OwnSecretsOnly, ghost
<1>11. ShownInv'
  BY DEF SessionStop, Drop, ShownInv, ghost, Resolves
<1>12. SecretInv'
  BY <1>b DEF SessionStop, Drop, SecretInv, HoldsSession, Goto, ghost, Redacts
<1>13. QED
  BY <1>1, <1>2, <1>3, <1>4, <1>5, <1>6, <1>7, <1>8, <1>9, <1>10, <1>11, <1>12

(* A restart begins a new epoch of every id and forgets all objects. *)
LEMMA RestartIndInv ==
  ASSUME IndInv, Restart
  PROVE  IndInv'
<1> USE DEF IndInv, TypeOK
<1>1. ConnsTyped'
  BY DEF Restart, ConnsTyped, Labels
<1>2. StoreTyped'
  BY DEF Restart, StoreTyped, IsMap, EmptyMap
<1>3. LogTyped'
  BY DEF Restart, LogTyped, log
<1>4. GhostTyped'
  BY DEF Restart, GhostTyped
<1>5. ControlInv'
  BY DEF Restart, ControlInv
<1>6. OwnerInv'
  BY DEF Restart, OwnerInv, StoreTyped, IsMap, EmptyMap
<1>7. HolderInv'
  BY DEF Restart, HolderInv, HoldsSession
<1>8. HeapInv'
  BY DEF Restart, HeapInv
<1>9. RedactedInv'
  BY DEF Restart, RedactedInv
<1>10. OwnSecretsOnly'
  BY DEF Restart, OwnSecretsOnly
<1>11. ShownInv'
  BY DEF Restart, ShownInv, Resolves
<1>12. SecretInv'
  BY DEF Restart, SecretInv, HoldsSession
<1>13. QED
  BY <1>1, <1>2, <1>3, <1>4, <1>5, <1>6, <1>7, <1>8, <1>9, <1>10, <1>11, <1>12

(* A goroutine that has got its session goes on to its handler. *)
LEMMA GotSessionIndInv ==
  ASSUME IndInv, NEW c \in Conns, pc[c] \in {"lookup", "create"},
         req[c].sid \in DOMAIN registry,
         UNCHANGED <<req, spans, out, store, log, requests, shown, must>>,
         Obtain(c, registry[req[c].sid])
  PROVE  IndInv'
<1> USE DEF IndInv, TypeOK
<1>0. req[c] \in RequestType /\ out[c] = << >> /\ spans[c] = << >>
      /\ req[c].method # "session.stop" /\ pc[c] \in {"lookup", "create"}
  BY DEF ControlInv, ConnsTyped
<1>a. req[c].sid \in SessionIds /\ epoch[req[c].sid] \in Nat
  BY <1>0, RequestFacts DEF StoreTyped
<1>b. req[c].items # << >> => Len(req[c].items) > 0
  BY <1>0
<1>c. Redacts(c) => Secrets(req[c]) \subseteq Literals
  <2>1. SUFFICES ASSUME Redacts(c), NEW i \in DOMAIN req[c].items
                 PROVE  req[c].items[i].lit \in Literals
    BY DEF Secrets
  <2>2. req[c].items \in Seq(Finding)
    BY <1>0, <2>1, RequestFacts DEF Redacts
  <2>3. req[c].items[i] \in Finding
    BY <2>2
  <2>4. QED BY <2>3 DEF Finding
<1>d. received \subseteq received'
  BY DEF Obtain
<1>o. registry[req[c].sid] \in Objects
  BY <1>a DEF StoreTyped, IsMap
<1>1. ConnsTyped'
  BY <1>o DEF Obtain, AfterGet, ConnsTyped, Labels, Goto
<1>2. StoreTyped'
  BY DEF StoreTyped, store
<1>3. LogTyped'
  BY DEF LogTyped, log
<1>4. GhostTyped'
  BY <1>a, <1>c DEF Obtain, GhostTyped
<1>5. ControlInv'
  BY <1>0, <1>b, RequestFacts DEF Obtain, AfterGet, ControlInv, Goto, Redacts,
    Redacting
<1>6. OwnerInv'
  BY DEF OwnerInv, store
<1>7. HolderInv'
  <2>1. SUFFICES ASSUME NEW d \in Conns, HoldsSession(d)'
                 PROVE  sess'[d] \in DOMAIN owner'
                        /\ owner'[sess'[d]] = <<req'[d].sid, ep'[d]>>
    BY DEF HolderInv
  <2>2. CASE d = c
    BY <1>o, <2>2 DEF Obtain, OwnerInv, ConnsTyped, GhostTyped, store
  <2>3. CASE d # c
    <3>1. HoldsSession(d) /\ sess'[d] = sess[d] /\ ep'[d] = ep[d]
      BY <2>1, <2>3 DEF Obtain, HoldsSession, Goto
    <3>2. QED BY <3>1, <1>o DEF HolderInv, store
  <2>4. QED BY <2>2, <2>3
<1>8. HeapInv'
  BY DEF HeapInv, store
<1>9. RedactedInv'
  BY <1>0 DEF Obtain, RedactedInv, store, Redacts, Resolves
<1>10. OwnSecretsOnly'
  BY <1>0, <1>d DEF Obtain, OwnSecretsOnly
<1>11. ShownInv'
  BY DEF ShownInv, store, Resolves
<1>12. SecretInv'
  <2>1. ASSUME NEW d \in Conns, HoldsSession(d)', Redacts(d)',
               NEW l \in Secrets(req[d])
        PROVE  <<req[d].sid, ep'[d], l>> \in received'
    <3>1. CASE d = c
      BY <2>1, <3>1 DEF Obtain, GhostTyped, Redacts
    <3>2. CASE d # c
      BY <2>1, <3>2, <1>d DEF Obtain, SecretInv, HoldsSession, Redacts, Goto
    <3>3. QED BY <3>1, <3>2
  <2>2. QED BY <2>1, <1>d DEF SecretInv, store
<1>13. QED
  BY <1>1, <1>2, <1>3, <1>4, <1>5, <1>6, <1>7, <1>8, <1>9, <1>10, <1>11, <1>12

(* Only an id without a session gets a new one, for its current epoch. *)
LEMMA CreateIndInv ==
  ASSUME IndInv, NEW c \in Conns, UNCHANGED requests, Create(c)
  PROVE  IndInv'
<1> USE DEF IndInv, TypeOK
<1>0. req[c] \in RequestType /\ out[c] = << >> /\ spans[c] = << >>
      /\ req[c].method # "session.stop" /\ pc[c] \in {"lookup", "create"}
  BY DEF Create, ControlInv, ConnsTyped
<1>a. req[c].sid \in SessionIds /\ epoch[req[c].sid] \in Nat
  BY <1>0, RequestFacts DEF StoreTyped
<1>b. req[c].items # << >> => Len(req[c].items) > 0
  BY <1>0
<1>c. Redacts(c) => Secrets(req[c]) \subseteq Literals
  <2>1. SUFFICES ASSUME Redacts(c), NEW i \in DOMAIN req[c].items
                 PROVE  req[c].items[i].lit \in Literals
    BY DEF Secrets
  <2>2. req[c].items \in Seq(Finding)
    BY <1>0, <2>1, RequestFacts DEF Redacts
  <2>3. req[c].items[i] \in Finding
    BY <2>2
  <2>4. QED BY <2>3 DEF Finding
<1>d. received \subseteq received'
  BY DEF Create, Install, Obtain
<1> DEFINE o == FreshObject
<1>o. o \in Objects /\ o \notin DOMAIN owner
  <2>1. \E x \in Objects : x \notin DOMAIN owner
    BY DEF Create, Install, StoreTyped, IsMap
  <2>2. QED BY <2>1 DEF FreshObject
<1> HIDE DEF o
<1>e. /\ registry' = MapPut(registry, req[c].sid, o)
      /\ heap' = [heap EXCEPT ![o] = NewSession]
      /\ owner' = MapPut(owner, o, <<req[c].sid, epoch[req[c].sid]>>)
      /\ Obtain(c, o)
      /\ UNCHANGED <<req, spans, out, epoch, log, shown, must>>
      /\ req[c].sid \notin DOMAIN registry
  BY DEF Create, Install, o
<1>f. /\ \A p \in DOMAIN owner : heap'[p] = heap[p] /\ owner'[p] = owner[p]
      /\ DOMAIN owner' = DOMAIN owner \cup {o}
      /\ owner'[o] = <<req[c].sid, epoch[req[c].sid]>>
      /\ heap'[o] = NewSession
  BY <1>e, <1>o DEF MapPut, StoreTyped
<1>1. ConnsTyped'
  BY <1>e, <1>o DEF Obtain, AfterGet, ConnsTyped, Labels, Goto
<1>2. StoreTyped'
  <2>1. IsMap(registry, SessionIds, Objects)'
    BY <1>a, <1>e, <1>o DEF StoreTyped, IsMap, MapPut
  <2>2. IsMap(owner, Objects, SessionIds \X Nat)'
    BY <1>a, <1>e, <1>o DEF StoreTyped, IsMap, MapPut
  <2>3. QED BY <1>e, <1>o, <2>1, <2>2, NewSessionConsistent DEF StoreTyped
<1>3. LogTyped'
  BY <1>e DEF LogTyped, log
<1>4. GhostTyped'
  BY <1>a, <1>c, <1>e DEF Obtain, GhostTyped
<1>5. ControlInv'
  BY <1>0, <1>b, <1>e, RequestFacts DEF Obtain, AfterGet, ControlInv, Goto,
    Redacts, Redacting
<1>6. OwnerInv'
  <2>1. ASSUME NEW s \in DOMAIN registry'
        PROVE  registry'[s] \in DOMAIN owner'
               /\ owner'[registry'[s]] = <<s, epoch'[s]>>
    BY <1>e, <1>f, <2>1 DEF OwnerInv, MapPut
  <2>2. ASSUME NEW p \in DOMAIN owner'
        PROVE  /\ owner'[p][2] <= epoch'[owner'[p][1]]
               /\ owner'[p][2] = epoch'[owner'[p][1]] =>
                    /\ owner'[p][1] \in DOMAIN registry'
                    /\ registry'[owner'[p][1]] = p
    <3>1. CASE p = o
      BY <1>a, <1>e, <1>f, <3>1 DEF MapPut
    <3>2. CASE p # o
      BY <1>e, <1>f, <2>2, <3>2 DEF OwnerInv, MapPut
    <3>3. QED BY <3>1, <3>2
  <2>3. ASSUME NEW p \in DOMAIN owner', NEW q \in DOMAIN owner',
               owner'[p] = owner'[q]
        PROVE  p = q
    <3>1. \A x \in DOMAIN owner : owner[x] # <<req[c].sid, epoch[req[c].sid]>>
      BY <1>e DEF OwnerInv
    <3>2. \A x \in DOMAIN owner : owner'[x] # owner'[o]
      BY <1>f, <3>1
    <3>3. CASE p \in DOMAIN owner /\ q \in DOMAIN owner
      BY <1>f, <2>3, <3>3 DEF OwnerInv
    <3>4. QED BY <1>f, <2>3, <3>2, <3>3
  <2>4. QED BY <2>1, <2>2, <2>3 DEF OwnerInv
<1>7. HolderInv'
  <2>1. SUFFICES ASSUME NEW d \in Conns, HoldsSession(d)'
                 PROVE  sess'[d] \in DOMAIN owner'
                        /\ owner'[sess'[d]] = <<req'[d].sid, ep'[d]>>
    BY DEF HolderInv
  <2>2. CASE d = c
    BY <1>e, <1>f, <2>2 DEF Obtain, ConnsTyped, GhostTyped
  <2>3. CASE d # c
    <3>1. HoldsSession(d) /\ sess'[d] = sess[d] /\ ep'[d] = ep[d]
      BY <1>e, <2>1, <2>3 DEF Obtain, HoldsSession, Goto
    <3>2. QED BY <3>1, <1>e, <1>f DEF HolderInv
  <2>4. QED BY <2>2, <2>3
<1>8. HeapInv'
  BY <1>e, <1>o, NewSessionConsistent DEF HeapInv
<1>9. RedactedInv'
  <2>1. ASSUME NEW d \in Conns, Redacts(d), NEW i \in DOMAIN out[d]
        PROVE  Resolves(sess[d], out[d][i].name, out[d][i].lit)'
    <3>1. d # c /\ HoldsSession(d)
      BY <1>0, <2>1 DEF ControlInv, HoldsSession, ConnsTyped, Labels
    <3>2. sess[d] \in DOMAIN owner /\ sess'[d] = sess[d]
      BY <1>e, <3>1 DEF HolderInv, Obtain
    <3>3. QED BY <1>e, <1>f, <2>1, <3>2 DEF RedactedInv, Resolves
  <2>2. QED BY <1>e, <2>1 DEF RedactedInv, Redacts
<1>10. OwnSecretsOnly'
  BY <1>0, <1>d, <1>e DEF Obtain, OwnSecretsOnly
<1>11. ShownInv'
  BY <1>e, <1>f DEF ShownInv, Resolves
<1>12. SecretInv'
  <2>1. ASSUME NEW d \in Conns, HoldsSession(d)', Redacts(d)',
               NEW l \in Secrets(req[d])
        PROVE  <<req[d].sid, ep'[d], l>> \in received'
    <3>1. CASE d = c
      BY <1>e, <2>1, <3>1 DEF Obtain, GhostTyped, Redacts
    <3>2. CASE d # c
      BY <1>e, <2>1, <3>2, <1>d DEF Obtain, SecretInv, HoldsSession, Redacts,
        Goto
    <3>3. QED BY <3>1, <3>2
  <2>2. DOMAIN NewSession.byLiteral = {}
    BY DEF NewSession, EmptyMap
  <2>3. QED BY <1>d, <1>e, <1>f, <2>1, <2>2 DEF SecretInv
<1>13. QED
  BY <1>1, <1>2, <1>3, <1>4, <1>5, <1>6, <1>7, <1>8, <1>9, <1>10, <1>11, <1>12

(* The pass that redacts mints in the object the request holds.             *)
LEMMA RedactIndInv ==
  ASSUME IndInv, NEW c \in Conns, UNCHANGED requests, Redact(c)
  PROVE  IndInv'
<1> USE DEF IndInv, TypeOK
<1>0. req[c] \in RequestType
  BY DEF Redact, ControlInv, ConnsTyped
<1>b. /\ sess[c] \in Objects
      /\ owner[sess[c]] = <<req[c].sid, ep[c]>>
      /\ IsSession(heap[sess[c]]) /\ Consistent(heap[sess[c]])
  BY DEF Redact, HolderInv, HoldsSession, HeapInv, StoreTyped, IsMap
<1> DEFINE o == sess[c]
           f == req[c].items[Len(out[c]) + 1]
           r == PlaceholderFor(heap[o], f.lit, f.prefix)
           item == [name |-> r.name, lit |-> f.lit]
<1>c. /\ req[c].items \in Seq(Finding) /\ out[c] \in Seq(Item)
      /\ Len(out[c]) < Len(req[c].items) /\ Redacts(c) /\ HoldsSession(c)
      /\ o \in DOMAIN owner /\ o \in Objects
  BY <1>0, <1>b, RequestFacts DEF Redact, ControlInv, ConnsTyped, Redacts,
    HoldsSession, HolderInv
<1>d. f \in Finding /\ f.lit \in Literals /\ f.prefix \in Prefixes
  <2>1. f \in Finding
    BY <1>c
  <2>2. QED BY <2>1 DEF Finding
<1> HIDE DEF f
<1>e. /\ IsSession(r.session) /\ Consistent(r.session)
      /\ r.name \in Names /\ r.name # NoName
      /\ r.name \in DOMAIN r.session.byName
      /\ r.session.byName[r.name] = f.lit
      /\ \A m \in DOMAIN heap[o].byName :
           /\ m \in DOMAIN r.session.byName
           /\ r.session.byName[m] = heap[o].byName[m]
      /\ DOMAIN r.session.byLiteral = DOMAIN heap[o].byLiteral \cup {f.lit}
  BY <1>b, <1>d, PlaceholderForSound
<1>f. <<req[c].sid, ep[c], f.lit>> \in received
  <2>1. f.lit \in Secrets(req[c])
    BY <1>c DEF Secrets, f
  <2>2. QED BY <1>c, <2>1 DEF SecretInv
<1>g. /\ heap' = [heap EXCEPT ![o] = r.session]
      /\ out' = [out EXCEPT ![c] = Append(@, item)]
      /\ \/ Goto(c, "record") /\ Len(out[c]) + 1 = Len(req[c].items)
         \/ Goto(c, "redact") /\ Len(out[c]) + 1 # Len(req[c].items)
      /\ UNCHANGED <<req, sess, spans, registry, owner, epoch, log, ghost>>
      /\ pc[c] = "redact"
  BY <1>e DEF Redact, f
<1>h. /\ out[c] \in Seq(Item) /\ Append(out[c], item) \in Seq(Item)
      /\ Len(Append(out[c], item)) = Len(out[c]) + 1
  <2>1. item \in Item
    BY <1>d, <1>e DEF Item
  <2>2. QED BY <1>c, <2>1
<1>i. /\ heap'[o] = r.session
      /\ \A p \in Objects : p # o => heap'[p] = heap[p]
      /\ heap' = [p \in Objects |-> heap'[p]]
  BY <1>c, <1>g DEF StoreTyped
<1> HIDE DEF r, item
<1>j. ASSUME NEW p \in Objects, NEW m, NEW l, Resolves(p, m, l)
      PROVE  Registered(heap'[p], m) /\ ResolveAlias(heap'[p], m) = l
  BY <1>e, <1>i, <1>j DEF Resolves, Registered, ResolveAlias
<1>k. /\ DOMAIN owner \subseteq Objects
      /\ \A d \in Conns : HoldsSession(d) => sess[d] \in DOMAIN owner
  BY DEF StoreTyped, IsMap, HolderInv
<1>1. ConnsTyped'
  BY <1>g, <1>h DEF ConnsTyped, Labels, Goto
<1>2. StoreTyped'
  BY <1>e, <1>g, <1>i DEF StoreTyped
<1>3. LogTyped'
  BY <1>g DEF LogTyped, log
<1>4. GhostTyped'
  BY <1>g DEF GhostTyped, ghost
<1>5. ControlInv'
  BY <1>0, <1>c, <1>g, <1>h, RequestFacts DEF ControlInv, ConnsTyped, Goto,
    Redacts
<1>6. OwnerInv'
  BY <1>g DEF OwnerInv
<1>7. HolderInv'
  BY <1>c, <1>g DEF HolderInv, HoldsSession, ConnsTyped, Goto, ghost
<1>8. HeapInv'
  BY <1>e, <1>i DEF HeapInv
<1>9. RedactedInv'
  <2>1. SUFFICES ASSUME NEW d \in Conns, Redacts(d), NEW i \in DOMAIN out'[d]
                 PROVE  /\ Registered(heap'[sess[d]], out'[d][i].name)
                        /\ ResolveAlias(heap'[sess[d]], out'[d][i].name)
                             = out'[d][i].lit
    BY <1>g DEF RedactedInv, Resolves, Redacts
  <2>2. CASE d # c \/ i \in DOMAIN out[c]
    <3>1. i \in DOMAIN out[d] /\ out'[d][i] = out[d][i]
      BY <1>g, <1>h, <2>1, <2>2
    <3>2. HoldsSession(d)
      BY <2>1, <3>1 DEF ControlInv, HoldsSession, ConnsTyped, Labels
    <3>3. sess[d] \in Objects
      BY <1>k, <3>2
    <3>4. Resolves(sess[d], out[d][i].name, out[d][i].lit)
      BY <2>1, <3>1 DEF RedactedInv
    <3>5. QED BY <1>j, <3>1, <3>3, <3>4
  <2>3. CASE d = c /\ i \notin DOMAIN out[c]
    <3>1. out'[c] = Append(out[c], item)
      BY <1>g DEF ConnsTyped
    <3>2. i = Len(out[c]) + 1
      BY <1>h, <2>1, <2>3, <3>1
    <3>3. out'[c][i] = item
      BY <1>h, <3>1, <3>2
    <3>4. item.name = r.name /\ item.lit = f.lit
      BY DEF item
    <3>5. QED BY <1>e, <1>i, <2>3, <3>3, <3>4 DEF Registered, ResolveAlias
  <2>4. QED BY <2>2, <2>3
<1>10. OwnSecretsOnly'
  <2>1. ASSUME NEW d \in Conns, req[d].method = "hook.pre_tool"
        PROVE  out'[d] = out[d]
    BY <1>c, <1>g, <2>1 DEF Redacts, Redacting
  <2>2. UNCHANGED <<req, ep, received>>
    BY <1>g DEF ghost
  <2>3. QED BY <2>1, <2>2 DEF OwnSecretsOnly
<1>11. ShownInv'
  <2>1. SUFFICES ASSUME NEW s \in shown
                 PROVE  \E p \in DOMAIN owner :
                          /\ owner[p] = <<s.sid, s.epoch>>
                          /\ Registered(heap'[p], s.name)
                          /\ ResolveAlias(heap'[p], s.name) = s.lit
    BY <1>g DEF ShownInv, ghost, Resolves
  <2>2. QED BY <1>j, <1>k DEF ShownInv
<1>12. SecretInv'
  <2>1. ASSUME NEW p \in DOMAIN owner, NEW l \in DOMAIN heap'[p].byLiteral
        PROVE  <<owner[p][1], owner[p][2], l>> \in received
    BY <1>b, <1>e, <1>f, <1>i, <1>k, <2>1 DEF SecretInv
  <2>2. ASSUME NEW d \in Conns, HoldsSession(d)'
        PROVE  HoldsSession(d)
    BY <1>c, <1>g, <2>2 DEF HoldsSession, ConnsTyped, Goto
  <2>3. QED BY <1>g, <2>1, <2>2 DEF SecretInv, ghost, Redacts
<1>13. QED
  BY <1>1, <1>2, <1>3, <1>4, <1>5, <1>6, <1>7, <1>8, <1>9, <1>10, <1>11, <1>12

-----------------------------------------------------------------------------
(* The theorems *)

(* A step that changes nothing. *)
LEMMA StutterIndInv ==
  ASSUME IndInv, UNCHANGED vars
  PROVE  IndInv'
<1> USE DEF IndInv, vars
<1>1. TypeOK'
  BY DEF TypeOK, ConnsTyped, StoreTyped, LogTyped, GhostTyped, conns, store,
    log, ghost
<1>2. ControlInv'
  BY DEF ControlInv, conns, Redacts
<1>3. OwnerInv'
  BY DEF OwnerInv, store
<1>4. HolderInv'
  BY DEF HolderInv, HoldsSession, conns, store, ghost
<1>5. HeapInv'
  BY DEF HeapInv, store
<1>6. RedactedInv'
  BY DEF RedactedInv, conns, store, Redacts, Resolves
<1>7. ShownInv'
  BY DEF ShownInv, store, ghost, Resolves
<1>8. SecretInv'
  BY DEF SecretInv, HoldsSession, conns, store, ghost, Redacts
<1>9. OwnSecretsOnly'
  BY DEF OwnSecretsOnly, conns, ghost
<1>10. QED
  BY <1>1, <1>2, <1>3, <1>4, <1>5, <1>6, <1>7, <1>8, <1>9

(* The invariant holds at every step of the daemon: each action re-          *)
(* establishes what it says of the session objects and their holders.        *)
THEOREM IndInvHolds == Spec => []IndInv
<1>1. ASSUME IndInv, [Next]_vars PROVE IndInv'
  <2> USE <1>1
  <2>1. ASSUME NEW c \in Conns, NEW r \in Requests, Receive(c, r)
        PROVE  IndInv'
    BY <2>1, ReceiveIndInv
  <2>2. ASSUME NEW c \in Conns, Step(c), UNCHANGED requests
        PROVE  IndInv'
    <3> USE <2>2
    <3>1. CASE LookupHit(c)
      BY <3>1, GotSessionIndInv DEF LookupHit
    <3>2. CASE LookupMiss(c)
      BY <3>2, LookupMissIndInv
    <3>3. CASE RecheckHit(c)
      BY <3>3, GotSessionIndInv DEF RecheckHit
    <3>4. CASE Create(c)
      BY <3>4, CreateIndInv
    <3>5. CASE Redact(c)
      BY <3>5, RedactIndInv
    <3>6. CASE RecordRedactions(c)
      BY <3>6, RecordRedactionsIndInv
    <3>7. ASSUME NEW n \in 0 .. MaxItems, RecordRedactionsFails(c, n)
          PROVE  IndInv'
      BY <3>7, RecordRedactionsFailsIndInv
    <3>8. CASE FindRegistered(c)
      BY <3>8, FindRegisteredIndInv
    <3>9. CASE Resolve(c)
      BY <3>9, ResolveIndInv
    <3>10. CASE Answer(c)
      BY <3>10, AnswerIndInv
    <3>11. CASE SessionStop(c)
      BY <3>11, SessionStopIndInv
    <3>12. QED
      BY <2>2, <3>1, <3>2, <3>3, <3>4, <3>5, <3>6, <3>7, <3>8, <3>9, <3>10,
        <3>11 DEF Step
  <2>3. CASE Restart
    BY <2>3, RestartIndInv
  <2>4. CASE UNCHANGED vars
    BY <2>4, StutterIndInv
  <2>5. QED
    BY <1>1, <2>1, <2>2, <2>3, <2>4 DEF Next, Quiet
<1>2. QED BY InitIndInv, <1>1, PTL DEF Spec

(* Every variable keeps its type.                                           *)
THEOREM TypeCorrect == Spec => []TypeOK
<1>1. IndInv => TypeOK
  BY DEF IndInv
<1>2. QED BY IndInvHolds, <1>1, PTL

(* What a client was shown resolves in its live session.                    *)
THEOREM ShownResolvesHolds == Spec => []ShownResolves
<1>1. IndInv => ShownResolves
  <2>1. SUFFICES ASSUME IndInv, NEW s \in shown, s.epoch = epoch[s.sid]
                 PROVE  /\ s.sid \in DOMAIN registry
                        /\ Resolves(registry[s.sid], s.name, s.lit)
    BY DEF ShownResolves, Resolves
  <2>2. PICK o \in DOMAIN owner : /\ owner[o] = <<s.sid, s.epoch>>
                                 /\ Resolves(o, s.name, s.lit)
    BY <2>1 DEF IndInv, ShownInv
  <2>3. s.sid \in DOMAIN registry /\ registry[s.sid] = o
    BY <2>1, <2>2 DEF IndInv, OwnerInv
  <2>4. QED BY <2>2, <2>3
<1>2. QED BY IndInvHolds, <1>1, PTL

(* One placeholder per secret and one secret per placeholder within the     *)
(* life of a session, over all answers it ever gave.                        *)
THEOREM OneNamePerLiteralHolds == Spec => []OneNamePerLiteral
<1>1. IndInv => OneNamePerLiteral
  <2>1. SUFFICES ASSUME IndInv, NEW s \in shown, NEW t \in shown,
                        s.sid = t.sid, s.epoch = t.epoch
                 PROVE  s.name = t.name <=> s.lit = t.lit
    BY DEF OneNamePerLiteral
  <2>2. PICK o \in DOMAIN owner : /\ owner[o] = <<s.sid, s.epoch>>
                                 /\ Resolves(o, s.name, s.lit)
    BY <2>1 DEF IndInv, ShownInv
  <2>3. PICK p \in DOMAIN owner : /\ owner[p] = <<t.sid, t.epoch>>
                                 /\ Resolves(p, t.name, t.lit)
    BY <2>1 DEF IndInv, ShownInv
  <2>4. o = p
    BY <2>1, <2>2, <2>3 DEF IndInv, OwnerInv
  <2>5. Consistent(heap[o])
    BY <2>1 DEF IndInv, HeapInv, TypeOK, StoreTyped, IsMap
  <2>6. QED BY <2>2, <2>3, <2>4, <2>5 DEF Consistent, Resolves, Registered,
    ResolveAlias
<1>2. QED BY IndInvHolds, <1>1, PTL

(* Rehydration never crosses from one session, or one life of a session, to *)
(* another.                                                                 *)
THEOREM OwnSecretsOnlyHolds == Spec => []OwnSecretsOnly
<1>1. IndInv => OwnSecretsOnly
  BY DEF IndInv
<1>2. QED BY IndInvHolds, <1>1, PTL

(* PlaceholderFor's defensive branch is dead code.                          *)
THEOREM NoMintCollisionHolds == Spec => []NoMintCollision
<1>1. IndInv => NoMintCollision
  BY DEF IndInv, ControlInv, NoMintCollision
<1>2. QED BY IndInvHolds, <1>1, PTL

-----------------------------------------------------------------------------
(* Redactions are audited before they are shown *)

AuditLine(sid, tool, name) == [sid |-> sid, tool |-> tool, name |-> name]

(* An answer that is about to leave has its redactions in the log *)
AnswerAudited(c) ==
  pc[c] = "answer" /\ Redacts(c) =>
    \A i \in DOMAIN out[c] :
      AuditLine(req[c].sid, req[c].method, out[c][i].name) \in audit

AuditedInv ==
  auditErrors = 0 => ShownIsAudited /\ \A c \in Conns : AnswerAudited(c)

(* The log only grows, and a failing Append is counted.                     *)
LEMMA AuditGrows ==
  ASSUME IndInv, [Next]_vars, auditErrors' = 0
  PROVE  audit \subseteq audit' /\ auditErrors = 0
<1>1. auditErrors \in Nat
  BY DEF IndInv, TypeOK, LogTyped
<1>2. ASSUME NEW c \in Conns, Step(c)
      PROVE  audit \subseteq audit' /\ auditErrors' \in {auditErrors, auditErrors + 1}
  <2>1. CASE RecordRedactions(c)
    BY <2>1 DEF RecordRedactions
  <2>2. ASSUME NEW n \in 0 .. MaxItems, RecordRedactionsFails(c, n)
        PROVE  audit \subseteq audit' /\ auditErrors' = auditErrors + 1
    BY <2>2 DEF RecordRedactionsFails
  <2>3. CASE UNCHANGED log
    BY <2>3 DEF log
  <2>4. CASE LookupHit(c) \/ LookupMiss(c) \/ RecheckHit(c) \/ Create(c)
    BY <2>4, <2>3 DEF LookupHit, LookupMiss, RecheckHit, Create, Install
  <2>5. CASE Redact(c) \/ FindRegistered(c) \/ Resolve(c)
    BY <2>5, <2>3 DEF Redact, FindRegistered, Scan, Resolve
  <2>6. CASE Answer(c) \/ SessionStop(c)
    BY <2>6, <2>3 DEF Answer, SessionStop, Drop
  <2>7. QED BY <1>2, <2>1, <2>2, <2>4, <2>5, <2>6 DEF Step
<1>3. CASE Restart \/ UNCHANGED vars
  BY <1>3 DEF Restart, vars, log
<1>4. ASSUME NEW c \in Conns, NEW r \in Requests, Receive(c, r)
      PROVE  UNCHANGED log
  BY <1>4 DEF Receive
<1>5. audit \subseteq audit' /\ auditErrors' \in {auditErrors, auditErrors + 1}
  BY <1>2, <1>3, <1>4 DEF Next, Quiet, log
<1>6. QED BY <1>1, <1>5

(* Only Answer shows anything, and only what the answer holds.              *)
LEMMA ShownIsAuditedKept ==
  ASSUME IndInv, AuditedInv, [Next]_vars, auditErrors' = 0
  PROVE  ShownIsAudited'
<1>1. audit \subseteq audit' /\ auditErrors = 0
  BY AuditGrows
<1>2. ShownIsAudited /\ \A c \in Conns : AnswerAudited(c)
  BY <1>1 DEF AuditedInv
<1>3. CASE shown' = shown
  BY <1>1, <1>2, <1>3 DEF ShownIsAudited
<1>4. ASSUME NEW c \in Conns, Answer(c)
      PROVE  ShownIsAudited'
  <2>1. SUFFICES ASSUME NEW s \in shown'
                 PROVE  AuditLine(s.sid, s.tool, s.name) \in audit'
    BY DEF ShownIsAudited, AuditLine
  <2>2. CASE s \in shown
    BY <1>1, <1>2, <2>2 DEF ShownIsAudited, AuditLine
  <2>3. CASE s \notin shown
    <3>1. pc[c] = "answer" /\ Redacts(c) /\ s \in ShownBy(c)
      BY <1>4, <2>3 DEF Answer
    <3>2. PICK i \in DOMAIN out[c] :
            s = [sid |-> req[c].sid, epoch |-> ep[c], tool |-> req[c].method,
                 name |-> out[c][i].name, lit |-> out[c][i].lit]
      BY <3>1 DEF ShownBy
    <3>3. QED BY <1>1, <1>2, <3>1, <3>2 DEF AnswerAudited
  <2>4. QED BY <2>2, <2>3
<1>5. QED
  BY <1>3, <1>4 DEF Next, Step, Receive, LookupHit, LookupMiss, RecheckHit,
    Create, Install, Obtain, Redact, RecordRedactions, RecordRedactionsFails,
    FindRegistered, Scan, Resolve, SessionStop, Drop, Restart, Quiet,
    vars, ghost

(* A request reaches its answer with nothing redacted, or through a         *)
(* complete Append.                                                         *)
LEMMA AnswerAuditedKept ==
  ASSUME IndInv, AuditedInv, [Next]_vars, auditErrors' = 0, NEW c \in Conns
  PROVE  AnswerAudited(c)'
<1>1. audit \subseteq audit' /\ auditErrors = 0
  BY AuditGrows
<1>2. AnswerAudited(c)
  BY <1>1 DEF AuditedInv
<1>3. CASE UNCHANGED <<pc[c], req[c], out[c]>>
  BY <1>1, <1>2, <1>3 DEF AnswerAudited, Redacts
<1>4. CASE RecordRedactions(c)
  <2>1. out[c] \in Seq(Item)
    BY DEF IndInv, TypeOK, ConnsTyped
  <2>2. \A i \in DOMAIN out[c] :
          AuditLine(req[c].sid, req[c].method, out[c][i].name) \in audit'
    BY <1>4, <2>1 DEF RecordRedactions, AuditLines, AuditLine
  <2>3. req' = req /\ out' = out
    BY <1>4 DEF RecordRedactions
  <2>4. QED BY <2>2, <2>3 DEF AnswerAudited
<1>5. CASE pc'[c] # "answer" \/ out'[c] = << >> \/ ~Redacts(c)'
  BY <1>5 DEF AnswerAudited
<1>6. CASE Restart
  BY <1>6, <1>5 DEF Restart
<1>7. CASE UNCHANGED vars
  BY <1>7, <1>3 DEF vars, conns
<1>8. ASSUME NEW d \in Conns, NEW r \in Requests, Receive(d, r)
      PROVE  AnswerAudited(c)'
  BY <1>8, <1>3, <1>5 DEF Receive, Goto, IndInv, TypeOK, ConnsTyped
<1>9. ASSUME NEW d \in Conns, Step(d), d # c
      PROVE  AnswerAudited(c)'
  BY <1>9, <1>3 DEF Step, LookupHit, LookupMiss, RecheckHit, Create, Install,
    Obtain, Redact, RecordRedactions, RecordRedactionsFails, FindRegistered,
    Scan, Resolve, Answer, SessionStop, Drop, Goto, IndInv, TypeOK, ConnsTyped
<1>10. CASE Step(c)
  <2> USE DEF IndInv, TypeOK, ConnsTyped, ControlInv
  <2>1. CASE LookupHit(c) \/ RecheckHit(c) \/ Create(c)
    BY <2>1, <1>5 DEF LookupHit, RecheckHit, Create, Install
  <2>2. CASE LookupMiss(c) \/ Redact(c) \/ FindRegistered(c) \/ Answer(c)
    BY <2>2, <1>5 DEF LookupMiss, Redact, FindRegistered, Scan, Answer, Goto
  <2>3. CASE Resolve(c) \/ SessionStop(c)
    BY <2>3, <1>5 DEF Resolve, SessionStop, Drop, Redacts, Redacting
  <2>4. ASSUME NEW n \in 0 .. MaxItems, RecordRedactionsFails(c, n)
        PROVE  FALSE
    BY <2>4, <1>1 DEF RecordRedactionsFails, LogTyped
  <2>5. QED BY <1>4, <1>10, <2>1, <2>2, <2>3, <2>4 DEF Step
<1>11. QED
  BY <1>6, <1>7, <1>8, <1>9, <1>10 DEF Next, Quiet

(* While Append works, whatever a client was shown is in the audit log.     *)
THEOREM ShownIsAuditedHolds == Spec => []ShownIsAudited
<1>1. Init => AuditedInv
  BY DEF Init, AuditedInv, ShownIsAudited, AnswerAudited
<1>2. IndInv /\ AuditedInv /\ [Next]_vars => AuditedInv'
  BY ShownIsAuditedKept, AnswerAuditedKept DEF AuditedInv
<1>3. auditErrors = 0 /\ AuditedInv => ShownIsAudited
  BY DEF AuditedInv
<1>4. AuditedInv => ShownIsAudited
  BY <1>3 DEF ShownIsAudited
<1>5. QED BY IndInvHolds, <1>1, <1>2, <1>4, PTL DEF Spec

-----------------------------------------------------------------------------
(* Rehydration is complete *)

(* What a tool input refers to was shown under its session id, and passes 1 *)
(* and 2 find it.                                                           *)
Refers(c) == \A s \in must[c] : s \in shown /\ s.sid = req[c].sid

Found(c) ==
  pc[c] \in {"find", "resolve"} =>
    \A i \in DOMAIN spans[c] : \A s \in must[c] :
      s.epoch = ep[c] /\ s.name = req[c].items[i] => spans[c][i]

WroteBack(c) ==
  \A i \in DOMAIN out[c] : \A s \in must[c] :
    s.epoch = ep[c] /\ s.name = out[c][i].name => out[c][i].lit = s.lit

Rehydrated(c) ==
  req[c].method = "hook.pre_tool" => Refers(c) /\ Found(c) /\ WroteBack(c)

RehydratedInv == \A c \in Conns : Rehydrated(c)

(* The object a goroutine holds is the one that minted what was shown in    *)
(* its epoch, and it still knows it.                                        *)
LEMMA MustResolves ==
  ASSUME IndInv, RehydratedInv, NEW c \in Conns, HoldsSession(c),
         req[c].method = "hook.pre_tool", NEW s \in must[c], s.epoch = ep[c]
  PROVE  Resolves(sess[c], s.name, s.lit)
<1>1. s \in shown /\ s.sid = req[c].sid
  BY DEF RehydratedInv, Rehydrated, Refers
<1>2. PICK o \in DOMAIN owner : /\ owner[o] = <<s.sid, s.epoch>>
                               /\ Resolves(o, s.name, s.lit)
  BY <1>1 DEF IndInv, ShownInv
<1>3. sess[c] \in DOMAIN owner /\ owner[sess[c]] = <<req[c].sid, ep[c]>>
  BY DEF IndInv, HolderInv
<1>4. o = sess[c]
  BY <1>1, <1>2, <1>3 DEF IndInv, OwnerInv
<1>5. QED BY <1>2, <1>4

(* Pass 1 keeps a candidate that was shown.                                 *)
LEMMA FindRehydrated ==
  ASSUME IndInv, RehydratedInv, NEW c \in Conns, FindRegistered(c)
  PROVE  Rehydrated(c)'
<1> DEFINE j == Len(spans[c]) + 1
           known == Registered(heap[sess[c]], req[c].items[j])
<1>1. /\ pc[c] = "find" /\ out[c] = << >>
      /\ spans[c] \in Seq(BOOLEAN)
      /\ HoldsSession(c)
  BY DEF FindRegistered, Scan, IndInv, TypeOK, ConnsTyped, ControlInv,
    HoldsSession
<1>2. /\ spans'[c] = Append(spans[c], known)
      /\ UNCHANGED <<req, out, ep, must, shown>>
  BY DEF FindRegistered, Scan, IndInv, TypeOK, ConnsTyped, ghost
<1>3. SUFFICES ASSUME req[c].method = "hook.pre_tool"
               PROVE  Refers(c)' /\ Found(c)' /\ WroteBack(c)'
  BY <1>2 DEF Rehydrated
<1>4. Refers(c) /\ Found(c)
  BY <1>3 DEF RehydratedInv, Rehydrated
<1>5. ASSUME NEW i \in DOMAIN spans'[c], NEW s \in must[c],
             s.epoch = ep[c], s.name = req[c].items[i]
      PROVE  spans'[c][i]
  <2> HIDE DEF known
  <2>1. DOMAIN spans'[c] = DOMAIN spans[c] \cup {j}
    BY <1>1, <1>2
  <2>2. CASE i \in DOMAIN spans[c]
    <3>1. spans'[c][i] = spans[c][i]
      BY <1>1, <1>2, <2>2
    <3>2. QED BY <3>1, <1>1, <1>4, <1>5, <2>2 DEF Found
  <2>3. CASE i = j
    <3>1. spans'[c][i] = known
      BY <1>1, <1>2, <2>3
    <3>2. known
      BY <1>1, <1>3, <1>5, <2>3, MustResolves DEF known, Resolves
    <3>3. QED BY <3>1, <3>2
  <2>4. QED BY <2>1, <2>2, <2>3
<1>6. QED
  BY <1>1, <1>2, <1>4, <1>5 DEF Refers, Found, WroteBack

(* Pass 2 writes the secret of a candidate that was shown.                  *)
LEMMA ResolveRehydrated ==
  ASSUME IndInv, RehydratedInv, NEW c \in Conns, Resolve(c)
  PROVE  Rehydrated(c)'
<1> DEFINE j == Len(out[c]) + 1
           n == req[c].items[j]
           known == spans[c][j] /\ Registered(heap[sess[c]], n)
           lit == IF known THEN ResolveAlias(heap[sess[c]], n) ELSE PassThrough
<1>1. /\ pc[c] = "resolve" /\ HoldsSession(c)
      /\ out[c] \in Seq(Item) /\ spans[c] \in Seq(BOOLEAN)
      /\ Len(out[c]) < Len(req[c].items)
      /\ Len(spans[c]) = Len(req[c].items)
      /\ req[c].method = "hook.pre_tool"
  BY DEF Resolve, IndInv, TypeOK, ConnsTyped, ControlInv, HoldsSession
<1>2. /\ out'[c] = Append(out[c], [name |-> n, lit |-> lit])
      /\ UNCHANGED <<req, spans, ep, must, shown>>
  BY DEF Resolve, IndInv, TypeOK, ConnsTyped, ghost
<1>3. Refers(c) /\ Found(c) /\ WroteBack(c)
  BY <1>1 DEF RehydratedInv, Rehydrated
<1>4. j \in DOMAIN spans[c]
  <2>1. req[c] \in RequestType
    BY <1>1 DEF IndInv, TypeOK, ConnsTyped, NoRequest
  <2>2. req[c].items \in Seq(Names)
    BY <1>1, <2>1, RequestFacts
  <2>3. QED BY <1>1, <2>2
<1>5. ASSUME NEW i \in DOMAIN out'[c], NEW s \in must[c],
             s.epoch = ep[c], s.name = out'[c][i].name
      PROVE  out'[c][i].lit = s.lit
  <2>1. Resolves(sess[c], s.name, s.lit)
    BY <1>1, <1>5, MustResolves
  <2> HIDE DEF lit, n
  <2>2. DOMAIN out'[c] = DOMAIN out[c] \cup {j}
    BY <1>1, <1>2
  <2>3. CASE i \in DOMAIN out[c]
    <3>1. out'[c][i] = out[c][i]
      BY <1>1, <1>2, <2>3
    <3>2. QED BY <3>1, <1>3, <1>5, <2>3 DEF WroteBack
  <2>4. CASE i = j
    <3>1. out'[c][i] = [name |-> n, lit |-> lit]
      BY <1>1, <1>2, <2>4
    <3>2. s.name = n /\ out'[c][i].lit = lit
      BY <3>1, <1>5
    <3>3. spans[c][j]
      BY <1>1, <1>3, <1>4, <1>5, <3>2 DEF Found, n
    <3>4. lit = s.lit
      BY <2>1, <3>2, <3>3 DEF lit, Resolves
    <3>5. QED BY <3>2, <3>4
  <2>5. QED BY <2>2, <2>3, <2>4
<1>6. WroteBack(c)'
  BY <1>2, <1>5 DEF WroteBack
<1>7. UNCHANGED <<req, spans, ep, must, shown>>
  BY <1>2
<1>8. Refers(c)' /\ Found(c)'
  BY <1>1, <1>3, <1>7 DEF Refers, Found
<1>9. QED BY <1>6, <1>8 DEF Rehydrated

(* What is shown stays shown.                                               *)
LEMMA ShownGrows == [Next]_vars => shown \subseteq shown'
BY DEF Next, Step, Receive, LookupHit, LookupMiss, RecheckHit, Create,
  Install, Obtain, Redact, RecordRedactions, RecordRedactionsFails,
  FindRegistered, Scan, Resolve, Answer, SessionStop, Drop, Restart, Quiet,
  vars, ghost

(* Every step leaves what a tool input refers to found and written back.    *)
LEMMA RehydratedKept ==
  ASSUME IndInv, RehydratedInv, [Next]_vars, NEW c \in Conns
  PROVE  Rehydrated(c)'
<1>1. Rehydrated(c) /\ shown \subseteq shown'
  BY ShownGrows DEF RehydratedInv
<1>2. CASE UNCHANGED <<pc[c], req[c], spans[c], out[c], ep[c], must[c]>>
  BY <1>1, <1>2 DEF Rehydrated, Refers, Found, WroteBack
<1>3. CASE req'[c].method # "hook.pre_tool"
  BY <1>3 DEF Rehydrated
<1>4. CASE Restart
  BY <1>4, <1>3 DEF Restart, NoRequest
<1>5. CASE UNCHANGED vars
  BY <1>5, <1>2 DEF vars, conns, ghost
<1>6. ASSUME NEW d \in Conns, NEW r \in Requests, Receive(d, r)
      PROVE  Rehydrated(c)'
  <2> USE DEF IndInv, TypeOK, ConnsTyped, GhostTyped, ControlInv
  <2>1. CASE d # c
    BY <1>2, <1>6, <2>1 DEF Receive, Goto
  <2>2. CASE d = c
    BY <1>6, <2>2 DEF Receive, Goto, Rehydrated, Refers, Found, WroteBack
  <2>3. QED BY <2>1, <2>2
<1>7. ASSUME NEW d \in Conns, Step(d), d # c
      PROVE  Rehydrated(c)'
  BY <1>7, <1>2 DEF Step, LookupHit, LookupMiss, RecheckHit, Create, Install,
    Obtain, Redact, RecordRedactions, RecordRedactionsFails, FindRegistered,
    Scan, Resolve, Answer, SessionStop, Drop, Goto, ghost, IndInv, TypeOK,
    ConnsTyped, GhostTyped
<1>8. CASE Step(c)
  <2> USE DEF IndInv, TypeOK, ConnsTyped, GhostTyped, ControlInv
  <2>1. CASE LookupHit(c) \/ RecheckHit(c) \/ Create(c)
    <3>1. /\ UNCHANGED <<req, spans, out, must>>
          /\ out[c] = << >> /\ spans[c] = << >>
      BY <2>1 DEF LookupHit, RecheckHit, Create, Install, Obtain
    <3>2. QED BY <1>1, <3>1 DEF Rehydrated, Refers, Found, WroteBack
  <2>2. CASE LookupMiss(c)
    BY <2>2, <1>1 DEF LookupMiss, Goto, ghost, Rehydrated, Refers, Found,
      WroteBack
  <2>3. CASE Redact(c) \/ RecordRedactions(c)
    BY <2>3, <1>3 DEF Redact, RecordRedactions, Redacts, Redacting
  <2>4. ASSUME NEW n \in 0 .. MaxItems, RecordRedactionsFails(c, n)
        PROVE  Rehydrated(c)'
    BY <2>4, <1>3 DEF RecordRedactionsFails, Redacts, Redacting
  <2>5. CASE Answer(c)
    BY <2>5, <1>3 DEF Answer, NoRequest
  <2>6. CASE SessionStop(c)
    BY <2>6, <1>3 DEF SessionStop, Drop
  <2>7. QED
    BY <1>8, <2>1, <2>2, <2>3, <2>4, <2>5, <2>6, FindRehydrated,
      ResolveRehydrated DEF Step
<1>9. QED
  BY <1>4, <1>5, <1>6, <1>7, <1>8 DEF Next, Quiet

(* A tool input comes back complete: whatever its session was shown before  *)
(* it was sent is its secret again, whoever mints meanwhile.                *)
THEOREM RehydratesShownHolds == Spec => []RehydratesShown
<1>1. Init => RehydratedInv
  BY DEF Init, RehydratedInv, Rehydrated, NoRequest
<1>2. IndInv /\ RehydratedInv /\ [Next]_vars => RehydratedInv'
  BY RehydratedKept DEF RehydratedInv
<1>3. RehydratedInv => RehydratesShown
  BY DEF RehydratedInv, Rehydrated, WroteBack, RehydratesShown
<1>4. QED BY IndInvHolds, <1>1, <1>2, <1>3, PTL DEF Spec
=============================================================================

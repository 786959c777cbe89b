-------------------------- MODULE SessionMapProofs ---------------------------
(* What the methods of placeholder.Session keep, for any secrets and        *)
(* prefixes: the lemmas that the proofs about HookSessions and HookCommand  *)
(* share.                                                                   *)
EXTENDS SessionMap, TLAPS

(* A new session is well formed. *)
LEMMA NewSessionConsistent == IsSession(NewSession) /\ Consistent(NewSession)
BY DEF NewSession, IsSession, Consistent, IsMap, EmptyMap

(* On a consistent session, the counter of a prefix is ahead of all its     *)
(* names, so minting never collides, and binding a new literal to the new   *)
(* name keeps the two maps inverse.                                         *)
LEMMA MintSound ==
  ASSUME NEW s, IsSession(s), Consistent(s),
         NEW lit \in Literals, NEW prefix \in Prefixes,
         lit \notin DOMAIN s.byLiteral
  PROVE  LET r == Mint(s, lit, prefix) IN
         /\ IsSession(r.session)
         /\ Consistent(r.session)
         /\ r.name \in Names
         /\ r.session.byLiteral = MapPut(s.byLiteral, lit, r.name)
         /\ r.session.byName = MapPut(s.byName, r.name, lit)
         /\ r.name \notin DOMAIN s.byName
<1> DEFINE n    == s.counters[prefix] + 1
           name == <<prefix, n>>
           c    == [s.counters EXCEPT ![prefix] = n]
           t    == [byLiteral |-> MapPut(s.byLiteral, lit, name),
                    byName |-> MapPut(s.byName, name, lit), counters |-> c]
<1>1. s.counters \in [Prefixes -> Nat] /\ n \in Nat \ {0} /\ name \in Names
  BY DEF IsSession, Names
<1>2. name \notin DOMAIN s.byName
  <2>1. SUFFICES ASSUME name \in DOMAIN s.byName PROVE FALSE
    OBVIOUS
  <2>2. name[2] <= s.counters[name[1]]
    BY <2>1 DEF Consistent
  <2>3. QED BY <1>1, <2>2
<1>3. Counted(s, prefix) = [byLiteral |-> s.byLiteral, byName |-> s.byName,
                            counters |-> c]
  BY <1>1 DEF Counted, IsSession
<1>4. Mint(s, lit, prefix) = [session |-> t, name |-> name]
  BY <1>1, <1>2, <1>3 DEF Mint, Bound
<1>5. IsSession(t)
  BY <1>1 DEF IsSession, IsMap, MapPut
<1>6. Consistent(t)
  <2>1. ASSUME NEW l \in DOMAIN t.byLiteral
        PROVE  /\ t.byLiteral[l] \in DOMAIN t.byName
               /\ t.byName[t.byLiteral[l]] = l
    BY <1>2 DEF Consistent, MapPut
  <2>2. ASSUME NEW m \in DOMAIN t.byName
        PROVE  /\ t.byName[m] \in DOMAIN t.byLiteral
               /\ t.byLiteral[t.byName[m]] = m
    BY <1>2 DEF Consistent, MapPut
  <2>3. ASSUME NEW m \in DOMAIN t.byName
        PROVE  m[2] <= t.counters[m[1]]
    <3>1. CASE m = name
      BY <3>1, <1>1
    <3>2. CASE m # name
      <4>1. m \in DOMAIN s.byName
        BY <3>2 DEF MapPut
      <4>2. m \in Names
        BY <4>1 DEF IsSession, IsMap
      <4>3. m[2] <= s.counters[m[1]]
        BY <4>1 DEF Consistent
      <4>4. QED BY <1>1, <4>2, <4>3 DEF Names
    <3>3. QED BY <3>1, <3>2
  <2>4. QED BY <2>1, <2>2, <2>3 DEF Consistent
<1>7. QED BY <1>1, <1>2, <1>4, <1>5, <1>6

(* PlaceholderFor never fails on a consistent session, keeps it consistent, *)
(* returns a name that resolves to the literal, and forgets nothing.        *)
LEMMA PlaceholderForSound ==
  ASSUME NEW s, IsSession(s), Consistent(s),
         NEW lit \in Literals, NEW prefix \in Prefixes
  PROVE  LET r == PlaceholderFor(s, lit, prefix) IN
         /\ IsSession(r.session)
         /\ Consistent(r.session)
         /\ r.name \in Names
         /\ r.name # NoName
         /\ r.name \in DOMAIN r.session.byName
         /\ r.session.byName[r.name] = lit
         /\ \A m \in DOMAIN s.byName :
              m \in DOMAIN r.session.byName /\ r.session.byName[m] = s.byName[m]
         /\ DOMAIN r.session.byLiteral = DOMAIN s.byLiteral \cup {lit}
<1>1. CASE lit \in DOMAIN s.byLiteral
  BY <1>1, NoNameAssumption DEF PlaceholderFor, Consistent, IsSession, IsMap
<1>2. CASE lit \notin DOMAIN s.byLiteral
  <2>1. PlaceholderFor(s, lit, prefix) = Mint(s, lit, prefix)
    BY <1>2 DEF PlaceholderFor
  <2> DEFINE r == Mint(s, lit, prefix)
  <2>2. /\ IsSession(r.session) /\ Consistent(r.session)
        /\ r.name \in Names /\ r.name \notin DOMAIN s.byName
        /\ r.session.byLiteral = MapPut(s.byLiteral, lit, r.name)
        /\ r.session.byName = MapPut(s.byName, r.name, lit)
    BY <1>2, MintSound
  <2> HIDE DEF r
  <2>3. /\ r.name \in DOMAIN r.session.byName
        /\ r.session.byName[r.name] = lit
        /\ \A m \in DOMAIN s.byName :
              m \in DOMAIN r.session.byName /\ r.session.byName[m] = s.byName[m]
        /\ DOMAIN r.session.byLiteral = DOMAIN s.byLiteral \cup {lit}
    BY <2>2 DEF MapPut
  <2>4. QED BY <2>1, <2>2, <2>3, NoNameAssumption DEF r
<1>3. QED BY <1>1, <1>2
=============================================================================

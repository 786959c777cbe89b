----------------------------- MODULE SessionMap -----------------------------
(* placeholder.Session (src/internal/placeholder/mint.go): the map between  *)
(* secret literals and placeholders that one session accumulates.           *)
(*                                                                          *)
(* Every method runs under the session's single mutex, so a method is one   *)
(* operator: old session in, new session and result out.  A placeholder     *)
(* "PREFIX_n" is the pair <<PREFIX, n>>: the text splits in one way only,   *)
(* because n is written in digits and the last '_' precedes it.             *)
EXTENDS Naturals, GoMaps

CONSTANTS Literals,   \* secret values, as the bytes found in a payload
          Prefixes,   \* placeholder prefixes of the detector's rules
          NoName      \* what PlaceholderFor returns with an error

Names == Prefixes \X (Nat \ {0})

ASSUME NoNameAssumption == NoName \notin Names \cup Literals

NewSession ==
  [byLiteral |-> EmptyMap,
   byName    |-> EmptyMap,
   counters  |-> [p \in Prefixes |-> 0]]

(* A session whose three fields have the types of the Go struct *)
IsSession(s) ==
  /\ s = [byLiteral |-> s.byLiteral, byName |-> s.byName,
          counters  |-> s.counters]
  /\ IsMap(s.byLiteral, Literals, Names)
  /\ IsMap(s.byName, Names, Literals)
  /\ s.counters \in [Prefixes -> Nat]

Counted(s, prefix) == [s EXCEPT !.counters[prefix] = @ + 1]

Bound(s, lit, name) ==
  [byLiteral |-> MapPut(s.byLiteral, lit, name),
   byName    |-> MapPut(s.byName, name, lit),
   counters  |-> s.counters]

(* A name is free for a literal only if no literal has it already; the code *)
(* still counts before it finds out.                                        *)
Mint(s, lit, prefix) ==
  LET counted == Counted(s, prefix)
      name    == <<prefix, counted.counters[prefix]>>
  IN  IF name \in DOMAIN s.byName
      THEN [session |-> counted, name |-> NoName]
      ELSE [session |-> Bound(counted, lit, name), name |-> name]

(* Mutants: plausible slips in the method *)
PlaceholderForAlwaysMints(s, lit, prefix) == Mint(s, lit, prefix)

PlaceholderForUncounted(s, lit, prefix) ==
  IF lit \in DOMAIN s.byLiteral
  THEN [session |-> s, name |-> s.byLiteral[lit]]
  ELSE [session |-> [Mint(s, lit, prefix).session EXCEPT
                       !.counters = s.counters],
        name    |-> Mint(s, lit, prefix).name]

(* mutant: the name is formatted before the counter moves: it counts from 0 *)
PlaceholderForFromZero(s, lit, prefix) ==
  IF lit \in DOMAIN s.byLiteral
  THEN [session |-> s, name |-> s.byLiteral[lit]]
  ELSE LET name == <<prefix, s.counters[prefix]>>
       IN  [session |-> Bound(Counted(s, prefix), lit, name), name |-> name]

PlaceholderFor(s, lit, prefix) ==
  IF lit \in DOMAIN s.byLiteral
  THEN [session |-> s, name |-> s.byLiteral[lit]]
  ELSE Mint(s, lit, prefix)

(* ResolveAlias(name) succeeds exactly on the registered names *)
Registered(s, name) == name \in DOMAIN s.byName

ResolveAlias(s, name) == s.byName[name]

(* byLiteral and byName are inverse to each other and no name is ahead of   *)
(* its prefix's counter: "same literal -> same placeholder" (mint.go:23)    *)
Consistent(s) ==
  /\ \A l \in DOMAIN s.byLiteral :
        /\ s.byLiteral[l] \in DOMAIN s.byName
        /\ s.byName[s.byLiteral[l]] = l
  /\ \A n \in DOMAIN s.byName :
        /\ s.byName[n] \in DOMAIN s.byLiteral
        /\ s.byLiteral[s.byName[n]] = n
        /\ n[2] <= s.counters[n[1]]
=============================================================================

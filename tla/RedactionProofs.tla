-------------------------- MODULE RedactionProofs ---------------------------
(* Theorems about Redaction for payloads and rules of any length: which     *)
(* findings are kept, that Redact accepts them, that no run of high entropy *)
(* shows in the result, and that Rehydrate takes the result back.           *)
EXTENDS Redaction, GoSlicesProofs, FiniteSetTheorems, TLAPS

-----------------------------------------------------------------------------
(* The order and the overlap of findings *)

Span == {f \in Finding : 1 <= f.start /\ f.start < f.end}

(* RuleOf gives numbers to compare. *)
LEMMA RuleNumbers ==
  \A r \in DOMAIN RuleOf : RuleOf[r].priority \in Nat /\ RuleOf[r].id \in Nat
BY DEF RuleOf

(* less never holds both ways. *)
LEMMA LessAsymmetric ==
  ASSUME NEW f \in Span, NEW g \in Span, less(f, g)
  PROVE  ~less(g, f)
<1>1. /\ f.rule \in DOMAIN RuleOf /\ g.rule \in DOMAIN RuleOf
      /\ {f.end, g.end, f.start, g.start} \subseteq Nat
  BY DEF Span, Finding
<1>2. /\ {RuleOf[f.rule].priority, RuleOf[f.rule].id} \subseteq Nat
      /\ {RuleOf[g.rule].priority, RuleOf[g.rule].id} \subseteq Nat
  BY <1>1, RuleNumbers
<1>3. QED
  BY <1>1, <1>2 DEF less, Length

-----------------------------------------------------------------------------
(* FindAllIndex *)

(* One round of it                                                          *)
Round(ends, f, n) ==
  IF n = 0 THEN EmptyMap
  ELSE IF ends[n] = {} \/ \E i \in DOMAIN f[n - 1] : f[n - 1][i] >= n
       THEN f[n - 1]
       ELSE MapPut(f[n - 1], n, CHOOSE j \in ends[n] : TRUE)

(* f are the matches found after each of the first n rounds.                *)
Rounds(ends, f, n) == f = [i \in 0 .. n |-> Round(ends, f, i)]

(* There are such f, for any number of rounds.                              *)
LEMMA RoundsExist ==
  ASSUME NEW ends PROVE \A n \in Nat : \E f : Rounds(ends, f, n)
<1> DEFINE T == {n \in Nat : \E f : Rounds(ends, f, n)}
<1>1. 0 \in T
  <2> DEFINE f == [i \in 0 .. 0 |-> EmptyMap]
  <2>1. \A i \in 0 .. 0 : Round(ends, f, i) = EmptyMap
    BY DEF Round
  <2>2. Rounds(ends, f, 0)
    BY <2>1 DEF Rounds
  <2>3. QED BY <2>2
<1>2. ASSUME NEW n \in Nat, n \in T PROVE n + 1 \in T
  <2>1. PICK g : Rounds(ends, g, n)
    BY <1>2
  <2> DEFINE last == Round(ends, g, n + 1)
             f == [i \in 0 .. n + 1 |-> IF i = n + 1 THEN last ELSE g[i]]
  <2>2. /\ f = [i \in 0 .. n + 1 |-> f[i]] /\ f[n + 1] = last
        /\ \A i \in 0 .. n : f[i] = g[i]
    OBVIOUS
  <2>3. \A i \in 0 .. n : g[i] = Round(ends, g, i)
    BY <2>1 DEF Rounds
  <2> HIDE DEF f
  <2>4. ASSUME NEW i \in 0 .. n + 1 PROVE f[i] = Round(ends, f, i)
    <3>1. Round(ends, g, i) = Round(ends, f, i)
      <4>1. CASE i = 0
        BY <4>1 DEF Round
      <4>2. CASE i # 0
        <5>1. i - 1 \in 0 .. n
          BY <4>2
        <5>2. f[i - 1] = g[i - 1]
          BY <2>2, <5>1
        <5>3. QED BY <4>2, <5>2 DEF Round
      <4>3. QED BY <4>1, <4>2
    <3>2. i = n + 1 \/ i \in 0 .. n
      OBVIOUS
    <3>3. f[i] = Round(ends, g, i)
      BY <2>2, <2>3, <3>2
    <3>4. QED BY <3>1, <3>3
  <2>5. Rounds(ends, f, n + 1)
    BY <2>2, <2>4 DEF Rounds
  <2>6. QED BY <2>5
<1>3. Nat \subseteq T
  <2> HIDE DEF T
  <2>1. QED BY <1>1, <1>2, SetInduction
<1>4. QED BY <1>3

(* The result is that of the last round.                                    *)
LEMMA FindAllRounds ==
  ASSUME NEW len \in Nat, NEW ends
  PROVE  \E f : /\ FindAll(len, ends) = f[len]
                /\ \A n \in 0 .. len : f[n] = Round(ends, f, n)
<1> DEFINE upto == CHOOSE f : Rounds(ends, f, len)
<1>1. FindAll(len, ends) = upto[len]
  BY DEF FindAll, Rounds, Round
<1>2. Rounds(ends, upto, len)
  BY RoundsExist
<1> HIDE DEF upto
<1>3. \A n \in 0 .. len : upto[n] = Round(ends, upto, n)
  BY <1>2 DEF Rounds
<1>4. QED BY <1>1, <1>3

(* A match it finds ends where one from its start may.                      *)
LEMMA FindAllEnds ==
  ASSUME NEW len \in Nat, NEW ends, NEW i \in DOMAIN FindAll(len, ends)
  PROVE  i \in 1 .. len /\ FindAll(len, ends)[i] \in ends[i]
<1>1. PICK f : /\ FindAll(len, ends) = f[len]
               /\ \A n \in 0 .. len : f[n] = Round(ends, f, n)
  BY FindAllRounds
<1> DEFINE T == {n \in Nat : n <= len =>
                   \A x \in DOMAIN f[n] : x \in 1 .. len /\ f[n][x] \in ends[x]}
<1>2. 0 \in T
  <2>1. f[0] = EmptyMap
    BY <1>1 DEF Round
  <2>2. QED BY <2>1 DEF EmptyMap
<1>3. ASSUME NEW n \in Nat, n \in T PROVE n + 1 \in T
  <2> SUFFICES ASSUME n + 1 <= len, NEW x \in DOMAIN f[n + 1]
               PROVE  x \in 1 .. len /\ f[n + 1][x] \in ends[x]
    OBVIOUS
  <2>1. n + 1 \in 0 .. len /\ n + 1 # 0 /\ (n + 1) - 1 = n /\ n <= len
    OBVIOUS
  <2>2. f[n + 1] = Round(ends, f, n + 1)
    BY <1>1, <2>1
  <2>3. CASE f[n + 1] = f[n]
    BY <1>3, <2>1, <2>3
  <2>4. CASE f[n + 1] # f[n]
    <3> DEFINE v == CHOOSE j \in ends[n + 1] : TRUE
    <3>1. ends[n + 1] # {} /\ f[n + 1] = MapPut(f[n], n + 1, v)
      BY <2>1, <2>2, <2>4 DEF Round
    <3>2. v \in ends[n + 1]
      BY <3>1
    <3> HIDE DEF v
    <3>3. /\ x \in DOMAIN f[n] \cup {n + 1}
          /\ f[n + 1][x] = IF x = n + 1 THEN v ELSE f[n][x]
      BY <3>1 DEF MapPut
    <3>4. CASE x = n + 1
      BY <2>1, <3>2, <3>3, <3>4
    <3>5. CASE x # n + 1
      BY <1>3, <2>1, <3>3, <3>5
    <3>6. QED BY <3>4, <3>5
  <2>5. QED BY <2>3, <2>4
<1>4. Nat \subseteq T
  <2> HIDE DEF T
  <2>1. QED BY <1>2, <1>3, SetInduction
<1>5. QED BY <1>1, <1>4

(* What a rule reports is a span of the text, not empty, which ends as the  *)
(* rule says.                                                               *)
LEMMA Reported ==
  ASSUME NEW t \in Text, NEW rule \in DOMAIN RuleOf, NEW ends,
         \A i \in 1 .. Len(t) : ends[i] \subseteq i .. Len(t),
         NEW f \in Report(rule, FindAll(Len(t), ends))
  PROVE  /\ f.start \in 1 .. Len(t) /\ f.end \in 2 .. Len(t) + 1 /\ f.start < f.end
         /\ f \in Span /\ f.rule = rule /\ f.end - 1 \in ends[f.start]
<1> DEFINE all == FindAll(Len(t), ends)
<1>1. Len(t) \in Nat
  BY DEF Text
<1>2. PICK i \in DOMAIN all : f = [start |-> i, end |-> all[i] + 1, rule |-> rule]
  BY DEF Report
<1>3. i \in 1 .. Len(t) /\ all[i] \in ends[i]
  BY <1>1, FindAllEnds
<1> HIDE DEF all
<1>4. all[i] \in i .. Len(t)
  BY <1>3
<1>5. f.start = i /\ f.end = all[i] + 1 /\ f.rule = rule /\ f.end - 1 = all[i]
  BY <1>1, <1>2, <1>3, <1>4
<1>6. f.start \in 1 .. Len(t) /\ f.end \in 2 .. Len(t) + 1 /\ f.start < f.end
  BY <1>1, <1>3, <1>4, <1>5
<1>7. f \in Finding
  BY <1>1, <1>2, <1>3, <1>4 DEF Finding
<1>8. QED BY <1>1, <1>3, <1>5, <1>6, <1>7 DEF Span

(* What each rule says of a finding                                         *)
LEMMA FindingSpan ==
  ASSUME NEW t \in Text, NEW f \in Scan(t)
  PROVE  /\ f.start \in 1 .. Len(t) /\ f.end \in 2 .. Len(t) + 1 /\ f.start < f.end
         /\ f \in Span
         /\ f.rule \in {"github", "slack", "jwt", "entropy"}
         /\ f.rule = "github" => f.end - 1 \in GithubEnds(t, f.start)
         /\ f.rule = "slack" => f.end - 1 \in SlackEnds(t, f.start)
         /\ f.rule = "jwt" => f.end - 1 \in JwtEnds(t, f.start)
         /\ f.rule = "entropy" => f.end - 1 \in CandidateEnds(t, f.start)
<1> DEFINE G == [i \in 1 .. Len(t) |-> GithubEnds(t, i)]
           X == [i \in 1 .. Len(t) |-> SlackEnds(t, i)]
           J == [i \in 1 .. Len(t) |-> JwtEnds(t, i)]
           C == [i \in 1 .. Len(t) |-> CandidateEnds(t, i)]
<1>1. {"github", "slack", "jwt", "entropy"} \subseteq DOMAIN RuleOf
  BY DEF RuleOf
<1>2. ASSUME NEW i \in 1 .. Len(t)
      PROVE  /\ G[i] \subseteq i .. Len(t) /\ X[i] \subseteq i .. Len(t)
             /\ J[i] \subseteq i .. Len(t) /\ C[i] \subseteq i .. Len(t)
  <2>1. Len(t) \in Nat /\ DOMAIN t = 1 .. Len(t)
    BY DEF Text
  <2>2. GithubEnds(t, i) \subseteq i .. Len(t)
    <3>1. GithubLen \in Nat /\ i \in Nat
      BY BoundsAssumption
    <3>2. i + 1 + GithubLen \in Nat /\ i <= i + 1 + GithubLen
      BY <3>1
    <3>3. GithubEnds(t, i) \subseteq {i + 1 + GithubLen} \cap DOMAIN t
      BY DEF GithubEnds
    <3>4. QED BY <2>1, <3>1, <3>2, <3>3
  <2>3. SlackEnds(t, i) \subseteq i .. Len(t)
    BY <2>1, BoundsAssumption DEF SlackEnds
  <2>4. JwtEnds(t, i) \subseteq i .. Len(t) /\ CandidateEnds(t, i) \subseteq i .. Len(t)
    BY DEF JwtEnds, CandidateEnds
  <2>5. QED BY <2>2, <2>3, <2>4
<1>3. /\ \A i \in 1 .. Len(t) : G[i] = GithubEnds(t, i) /\ X[i] = SlackEnds(t, i)
      /\ \A i \in 1 .. Len(t) : J[i] = JwtEnds(t, i) /\ C[i] = CandidateEnds(t, i)
  OBVIOUS
<1>4. /\ ScanGithub(t) = Report("github", FindAll(Len(t), G))
      /\ ScanSlack(t) = Report("slack", FindAll(Len(t), X))
      /\ ScanJwt(t) = Report("jwt", FindAll(Len(t), J))
      /\ ScanEntropy(t) \subseteq Report("entropy", FindAll(Len(t), C))
  BY DEF ScanGithub, ScanSlack, ScanJwt, ScanEntropy
<1> HIDE DEF G, X, J, C
<1>5. CASE f \in ScanGithub(t)
  BY <1>1, <1>2, <1>3, <1>4, <1>5, Reported
<1>6. CASE f \in ScanSlack(t)
  BY <1>1, <1>2, <1>3, <1>4, <1>6, Reported
<1>7. CASE f \in ScanJwt(t)
  BY <1>1, <1>2, <1>3, <1>4, <1>7, Reported
<1>8. CASE f \in ScanEntropy(t)
  <2>1. f \in Report("entropy", FindAll(Len(t), C))
    BY <1>4, <1>8
  <2>2. QED BY <1>1, <1>2, <1>3, <2>1, Reported
<1>9. QED BY <1>5, <1>6, <1>7, <1>8 DEF Scan

(* So all that Engine.Scan collects are spans.                              *)
LEMMA ScanSpan ==
  ASSUME NEW t \in Text
  PROVE  Scan(t) \subseteq Span
BY FindingSpan

-----------------------------------------------------------------------------
(* The inductive invariant *)

(* Kept findings come before those not looked at and do not overlap.        *)
KeptFirst == \A e \in kept, f \in work : less(e, f)
KeptApart == \A e \in kept, f \in kept : e # f => ~Overlap(e, f)

(* A finding was dropped for a kept one that overlaps it and comes first.   *)
DroppedBeaten ==
  \A f \in found \ (work \cup kept) : \E e \in kept : Overlap(f, e) /\ less(e, f)

(* What is left to replace begins behind what has been copied.              *)
TodoAhead == todo \subseteq kept /\ \A f \in todo : prev <= f.start

(* Where the loops stand at each pc.                                        *)
Phases ==
  /\ pc \in {"scan", "resolve", "rewrite", "done"}
  /\ pc = "scan" => found = {} /\ kept = {}
  /\ pc \in {"scan", "resolve"} => todo = {} /\ prev = 1
  /\ pc # "resolve" => work = {}

IInv ==
  /\ in \in Text /\ prev \in Nat
  /\ found \subseteq Span /\ work \subseteq found /\ kept \subseteq found
  /\ KeptFirst /\ KeptApart /\ DroppedBeaten /\ TodoAhead /\ Phases

(* It holds at first: payloads are texts. *)
LEMMA InitIInv == Init => IInv
<1>1. SUFFICES ASSUME Init PROVE IInv
  OBVIOUS
<1>2. in \in Text
  BY <1>1, PayloadsAssumption DEF Init
<1>3. QED
  BY <1>1, <1>2 DEF Init, IInv, KeptFirst, KeptApart, DroppedBeaten, TodoAhead, Phases

(* Detect collects spans and has dropped none. *)
LEMMA DetectIInv == IInv /\ Detect => IInv'
<1>1. SUFFICES ASSUME IInv, Detect PROVE IInv'
  OBVIOUS
<1>2. found' \subseteq Span
  BY <1>1, ScanSpan DEF IInv, Detect
<1>3. kept' = {} /\ work' = found' /\ todo' = {} /\ prev' = 1 /\ in' = in
  BY <1>1 DEF IInv, Detect, Phases
<1>4. Phases'
  BY <1>1, <1>3 DEF Detect, Phases
<1>5. QED
  BY <1>1, <1>2, <1>3, <1>4
  DEF IInv, KeptFirst, KeptApart, DroppedBeaten, TodoAhead

(* Place never replaces a kept finding, since those come first: it keeps    *)
(* the next one or drops it for one that overlaps it.                       *)
LEMMA PlaceIInv == IInv /\ Place => IInv'
<1>1. SUFFICES ASSUME IInv, Place PROVE IInv'
  OBVIOUS
<1>2. PICK f \in work :
        /\ \A g \in work \ {f} : less(f, g)
        /\ work' = work \ {f}
        /\ LET rivals == {e \in kept : Overlap(f, e)}
           IN  \/ rivals = {} /\ kept' = kept \cup {f}
               \/ \E e \in rivals :
                    kept' = IF less(f, e) THEN (kept \ {e}) \cup {f} ELSE kept
  BY <1>1 DEF Place
<1>3. /\ pc = "resolve" /\ pc' = pc /\ in' = in /\ found' = found
      /\ todo' = todo /\ prev' = prev /\ todo = {}
  BY <1>1 DEF IInv, Place, Phases
<1>4. \/ /\ kept' = kept \cup {f}
         /\ \A e \in kept : ~Overlap(f, e)
      \/ /\ kept' = kept
         /\ \E e \in kept : Overlap(f, e)
  <2>1. \A e \in kept : ~less(f, e)
    BY <1>1, LessAsymmetric DEF IInv, KeptFirst
  <2>2. QED
    BY <1>2, <2>1
<1>5. KeptFirst'
  BY <1>1, <1>2, <1>4 DEF IInv, KeptFirst
<1>6. KeptApart'
  <2>1. \A e \in Span : Overlap(f, e) <=> Overlap(e, f)
    BY DEF Overlap
  <2>2. QED
    BY <1>1, <1>4, <2>1 DEF IInv, KeptApart
<1>7. DroppedBeaten'
  <2>1. SUFFICES ASSUME NEW g \in found, g \notin work', g \notin kept'
                 PROVE  \E e \in kept' : Overlap(g, e) /\ less(e, g)
    BY <1>3 DEF DroppedBeaten
  <2>2. CASE g = f
    BY <1>1, <1>4, <2>1, <2>2 DEF IInv, KeptFirst
  <2>3. CASE g # f
    BY <1>1, <1>2, <1>4, <2>1, <2>3 DEF IInv, DroppedBeaten
  <2>4. QED
    BY <2>2, <2>3
<1>8. TodoAhead' /\ Phases'
  BY <1>1, <1>3 DEF IInv, TodoAhead, Phases
<1>9. work' \subseteq found' /\ kept' \subseteq found'
  BY <1>1, <1>2, <1>3, <1>4 DEF IInv
<1>10. QED
  BY <1>1, <1>3, <1>5, <1>6, <1>7, <1>8, <1>9 DEF IInv

(* The rewriting starts at the first byte. *)
LEMMA ResolvedIInv == IInv /\ Resolved => IInv'
<1>1. SUFFICES ASSUME IInv, Resolved PROVE IInv'
  OBVIOUS
<1>2. prev = 1 /\ prev' = 1 /\ todo' = kept /\ kept' = kept
  BY <1>1 DEF IInv, Resolved, Phases
<1>3. \A f \in kept : 1 <= f.start
  BY <1>1 DEF IInv, Span
<1>4. TodoAhead'
  BY <1>2, <1>3 DEF TodoAhead
<1>5. QED
  BY <1>1, <1>2, <1>4
  DEF IInv, Resolved, KeptFirst, KeptApart, DroppedBeaten, Phases

(* Of two findings that do not overlap, the one that starts later starts    *)
(* where the other has ended: the rewriting always moves forward.           *)
LEMMA RewriteIInv == IInv /\ Rewrite => IInv'
<1>1. SUFFICES ASSUME IInv, Rewrite PROVE IInv'
  OBVIOUS
<1>2. PICK f \in todo :
        /\ \A g \in todo : f.start <= g.start
        /\ IF f.start < prev
           THEN pc' = "error" /\ UNCHANGED <<todo, sess, out, prev>>
           ELSE prev' = f.end /\ todo' = todo \ {f} /\ UNCHANGED pc
  BY <1>1 DEF Rewrite
<1>3. /\ pc = "rewrite" /\ in' = in /\ found' = found /\ work' = work
      /\ kept' = kept
  BY <1>1 DEF Rewrite
<1>4. f \in Span /\ f.start \in Nat /\ f.end \in Nat /\ ~(f.start < prev)
  BY <1>1 DEF IInv, TodoAhead, Span, Finding
<1>5. pc' = pc /\ prev' = f.end /\ todo' = todo \ {f}
  BY <1>2, <1>4
<1>6. ASSUME NEW g \in todo \ {f}
      PROVE  f.end <= g.start
  <2>1. ~Overlap(f, g)
    BY <1>1, <1>6 DEF IInv, TodoAhead, KeptApart
  <2>2. g \in Span /\ g.start \in Nat /\ g.end \in Nat
    BY <1>1, <1>6 DEF IInv, TodoAhead, Span, Finding
  <2>3. f.start <= g.start
    BY <1>2, <1>6
  <2>4. QED
    BY <1>4, <2>1, <2>2, <2>3 DEF Overlap, Span
<1>7. TodoAhead'
  BY <1>1, <1>3, <1>5, <1>6 DEF IInv, TodoAhead
<1>8. Phases'
  BY <1>1, <1>3, <1>5 DEF IInv, Phases
<1>9. QED
  BY <1>1, <1>3, <1>4, <1>5, <1>7, <1>8 DEF IInv, KeptFirst, KeptApart, DroppedBeaten

(* The end of the text is copied. *)
LEMMA FinishIInv == IInv /\ Finish => IInv'
BY DEF IInv, Finish, KeptFirst, KeptApart, DroppedBeaten, TodoAhead, Phases

(* The inductive invariant holds throughout. *)
LEMMA SpecIInv == Spec => []IInv
<1>1. IInv /\ [Next]_vars => IInv'
  <2>1. IInv /\ UNCHANGED vars => IInv'
    BY DEF IInv, vars, KeptFirst, KeptApart, DroppedBeaten, TodoAhead, Phases
  <2>2. QED
    BY <2>1, DetectIInv, PlaceIInv, ResolvedIInv, RewriteIInv, FinishIInv DEF Next
<1>2. QED
  BY InitIInv, <1>1, PTL DEF Spec

-----------------------------------------------------------------------------
(* For every payload, Redact finds the findings in order and apart, so its  *)
(* check for overlapping or unsorted ones (substitute.go:100) never fails.  *)
THEOREM SpecAccepted == Spec => []Accepted
<1>1. IInv => Accepted
  BY DEF IInv, Phases, Accepted
<1>2. QED
  BY SpecIInv, <1>1, PTL

(* For every payload and whatever order the detectors report in, resolveOverlaps *)
(* keeps exactly the findings that no kept one beats, which is one set only. *)
THEOREM SpecDetermined == Spec => []Determined
<1>1. IInv => Determined
  <2>1. SUFFICES ASSUME IInv, pc \in {"rewrite", "done"}, NEW f \in found
                 PROVE  f \in kept <=>
                          \A e \in kept \ {f} : Overlap(f, e) => less(f, e)
    BY DEF Determined
  <2>2. ASSUME f \in kept, NEW e \in kept \ {f} PROVE ~Overlap(f, e)
    BY <2>1, <2>2 DEF IInv, KeptApart
  <2>3. ASSUME f \notin kept
        PROVE  \E e \in kept \ {f} : Overlap(f, e) /\ ~less(f, e)
    <3>1. f \notin work
      BY <2>1 DEF IInv, Phases
    <3>2. PICK e \in kept : Overlap(f, e) /\ less(e, f)
      BY <2>1, <2>3, <3>1 DEF IInv, DroppedBeaten
    <3>3. ~less(f, e)
      BY <2>1, <3>2, LessAsymmetric DEF IInv
    <3>4. QED
      BY <2>3, <3>2, <3>3
  <2>4. QED
    BY <2>2, <2>3
<1>2. QED
  BY SpecIInv, <1>1, PTL

-----------------------------------------------------------------------------
(* What overlapping findings have to do with each other *)

(* f lies within e *)
Within(f, e) == e.start <= f.start /\ f.end <= e.end

(* Apart from a JWT's dots, a token is all of characters of a run.          *)
LEMMA InCandidateClass ==
  ASSUME NEW t \in Text, NEW f \in Scan(t), f.rule # "jwt",
         NEW x \in f.start .. f.end - 1
  PROVE  At(t, x) \in candidateClass
<1>1. /\ f.start \in Nat /\ f.end \in Nat /\ x \in Nat /\ f.start < f.end
      /\ x \in DOMAIN t /\ f.start \in DOMAIN t
  BY FindingSpan DEF Text
<1>2. x = f.start \/ x = f.start + 1 \/ x \in f.start + 2 .. f.end - 1
  BY <1>1
<1>3. At(t, f.start) = t[f.start]
  BY <1>1 DEF At
<1>4. /\ {"ghp", "xox", "_", "-"} \subseteq candidateClass
      /\ Alnum \subseteq candidateClass /\ SlackClass \subseteq candidateClass
  BY DEF candidateClass, JwtClass, Word, SlackClass, Alnum, Heads
<1>5. CASE f.rule = "github"
  <2>1. f.end - 1 \in GithubEnds(t, f.start)
    BY <1>5, FindingSpan
  <2>2. /\ t[f.start] = "ghp" /\ At(t, f.start + 1) = "_"
        /\ \A y \in f.start + 2 .. f.end - 1 : At(t, y) \in Alnum
    BY <2>1 DEF GithubEnds, AllIn
  <2>3. QED BY <1>2, <1>3, <1>4, <2>2
<1>6. CASE f.rule = "slack"
  <2>1. f.end - 1 \in SlackEnds(t, f.start)
    BY <1>6, FindingSpan
  <2>2. /\ t[f.start] = "xox" /\ At(t, f.start + 1) = "-"
        /\ \A y \in f.start + 2 .. f.end - 1 : At(t, y) \in SlackClass
    BY <2>1 DEF SlackEnds, AllIn
  <2>3. QED BY <1>2, <1>3, <1>4, <2>2
<1>7. CASE f.rule = "entropy"
  <2>1. f.end - 1 \in CandidateEnds(t, f.start)
    BY <1>7, FindingSpan
  <2>2. QED BY <2>1 DEF CandidateEnds, AllIn
<1>8. QED BY <1>5, <1>6, <1>7, FindingSpan

(* A run of high entropy goes as far as its characters do, so any other     *)
(* token that touches it is inside.                                         *)
LEMMA RunHoldsAll ==
  ASSUME NEW t \in Text, NEW e \in Scan(t), e.rule = "entropy",
         NEW f \in Scan(t), f.rule # "jwt", Overlap(f, e)
  PROVE  Within(f, e)
<1>1. /\ f.start \in Nat /\ f.end \in Nat /\ e.start \in Nat /\ e.end \in Nat
      /\ f.start < e.end /\ e.start < f.end /\ (e.end - 1) + 1 = e.end
  BY FindingSpan DEF Overlap, Text
<1>2. At(t, e.start - 1) \notin candidateClass /\ At(t, e.end) \notin candidateClass
  <2>1. e.end - 1 \in CandidateEnds(t, e.start)
    BY FindingSpan
  <2>2. QED BY <1>1, <2>1 DEF CandidateEnds
<1>3. ASSUME f.start < e.start PROVE FALSE
  <2>1. e.start - 1 \in f.start .. f.end - 1
    BY <1>1, <1>3
  <2>2. QED BY <1>2, <2>1, InCandidateClass
<1>4. ASSUME e.end < f.end PROVE FALSE
  <2>1. e.end \in f.start .. f.end - 1
    BY <1>1, <1>4
  <2>2. QED BY <1>2, <2>1, InCandidateClass
<1>5. QED BY <1>1, <1>3, <1>4 DEF Within

(* No part of a run of high entropy next to a keyword stays in the text,    *)
(* for every payload and whatever the rules' lengths: unless a JWT overlaps *)
(* it, the run lies within a finding that is replaced.                      *)
THEOREM RunsHiddenHolds == Spec => []RunsHidden
<1> DEFINE Found == pc = "scan" \/ found = Scan(in)
<1>1. Init => Found
  BY Zenon DEF Init
<1>2. Found /\ [Next]_vars => Found'
  BY DEF Next, Detect, Place, Resolved, Rewrite, Finish, vars
<1>3. IInv /\ Found => RunsHidden
  <2>1. SUFFICES ASSUME IInv, Found, pc = "done", NEW f \in found, f.rule = "entropy",
                        ~\E e \in found : e.rule = "jwt" /\ Overlap(f, e)
                 PROVE  \E e \in kept : e.start <= f.start /\ f.end <= e.end
    BY DEF RunsHidden
  <2>2. found = Scan(in) /\ in \in Text
    BY <2>1 DEF IInv
  <2>3. f.start \in Nat /\ f.end \in Nat
    BY <2>2, FindingSpan DEF Text
  <2>4. CASE f \in kept
    BY <2>3, <2>4
  <2>5. CASE f \notin kept
    <3>1. PICK e \in kept : Overlap(f, e) /\ less(e, f)
      BY <2>1, <2>5 DEF IInv, Phases, DroppedBeaten
    <3>2. e \in Scan(in) /\ e.rule # "jwt"
      BY <2>1, <2>2, <3>1 DEF IInv
    <3>3. Overlap(e, f)
      BY <3>1 DEF Overlap
    <3>4. Within(e, f)
      BY <2>1, <2>2, <3>2, <3>3, RunHoldsAll
    <3>5. e.start \in Nat /\ e.end \in Nat
      BY <2>2, <3>2, FindingSpan DEF Text
    <3>6. e.end - e.start >= f.end - f.start
      BY <2>3, <3>1, <3>5 DEF less, Length
    <3>7. e.start <= f.start /\ f.end <= e.end
      BY <2>3, <3>4, <3>5, <3>6 DEF Within
    <3>8. QED BY <3>7
  <2>6. QED BY <2>4, <2>5
<1>4. QED BY SpecIInv, <1>1, <1>2, <1>3, PTL DEF Spec
-----------------------------------------------------------------------------
(* The session's map: the lemmas about it, with texts for the secrets       *)

Map == INSTANCE SessionMapProofs WITH Literals <- Text

Sound(s) == IsSession(s) /\ Consistent(s)

(* The two instances of SessionMap say the same.                            *)
LEMMA SameMap ==
  /\ \A s, l, p : PlaceholderFor(s, l, p) = Map!PlaceholderFor(s, l, p)
  /\ \A s : IsSession(s) <=> Map!IsSession(s)
  /\ \A s : Consistent(s) <=> Map!Consistent(s)
  /\ Names = Map!Names
  /\ NewSession = Map!NewSession
<1>1. Names = Map!Names
  BY DEF Names, Map!Names
<1>2. \A s : IsSession(s) <=> Map!IsSession(s)
  BY <1>1 DEF IsSession, Map!IsSession, IsMap, Map!IsMap
<1>3. \A s : Consistent(s) <=> Map!Consistent(s)
  BY DEF Consistent, Map!Consistent
<1>4. NewSession = Map!NewSession
  BY DEF NewSession, Map!NewSession, EmptyMap, Map!EmptyMap
<1>5. ASSUME NEW s, NEW l, NEW p
      PROVE  PlaceholderFor(s, l, p) = Map!PlaceholderFor(s, l, p)
  <2>1. Mint(s, l, p) = Map!Mint(s, l, p)
    <3>1. Counted(s, p) = Map!Counted(s, p)
      BY DEF Counted, Map!Counted
    <3>2. \A t, n : Bound(t, l, n) = Map!Bound(t, l, n)
      BY DEF Bound, Map!Bound, MapPut, Map!MapPut
    <3>3. QED BY <3>1, <3>2 DEF Mint, Map!Mint
  <2>2. QED BY <2>1 DEF PlaceholderFor, Map!PlaceholderFor
<1>6. QED BY <1>1, <1>2, <1>3, <1>4, <1>5

(* A literal gets a name, which stands for it; the names before stay, and   *)
(* so does the session's soundness.                                         *)
LEMMA NamedSound ==
  ASSUME NEW s, Sound(s), NEW lit \in Text, NEW prefix \in Prefixes
  PROVE  LET r == PlaceholderFor(s, lit, prefix) IN
         /\ Sound(r.session) /\ r.name \in Names
         /\ r.name \in DOMAIN r.session.byName
         /\ r.session.byName[r.name] = lit
         /\ \A m \in DOMAIN s.byName :
              m \in DOMAIN r.session.byName /\ r.session.byName[m] = s.byName[m]
<1>1. Map!IsSession(s) /\ Map!Consistent(s)
  BY SameMap DEF Sound
<1>2. Map!NoNameAssumption
  BY SessionAssumption, SameMap DEF Map!NoNameAssumption
<1>3. LET r == Map!PlaceholderFor(s, lit, prefix) IN
      /\ Map!IsSession(r.session) /\ Map!Consistent(r.session)
      /\ r.name \in Map!Names
      /\ r.name \in DOMAIN r.session.byName
      /\ r.session.byName[r.name] = lit
      /\ \A m \in DOMAIN s.byName :
           m \in DOMAIN r.session.byName /\ r.session.byName[m] = s.byName[m]
  BY <1>1, <1>2, Map!PlaceholderForSound DEF Map!NoNameAssumption
<1>4. QED BY <1>3, SameMap DEF Sound

(* s is the sequence of sessions that the first n literals lead to          *)
Sessions(s, literals, n) ==
  /\ s = [i \in 0 .. n |-> s[i]]
  /\ \A i \in 0 .. n :
       /\ s[i] = IF i = 0 THEN NewSession
                 ELSE PlaceholderFor(s[i - 1], literals[i], "G").session
       /\ Sound(s[i])

(* There is one for each number of literals.                                *)
LEMMA SessionsExist ==
  ASSUME NEW literals \in Seq(Text)
  PROVE  \E s : Sessions(s, literals, Len(literals))
<1> DEFINE T == {n \in Nat : n <= Len(literals) => \E s : Sessions(s, literals, n)}
<1>1. 0 \in T
  <2> DEFINE s == [i \in 0 .. 0 |-> NewSession]
  <2>1. Sound(NewSession)
    BY Map!NewSessionConsistent, SameMap, SessionAssumption DEF Sound, Map!NoNameAssumption
  <2>2. Sessions(s, literals, 0)
    BY <2>1 DEF Sessions
  <2>3. QED BY <2>2
<1>2. ASSUME NEW n \in Nat, n \in T PROVE n + 1 \in T
  <2> SUFFICES ASSUME n + 1 <= Len(literals) PROVE \E s : Sessions(s, literals, n + 1)
    OBVIOUS
  <2>1. PICK r : Sessions(r, literals, n)
    BY <1>2
  <2> DEFINE last == PlaceholderFor(r[n], literals[n + 1], "G").session
             s == [i \in 0 .. n + 1 |-> IF i = n + 1 THEN last ELSE r[i]]
  <2>2. Sound(last)
    <3>1. Sound(r[n]) /\ literals[n + 1] \in Text /\ "G" \in Prefixes
      BY <2>1 DEF Sessions, Prefixes
    <3>2. QED BY <3>1, NamedSound
  <2> HIDE DEF last
  <2>3. /\ s = [i \in 0 .. n + 1 |-> s[i]] /\ s[n + 1] = last
        /\ \A i \in 0 .. n : s[i] = r[i]
    OBVIOUS
  <2>4. ASSUME NEW i \in 0 .. n + 1
        PROVE  /\ s[i] = IF i = 0 THEN NewSession
                         ELSE PlaceholderFor(s[i - 1], literals[i], "G").session
               /\ Sound(s[i])
    <3> HIDE DEF s
    <3>1. CASE i = n + 1
      <4>1. i # 0 /\ i - 1 = n /\ n \in 0 .. n
        BY <3>1
      <4>2. QED BY <2>2, <2>3, <3>1, <4>1 DEF last
    <3>2. CASE i \in 0 .. n
      <4>1. i = 0 \/ i - 1 \in 0 .. n
        BY <3>2
      <4>2. /\ r[i] = IF i = 0 THEN NewSession
                      ELSE PlaceholderFor(r[i - 1], literals[i], "G").session
            /\ Sound(r[i])
        BY <2>1, <3>2 DEF Sessions
      <4>3. s[i] = r[i] /\ (i # 0 => s[i - 1] = r[i - 1])
        BY <2>3, <3>2, <4>1
      <4>4. QED BY <4>2, <4>3
    <3>3. QED BY <3>1, <3>2
  <2>5. QED BY <2>3, <2>4 DEF Sessions
<1>3. Nat \subseteq T
  <2> HIDE DEF T
  <2>1. QED BY <1>1, <1>2, SetInduction
<1>4. QED BY <1>3, Len(literals) \in Nat

(* The session that earlier payloads leave is sound.                        *)
LEMMA SessionAfterSound ==
  ASSUME NEW literals \in Seq(Text)
  PROVE  Sound(SessionAfter(literals))
<1> DEFINE Follows(f) == f = [i \in 0 .. Len(literals) |->
             IF i = 0 THEN NewSession
             ELSE PlaceholderFor(f[i - 1], literals[i], "G").session]
           after == CHOOSE f : Follows(f)
           n == Len(literals)
<1>1. SessionAfter(literals) = after[n]
  BY DEF SessionAfter
<1>2. PICK s : Sessions(s, literals, n)
  BY SessionsExist
<1>3. Follows(s)
  BY <1>2 DEF Sessions
<1>4. Follows(after)
  BY <1>3
<1> HIDE DEF after
<1> DEFINE T == {i \in Nat : i <= n => Sound(after[i])}
<1>5. 0 \in T
  <2>1. 0 \in 0 .. n /\ Sound(NewSession)
    BY <1>2 DEF Sessions
  <2>2. after[0] = NewSession
    BY <1>4, <2>1
  <2>3. QED BY <2>1, <2>2
<1>6. ASSUME NEW i \in Nat, i \in T PROVE i + 1 \in T
  <2> SUFFICES ASSUME i + 1 <= n PROVE Sound(after[i + 1])
    OBVIOUS
  <2>1. i + 1 \in 0 .. n /\ i + 1 # 0 /\ (i + 1) - 1 = i /\ Sound(after[i])
    BY <1>6
  <2>2. after[i + 1] = PlaceholderFor(after[i], literals[i + 1], "G").session
    BY <1>4, <2>1
  <2>3. literals[i + 1] \in Text /\ "G" \in Prefixes
    BY <2>1 DEF Prefixes
  <2>4. QED BY <2>1, <2>2, <2>3, NamedSound
<1>7. Nat \subseteq T
  <2> HIDE DEF T, Follows
  <2>1. QED BY <1>5, <1>6, SetInduction
<1>8. QED BY <1>1, <1>7, n \in Nat

-----------------------------------------------------------------------------
(* Placeholders are texts *)

Numeral == {d \in Seq(Digits) : Len(d) > 0}

(* The numeral of i, from those of smaller numbers in f                     *)
Spelled(f, i) ==
  IF i < 2 THEN <<IF i = 0 THEN "0" ELSE "1">>
  ELSE f[i \div 2] \o f[i % 2]

(* f has the numerals up to n                                               *)
Numerals(f, n) ==
  /\ f = [i \in 0 .. n |-> f[i]]
  /\ \A i \in 0 .. n : f[i] \in Numeral /\ f[i] = Spelled(f, i)

(* Numbers halve.                                                           *)
LEMMA Halves ==
  \A n \in Nat : n >= 2 => n \div 2 \in 0 .. n - 1 /\ n % 2 \in 0 .. n - 1
OBVIOUS

(* What is spelled is a numeral if the halves are.                          *)
LEMMA SpelledType ==
  ASSUME NEW f, NEW i \in Nat,
         i >= 2 => f[i \div 2] \in Numeral /\ f[i % 2] \in Numeral
  PROVE  Spelled(f, i) \in Numeral
<1>1. <<"0">> \in Numeral /\ <<"1">> \in Numeral
  BY DEF Numeral, Digits
<1>2. \A a \in Numeral, b \in Numeral : a \o b \in Numeral
  BY DEF Numeral
<1>3. CASE i < 2
  <2>1. Spelled(f, i) \in {<<"0">>, <<"1">>}
    BY <1>3 DEF Spelled
  <2>2. QED BY <1>1, <2>1
<1>4. CASE i >= 2
  <2>1. ~ (i < 2)
    BY <1>4
  <2>2. Spelled(f, i) = f[i \div 2] \o f[i % 2]
    BY <2>1, Zenon DEF Spelled
  <2>3. QED BY <1>2, <1>4, <2>2
<1>5. QED BY <1>3, <1>4

(* It depends on the halves alone.                                          *)
LEMMA SpelledSame ==
  ASSUME NEW f, NEW g, NEW i \in Nat,
         i >= 2 => f[i \div 2] = g[i \div 2] /\ f[i % 2] = g[i % 2]
  PROVE  Spelled(f, i) = Spelled(g, i)
<1>1. CASE i < 2
  BY <1>1 DEF Spelled
<1>2. CASE i >= 2
  BY <1>2 DEF Spelled
<1>3. QED BY <1>1, <1>2

(* The numerals of the numbers up to any one can be written down.           *)
LEMMA NumeralsExist == \A n \in Nat : \E f : Numerals(f, n)
<1> DEFINE T == {n \in Nat : \E f : Numerals(f, n)}
<1>1. 0 \in T
  <2> DEFINE f == [i \in 0 .. 0 |-> <<"0">>]
  <2>1. <<"0">> \in Numeral /\ Spelled(f, 0) = <<"0">>
    BY DEF Numeral, Digits, Spelled
  <2>2. f = [i \in 0 .. 0 |-> f[i]] /\ \A i \in 0 .. 0 : i = 0 /\ f[i] = <<"0">>
    OBVIOUS
  <2> HIDE DEF f
  <2>3. Numerals(f, 0)
    BY <2>1, <2>2 DEF Numerals
  <2>4. QED BY <2>3
<1>2. ASSUME NEW n \in Nat, n \in T PROVE n + 1 \in T
  <2>1. PICK g : Numerals(g, n)
    BY <1>2
  <2> DEFINE k == n + 1
             f == [i \in 0 .. k |-> IF i = k THEN Spelled(g, k) ELSE g[i]]
  <2>2. /\ f = [i \in 0 .. k |-> f[i]] /\ f[k] = Spelled(g, k)
        /\ \A i \in 0 .. n : f[i] = g[i]
    OBVIOUS
  <2> HIDE DEF f
  <2>3. \A i \in 0 .. n : g[i] \in Numeral /\ g[i] = Spelled(g, i)
    BY <2>1 DEF Numerals
  <2>4. ASSUME NEW i \in 0 .. k
        PROVE  /\ f[i] = Spelled(g, i) /\ Spelled(g, i) \in Numeral
               /\ Spelled(g, i) = Spelled(f, i)
    <3>1. i \in Nat /\ (i >= 2 => i \div 2 \in 0 .. n /\ i % 2 \in 0 .. n)
      BY Halves
    <3>2. i >= 2 => g[i \div 2] \in Numeral /\ g[i % 2] \in Numeral
      BY <2>3, <3>1
    <3>3. i >= 2 => g[i \div 2] = f[i \div 2] /\ g[i % 2] = f[i % 2]
      BY <2>2, <3>1
    <3>4. i = k \/ i \in 0 .. n
      OBVIOUS
    <3>5. f[i] = Spelled(g, i)
      BY <2>2, <2>3, <3>4
    <3>6. Spelled(g, i) \in Numeral
      BY <3>1, <3>2, SpelledType
    <3>7. Spelled(g, i) = Spelled(f, i)
      BY <3>1, <3>3, SpelledSame
    <3>8. QED BY <3>5, <3>6, <3>7
  <2>5. Numerals(f, k)
    BY <2>2, <2>4 DEF Numerals
  <2>6. QED BY <2>5
<1>3. Nat \subseteq T
  <2> HIDE DEF T
  <2>1. QED BY <1>1, <1>2, SetInduction
<1>4. QED BY <1>3

(* in one way only.                                                         *)
LEMMA NumeralsUnique ==
  ASSUME NEW m \in Nat, NEW n \in Nat, NEW f, Numerals(f, m), NEW g, Numerals(g, n)
  PROVE  \A i \in Nat : i <= m /\ i <= n => f[i] = g[i]
<1> DEFINE T == {k \in Nat : \A i \in 0 .. k : i <= m /\ i <= n => f[i] = g[i]}
<1>1. ASSUME NEW i \in Nat, i <= m, i <= n,
             i >= 2 => f[i \div 2] = g[i \div 2] /\ f[i % 2] = g[i % 2]
      PROVE  f[i] = g[i]
  <2>1. i \in 0 .. m /\ i \in 0 .. n
    BY <1>1
  <2>2. f[i] = Spelled(f, i) /\ g[i] = Spelled(g, i)
    BY <2>1 DEF Numerals
  <2>3. Spelled(f, i) = Spelled(g, i)
    BY <1>1, SpelledSame
  <2>4. QED BY <2>2, <2>3
<1>2. 0 \in T
  <2>1. f[0] = g[0]
    BY <1>1
  <2>2. QED BY <2>1
<1>3. ASSUME NEW k \in Nat, k \in T PROVE k + 1 \in T
  <2>1. ASSUME NEW i \in 0 .. k + 1, i <= m, i <= n PROVE f[i] = g[i]
    <3>1. i \in Nat /\ (i >= 2 => i \div 2 \in 0 .. i - 1 /\ i % 2 \in 0 .. i - 1)
      BY Halves
    <3>2. ASSUME NEW h \in 0 .. i - 1 PROVE f[h] = g[h]
      <4>1. h \in 0 .. k /\ h <= m /\ h <= n
        BY <2>1, <3>2
      <4>2. QED BY <1>3, <4>1
    <3>3. i >= 2 => f[i \div 2] = g[i \div 2] /\ f[i % 2] = g[i % 2]
      BY <3>1, <3>2
    <3>4. QED BY <1>1, <2>1, <3>1, <3>3
  <2>2. QED BY <2>1
<1>4. Nat \subseteq T
  <2> HIDE DEF T
  <2>1. QED BY <1>2, <1>3, SetInduction
<1>5. ASSUME NEW i \in Nat, i <= m, i <= n PROVE f[i] = g[i]
  <2>1. i \in T /\ i \in 0 .. i
    BY <1>4
  <2>2. QED BY <1>5, <2>1
<1>6. QED BY <1>5

(* So every number has its numeral, of digits and not empty.                *)
LEMMA NumeralType ==
  \A n \in Nat : numeral[n] \in Numeral /\ numeral[n] = Spelled(numeral, n)
<1> DEFINE Whole(g) == g = [n \in Nat |-> Spelled(g, n)]
           upto(n) == CHOOSE f : Numerals(f, n)
           g0 == [n \in Nat |-> upto(n)[n]]
<1>1. \A n \in Nat : Numerals(upto(n), n)
  BY NumeralsExist
<1> HIDE DEF upto
<1>2. ASSUME NEW n \in Nat, NEW i \in Nat, i <= n PROVE upto(n)[i] = upto(i)[i]
  <2>1. Numerals(upto(n), n) /\ Numerals(upto(i), i) /\ i <= i
    BY <1>1
  <2>2. QED BY <1>2, <2>1, NumeralsUnique
<1>3. ASSUME NEW n \in Nat PROVE g0[n] = Spelled(g0, n)
  <2>1. n \in 0 .. n /\ Numerals(upto(n), n)
    BY <1>1
  <2>2. g0[n] = upto(n)[n] /\ upto(n)[n] = Spelled(upto(n), n)
    BY <2>1 DEF Numerals
  <2>3. ASSUME n >= 2 PROVE upto(n)[n \div 2] = g0[n \div 2] /\ upto(n)[n % 2] = g0[n % 2]
    <3>1. n \div 2 \in Nat /\ n \div 2 <= n /\ n % 2 \in Nat /\ n % 2 <= n
      BY <2>3, Halves
    <3>2. QED BY <1>2, <3>1
  <2> HIDE DEF g0
  <2>4. Spelled(upto(n), n) = Spelled(g0, n)
    BY <2>3, SpelledSame
  <2>5. QED BY <2>2, <2>4
<1>4. Whole(g0)
  <2>1. g0 = [n \in Nat |-> g0[n]]
    OBVIOUS
  <2> HIDE DEF g0
  <2>2. QED BY <1>3, <2>1
<1>5. Whole(numeral)
  <2>1. numeral = CHOOSE g : Whole(g)
    BY DEF numeral, Spelled
  <2> HIDE DEF Whole, g0
  <2>2. QED BY <1>4, <2>1
<1>6. \A n \in Nat : numeral[n] = Spelled(numeral, n)
  BY <1>5
<1> HIDE DEF Whole, g0
<1> DEFINE T == {k \in Nat : \A i \in 0 .. k : numeral[i] \in Numeral}
<1>7. 0 \in T
  <2>1. numeral[0] \in Numeral
    BY <1>6, SpelledType
  <2>2. QED BY <2>1
<1>8. ASSUME NEW k \in Nat, k \in T PROVE k + 1 \in T
  <2>1. ASSUME NEW i \in 0 .. k + 1 PROVE numeral[i] \in Numeral
    <3>1. i \in Nat /\ (i >= 2 => i \div 2 \in 0 .. k /\ i % 2 \in 0 .. k)
      BY Halves
    <3>2. i >= 2 => numeral[i \div 2] \in Numeral /\ numeral[i % 2] \in Numeral
      BY <1>8, <3>1
    <3>3. Spelled(numeral, i) \in Numeral
      BY <3>1, <3>2, SpelledType
    <3>4. QED BY <1>6, <3>1, <3>3
  <2>2. QED BY <2>1
<1>9. Nat \subseteq T
  <2> HIDE DEF T
  <2>1. QED BY <1>7, <1>8, SetInduction
<1>10. ASSUME NEW n \in Nat PROVE numeral[n] \in Numeral
  <2>1. n \in T /\ n \in 0 .. n
    BY <1>9
  <2>2. QED BY <2>1
<1>11. QED BY <1>6, <1>10

(* Three elements make a sequence.                                          *)
LEMMA Three ==
  ASSUME NEW C, NEW a \in C, NEW b \in C, NEW c \in C
  PROVE  <<a, b, c>> \in Seq(C)
OBVIOUS

(* Two sequences make one.                                                  *)
LEMMA Joined ==
  ASSUME NEW C, NEW s \in Seq(C), NEW t \in Seq(C)
  PROVE  s \o t \in Seq(C)
OBVIOUS

(* A placeholder is its prefix twice, a '_' and digits.                     *)
LEMMA NameTextType ==
  ASSUME NEW name \in Names
  PROVE  /\ NameText(name) \in Text
         /\ NameText(name) = <<name[1], name[1], "_">> \o numeral[name[2]]
         /\ name[1] \in Upper /\ numeral[name[2]] \in Numeral
<1> DEFINE p == name[1]
           d == numeral[name[2]]
<1>1. p \in Prefixes /\ name[2] \in Nat
  BY DEF Names
<1>2. d \in Numeral
  BY <1>1, NumeralType
<1>3. NameText(name) = <<p, p, "_">> \o d
  BY DEF NameText
<1> HIDE DEF p, d
<1>4. p \in Char /\ "_" \in Char /\ Digits \subseteq Char
  BY <1>1 DEF Char, candidateClass, JwtClass, Word, Alnum, Upper
<1>5. d \in Seq(Char)
  <2>1. d \in Seq(Digits)
    BY <1>2 DEF Numeral
  <2> HIDE DEF Digits, Char
  <2>2. Len(d) \in Nat /\ d \in [1 .. Len(d) -> Digits]
    BY <2>1
  <2>3. d \in [1 .. Len(d) -> Char]
    BY <1>4, <2>2
  <2>4. QED BY <2>2, <2>3
<1>6. <<p, p, "_">> \o d \in Text
  <2> HIDE DEF Char
  <2>1. <<p, p, "_">> \in Seq(Char)
    BY <1>4, Three
  <2>2. QED BY <1>5, <2>1, Joined DEF Text
<1>7. p \in Upper
  BY <1>1 DEF Upper
<1>8. QED BY <1>2, <1>3, <1>6, <1>7 DEF p, d

-----------------------------------------------------------------------------
(* What the variables hold                                                  *)

TypeInv ==
  /\ out \in Text /\ prev \in 1 .. Len(in) + 1
  /\ Sound(sess)
  /\ pc = "scan" \/ found = Scan(in)

(* It is an invariant beside IInv.                                          *)
LEMMA SpecTypeInv == Spec => []TypeInv
<1>1. Init => TypeInv
  <2>1. SUFFICES ASSUME Init PROVE TypeInv
    OBVIOUS
  <2>2. in \in Text /\ Len(in) \in Nat
    BY <2>1, InitIInv DEF IInv, Text
  <2>3. PICK literals \in Earlier : sess = SessionAfter(literals)
    BY <2>1 DEF Init
  <2>4. Sound(sess)
    BY <2>3, SessionAssumption, SessionAfterSound
  <2>5. out \in Text /\ prev \in 1 .. Len(in) + 1
    BY <2>1, <2>2 DEF Init, Text
  <2>6. QED BY <2>1, <2>4, <2>5 DEF Init, TypeInv
<1>2. IInv /\ TypeInv /\ [Next]_vars => TypeInv'
  <2>1. SUFFICES ASSUME IInv, TypeInv, [Next]_vars PROVE TypeInv'
    OBVIOUS
  <2>2. in \in Text /\ Len(in) \in Nat
    BY <2>1 DEF IInv, Text
  <2>3. ASSUME Detect \/ Place \/ Resolved \/ UNCHANGED vars PROVE TypeInv'
    BY <2>1, <2>3 DEF TypeInv, Detect, Place, Resolved, vars
  <2>4. CASE Rewrite
    <3>1. PICK f \in todo :
            IF f.start < prev
            THEN pc' = "error" /\ UNCHANGED <<todo, sess, out, prev>>
            ELSE LET lit   == SubSeq(in, f.start, f.end - 1)
                     named == PlaceholderFor(sess, lit, RuleOf[f.rule].prefix)
                 IN  /\ sess' = named.session
                     /\ out' = out \o SubSeq(in, prev, f.start - 1)
                                   \o NameText(named.name)
                     /\ prev' = f.end
                     /\ todo' = todo \ {f}
                     /\ UNCHANGED pc
      BY <2>4 DEF Rewrite
    <3>2. /\ pc = "rewrite" /\ in' = in /\ found' = found
          /\ f \in Scan(in) /\ f \in Span
      BY <2>1, <2>4 DEF Rewrite, TypeInv, IInv, TodoAhead
    <3>3. CASE f.start < prev
      BY <2>1, <3>1, <3>2, <3>3 DEF TypeInv
    <3>4. CASE ~(f.start < prev)
      <4> DEFINE lit   == SubSeq(in, f.start, f.end - 1)
                 named == PlaceholderFor(sess, lit, RuleOf[f.rule].prefix)
                 gap   == SubSeq(in, prev, f.start - 1)
      <4>1. /\ sess' = named.session /\ prev' = f.end
            /\ out' = out \o gap \o NameText(named.name)
            /\ pc' = pc
        BY <3>1, <3>4
      <4>2. /\ f.start \in 1 .. Len(in) /\ f.end \in 2 .. Len(in) + 1
            /\ prev \in 1 .. Len(in) + 1
        BY <2>1, <2>2, <3>2, FindingSpan DEF TypeInv
      <4>3. lit \in Text
        BY <2>2, <4>2 DEF Text
      <4>4. gap \in Text
        BY <2>2, <4>2 DEF Text
      <4>5. RuleOf[f.rule].prefix \in Prefixes
        BY <3>2 DEF Span, Finding, RuleOf, Prefixes
      <4>6. Sound(named.session) /\ named.name \in Names
        BY <2>1, <4>3, <4>5, NamedSound DEF TypeInv
      <4> HIDE DEF named, gap
      <4>7. NameText(named.name) \in Text /\ out \in Text
        BY <2>1, <4>6, NameTextType DEF TypeInv
      <4>8. out' \in Text
        BY <4>1, <4>4, <4>7 DEF Text
      <4>9. prev' \in 1 .. Len(in') + 1
        BY <2>2, <3>2, <4>1, <4>2
      <4>10. QED BY <2>1, <3>2, <4>1, <4>6, <4>8, <4>9 DEF TypeInv
    <3>5. QED BY <3>3, <3>4
  <2>5. CASE Finish
    <3>1. /\ out' = out \o SubSeq(in, prev, Len(in))
          /\ UNCHANGED <<in, found, prev, sess>> /\ pc = "rewrite"
      BY <2>5 DEF Finish
    <3>2. SubSeq(in, prev, Len(in)) \in Text /\ out \in Text
      BY <2>1, <2>2 DEF TypeInv, Text
    <3>3. out' \in Text
      BY <3>1, <3>2 DEF Text
    <3>4. QED BY <2>1, <3>1, <3>3 DEF TypeInv
  <2>6. QED BY <2>1, <2>3, <2>4, <2>5 DEF Next
<1>3. QED BY SpecIInv, <1>1, <1>2, PTL DEF Spec

(* Types hold in every state, for every payload and earlier ones: the       *)
(* result is a text, and each finding names its session for good.           *)
THEOREM TypeCorrect == Spec => []TypeOK
<1>1. IInv /\ TypeInv => TypeOK
  BY DEF IInv, TypeInv, TypeOK, Phases, TodoAhead, Span, Sound
<1>2. QED BY SpecIInv, SpecTypeInv, <1>1, PTL

-----------------------------------------------------------------------------
(* The way back: matches of the placeholder pattern                         *)

(* The characters a match is made of                                        *)
Matched == Upper \cup Digits \cup {"_"}

(* From one start there is at most one greedy match.                        *)
LEMMA GreedyOne ==
  ASSUME NEW t \in Text, NEW i \in 1 .. Len(t),
         NEW j \in MatchesAt(t, i), NEW k \in MatchesAt(t, i)
  PROVE  j = k
<1>1. Len(t) \in Nat
  BY DEF Text
<1>2. /\ j \in Nat /\ k \in Nat /\ j <= Len(t) /\ k <= Len(t)
      /\ Greedy(t, i, j) /\ Greedy(t, i, k)
  BY <1>1 DEF MatchesAt
<1>3. /\ Pattern(t, i, j) /\ Pattern(t, i, k)
      /\ \A x \in j + 1 .. Len(t) : ~Pattern(t, i, x)
      /\ \A x \in k + 1 .. Len(t) : ~Pattern(t, i, x)
  BY <1>2 DEF Greedy
<1>4. ~(j \in k + 1 .. Len(t)) /\ ~(k \in j + 1 .. Len(t))
  BY <1>3
<1>5. QED BY <1>1, <1>2, <1>4

(* A match is made of these characters and begins with a letter.            *)
LEMMA PatternMatched ==
  ASSUME NEW t, NEW i \in Nat, NEW j \in Nat, Pattern(t, i, j)
  PROVE  i < j /\ \A x \in i .. j : t[x] \in Matched
<1>1. PICK k \in i + 2 .. j - 1 :
        /\ t[k] = "_"
        /\ \A x \in i + 1 .. k - 1 : t[x] \in Upper \cup Digits \cup {"_"}
        /\ \A x \in k + 1 .. j : t[x] \in Digits
  BY DEF Pattern
<1>2. t[i] \in Upper
  BY DEF Pattern
<1>3. ASSUME NEW x \in i .. j PROVE t[x] \in Matched
  <2>1. x = i \/ x \in i + 1 .. k - 1 \/ x = k \/ x \in k + 1 .. j
    OBVIOUS
  <2>2. QED BY <1>1, <1>2, <2>1 DEF Matched
<1>4. QED BY <1>3

(* Matches finds a set of greedy matches that lie apart, in order, if every *)
(* other start lies within one of them.                                     *)
LEMMA MatchesAre ==
  ASSUME NEW t \in Text, NEW e,
         e = [x \in DOMAIN e |-> e[x]], DOMAIN e \subseteq 1 .. Len(t),
         \A x \in DOMAIN e : e[x] \in MatchesAt(t, x),
         \A x \in DOMAIN e : \A y \in DOMAIN e : x < y => e[x] < y,
         \A i \in 1 .. Len(t) :
           MatchesAt(t, i) # {} => \E x \in DOMAIN e : x <= i /\ i <= e[x]
  PROVE  Matches(t) = e
<1> DEFINE ends == [n \in 1 .. Len(t) |-> MatchesAt(t, n)]
           First(n) == [x \in {y \in DOMAIN e : y <= n} |-> e[x]]
<1>1. Len(t) \in Nat
  BY DEF Text
<1>2. PICK upto : /\ Matches(t) = upto[Len(t)]
                  /\ \A n \in 0 .. Len(t) : upto[n] = Round(ends, upto, n)
  BY <1>1, FindAllRounds DEF Matches
<1>3. First(0) = EmptyMap
  <2>1. {y \in DOMAIN e : y <= 0} = {}
    BY <1>1
  <2>2. QED BY <2>1 DEF EmptyMap
<1>4. ASSUME NEW f, NEW n \in 1 .. Len(t), f[n - 1] = First(n - 1)
      PROVE  Round(ends, f, n) = First(n)
  <2>0. n # 0 /\ n \in Nat /\ n - 1 \in Nat /\ ends[n] = MatchesAt(t, n)
    BY <1>1
  <2> HIDE DEF ends
  <2>1. /\ DOMAIN First(n - 1) = {y \in DOMAIN e : y <= n - 1}
        /\ \A x \in DOMAIN First(n - 1) : First(n - 1)[x] = e[x]
    OBVIOUS
  <2>2. CASE n \in DOMAIN e
    <3>1. e[n] \in MatchesAt(t, n)
      BY <2>2
    <3>2. (CHOOSE j \in MatchesAt(t, n) : TRUE) = e[n]
      BY <3>1, GreedyOne
    <3>3. ASSUME NEW x \in DOMAIN First(n - 1) PROVE ~(First(n - 1)[x] >= n)
      <4>1. x \in DOMAIN e /\ x \in 1 .. Len(t) /\ x <= n - 1
        BY <2>1
      <4>2. e[x] < n /\ e[x] \in MatchesAt(t, x)
        BY <2>0, <2>2, <4>1
      <4>3. e[x] \in Nat
        BY <1>1, <4>1, <4>2 DEF MatchesAt
      <4>4. QED BY <2>0, <2>1, <4>2, <4>3
    <3>4. Round(ends, f, n) = MapPut(First(n - 1), n, e[n])
      BY <1>4, <2>0, <3>1, <3>2, <3>3 DEF Round
    <3>5. MapPut(First(n - 1), n, e[n]) = First(n)
      <4>1. {y \in DOMAIN e : y <= n - 1} \cup {n} = {y \in DOMAIN e : y <= n}
        BY <1>1, <2>0, <2>2
      <4>2. QED BY <2>1, <4>1 DEF MapPut
    <3>6. QED BY <3>4, <3>5
  <2>3. CASE n \notin DOMAIN e
    <3>1. {y \in DOMAIN e : y <= n - 1} = {y \in DOMAIN e : y <= n}
      BY <1>1, <2>0, <2>3
    <3>2. First(n - 1) = First(n)
      BY <3>1
    <3>3. ASSUME MatchesAt(t, n) # {}
          PROVE  \E x \in DOMAIN First(n - 1) : First(n - 1)[x] >= n
      <4>1. PICK x \in DOMAIN e : x <= n /\ n <= e[x]
        BY <3>3
      <4>2. x \in 1 .. Len(t) /\ x # n /\ e[x] \in MatchesAt(t, x)
        BY <2>3, <4>1
      <4>3. e[x] \in Nat /\ x <= n - 1
        BY <1>1, <2>0, <4>1, <4>2 DEF MatchesAt
      <4>4. QED BY <2>0, <2>1, <4>1, <4>3
    <3>4. Round(ends, f, n) = First(n - 1)
      BY <1>4, <2>0, <3>3 DEF Round
    <3>5. QED BY <3>2, <3>4
  <2>4. QED BY <2>2, <2>3
<1>5. \A f : Round(ends, f, 0) = EmptyMap
  BY DEF Round
<1> HIDE DEF First, ends
<1> DEFINE T == {n \in Nat : n <= Len(t) => upto[n] = First(n)}
<1>6. 0 \in T
  BY <1>1, <1>2, <1>3, <1>5
<1>7. ASSUME NEW n \in Nat, n \in T PROVE n + 1 \in T
  <2> SUFFICES ASSUME n + 1 <= Len(t) PROVE upto[n + 1] = First(n + 1)
    OBVIOUS
  <2>1. /\ n + 1 \in 1 .. Len(t) /\ n + 1 \in 0 .. Len(t)
        /\ (n + 1) - 1 = n /\ upto[n] = First(n)
    BY <1>1, <1>7
  <2>2. upto[n + 1] = Round(ends, upto, n + 1)
    BY <1>2, <2>1
  <2>3. Round(ends, upto, n + 1) = First(n + 1)
    BY <1>4, <2>1
  <2>4. QED BY <2>2, <2>3
<1>8. Nat \subseteq T
  <2> HIDE DEF T
  <2>1. QED BY <1>6, <1>7, SetInduction
<1>9. upto[Len(t)] = First(Len(t))
  BY <1>1, <1>8
<1>10. First(Len(t)) = e
  <2>1. {y \in DOMAIN e : y <= Len(t)} = DOMAIN e
    <3>1. \A y \in 1 .. Len(t) : y <= Len(t)
      BY <1>1
    <3>2. QED BY <3>1, Zenon
  <2>2. QED BY <2>1 DEF First
<1>11. QED BY <1>2, <1>9, <1>10

Sep == "_"

(* t[x] .. t[y] is a placeholder that no character of the pattern follows.  *)
Placed(t, x, y) ==
  /\ x \in Nat \ {0} /\ y \in x + 3 .. Len(t)
  /\ t[x] \in Upper /\ t[x + 1] \in Upper /\ t[x + 2] = Sep
  /\ \A i \in x + 3 .. y : t[i] \in Digits
  /\ y = Len(t) \/ t[y + 1] \notin Matched

(* Such a one is a match.                                                   *)
LEMMA NameGreedy ==
  ASSUME NEW t \in Text, NEW x, NEW y, Placed(t, x, y)
  PROVE  y \in MatchesAt(t, x)
<1>1. Len(t) \in Nat
  BY DEF Text
<1>2. x \in Nat /\ y \in Nat /\ x + 3 <= y /\ y <= Len(t)
  <2>1. x \in Nat /\ y \in x + 3 .. Len(t)
    BY Zenon DEF Placed
  <2>2. QED BY <1>1, <2>1
<1>3. Pattern(t, x, y)
  <2>1. x + 2 \in x + 2 .. y - 1 /\ (x + 2) + 1 = x + 3
    BY <1>2
  <2>2. \A i \in x + 1 .. (x + 2) - 1 : i = x + 1
    BY <1>2
  <2>3. QED BY <2>1, <2>2 DEF Pattern, Placed, Sep
<1>4. ASSUME NEW k \in y + 1 .. Len(t), Pattern(t, x, k) PROVE FALSE
  <2>1. y + 1 \in x .. k /\ y # Len(t) /\ k \in Nat
    BY <1>1, <1>2
  <2>2. t[y + 1] \in Matched
    BY <1>2, <1>4, <2>1, PatternMatched
  <2>3. QED BY <2>1, <2>2 DEF Placed
<1>5. Greedy(t, x, y)
  BY <1>3, <1>4 DEF Greedy
<1>6. y \in x .. Len(t)
  BY <1>1, <1>2
<1>7. QED BY <1>5, <1>6 DEF MatchesAt

(* FlattenSeq by what it has put together after each element                *)
LEMMA FlattenBy ==
  ASSUME NEW s, Len(s) \in Nat \ {0}, NEW g, g[1] = s[1],
         \A i \in 2 .. Len(s) : g[i] = g[i - 1] \o s[i]
  PROVE  Seqs!FlattenSeq(s) = g[Len(s)]
<1> DEFINE Follows(f) == f = [i \in 1 .. Len(s) |->
                                IF i = 1 THEN s[i] ELSE f[i - 1] \o s[i]]
           flatten == CHOOSE f : Follows(f)
           h == [i \in 1 .. Len(s) |-> g[i]]
<1>1. Seqs!FlattenSeq(s) = flatten[Len(s)]
  BY DEF Seqs!FlattenSeq
<1>2. Follows(h)
  <2>1. ASSUME NEW i \in 1 .. Len(s)
        PROVE  h[i] = IF i = 1 THEN s[i] ELSE h[i - 1] \o s[i]
    <3>1. CASE i = 1
      BY <3>1
    <3>2. CASE i # 1
      <4>1. i \in 2 .. Len(s) /\ i - 1 \in 1 .. Len(s)
        BY <3>2
      <4>2. QED BY <3>2, <4>1
    <3>3. QED BY <3>1, <3>2
  <2>2. h = [i \in 1 .. Len(s) |-> h[i]]
    BY Zenon
  <2> HIDE DEF h
  <2>3. QED BY <2>1, <2>2
<1>3. Follows(flatten)
  BY <1>2
<1>4. \A i \in 1 .. Len(s) : h[i] = g[i]
  OBVIOUS
<1> HIDE DEF flatten, h
<1> DEFINE T == {n \in Nat : n + 1 <= Len(s) => flatten[n + 1] = g[n + 1]}
<1>5. 0 \in T
  BY <1>3
<1>6. ASSUME NEW n \in Nat, n \in T PROVE n + 1 \in T
  <2> SUFFICES ASSUME n + 2 <= Len(s) PROVE flatten[n + 2] = g[n + 2]
    OBVIOUS
  <2>1. /\ n + 2 \in 2 .. Len(s) /\ n + 2 \in 1 .. Len(s) /\ n + 2 # 1
        /\ (n + 2) - 1 = n + 1 /\ flatten[n + 1] = g[n + 1]
    BY <1>6
  <2>2. flatten[n + 2] = flatten[n + 1] \o s[n + 2]
    BY <1>3, <2>1
  <2>3. QED BY <2>1, <2>2
<1>7. Nat \subseteq T
  <2> HIDE DEF T, Follows
  <2>1. QED BY <1>5, <1>6, SetInduction
<1>8. Len(s) - 1 \in Nat /\ (Len(s) - 1) + 1 = Len(s)
  OBVIOUS
<1>9. QED BY <1>1, <1>7, <1>8

-----------------------------------------------------------------------------
(* Rehydrate, and a text that is one placeholder                            *)

(* What Rehydrate puts in the place of t[i], where e are the spans          *)
Piece(t, s, e, i) ==
  IF i \in DOMAIN e
  THEN s.byName[CHOOSE name \in Named(s, SubSeq(t, i, e[i])) : TRUE]
  ELSE IF \E x \in DOMAIN e : x < i /\ i <= e[x] THEN << >> ELSE <<t[i]>>

(* It puts the pieces together.                                             *)
LEMMA RehydrateBy ==
  ASSUME NEW t \in Text, NEW s, NEW g, g[0] = << >>,
         \A i \in 1 .. Len(t) :
           /\ Piece(t, s, Spans(t, s), i) \in Text
           /\ g[i] = g[i - 1] \o Piece(t, s, Spans(t, s), i)
  PROVE  Rehydrate(t, s) = g[Len(t)]
<1> DEFINE e == Spans(t, s)
           pieces == [i \in 1 .. Len(t) |-> Piece(t, s, e, i)]
<1>1. Len(t) \in Nat
  BY DEF Text
<1>2. Rehydrate(t, s) = Seqs!FlattenSeq(pieces)
  BY DEF Rehydrate, Piece
<1>3. Len(pieces) = Len(t)
  BY <1>1
<1> HIDE DEF e
<1>4. CASE Len(t) = 0
  <2>1. pieces = << >>
    BY <1>4
  <2>2. Seqs!FlattenSeq(pieces) = pieces
    BY <1>3, <1>4 DEF Seqs!FlattenSeq
  <2>3. QED BY <1>2, <1>4, <2>1, <2>2
<1>5. CASE Len(t) # 0
  <2>1. \A i \in 1 .. Len(t) : pieces[i] = Piece(t, s, e, i)
    OBVIOUS
  <2> HIDE DEF pieces
  <2>2. g[1] = pieces[1]
    <3>1. /\ 1 \in 1 .. Len(t) /\ 1 - 1 = 0
      BY <1>1, <1>5
    <3>2. pieces[1] \in Text /\ g[1] = << >> \o pieces[1]
      BY <2>1, <3>1 DEF e
    <3>3. QED BY <3>2 DEF Text
  <2>3. \A i \in 2 .. Len(t) : g[i] = g[i - 1] \o pieces[i]
    <3>1. \A i \in 2 .. Len(t) : i \in 1 .. Len(t)
      BY <1>1
    <3>2. QED BY <2>1, <3>1 DEF e
  <2>4. Len(pieces) \in Nat \ {0}
    BY <1>1, <1>3, <1>5
  <2>5. \A i \in 2 .. Len(pieces) : g[i] = g[i - 1] \o pieces[i]
    BY <1>3, <2>3
  <2>6. QED BY <1>2, <1>3, <2>2, <2>4, <2>5, FlattenBy
<1>6. QED BY <1>4, <1>5

(* One character after the other                                            *)
LEMMA Prefixed ==
  ASSUME NEW D, NEW t \in Seq(D), NEW i \in 1 .. Len(t)
  PROVE  SubSeq(t, 1, i) = SubSeq(t, 1, i - 1) \o <<t[i]>>
OBVIOUS

(* A text that has the look of a placeholder is read as one, or not at all. *)
LEMMA NameRead ==
  ASSUME NEW s, Sound(s), NEW t \in Text, Placed(t, 1, Len(t))
  PROVE  Rehydrate(t, s) =
           IF Named(s, t) = {} THEN t
           ELSE s.byName[CHOOSE name \in Named(s, t) : TRUE]
<1> DEFINE L == Len(t)
           e == [x \in {1} |-> L]
<1>1. L \in Nat /\ 4 <= L
  <2>1. L \in Nat
    BY DEF Text
  <2>2. L \in 1 + 3 .. L
    BY Zenon DEF Placed
  <2>3. QED BY <2>1, <2>2
<1>2. Matches(t) = e
  <2>1. L \in MatchesAt(t, 1)
    BY NameGreedy
  <2>2. /\ e = [x \in DOMAIN e |-> e[x]] /\ DOMAIN e = {1} /\ e[1] = L
        /\ DOMAIN e \subseteq 1 .. Len(t)
    BY <1>1
  <2>3. \A i \in 1 .. Len(t) : 1 <= i /\ i <= L
    BY <1>1
  <2> HIDE DEF e
  <2>4. \A x \in DOMAIN e : \A y \in DOMAIN e : x < y => e[x] < y
    BY <2>2
  <2>5. \A x \in DOMAIN e : e[x] \in MatchesAt(t, x)
    BY <2>1, <2>2
  <2>6. \A i \in 1 .. Len(t) :
          MatchesAt(t, i) # {} => \E x \in DOMAIN e : x <= i /\ i <= e[x]
    BY <2>2, <2>3
  <2> HIDE DEF L
  <2>7. QED BY <2>2, <2>4, <2>5, <2>6, MatchesAre
<1>3. SubSeq(t, 1, L) = t
  BY DEF Text
<1>4. CASE Named(s, t) = {}
  <2>1. DOMAIN Spans(t, s) = {}
    BY <1>2, <1>3, <1>4 DEF Spans
  <2> DEFINE g == [i \in 0 .. L |-> SubSeq(t, 1, i)]
  <2>2. g[0] = << >> /\ g[L] = t
    BY <1>1, <1>3
  <2>3. ASSUME NEW i \in 1 .. L
        PROVE  /\ Piece(t, s, Spans(t, s), i) \in Text
               /\ g[i] = g[i - 1] \o Piece(t, s, Spans(t, s), i)
    <3>1. Piece(t, s, Spans(t, s), i) = <<t[i]>>
      BY <2>1 DEF Piece
    <3>2. <<t[i]>> \in Text
      BY DEF Text
    <3>3. i - 1 \in 0 .. L /\ i \in 0 .. L
      BY <1>1
    <3>4. g[i] = g[i - 1] \o <<t[i]>>
      BY <3>3, Prefixed DEF Text
    <3>5. QED BY <3>1, <3>2, <3>4
  <2> HIDE DEF g
  <2>4. Rehydrate(t, s) = g[L]
    BY <2>2, <2>3, RehydrateBy
  <2>5. QED BY <1>4, <2>2, <2>4
<1>5. CASE Named(s, t) # {}
  <2> DEFINE lit == s.byName[CHOOSE name \in Named(s, t) : TRUE]
  <2>1. Spans(t, s) = e
    BY <1>2, <1>3, <1>5 DEF Spans
  <2>2. lit \in Text
    <3>1. (CHOOSE name \in Named(s, t) : TRUE) \in DOMAIN s.byName
      BY <1>5 DEF Named
    <3>2. QED BY <3>1 DEF Sound, IsSession, IsMap
  <2> DEFINE g == [i \in 0 .. L |-> IF i = 0 THEN << >> ELSE lit]
  <2>3. g[0] = << >> /\ g[L] = lit
    BY <1>1
  <2>4. ASSUME NEW i \in 1 .. L
        PROVE  /\ Piece(t, s, e, i) \in Text
               /\ g[i] = g[i - 1] \o Piece(t, s, e, i)
    <3>1. CASE i = 1
      <4>1. Piece(t, s, e, 1) = lit
        BY <1>3 DEF Piece
      <4>2. g[1] = lit /\ g[0] = << >>
        BY <1>1
      <4> HIDE DEF g, lit, e
      <4>3. lit = << >> \o lit
        BY <2>2 DEF Text
      <4>4. i - 1 = 0
        BY <3>1
      <4>5. lit = g[0] \o lit
        BY <4>2, <4>3
      <4>6. QED BY <2>2, <3>1, <4>1, <4>2, <4>4, <4>5, Zenon
    <3>2. CASE i # 1
      <4>1. 1 < i /\ i <= e[1] /\ i \notin DOMAIN e /\ 1 \in DOMAIN e
        BY <1>1, <3>2
      <4>2. Piece(t, s, e, i) = << >>
        BY <4>1 DEF Piece
      <4>3. g[i] = lit /\ g[i - 1] = lit
        BY <1>1, <3>2
      <4> HIDE DEF g, lit
      <4>4. lit = lit \o << >> /\ << >> \in Text
        BY <2>2 DEF Text
      <4> HIDE DEF e
      <4>5. QED BY <4>2, <4>3, <4>4
    <3>3. QED BY <3>1, <3>2
  <2> HIDE DEF g, lit, e
  <2>5. Rehydrate(t, s) = g[L]
    BY <2>1, <2>3, <2>4, RehydrateBy
  <2>6. QED BY <1>5, <2>3, <2>5 DEF lit
<1>6. QED BY <1>4, <1>5

(* Three elements and a sequence                                            *)
LEMMA ThreeAnd ==
  ASSUME NEW D, NEW a, NEW b, NEW c, NEW d \in Seq(D), NEW t,
         t = <<a, b, c>> \o d
  PROVE  /\ Len(t) = 3 + Len(d) /\ t[1] = a /\ t[2] = b /\ t[3] = c
         /\ \A i \in 4 .. Len(t) : t[i] \in D
OBVIOUS

(* The parts of a placeholder                                               *)
LEMMA NameShape ==
  ASSUME NEW name \in Names
  PROVE  NameText(name) \in Text /\ Placed(NameText(name), 1, Len(NameText(name)))
<1> DEFINE t == NameText(name)
           p == name[1]
           d == numeral[name[2]]
<1>1. t \in Text /\ t = <<p, p, Sep>> \o d /\ p \in Upper /\ d \in Numeral
  BY NameTextType DEF Sep
<1>2. d \in Seq(Digits) /\ Len(d) > 0
  BY <1>1, Zenon DEF Numeral
<1> HIDE DEF t, p, d
<1>3. /\ Len(t) = 3 + Len(d) /\ t[1] = p /\ t[2] = p /\ t[3] = Sep
      /\ \A i \in 4 .. Len(t) : t[i] \in Digits
  BY <1>1, <1>2, ThreeAnd
<1>4. Len(d) \in Nat
  BY <1>2
<1>5. Len(t) \in 1 + 3 .. Len(t) /\ 1 \in Nat \ {0}
  BY <1>2, <1>3, <1>4
<1>6. Placed(t, 1, Len(t))
  BY <1>1, <1>3, <1>5 DEF Placed
<1>7. QED BY <1>1, <1>6 DEF t

(* A placeholder within another text                                        *)
LEMMA PlacedIn ==
  ASSUME NEW t, Len(t) \in Nat, Placed(t, 1, Len(t)), NEW u, NEW x \in Nat \ {0},
         NEW y \in Nat, y >= x - 1 + Len(t), y <= Len(u), Len(u) \in Nat,
         \A i \in 1 .. Len(t) : u[x - 1 + i] = t[i],
         \A i \in x + Len(t) .. y : u[i] \in Digits,
         y = Len(u) \/ u[y + 1] \notin Matched
  PROVE  Placed(u, x, y)
<1> DEFINE n == Len(t)
<1>1. n \in Nat /\ n \in 1 + 3 .. n
  BY Zenon DEF Placed
<1>2. /\ t[1] \in Upper /\ t[2] \in Upper /\ t[3] = Sep
      /\ \A i \in 4 .. n : t[i] \in Digits
  BY DEF Placed
<1>3. 4 <= n
  BY <1>1
<1>4. \A i \in 1 .. n : u[x - 1 + i] = t[i]
  OBVIOUS
<1> HIDE DEF n
<1>5. u[x] \in Upper /\ u[x + 1] \in Upper /\ u[x + 2] = Sep
  <2>1. 1 \in 1 .. n /\ 2 \in 1 .. n /\ 3 \in 1 .. n
    BY <1>1, <1>3
  <2>2. x - 1 + 1 = x /\ x - 1 + 2 = x + 1 /\ x - 1 + 3 = x + 2
    OBVIOUS
  <2>3. u[x - 1 + 1] = t[1] /\ u[x - 1 + 2] = t[2] /\ u[x - 1 + 3] = t[3]
    BY <1>4, <2>1
  <2>4. QED BY <1>2, <2>2, <2>3
<1>6. y \in x + 3 .. Len(u)
  BY <1>1, <1>3 DEF n
<1>7. ASSUME NEW i \in x + 3 .. y PROVE u[i] \in Digits
  <2>1. CASE i \in x + n .. y
    BY <2>1 DEF n
  <2>2. CASE i < x + n
    <3>1. i - x + 1 \in 4 .. n /\ i - x + 1 \in 1 .. n /\ x - 1 + (i - x + 1) = i
      BY <1>1, <1>3, <2>2
    <3>2. QED BY <1>2, <1>4, <3>1
  <2>3. QED BY <1>1, <2>1, <2>2
<1>8. QED BY <1>5, <1>6, <1>7 DEF Placed

(* "if RE2 matches STRIPE_KEY_10 and the session knows only STRIPE_KEY_1,   *)
(* the entire candidate is treated as unknown" (longest_match.go:27): in    *)
(* every session that redaction leaves, a placeholder with a digit behind   *)
(* it is the longer number's or none.                                       *)
THEOREM LongestMatchHolds == Spec => []LongestMatch
<1>1. TypeInv => LongestMatch
  <2>1. SUFFICES ASSUME Sound(sess), NEW name \in DOMAIN sess.byName, NEW d \in Digits
                 PROVE  LET text == NameText(name) \o <<d>>
                        IN  Rehydrate(text, sess) =
                              IF Named(sess, text) = {} THEN text
                              ELSE sess.byName[CHOOSE n \in Named(sess, text) : TRUE]
    BY DEF LongestMatch, TypeInv
  <2> DEFINE t == NameText(name)
             text == t \o <<d>>
  <2>2. name \in Names
    BY <2>1 DEF Sound, IsSession, IsMap
  <2>3. t \in Text /\ Len(t) \in Nat /\ Placed(t, 1, Len(t))
    BY <2>2, NameShape DEF Text
  <2>4. text \in Text /\ <<d>> \in Text
    <3>1. d \in Char
      BY DEF Char, candidateClass, JwtClass, Word, Alnum
    <3>2. <<d>> \in Seq(Char)
      BY <3>1
    <3>3. QED BY <2>3, <3>2, Joined DEF Text
  <2> HIDE DEF t
  <2>5. /\ Len(text) = Len(t) + 1 /\ text[Len(t) + 1] = d
        /\ \A i \in 1 .. Len(t) : text[i] = t[i]
    <3> HIDE DEF text
    <3>1. text = t \o <<d>> /\ t \in Seq(Char)
      BY <2>3 DEF text, Text
    <3>2. QED BY <3>1
  <2> HIDE DEF text
  <2>6. /\ \A i \in 1 .. Len(t) : text[1 - 1 + i] = t[i]
        /\ \A i \in 1 + Len(t) .. Len(text) : text[i] \in Digits
        /\ Len(text) \in Nat /\ Len(text) >= 1 - 1 + Len(t)
    BY <2>3, <2>5
  <2>7. Placed(text, 1, Len(text))
    BY <2>3, <2>6, PlacedIn
  <2>8. QED BY <2>1, <2>4, <2>7, NameRead DEF t, text
<1>2. QED BY SpecTypeInv, <1>1, PTL

-----------------------------------------------------------------------------
(* No two placeholders look alike                                           *)

(* What a last element is appended to                                       *)
LEMMA AppendSplit ==
  ASSUME NEW D, NEW a \in Seq(D), NEW b \in Seq(D), NEW c, NEW d,
         a \o <<c>> = b \o <<d>>
  PROVE  a = b /\ c = d
<1>1. Len(a) = Len(b)
  <2>1. Len(a \o <<c>>) = Len(a) + 1 /\ Len(b \o <<d>>) = Len(b) + 1
    OBVIOUS
  <2>2. QED BY <2>1
<1>2. \A i \in 1 .. Len(a) : a[i] = (a \o <<c>>)[i] /\ b[i] = (b \o <<d>>)[i]
  BY <1>1
<1>3. c = (a \o <<c>>)[Len(a) + 1] /\ d = (b \o <<d>>)[Len(b) + 1]
  OBVIOUS
<1>4. \A i \in 1 .. Len(a) : a[i] = b[i]
  BY <1>2
<1>5. QED BY <1>1, <1>3, <1>4

(* The last digit of a numeral, and those before it                         *)
Digit(i) == IF i = 0 THEN "0" ELSE "1"

(* A numeral is that of half the number and a digit.                        *)
LEMMA NumeralSplit ==
  /\ \A n \in {0, 1} : numeral[n] = <<Digit(n)>>
  /\ \A n \in Nat : n >= 2 => numeral[n] = numeral[n \div 2] \o <<Digit(n % 2)>>
<1>1. ASSUME NEW n \in {0, 1} PROVE numeral[n] = <<Digit(n)>>
  <2>1. n < 2 /\ n \in Nat
    OBVIOUS
  <2>2. QED BY <2>1, NumeralType DEF Spelled, Digit
<1>2. ASSUME NEW n \in Nat, n >= 2
      PROVE  numeral[n] = numeral[n \div 2] \o <<Digit(n % 2)>>
  <2>1. ~(n < 2) /\ n % 2 \in {0, 1}
    BY <1>2
  <2>2. numeral[n] = numeral[n \div 2] \o numeral[n % 2]
    BY <2>1, NumeralType, Zenon DEF Spelled
  <2>3. QED BY <1>1, <2>1, <2>2
<1>3. QED BY <1>1, <1>2

(* A numeral is one number's only.                                          *)
LEMMA NumeralInjective ==
  ASSUME NEW m \in Nat, NEW n \in Nat, numeral[m] = numeral[n]
  PROVE  m = n
<1> DEFINE T == {k \in Nat : \A i \in 0 .. k : \A j \in 0 .. k :
                               numeral[i] = numeral[j] => i = j}
<1>1. \A i \in {0, 1} : \A j \in {0, 1} : Digit(i) = Digit(j) => i = j
  BY DEF Digit
<1>2. \A i \in Nat : numeral[i] \in Seq(Digits) /\ Len(numeral[i]) \in Nat \ {0}
  <2>1. ASSUME NEW i \in Nat PROVE numeral[i] \in Seq(Digits) /\ Len(numeral[i]) > 0
    BY NumeralType, Zenon DEF Numeral
  <2>2. QED BY <2>1
<1>3. ASSUME NEW i \in Nat, i < 2 PROVE i \in {0, 1} /\ Len(numeral[i]) = 1
  <2>1. i \in {0, 1}
    BY <1>3
  <2>2. numeral[i] = <<Digit(i)>>
    BY <2>1, NumeralSplit
  <2>3. QED BY <2>1, <2>2
<1>4. ASSUME NEW i \in Nat, i >= 2
      PROVE  /\ i \div 2 \in 0 .. i - 1 /\ i % 2 \in {0, 1} /\ Len(numeral[i]) > 1
             /\ numeral[i] = numeral[i \div 2] \o <<Digit(i % 2)>>
             /\ i = 2 * (i \div 2) + (i % 2)
  <2>1. /\ i \div 2 \in 0 .. i - 1 /\ i % 2 \in {0, 1}
        /\ i = 2 * (i \div 2) + (i % 2)
    BY <1>4
  <2>2. numeral[i] = numeral[i \div 2] \o <<Digit(i % 2)>>
    BY <1>4, NumeralSplit
  <2>3. i \div 2 \in Nat
    BY <2>1
  <2>4. Len(numeral[i]) = Len(numeral[i \div 2]) + 1
    BY <1>2, <2>2, <2>3
  <2>5. Len(numeral[i \div 2]) \in Nat \ {0}
    BY <1>2, <2>3
  <2>6. QED BY <2>1, <2>2, <2>4, <2>5
<1>5. 0 \in T
  OBVIOUS
<1>6. ASSUME NEW k \in Nat, k \in T PROVE k + 1 \in T
  <2>1. ASSUME NEW i \in 0 .. k + 1, NEW j \in 0 .. k + 1, numeral[i] = numeral[j]
        PROVE  i = j
    <3>0. i \in Nat /\ j \in Nat
      OBVIOUS
    <3>1. CASE i < 2 /\ j < 2
      <4>1. i \in {0, 1} /\ j \in {0, 1}
        BY <3>1
      <4>2. numeral[i] = <<Digit(i)>> /\ numeral[j] = <<Digit(j)>>
        BY <4>1, NumeralSplit
      <4>3. Digit(i) = Digit(j)
        <5>1. <<Digit(i)>> = <<Digit(j)>>
          BY <2>1, <4>2
        <5>2. <<Digit(i)>>[1] = <<Digit(j)>>[1]
          BY <5>1
        <5> HIDE DEF Digit
        <5>3. QED BY <5>2
      <4>4. QED BY <1>1, <4>1, <4>3
    <3>2. CASE i >= 2 /\ j >= 2
      <4>1. numeral[i \div 2] \o <<Digit(i % 2)>> = numeral[j \div 2] \o <<Digit(j % 2)>>
        BY <1>4, <2>1, <3>0, <3>2
      <4>2. i \div 2 \in 0 .. k /\ j \div 2 \in 0 .. k
        BY <1>4, <3>0, <3>2
      <4>3. numeral[i \div 2] \in Seq(Digits) /\ numeral[j \div 2] \in Seq(Digits)
        BY <1>2, <4>2
      <4>4. numeral[i \div 2] = numeral[j \div 2] /\ Digit(i % 2) = Digit(j % 2)
        <5> DEFINE a == numeral[i \div 2]
                   b == numeral[j \div 2]
                   c == Digit(i % 2)
                   d == Digit(j % 2)
        <5>1. a \in Seq(Digits) /\ b \in Seq(Digits) /\ a \o <<c>> = b \o <<d>>
          BY <4>1, <4>3
        <5> HIDE DEF a, b, c, d
        <5>2. a = b /\ c = d
          BY <5>1, AppendSplit
        <5>3. QED BY <5>2 DEF a, b, c, d
      <4>5. i \div 2 = j \div 2
        BY <1>6, <4>2, <4>4
      <4>6. i % 2 = j % 2
        BY <1>1, <1>4, <3>2, <4>4
      <4>7. i = 2 * (i \div 2) + (i % 2) /\ j = 2 * (j \div 2) + (j % 2)
        BY <1>4, <3>0, <3>2
      <4>8. QED BY <4>5, <4>6, <4>7
    <3>3. CASE i < 2 /\ j >= 2
      <4>1. Len(numeral[i]) = 1 /\ Len(numeral[j]) > 1
        BY <1>3, <1>4, <3>0, <3>3
      <4>2. QED BY <2>1, <4>1
    <3>4. CASE i >= 2 /\ j < 2
      <4>1. Len(numeral[j]) = 1 /\ Len(numeral[i]) > 1
        BY <1>3, <1>4, <3>0, <3>4
      <4>2. QED BY <2>1, <4>1
    <3>5. QED BY <3>1, <3>2, <3>3, <3>4
  <2>2. QED BY <2>1
<1>7. Nat \subseteq T
  <2> HIDE DEF T
  <2>1. QED BY <1>5, <1>6, SetInduction
<1>8. CASE m <= n
  <2>1. n \in T /\ m \in 0 .. n /\ n \in 0 .. n
    BY <1>7, <1>8
  <2>2. QED BY <2>1
<1>9. CASE n <= m
  <2>1. m \in T /\ m \in 0 .. m /\ n \in 0 .. m
    BY <1>7, <1>9
  <2>2. QED BY <2>1
<1>10. QED BY <1>8, <1>9

(* What follows three elements                                              *)
LEMMA TailEqual ==
  ASSUME NEW D, NEW a, NEW b, NEW c, NEW x, NEW y, NEW z,
         NEW d \in Seq(D), NEW e \in Seq(D), <<a, b, c>> \o d = <<x, y, z>> \o e
  PROVE  a = x /\ d = e
<1> DEFINE t == <<a, b, c>> \o d
           u == <<x, y, z>> \o e
<1>1. Len(t) = 3 + Len(d) /\ Len(u) = 3 + Len(e) /\ t[1] = a /\ u[1] = x
  OBVIOUS
<1>2. \A i \in 1 .. Len(d) : t[i + 3] = d[i]
  OBVIOUS
<1>3. \A i \in 1 .. Len(e) : u[i + 3] = e[i]
  OBVIOUS
<1>4. t = u
  OBVIOUS
<1> HIDE DEF t, u
<1>5. Len(d) = Len(e)
  BY <1>1, <1>4
<1>6. \A i \in 1 .. Len(d) : d[i] = e[i]
  BY <1>2, <1>3, <1>4, <1>5
<1>7. QED BY <1>1, <1>4, <1>5, <1>6

(* No two names are written alike.                                          *)
LEMMA NameInjective ==
  ASSUME NEW a \in Names, NEW b \in Names, NameText(a) = NameText(b)
  PROVE  a = b
<1>1. /\ a = <<a[1], a[2]>> /\ b = <<b[1], b[2]>>
      /\ a[2] \in Nat /\ b[2] \in Nat
  BY DEF Names
<1>2. <<a[1], a[1], Sep>> \o numeral[a[2]] = <<b[1], b[1], Sep>> \o numeral[b[2]]
  BY NameTextType DEF Sep
<1>3. numeral[a[2]] \in Seq(Digits) /\ numeral[b[2]] \in Seq(Digits)
  BY <1>1, NumeralType, Zenon DEF Numeral
<1>4. a[1] = b[1] /\ numeral[a[2]] = numeral[b[2]]
  <2> DEFINE p == a[1]
             q == b[1]
             d == numeral[a[2]]
             e == numeral[b[2]]
  <2>1. d \in Seq(Digits) /\ e \in Seq(Digits) /\ <<p, p, Sep>> \o d = <<q, q, Sep>> \o e
    BY <1>2, <1>3
  <2> HIDE DEF p, q, d, e
  <2>2. p = q /\ d = e
    BY <2>1, TailEqual
  <2>3. QED BY <2>2 DEF p, q, d, e
<1>5. a[2] = b[2]
  BY <1>1, <1>4, NumeralInjective
<1>6. QED BY <1>1, <1>4, <1>5

-----------------------------------------------------------------------------
(* What a payload has to do with the pattern                                *)

(* A text with no matches has none from any start,                          *)
LEMMA NoneAt ==
  ASSUME NEW t \in Text, Matches(t) = EmptyMap
  PROVE  \A i \in 1 .. Len(t) : MatchesAt(t, i) = {}
<1> DEFINE L == Len(t)
           ends == [n \in 1 .. L |-> MatchesAt(t, n)]
<1>1. L \in Nat
  BY DEF Text
<1>2. PICK upto : /\ Matches(t) = upto[L]
                  /\ \A n \in 0 .. L : upto[n] = Round(ends, upto, n)
  BY <1>1, FindAllRounds DEF Matches
<1>3. \A n \in 1 .. L : ends[n] = MatchesAt(t, n)
  OBVIOUS
<1> HIDE DEF L, ends
<1> DEFINE T == {n \in Nat : n <= L /\ upto[n] = EmptyMap =>
                                \A i \in 1 .. n : MatchesAt(t, i) = {}}
<1>4. 0 \in T
  OBVIOUS
<1>5. ASSUME NEW n \in Nat, n \in T PROVE n + 1 \in T
  <2> SUFFICES ASSUME n + 1 <= L, upto[n + 1] = EmptyMap
               PROVE  \A i \in 1 .. n + 1 : MatchesAt(t, i) = {}
    OBVIOUS
  <2>1. n + 1 \in 0 .. L /\ n + 1 \in 1 .. L /\ n + 1 # 0 /\ (n + 1) - 1 = n
    BY <1>1
  <2>2. EmptyMap = IF MatchesAt(t, n + 1) = {} \/ \E i \in DOMAIN upto[n] : upto[n][i] >= n + 1
                   THEN upto[n]
                   ELSE MapPut(upto[n], n + 1, CHOOSE j \in MatchesAt(t, n + 1) : TRUE)
    BY <1>2, <1>3, <2>1 DEF Round
  <2>3. \A m, k, v : MapPut(m, k, v) # EmptyMap
    <3>1. \A m, k, v : k \in DOMAIN MapPut(m, k, v)
      BY DEF MapPut
    <3>2. DOMAIN EmptyMap = {}
      BY DEF EmptyMap
    <3>3. QED BY <3>1, <3>2
  <2>4. upto[n] = EmptyMap /\ DOMAIN upto[n] = {}
    BY <2>2, <2>3 DEF EmptyMap
  <2>5. MatchesAt(t, n + 1) = {}
    BY <2>2, <2>3, <2>4
  <2>6. \A i \in 1 .. n : MatchesAt(t, i) = {}
    <3>1. n <= L
      BY <1>1, <2>1
    <3>2. QED BY <1>5, <2>4, <3>1
  <2>7. \A i \in 1 .. n + 1 : i \in 1 .. n \/ i = n + 1
    OBVIOUS
  <2>8. QED BY <2>5, <2>6, <2>7
<1>6. Nat \subseteq T
  <2> HIDE DEF T
  <2>1. QED BY <1>4, <1>5, SetInduction
<1>7. QED BY <1>1, <1>2, <1>6 DEF L

(* and the pattern meets no part of it: of the matches from one start there *)
(* is a longest.                                                            *)
LEMMA NoPattern ==
  ASSUME NEW t \in Text, Matches(t) = EmptyMap,
         NEW i \in 1 .. Len(t), NEW j \in i .. Len(t), Pattern(t, i, j)
  PROVE  FALSE
<1> DEFINE L == Len(t)
           T == {n \in Nat : n <= L - i /\ Pattern(t, i, L - n)}
<1>1. L \in Nat /\ i \in Nat /\ i <= L
  BY DEF Text
<1>2. j \in Nat /\ j <= L /\ i <= j
  BY <1>1
<1>3. T \subseteq Nat /\ T # {}
  <2>1. L - j \in Nat /\ L - j <= L - i /\ L - (L - j) = j
    BY <1>1, <1>2
  <2>2. L - j \in T
    BY <2>1
  <2>3. QED BY <2>2
<1>4. PICK n \in T : \A k \in T : n <= k
  <2> HIDE DEF T
  <2>1. QED BY <1>3, LeastNumber
<1>5. L - n \in i .. L /\ Pattern(t, i, L - n)
  BY <1>1, <1>4
<1>6. ASSUME NEW k \in (L - n) + 1 .. L, Pattern(t, i, k) PROVE FALSE
  <2>1. L - k \in Nat /\ L - k <= L - i /\ L - (L - k) = k /\ L - k < n
    BY <1>1, <1>4, <1>5
  <2>2. L - k \in T
    BY <1>6, <2>1
  <2>3. QED BY <1>1, <1>4, <2>1, <2>2
<1>7. L - n \in MatchesAt(t, i)
  BY <1>5, <1>6 DEF Greedy, MatchesAt
<1>8. QED BY <1>7, NoneAt

(* A match is one in any text that holds the same characters.               *)
LEMMA PatternMoved ==
  ASSUME NEW t, NEW i \in Nat, NEW j \in Nat, Pattern(t, i, j),
         NEW u, NEW a \in Nat, \A x \in i .. j : u[a + (x - i)] = t[x]
  PROVE  Pattern(u, a, a + (j - i))
<1>1. PICK k \in i + 2 .. j - 1 :
        /\ t[k] = Sep
        /\ \A x \in i + 1 .. k - 1 : t[x] \in Upper \cup Digits \cup {Sep}
        /\ \A x \in k + 1 .. j : t[x] \in Digits
  BY DEF Pattern, Sep
<1>2. t[i] \in Upper
  BY DEF Pattern
<1> DEFINE b == a + (j - i)
           m == a + (k - i)
<1>3. k \in Nat /\ k \in i .. j /\ i \in i .. j /\ a + (i - i) = a
  BY <1>1
<1>4. m \in a + 2 .. b - 1 /\ u[m] = Sep /\ u[a] \in Upper
  BY <1>1, <1>2, <1>3
<1>5. ASSUME NEW y \in a + 1 .. m - 1 PROVE u[y] \in Upper \cup Digits \cup {Sep}
  <2>1. /\ y - a + i \in i + 1 .. k - 1 /\ y - a + i \in i .. j
        /\ a + ((y - a + i) - i) = y
    BY <1>3
  <2>2. QED BY <1>1, <2>1
<1>6. ASSUME NEW y \in m + 1 .. b PROVE u[y] \in Digits
  <2>1. /\ y - a + i \in k + 1 .. j /\ y - a + i \in i .. j
        /\ a + ((y - a + i) - i) = y
    BY <1>3
  <2>2. QED BY <1>1, <2>1
<1>7. QED
  <2> HIDE DEF b, m
  <2>1. Pattern(u, a, b)
    BY <1>4, <1>5, <1>6 DEF Pattern, Sep
  <2>2. QED BY <2>1 DEF b

(* Before a finding is no character that a placeholder may be made of.      *)
LEMMA FreeBefore ==
  ASSUME NEW t \in Text, NEW f \in Scan(t)
  PROVE  At(t, f.start - 1) \notin Matched
<1>1. /\ f.rule = "github" => ~InWord(t, f.start - 1)
      /\ f.rule = "slack" => ~InWord(t, f.start - 1)
      /\ f.rule = "jwt" => ~InWord(t, f.start - 1)
      /\ f.rule = "entropy" => At(t, f.start - 1) \notin candidateClass
  BY FindingSpan DEF GithubEnds, SlackEnds, JwtEnds, CandidateEnds
<1>2. Matched \subseteq Word /\ Matched \subseteq candidateClass
  BY DEF Matched, Word, Alnum, candidateClass, JwtClass
<1>3. QED BY <1>1, <1>2, FindingSpan DEF InWord

-----------------------------------------------------------------------------
(* Texts that stand for another                                             *)

(* o is the text t up to t[p - 1] with some parts of it, out of a session   *)
(* s, replaced: e[x] is where the placeholder at x ends, name[x] its name,  *)
(* and back[i] how much of t what precedes o[i + 1] stands for.             *)
Covered(e, i) == \E x \in DOMAIN e : x <= i /\ i <= e[x]

Replaced(t, o, s, e, name, back, x) ==
  LET len == Len(NameText(name[x])) IN
  /\ name[x] \in DOMAIN s.byName
  /\ e[x] = x - 1 + len /\ e[x] <= Len(o)
  /\ \A i \in 1 .. len : o[x - 1 + i] = NameText(name[x])[i]
  /\ \A i \in x .. e[x] : back[i] = back[x]
  /\ back[x - 1] <= back[x]
  /\ s.byName[name[x]] = SubSeq(t, back[x - 1] + 1, back[x])
  /\ x = 1 \/ o[x - 1] \notin Matched
  /\ e[x] = Len(o) \/ o[e[x] + 1] \notin Matched

CarriedOver(t, o, back, i) == back[i] = back[i - 1] + 1 /\ o[i] = t[back[i]]

Stands(t, o, p, s, e, name, back) ==
  /\ e = [x \in DOMAIN e |-> e[x]] /\ DOMAIN e \subseteq 1 .. Len(o)
  /\ back[0] = 0 /\ back[Len(o)] = p - 1
  /\ \A i \in 0 .. Len(o) : back[i] \in 0 .. p - 1
  /\ \A x \in DOMAIN e : Replaced(t, o, s, e, name, back, x)
  /\ \A x \in DOMAIN e : \A y \in DOMAIN e : x < y => e[x] < y
  /\ \A i \in 1 .. Len(o) : ~Covered(e, i) => CarriedOver(t, o, back, i)

(* Sequences are equal if their elements are.                               *)
LEMMA SeqEqual ==
  ASSUME NEW D, NEW a \in Seq(D), NEW b \in Seq(D), Len(a) = Len(b),
         \A i \in 1 .. Len(a) : a[i] = b[i]
  PROVE  a = b
OBVIOUS

(* The placeholders are matches,                                            *)
LEMMA ReplacedPlaced ==
  ASSUME NEW t \in Text, NEW o \in Text, NEW s, Sound(s), NEW e, NEW name, NEW back,
         NEW x \in 1 .. Len(o), Replaced(t, o, s, e, name, back, x)
  PROVE  /\ e[x] \in x .. Len(o) /\ e[x] \in MatchesAt(o, x)
         /\ name[x] \in Names /\ SubSeq(o, x, e[x]) = NameText(name[x])
         /\ o[e[x]] \in Matched
<1> DEFINE n == NameText(name[x])
           y == e[x]
<1>1. name[x] \in Names
  BY DEF Replaced, Sound, IsSession, IsMap
<1>2. n \in Text /\ Placed(n, 1, Len(n))
  BY <1>1, NameShape
<1>3. Len(n) \in Nat /\ Len(o) \in Nat
  BY <1>2 DEF Text
<1>4. Len(n) \in 1 + 3 .. Len(n)
  BY <1>2, Zenon DEF Placed
<1>5. 4 <= Len(n)
  BY <1>3, <1>4
<1>6. /\ y = x - 1 + Len(n) /\ y <= Len(o)
      /\ \A i \in 1 .. Len(n) : o[x - 1 + i] = n[i]
      /\ y = Len(o) \/ o[y + 1] \notin Matched
  BY DEF Replaced
<1>7. n[Len(n)] \in Matched
  <2>1. Len(n) \in 4 .. Len(n)
    BY <1>3, <1>5
  <2>2. n[Len(n)] \in Digits
    BY <1>2, <2>1 DEF Placed
  <2>3. QED BY <2>2 DEF Matched
<1> HIDE DEF n, y
<1>8. x \in Nat \ {0} /\ y \in Nat /\ y >= x - 1 + Len(n)
  BY <1>3, <1>5, <1>6
<1>9. \A i \in x + Len(n) .. y : o[i] \in Digits
  BY <1>3, <1>6
<1>10. Placed(o, x, y)
  BY <1>2, <1>3, <1>6, <1>8, <1>9, PlacedIn
<1>11. y \in MatchesAt(o, x)
  BY <1>10, NameGreedy
<1>12. SubSeq(o, x, y) = n
  <2>1. SubSeq(o, x, y) \in Text /\ Len(SubSeq(o, x, y)) = Len(n)
    BY <1>3, <1>6, <1>8 DEF Text
  <2>2. ASSUME NEW i \in 1 .. Len(n) PROVE SubSeq(o, x, y)[i] = n[i]
    <3>1. SubSeq(o, x, y)[i] = o[x + i - 1] /\ x + i - 1 = x - 1 + i
      BY <1>3, <1>6, <1>8 DEF Text
    <3>2. QED BY <1>6, <3>1
  <2> DEFINE m == SubSeq(o, x, y)
  <2>3. /\ m \in Seq(Char) /\ n \in Seq(Char) /\ Len(m) = Len(n)
        /\ \A i \in 1 .. Len(m) : m[i] = n[i]
    BY <1>2, <2>1, <2>2 DEF Text
  <2> HIDE DEF m
  <2>4. m = n
    BY <2>3, SeqEqual
  <2>5. QED BY <2>4 DEF m
<1>13. y \in x .. Len(o)
  BY <1>3, <1>5, <1>6, <1>8
<1>14. o[y] \in Matched
  <2>1. Len(n) \in 1 .. Len(n)
    BY <1>3, <1>5
  <2>2. o[x - 1 + Len(n)] = n[Len(n)]
    BY <1>6, <2>1
  <2>3. QED BY <1>6, <1>7, <2>2
<1>15. QED BY <1>1, <1>11, <1>12, <1>13, <1>14 DEF n, y

(* and if t has none itself there are no others: a match that begins        *)
(* outside of them stays outside, where it would be one in t.               *)
LEMMA StandsCovered ==
  ASSUME NEW t \in Text, Matches(t) = EmptyMap, NEW o \in Text,
         NEW s, Sound(s), NEW e, NEW name, NEW back,
         Stands(t, o, Len(t) + 1, s, e, name, back),
         NEW i \in 1 .. Len(o), MatchesAt(o, i) # {}, ~Covered(e, i)
  PROVE  FALSE
<1>1. Len(o) \in Nat /\ Len(t) \in Nat
  BY DEF Text
<1>2. PICK j \in i .. Len(o) : Pattern(o, i, j)
  BY DEF MatchesAt, Greedy
<1>3. i < j /\ \A x \in i .. j : o[x] \in Matched
  BY <1>1, <1>2, PatternMatched
<1>4. \A k \in 1 .. Len(o) : ~Covered(e, k) => CarriedOver(t, o, back, k)
  BY DEF Stands
<1>5. \A k \in 0 .. Len(o) : back[k] \in 0 .. Len(t)
  BY <1>1 DEF Stands
<1> DEFINE T == {n \in Nat : i + n <= j => ~Covered(e, i + n) /\ back[i + n] = back[i] + n}
<1>6. 0 \in T
  <2>1. i + 0 = i /\ back[i] + 0 = back[i]
    BY <1>1, <1>5
  <2>2. QED BY <2>1
<1>7. ASSUME NEW n \in Nat, n \in T PROVE n + 1 \in T
  <2> SUFFICES ASSUME i + (n + 1) <= j
               PROVE  ~Covered(e, i + (n + 1)) /\ back[i + (n + 1)] = back[i] + (n + 1)
    OBVIOUS
  <2> DEFINE k == i + n
  <2>1. /\ i + (n + 1) = k + 1 /\ k \in i .. j /\ k \in Nat \ {0}
        /\ k + 1 \in 1 .. Len(o) /\ (k + 1) - 1 = k
    BY <1>1
  <2>2. ~Covered(e, k) /\ back[k] = back[i] + n
    BY <1>1, <1>7, <2>1
  <2> HIDE DEF k
  <2>3. ASSUME NEW x \in DOMAIN e, x <= k + 1, k + 1 <= e[x] PROVE FALSE
    <3>1. x \in 1 .. Len(o) /\ Replaced(t, o, s, e, name, back, x)
      BY DEF Stands
    <3>2. e[x] \in x .. Len(o)
      BY <3>1, ReplacedPlaced
    <3>3. ~(x <= k /\ k <= e[x])
      BY <2>2 DEF Covered
    <3>4. x = k + 1
      BY <1>1, <2>1, <2>3, <3>1, <3>2, <3>3
    <3>5. x # 1 /\ x - 1 = k
      BY <2>1, <3>4
    <3>6. o[k] \notin Matched
      BY <3>1, <3>5 DEF Replaced
    <3>7. QED BY <1>3, <2>1, <3>6
  <2>4. ~Covered(e, k + 1)
    BY <2>3 DEF Covered
  <2>5. back[k + 1] = back[k] + 1
    BY <1>4, <2>1, <2>4 DEF CarriedOver
  <2>6. back[i] \in Nat
    BY <1>1, <1>5
  <2>7. back[k + 1] = back[i] + (n + 1)
    BY <2>2, <2>5, <2>6
  <2>8. QED BY <2>1, <2>4, <2>7
<1>8. Nat \subseteq T
  <2> HIDE DEF T
  <2>1. QED BY <1>6, <1>7, SetInduction
<1>9. ASSUME NEW x \in i .. j PROVE back[x] = back[i] + (x - i) /\ t[back[i] + (x - i)] = o[x]
  <2>1. x - i \in Nat /\ i + (x - i) = x /\ x \in 1 .. Len(o)
    BY <1>1, <1>2
  <2>2. x - i \in T
    BY <1>8, <2>1
  <2>3. ~Covered(e, x) /\ back[x] = back[i] + (x - i)
    BY <2>1, <2>2
  <2>4. CarriedOver(t, o, back, x)
    BY <1>4, <2>1, <2>3
  <2>5. QED BY <2>3, <2>4 DEF CarriedOver
<1>10. back[i] \in 1 .. Len(t)
  <2>1. CarriedOver(t, o, back, i) /\ i - 1 \in 0 .. Len(o) /\ i \in 0 .. Len(o)
    BY <1>1, <1>4
  <2>2. back[i] = back[i - 1] + 1 /\ back[i - 1] \in 0 .. Len(t) /\ back[i] \in 0 .. Len(t)
    BY <1>5, <2>1 DEF CarriedOver
  <2>3. QED BY <1>1, <2>2
<1>11. back[i] + (j - i) \in back[i] .. Len(t)
  <2>1. j \in i .. j /\ j \in 0 .. Len(o) /\ j - i \in Nat
    BY <1>1, <1>2
  <2>2. back[j] = back[i] + (j - i) /\ back[j] \in 0 .. Len(t)
    BY <1>5, <1>9, <2>1
  <2>3. QED BY <1>1, <1>10, <2>1, <2>2
<1>12. Pattern(t, back[i], back[i] + (j - i))
  <2>1. i \in Nat /\ j \in Nat /\ back[i] \in Nat
    BY <1>1, <1>2, <1>10
  <2>2. QED BY <1>2, <1>9, <2>1, PatternMoved
<1>13. QED BY <1>10, <1>11, <1>12, NoPattern

(* Two parts that follow each other                                         *)
LEMMA SubSeqJoin ==
  ASSUME NEW D, NEW t \in Seq(D), NEW a \in 0 .. Len(t), NEW b \in a .. Len(t)
  PROVE  /\ SubSeq(t, 1, b) = SubSeq(t, 1, a) \o SubSeq(t, a + 1, b)
         /\ SubSeq(t, a + 1, b) \in Seq(D)
<1> DEFINE u == SubSeq(t, 1, a)
           v == SubSeq(t, a + 1, b)
           w == SubSeq(t, 1, b)
<1>1. u \in Seq(D) /\ v \in Seq(D) /\ w \in Seq(D)
  OBVIOUS
<1>2. Len(u) = a /\ Len(v) = b - a /\ Len(w) = b
  OBVIOUS
<1>3. /\ \A i \in 1 .. a : u[i] = t[i]
      /\ \A i \in 1 .. b - a : v[i] = t[a + i]
      /\ \A i \in 1 .. b : w[i] = t[i]
  OBVIOUS
<1> HIDE DEF u, v, w
<1>4. Len(u \o v) = b /\ u \o v \in Seq(D)
  <2>1. Len(u \o v) = Len(u) + Len(v)
    BY <1>1
  <2>2. u \o v \in Seq(D)
    BY <1>1, Joined
  <2>3. a \in Nat /\ b \in Nat
    OBVIOUS
  <2>4. QED BY <1>2, <2>1, <2>2, <2>3
<1>5. ASSUME NEW i \in 1 .. b PROVE (u \o v)[i] = w[i]
  <2>1. CASE i <= a
    <3>1. i \in 1 .. a /\ i \in 1 .. b
      BY <2>1
    <3>2. (u \o v)[i] = u[i]
      BY <1>1, <1>2, <3>1
    <3>3. QED BY <1>3, <3>1, <3>2
  <2>2. CASE i > a
    <3>1. i - a \in 1 .. b - a /\ a + (i - a) = i
      BY <2>2
    <3>2. (u \o v)[i] = v[i - a]
      BY <1>1, <1>2, <2>2
    <3>3. QED BY <1>3, <3>1, <3>2
  <2>3. i \in Nat /\ a \in Nat
    OBVIOUS
  <2>4. i <= a \/ i > a
    BY <2>3
  <2>5. QED BY <2>1, <2>2, <2>4, Zenon
<1>6. u \o v = w
  BY <1>1, <1>2, <1>4, <1>5, SeqEqual
<1>7. QED BY <1>1, <1>6 DEF u, v, w

(* So rehydrating such a text gives t.                                      *)
LEMMA StandsRehydrates ==
  ASSUME NEW t \in Text, Matches(t) = EmptyMap, NEW o \in Text,
         NEW s, Sound(s), NEW e, NEW name, NEW back,
         Stands(t, o, Len(t) + 1, s, e, name, back)
  PROVE  Rehydrate(o, s) = t
<1> DEFINE L == Len(o)
<1>1. L \in Nat /\ Len(t) \in Nat
  BY DEF Text
<1>2. ASSUME NEW x \in DOMAIN e
      PROVE  /\ x \in 1 .. L /\ e[x] \in x .. L /\ e[x] \in MatchesAt(o, x)
             /\ name[x] \in Names /\ SubSeq(o, x, e[x]) = NameText(name[x])
             /\ Replaced(t, o, s, e, name, back, x)
  <2>1. x \in 1 .. L /\ Replaced(t, o, s, e, name, back, x)
    BY DEF Stands
  <2>2. QED BY <2>1, ReplacedPlaced
<1>3. Matches(o) = e
  <2>1. \A i \in 1 .. Len(o) : MatchesAt(o, i) # {} => Covered(e, i)
    BY StandsCovered
  <2>2. /\ e = [x \in DOMAIN e |-> e[x]] /\ DOMAIN e \subseteq 1 .. Len(o)
        /\ \A x \in DOMAIN e : \A y \in DOMAIN e : x < y => e[x] < y
    BY Zenon DEF Stands
  <2>3. \A x \in DOMAIN e : e[x] \in MatchesAt(o, x)
    BY <1>2
  <2>4. \A i \in 1 .. Len(o) :
          MatchesAt(o, i) # {} => \E x \in DOMAIN e : x <= i /\ i <= e[x]
    BY <2>1 DEF Covered
  <2>5. QED BY <2>2, <2>3, <2>4, MatchesAre
<1>4. ASSUME NEW x \in DOMAIN e
      PROVE  /\ Named(s, SubSeq(o, x, e[x])) # {}
             /\ (CHOOSE n \in Named(s, SubSeq(o, x, e[x])) : TRUE) = name[x]
  <2>1. name[x] \in DOMAIN s.byName /\ name[x] \in Named(s, SubSeq(o, x, e[x]))
    BY <1>2 DEF Replaced, Named
  <2>2. ASSUME NEW n \in Named(s, SubSeq(o, x, e[x])) PROVE n = name[x]
    <3>1. n \in DOMAIN s.byName /\ NameText(n) = NameText(name[x])
      BY <1>2 DEF Named
    <3>2. n \in Names
      BY <3>1 DEF Sound, IsSession, IsMap
    <3>3. QED BY <1>2, <3>1, <3>2, NameInjective
  <2>3. QED BY <2>1, <2>2
<1>5. Spans(o, s) = e
  <2>1. {x \in DOMAIN e : Named(s, SubSeq(o, x, e[x])) # {}} = DOMAIN e
    BY <1>4
  <2>2. e = [x \in DOMAIN e |-> e[x]]
    BY Zenon DEF Stands
  <2>3. Spans(o, s) = [i \in {x \in DOMAIN e : Named(s, SubSeq(o, x, e[x])) # {}} |-> e[i]]
    BY <1>3 DEF Spans
  <2>4. QED BY <2>1, <2>2, <2>3
<1> DEFINE g == [i \in 0 .. L |-> SubSeq(t, 1, back[i])]
<1>6. \A i \in 0 .. L : back[i] \in 0 .. Len(t)
  BY <1>1 DEF Stands
<1>7. g[0] = << >> /\ g[L] = t
  <2>1. back[0] = 0 /\ back[L] = Len(t)
    BY <1>1 DEF Stands
  <2>2. SubSeq(t, 1, 0) = << >> /\ SubSeq(t, 1, Len(t)) = t
    BY DEF Text
  <2>3. g[0] = SubSeq(t, 1, back[0]) /\ g[L] = SubSeq(t, 1, back[L])
    <3> HIDE DEF L
    <3>1. 0 \in 0 .. L /\ L \in 0 .. L
      BY <1>1
    <3>2. QED BY <3>1
  <2>4. QED BY <2>1, <2>2, <2>3
<1>8. ASSUME NEW i \in 1 .. L
      PROVE  /\ Piece(o, s, e, i) \in Text
             /\ g[i] = g[i - 1] \o Piece(o, s, e, i)
  <2> DEFINE a == back[i - 1]
             b == back[i]
  <2>1. /\ i - 1 \in 0 .. L /\ i \in 0 .. L /\ a \in 0 .. Len(t) /\ b \in 0 .. Len(t)
        /\ g[i] = SubSeq(t, 1, b) /\ g[i - 1] = SubSeq(t, 1, a)
    BY <1>1, <1>6
  <2> HIDE DEF g
  <2>2. CASE i \in DOMAIN e
    <3>1. Piece(o, s, e, i) = s.byName[name[i]]
      BY <1>4, <2>2 DEF Piece
    <3>2. s.byName[name[i]] = SubSeq(t, a + 1, b) /\ a <= b
      BY <1>2, <2>2 DEF Replaced
    <3> HIDE DEF a, b
    <3>3. b \in a .. Len(t)
      BY <1>1, <2>1, <3>2
    <3>4. QED BY <2>1, <3>1, <3>2, <3>3, SubSeqJoin DEF Text
  <2>3. CASE i \notin DOMAIN e /\ \E x \in DOMAIN e : x < i /\ i <= e[x]
    <3>1. PICK x \in DOMAIN e : x < i /\ i <= e[x]
      BY <2>3
    <3>2. Piece(o, s, e, i) = << >>
      BY <2>3 DEF Piece
    <3>3. x \in 1 .. L /\ e[x] \in x .. L
      BY <1>2
    <3>4. i - 1 \in x .. e[x] /\ i \in x .. e[x]
      BY <1>1, <3>1, <3>3
    <3>5. a = b
      BY <1>2, <3>4 DEF Replaced
    <3> HIDE DEF a, b
    <3>6. SubSeq(t, 1, a) \in Text /\ << >> \in Text
      BY <1>1, <2>1 DEF Text
    <3>7. SubSeq(t, 1, a) = SubSeq(t, 1, a) \o << >>
      BY <3>6 DEF Text
    <3>8. QED BY <2>1, <3>2, <3>5, <3>6, <3>7
  <2>4. CASE i \notin DOMAIN e /\ ~\E x \in DOMAIN e : x < i /\ i <= e[x]
    <3>1. ~Covered(e, i)
      <4>1. ASSUME NEW x \in DOMAIN e, x <= i, i <= e[x] PROVE FALSE
        <5>1. x \in Nat /\ i \in Nat /\ x # i
          BY <1>1, <1>2, <2>4
        <5>2. x < i
          BY <4>1, <5>1
        <5>3. QED BY <2>4, <4>1, <5>2
      <4>2. QED BY <4>1 DEF Covered
    <3>2. b = a + 1 /\ o[i] = t[b]
      BY <3>1 DEF Stands, CarriedOver
    <3>3. Piece(o, s, e, i) = <<t[b]>>
      BY <2>4, <3>2 DEF Piece
    <3> HIDE DEF a, b
    <3>4. b \in 1 .. Len(t) /\ b - 1 = a
      BY <1>1, <2>1, <3>2
    <3>5. <<t[b]>> \in Text
      BY <3>4 DEF Text
    <3>6. SubSeq(t, 1, b) = SubSeq(t, 1, b - 1) \o <<t[b]>>
      BY <3>4, Prefixed DEF Text
    <3>7. QED BY <2>1, <3>3, <3>4, <3>5, <3>6
  <2>5. QED BY <2>2, <2>3, <2>4
<1> HIDE DEF g
<1>9. \A i \in 1 .. Len(o) :
        /\ Piece(o, s, Spans(o, s), i) \in Text
        /\ g[i] = g[i - 1] \o Piece(o, s, Spans(o, s), i)
  BY <1>5, <1>8
<1>10. Rehydrate(o, s) = g[Len(o)]
  BY <1>7, <1>9, RehydrateBy
<1>11. QED BY <1>7, <1>10

(* s2 has the names of s.                                                   *)
Extends(s, s2) ==
  \A m \in DOMAIN s.byName : m \in DOMAIN s2.byName /\ s2.byName[m] = s.byName[m]

(* o2 goes on where o ends, and so does back2.                              *)
GoesOn(o, back, o2, back2) ==
  /\ Len(o) <= Len(o2)
  /\ \A i \in 1 .. Len(o) : o2[i] = o[i]
  /\ \A i \in 0 .. Len(o) : back2[i] = back[i]

(* A text that goes on keeps its replaced parts, if what follows them is no *)
(* part of a match.                                                         *)
LEMMA ReplacedExtends ==
  ASSUME NEW t \in Text, NEW o \in Text, NEW s, Sound(s), NEW e, NEW name, NEW back,
         NEW x \in 1 .. Len(o), Replaced(t, o, s, e, name, back, x),
         NEW o2 \in Text, NEW back2, GoesOn(o, back, o2, back2),
         NEW s2, Extends(s, s2), NEW e2, e2[x] = e[x], NEW name2, name2[x] = name[x],
         e[x] # Len(o) \/ Len(o) = Len(o2) \/ o2[Len(o) + 1] \notin Matched
  PROVE  Replaced(t, o2, s2, e2, name2, back2, x)
<1> DEFINE n == NameText(name[x])
           y == e[x]
<1>1. /\ Len(o) \in Nat /\ Len(o2) \in Nat /\ Len(o) <= Len(o2)
      /\ \A i \in 1 .. Len(o) : o2[i] = o[i]
      /\ \A i \in 0 .. Len(o) : back2[i] = back[i]
  BY DEF Text, GoesOn
<1>2. y \in x .. Len(o) /\ name[x] \in Names
  BY ReplacedPlaced
<1>3. /\ name[x] \in DOMAIN s.byName
      /\ y = x - 1 + Len(n)
      /\ \A i \in 1 .. Len(n) : o[x - 1 + i] = n[i]
      /\ \A i \in x .. y : back[i] = back[x]
      /\ back[x - 1] <= back[x]
      /\ s.byName[name[x]] = SubSeq(t, back[x - 1] + 1, back[x])
      /\ x = 1 \/ o[x - 1] \notin Matched
      /\ y = Len(o) \/ o[y + 1] \notin Matched
  BY DEF Replaced
<1>4. Len(n) \in Nat
  <2>1. n \in Text
    BY <1>2, NameShape
  <2> HIDE DEF n
  <2>2. QED BY <2>1 DEF Text
<1> HIDE DEF n, y
<1>5. x \in Nat /\ y \in Nat /\ x - 1 \in 0 .. Len(o) /\ x \in 0 .. Len(o)
  BY <1>1, <1>2
<1>6. \A i \in 1 .. Len(n) : o2[x - 1 + i] = n[i]
  <2>1. ASSUME NEW i \in 1 .. Len(n) PROVE x - 1 + i \in 1 .. Len(o)
    BY <1>1, <1>2, <1>3, <1>4
  <2>2. QED BY <1>1, <1>3, <2>1
<1>7. \A i \in x .. y : back2[i] = back2[x]
  <2>1. \A i \in x .. y : i \in 0 .. Len(o)
    BY <1>1, <1>2
  <2>2. QED BY <1>1, <1>3, <1>5, <2>1
<1>8. back2[x - 1] = back[x - 1] /\ back2[x] = back[x]
  BY <1>1, <1>5
<1>9. x = 1 \/ o2[x - 1] \notin Matched
  <2>1. x # 1 => x - 1 \in 1 .. Len(o)
    BY <1>5
  <2>2. QED BY <1>1, <1>3, <2>1
<1>10. y = Len(o2) \/ o2[y + 1] \notin Matched
  <2>1. y # Len(o) => y + 1 \in 1 .. Len(o)
    BY <1>1, <1>2
  <2>2. CASE y = Len(o)
    BY <2>2 DEF y
  <2>3. CASE y # Len(o)
    BY <1>1, <1>3, <2>1, <2>3
  <2>4. QED BY <2>2, <2>3
<1>11. name2[x] \in DOMAIN s2.byName /\ s2.byName[name2[x]] = s.byName[name[x]]
  BY <1>3 DEF Extends
<1>12. y <= Len(o2)
  BY <1>1, <1>2
<1>13. /\ Len(NameText(name2[x])) = Len(n)
       /\ \A i \in 1 .. Len(n) : n[i] = NameText(name2[x])[i]
       /\ e2[x] = y
  BY DEF n, y
<1>14. QED BY <1>3, <1>6, <1>7, <1>8, <1>9, <1>10, <1>11, <1>12, <1>13 DEF Replaced

(* Nothing stands for nothing.                                              *)
LEMMA StandsStart ==
  ASSUME NEW t \in Text, NEW s
  PROVE  Stands(t, << >>, 1, s, EmptyMap, EmptyMap, [i \in {0} |-> 0])
BY DEF Stands, EmptyMap

(* What is copied to the end of a text stands for itself.                   *)
LEMMA StandsGap ==
  ASSUME NEW t \in Text, NEW o \in Text, NEW s, Sound(s), NEW e, NEW name, NEW back,
         NEW p \in 1 .. Len(t) + 1, NEW q \in p .. Len(t) + 1,
         Stands(t, o, p, s, e, name, back),
         o = << >> \/ p = q \/ t[p] \notin Matched
  PROVE  \E back2 : Stands(t, o \o SubSeq(t, p, q - 1), q, s, e, name, back2)
<1> DEFINE gap == SubSeq(t, p, q - 1)
           o2 == o \o gap
           back2 == [i \in 0 .. Len(o2) |->
                       IF i <= Len(o) THEN back[i] ELSE p - 1 + (i - Len(o))]
<1>1. Len(o) \in Nat /\ Len(t) \in Nat /\ p \in Nat \ {0} /\ q \in Nat /\ p <= q
      /\ q <= Len(t) + 1
  BY DEF Text
<1>2. gap \in Text /\ Len(gap) = q - p /\ \A i \in 1 .. q - p : gap[i] = t[p - 1 + i]
  <2>1. t \in Seq(Char)
    BY DEF Text
  <2>2. QED BY <1>1, <2>1 DEF Text
<1> HIDE DEF gap
<1>3. /\ o2 \in Text /\ Len(o2) = Len(o) + (q - p)
      /\ \A i \in 1 .. Len(o) : o2[i] = o[i]
      /\ \A i \in 1 .. q - p : o2[Len(o) + i] = gap[i]
  <2>1. o \in Seq(Char) /\ gap \in Seq(Char)
    BY <1>2 DEF Text
  <2>2. o2 \in Seq(Char)
    BY <2>1, Joined
  <2>3. /\ Len(o2) = Len(o) + Len(gap)
        /\ \A i \in 1 .. Len(o) : o2[i] = o[i]
        /\ \A i \in 1 .. Len(gap) : o2[Len(o) + i] = gap[i]
    BY <2>1
  <2> HIDE DEF o2
  <2>4. QED BY <1>2, <2>2, <2>3 DEF Text
<1> HIDE DEF o2
<1>4. /\ \A i \in 0 .. Len(o) : back2[i] = back[i]
      /\ \A i \in Len(o) + 1 .. Len(o2) : back2[i] = p - 1 + (i - Len(o))
  <2>1. /\ \A i \in 0 .. Len(o) : i \in 0 .. Len(o2) /\ i <= Len(o)
        /\ \A i \in Len(o) + 1 .. Len(o2) : i \in 0 .. Len(o2) /\ ~(i <= Len(o))
    BY <1>1, <1>3
  <2>2. QED BY <2>1, Zenon
<1> HIDE DEF back2
<1>5. /\ e = [x \in DOMAIN e |-> e[x]] /\ DOMAIN e \subseteq 1 .. Len(o)
      /\ back[0] = 0 /\ back[Len(o)] = p - 1
      /\ \A i \in 0 .. Len(o) : back[i] \in 0 .. p - 1
      /\ \A x \in DOMAIN e : Replaced(t, o, s, e, name, back, x)
      /\ \A x \in DOMAIN e : \A y \in DOMAIN e : x < y => e[x] < y
      /\ \A i \in 1 .. Len(o) : ~Covered(e, i) => CarriedOver(t, o, back, i)
  BY Zenon DEF Stands
<1>6. DOMAIN e \subseteq 1 .. Len(o2)
  BY <1>1, <1>3, <1>5
<1>7. back2[0] = 0 /\ back2[Len(o2)] = q - 1
  <2>1. 0 \in 0 .. Len(o) /\ Len(o) \in 0 .. Len(o)
    BY <1>1
  <2>2. CASE p = q
    <3>1. Len(o2) = Len(o)
      BY <1>1, <1>3, <2>2
    <3>2. QED BY <1>4, <1>5, <2>1, <2>2, <3>1
  <2>3. CASE p # q
    <3>1. Len(o2) \in Len(o) + 1 .. Len(o2) /\ p - 1 + (Len(o2) - Len(o)) = q - 1
      BY <1>1, <1>3, <2>3
    <3>2. QED BY <1>4, <1>5, <2>1, <3>1
  <2>4. QED BY <2>2, <2>3
<1>8. ASSUME NEW i \in 0 .. Len(o2) PROVE back2[i] \in 0 .. q - 1
  <2>1. i \in 0 .. Len(o) \/ i \in Len(o) + 1 .. Len(o2)
    BY <1>1, <1>3
  <2>2. CASE i \in 0 .. Len(o)
    <3>1. back[i] \in 0 .. p - 1
      BY <1>5, <2>2
    <3>2. QED BY <1>1, <1>4, <2>2, <3>1
  <2>3. CASE i \in Len(o) + 1 .. Len(o2)
    BY <1>1, <1>3, <1>4, <2>3
  <2>4. QED BY <2>1, <2>2, <2>3
<1>9. ASSUME NEW x \in DOMAIN e PROVE Replaced(t, o2, s, e, name, back2, x)
  <2>1. x \in 1 .. Len(o) /\ Replaced(t, o, s, e, name, back, x)
    BY <1>5
  <2>2. Len(o) <= Len(o2)
    BY <1>1, <1>3
  <2>3. Len(o) = Len(o2) \/ o2[Len(o) + 1] \notin Matched
    <3>1. CASE p = q
      BY <1>1, <1>3, <3>1
    <3>2. CASE p # q
      <4>1. o # << >>
        BY <2>1
      <4>2. 1 \in 1 .. q - p /\ p - 1 + 1 = p
        BY <1>1, <3>2
      <4>3. o2[Len(o) + 1] = t[p]
        BY <1>2, <1>3, <4>2
      <4>4. QED BY <3>2, <4>1, <4>3
    <3>3. QED BY <3>1, <3>2
  <2>4. Extends(s, s)
    BY DEF Extends
  <2>5. o2 \in Text /\ GoesOn(o, back, o2, back2)
    BY <1>3, <1>4, <2>2 DEF GoesOn
  <2>6. QED BY <2>1, <2>3, <2>4, <2>5, ReplacedExtends
<1>10. ASSUME NEW i \in 1 .. Len(o2), ~Covered(e, i) PROVE CarriedOver(t, o2, back2, i)
  <2>1. CASE i \in 1 .. Len(o)
    <3>1. CarriedOver(t, o, back, i)
      BY <1>5, <1>10, <2>1
    <3>2. i - 1 \in 0 .. Len(o) /\ i \in 0 .. Len(o)
      BY <1>1, <2>1
    <3>3. QED BY <1>3, <1>4, <2>1, <3>1, <3>2 DEF CarriedOver
  <2>2. CASE i \in Len(o) + 1 .. Len(o2)
    <3>1. back2[i] = p - 1 + (i - Len(o))
      BY <1>4, <2>2
    <3>2. back2[i - 1] = p - 1 + (i - 1 - Len(o))
      <4>1. i - 1 = Len(o) \/ i - 1 \in Len(o) + 1 .. Len(o2)
        BY <1>1, <1>3, <2>2
      <4>2. CASE i - 1 = Len(o)
        <5>1. Len(o) \in 0 .. Len(o) /\ p - 1 + (i - 1 - Len(o)) = p - 1
          BY <1>1, <2>2, <4>2
        <5>2. QED BY <1>4, <1>5, <4>2, <5>1
      <4>3. CASE i - 1 \in Len(o) + 1 .. Len(o2)
        BY <1>4, <4>3
      <4>4. QED BY <4>1, <4>2, <4>3
    <3>3. i - Len(o) \in 1 .. q - p /\ Len(o) + (i - Len(o)) = i
      BY <1>1, <1>3, <2>2
    <3>4. o2[i] = t[p - 1 + (i - Len(o))]
      BY <1>2, <1>3, <3>3
    <3>5. p - 1 + (i - Len(o)) = (p - 1 + (i - 1 - Len(o))) + 1
      BY <1>1, <2>2
    <3>6. QED BY <3>1, <3>2, <3>4, <3>5 DEF CarriedOver
  <2>3. QED BY <1>1, <1>3, <2>1, <2>2
<1>11. Stands(t, o2, q, s, e, name, back2)
  BY <1>5, <1>6, <1>7, <1>8, <1>9, <1>10 DEF Stands
<1>12. QED BY <1>11 DEF o2, gap

(* A placeholder stands for the secret it names, at the end of a text that  *)
(* does not end with a character it may be made of.                         *)
LEMMA StandsName ==
  ASSUME NEW t \in Text, NEW o \in Text, NEW s, Sound(s), NEW e, NEW name, NEW back,
         NEW p \in 1 .. Len(t) + 1, NEW q \in p .. Len(t) + 1,
         Stands(t, o, p, s, e, name, back),
         o = << >> \/ o[Len(o)] \notin Matched,
         NEW s2, Extends(s, s2), NEW nm \in Names, nm \in DOMAIN s2.byName,
         s2.byName[nm] = SubSeq(t, p, q - 1)
  PROVE  \E e2, name2, back2 :
           Stands(t, o \o NameText(nm), q, s2, e2, name2, back2)
<1> DEFINE n == NameText(nm)
           o2 == o \o n
           x0 == Len(o) + 1
           e2 == [x \in DOMAIN e \cup {x0} |-> IF x = x0 THEN Len(o2) ELSE e[x]]
           name2 == [x \in DOMAIN e \cup {x0} |-> IF x = x0 THEN nm ELSE name[x]]
           back2 == [i \in 0 .. Len(o2) |-> IF i <= Len(o) THEN back[i] ELSE q - 1]
<1>1. Len(o) \in Nat /\ Len(t) \in Nat /\ p \in Nat \ {0} /\ q \in Nat /\ p <= q
  BY DEF Text
<1>2. n \in Text /\ Len(n) \in Nat /\ Len(n) > 0
  <2>1. n \in Text /\ Placed(n, 1, Len(n))
    BY NameShape
  <2>2. Len(n) \in 1 + 3 .. Len(n)
    BY <2>1, Zenon DEF Placed
  <2>3. Len(n) \in Nat
    BY <2>1 DEF Text
  <2>4. QED BY <2>1, <2>2, <2>3
<1> HIDE DEF n
<1>3. /\ o2 \in Text /\ Len(o2) = Len(o) + Len(n)
      /\ \A i \in 1 .. Len(o) : o2[i] = o[i]
      /\ \A i \in 1 .. Len(n) : o2[Len(o) + i] = n[i]
  <2>1. o \in Seq(Char) /\ n \in Seq(Char)
    BY <1>2 DEF Text
  <2>2. o2 \in Seq(Char)
    BY <2>1, Joined
  <2>3. /\ Len(o2) = Len(o) + Len(n)
        /\ \A i \in 1 .. Len(o) : o2[i] = o[i]
        /\ \A i \in 1 .. Len(n) : o2[Len(o) + i] = n[i]
    BY <2>1
  <2> HIDE DEF o2
  <2>4. QED BY <2>2, <2>3 DEF Text
<1> HIDE DEF o2
<1>4. /\ \A i \in 0 .. Len(o) : back2[i] = back[i]
      /\ \A i \in Len(o) + 1 .. Len(o2) : back2[i] = q - 1
  <2>1. /\ \A i \in 0 .. Len(o) : i \in 0 .. Len(o2) /\ i <= Len(o)
        /\ \A i \in Len(o) + 1 .. Len(o2) : i \in 0 .. Len(o2) /\ ~(i <= Len(o))
    BY <1>1, <1>2, <1>3
  <2>2. QED BY <2>1, Zenon
<1>5. /\ e = [x \in DOMAIN e |-> e[x]] /\ DOMAIN e \subseteq 1 .. Len(o)
      /\ back[0] = 0 /\ back[Len(o)] = p - 1
      /\ \A i \in 0 .. Len(o) : back[i] \in 0 .. p - 1
      /\ \A x \in DOMAIN e : Replaced(t, o, s, e, name, back, x)
      /\ \A x \in DOMAIN e : \A y \in DOMAIN e : x < y => e[x] < y
      /\ \A i \in 1 .. Len(o) : ~Covered(e, i) => CarriedOver(t, o, back, i)
  BY Zenon DEF Stands
<1>6. x0 \in Nat /\ x0 - 1 = Len(o) /\ x0 = Len(o) + 1 /\ x0 \notin DOMAIN e /\ x0 <= Len(o2)
  BY <1>1, <1>2, <1>3, <1>5
<1>7. /\ DOMAIN e2 = DOMAIN e \cup {x0} /\ e2[x0] = Len(o2) /\ name2[x0] = nm
      /\ \A x \in DOMAIN e : e2[x] = e[x] /\ name2[x] = name[x]
      /\ e2 = [x \in DOMAIN e2 |-> e2[x]]
  BY <1>6
<1> HIDE DEF x0, e2, name2, back2
<1>8. DOMAIN e2 \subseteq 1 .. Len(o2)
  <2>1. x0 \in 1 .. Len(o2) /\ \A x \in 1 .. Len(o) : x \in 1 .. Len(o2)
    BY <1>1, <1>2, <1>3, <1>6
  <2>2. QED BY <1>5, <1>7, <2>1
<1>9. back2[0] = 0 /\ back2[Len(o2)] = q - 1
  <2>1. 0 \in 0 .. Len(o) /\ Len(o2) \in Len(o) + 1 .. Len(o2)
    BY <1>1, <1>2, <1>3
  <2>2. QED BY <1>4, <1>5, <2>1
<1>10. ASSUME NEW i \in 0 .. Len(o2) PROVE back2[i] \in 0 .. q - 1
  <2>1. i \in 0 .. Len(o) \/ i \in Len(o) + 1 .. Len(o2)
    BY <1>1, <1>3
  <2>2. CASE i \in 0 .. Len(o)
    <3>1. back[i] \in 0 .. p - 1
      BY <1>5, <2>2
    <3>2. QED BY <1>1, <1>4, <2>2, <3>1
  <2>3. CASE i \in Len(o) + 1 .. Len(o2)
    BY <1>1, <1>4, <2>3
  <2>4. QED BY <2>1, <2>2, <2>3
<1>11. ASSUME NEW x \in DOMAIN e
       PROVE  /\ Replaced(t, o2, s2, e2, name2, back2, x)
              /\ x \in 1 .. Len(o) /\ e[x] \in x .. Len(o)
  <2>1. x \in 1 .. Len(o) /\ Replaced(t, o, s, e, name, back, x)
    BY <1>5
  <2>2. Len(o) <= Len(o2) /\ o # << >>
    BY <1>1, <1>2, <1>3, <2>1
  <2>3. e[x] \in x .. Len(o) /\ o[e[x]] \in Matched
    BY <2>1, ReplacedPlaced
  <2>4. e[x] # Len(o)
    BY <2>2, <2>3
  <2>5. e2[x] = e[x] /\ name2[x] = name[x] /\ o2 \in Text
    BY <1>3, <1>7
  <2>6. GoesOn(o, back, o2, back2)
    BY <1>3, <1>4, <2>2 DEF GoesOn
  <2>7. Replaced(t, o2, s2, e2, name2, back2, x)
    BY <2>1, <2>4, <2>5, <2>6, ReplacedExtends
  <2>8. QED BY <2>1, <2>3, <2>7
<1>12. Replaced(t, o2, s2, e2, name2, back2, x0)
  <2>1. name2[x0] \in DOMAIN s2.byName /\ NameText(name2[x0]) = n
    BY <1>7 DEF n
  <2>2. e2[x0] = x0 - 1 + Len(n) /\ e2[x0] <= Len(o2) /\ e2[x0] = Len(o2)
    BY <1>1, <1>2, <1>3, <1>6, <1>7
  <2>3. \A i \in 1 .. Len(n) : o2[x0 - 1 + i] = n[i]
    BY <1>3, <1>6
  <2>4. back2[x0] = q - 1 /\ back2[x0 - 1] = p - 1
    <3>1. x0 \in Len(o) + 1 .. Len(o2) /\ Len(o) \in 0 .. Len(o)
      BY <1>1, <1>6
    <3>2. QED BY <1>4, <1>5, <1>6, <3>1
  <2>5. \A i \in x0 .. e2[x0] : back2[i] = back2[x0]
    BY <1>4, <1>6, <2>2, <2>4
  <2>6. (p - 1) + 1 = p /\ p - 1 <= q - 1
    BY <1>1
  <2>7. x0 = 1 \/ o2[x0 - 1] \notin Matched
    <3>1. CASE o = << >>
      BY <1>6, <3>1
    <3>2. CASE o # << >>
      <4>1. Len(o) \in 1 .. Len(o)
        <5>1. Len(o) # 0
          BY <3>2 DEF Text
        <5>2. QED BY <1>1, <5>1
      <4>2. QED BY <1>3, <1>6, <3>2, <4>1
    <3>3. QED BY <3>1, <3>2
  <2>8. s2.byName[name2[x0]] = SubSeq(t, back2[x0 - 1] + 1, back2[x0])
    BY <1>7, <2>4, <2>6
  <2>9. back2[x0 - 1] <= back2[x0]
    BY <2>4, <2>6
  <2>10. QED BY <2>1, <2>2, <2>3, <2>5, <2>7, <2>8, <2>9 DEF Replaced
<1>13. ASSUME NEW x \in DOMAIN e2, NEW y \in DOMAIN e2, x < y PROVE e2[x] < y
  <2>1. CASE x \in DOMAIN e /\ y \in DOMAIN e
    BY <1>5, <1>7, <1>13, <2>1
  <2>2. CASE x \in DOMAIN e /\ y = x0
    BY <1>1, <1>6, <1>7, <1>11, <2>2
  <2>3. CASE x = x0
    <3>1. y = x0 \/ y \in 1 .. Len(o)
      BY <1>5, <1>7
    <3>2. QED BY <1>1, <1>6, <1>13, <2>3, <3>1
  <2>4. QED BY <1>7, <2>1, <2>2, <2>3
<1>14. ASSUME NEW i \in 1 .. Len(o2), ~Covered(e2, i) PROVE CarriedOver(t, o2, back2, i)
  <2>1. ~(x0 <= i /\ i <= Len(o2))
    BY <1>7, <1>14 DEF Covered
  <2>2. i \in 1 .. Len(o)
    BY <1>1, <1>3, <1>6, <2>1
  <2>3. ~Covered(e, i)
    BY <1>7, <1>14 DEF Covered
  <2>4. CarriedOver(t, o, back, i)
    BY <1>5, <2>2, <2>3
  <2>5. i - 1 \in 0 .. Len(o) /\ i \in 0 .. Len(o)
    BY <1>1, <2>2
  <2>6. QED BY <1>3, <1>4, <2>2, <2>4, <2>5 DEF CarriedOver
<1>15. \A x \in DOMAIN e2 : Replaced(t, o2, s2, e2, name2, back2, x)
  BY <1>7, <1>11, <1>12
<1>16. Stands(t, o2, q, s2, e2, name2, back2)
  BY <1>7, <1>8, <1>9, <1>10, <1>13, <1>14, <1>15 DEF Stands
<1>17. QED BY <1>16 DEF o2, n

-----------------------------------------------------------------------------
(* The way there and back                                                   *)

(* The result stands for the payload so far.                                *)
StandsUpTo(p) == \E e, name, back : Stands(in, out, p, sess, e, name, back)

(* What is inductive about it beside IInv and TypeInv: the text not yet     *)
(* copied begins behind a finding, if not at the first character.           *)
BackInv ==
  /\ pc \in {"scan", "resolve"} => out = << >>
  /\ pc = "rewrite" => (out = << >> /\ prev = 1) \/ \E f \in kept : prev = f.end
  /\ pc = "rewrite" /\ EndsClear => StandsUpTo(prev)
  /\ pc = "done" /\ EndsClear => StandsUpTo(Len(in) + 1)

(* Before the first finding is replaced nothing has been copied.            *)
LEMMA BackStart ==
  ASSUME IInv, TypeInv, BackInv, Detect \/ Resolved
  PROVE  BackInv'
<1>1. /\ out' = << >> /\ prev' = 1
      /\ pc' \in {"resolve", "rewrite"}
  <2>1. CASE Detect
    BY <2>1 DEF IInv, Phases, BackInv, Detect
  <2>2. CASE Resolved
    BY <2>2 DEF IInv, Phases, BackInv, Resolved
  <2>3. QED BY <2>1, <2>2
<1>2. in' \in Text
  BY DEF IInv, Detect, Resolved
<1>3. Stands(in', << >>, 1, sess', EmptyMap, EmptyMap, [i \in {0} |-> 0])
  BY <1>2, StandsStart
<1>4. StandsUpTo(prev)'
  BY <1>1, <1>3 DEF StandsUpTo
<1>5. QED BY <1>1, <1>4 DEF BackInv

(* Where the copying goes on is no character of the pattern.                *)
LEMMA FreeAhead ==
  ASSUME IInv, TypeInv, BackInv, pc = "rewrite", EndsClear,
         NEW q \in prev .. Len(in) + 1
  PROVE  out = << >> \/ prev = q \/ in[prev] \notin Matched
<1>1. SUFFICES ASSUME prev # q, NEW f \in kept, prev = f.end
               PROVE  in[prev] \notin Matched
  BY DEF BackInv
<1>2. in \in Text /\ prev \in Nat /\ Len(in) \in Nat /\ f \in Scan(in)
  BY DEF IInv, TypeInv, Text
<1>3. prev \in DOMAIN in
  BY <1>1, <1>2 DEF TypeInv, Text
<1>4. At(in, prev) \notin Matched
  BY <1>1 DEF EndsClear, Matched
<1>5. QED BY <1>3, <1>4 DEF At

(* A finding and what precedes it                                           *)
LEMMA BackRewrite ==
  ASSUME IInv, TypeInv, BackInv, Rewrite
  PROVE  BackInv'
<1>1. PICK f \in todo :
        IF f.start < prev
        THEN pc' = "error" /\ UNCHANGED <<todo, sess, out, prev>>
        ELSE LET lit   == SubSeq(in, f.start, f.end - 1)
                 named == PlaceholderFor(sess, lit, RuleOf[f.rule].prefix)
             IN  /\ sess' = named.session
                 /\ out' = out \o SubSeq(in, prev, f.start - 1)
                               \o NameText(named.name)
                 /\ prev' = f.end
                 /\ todo' = todo \ {f}
                 /\ UNCHANGED pc
  BY DEF Rewrite
<1>2. /\ in \in Text /\ Len(in) \in Nat /\ in' = in /\ kept' = kept /\ pc = "rewrite"
      /\ f \in Scan(in) /\ f \in kept /\ f \in Span /\ prev <= f.start
  BY DEF Rewrite, TypeInv, IInv, TodoAhead, Text
<1>3. /\ f.start \in 1 .. Len(in) /\ f.end \in 2 .. Len(in) + 1 /\ f.start < f.end
      /\ prev \in 1 .. Len(in) + 1
  BY <1>2, FindingSpan DEF TypeInv
<1> DEFINE lit   == SubSeq(in, f.start, f.end - 1)
           named == PlaceholderFor(sess, lit, RuleOf[f.rule].prefix)
           gap   == SubSeq(in, prev, f.start - 1)
           o1    == out \o gap
<1>4. ~(f.start < prev)
  BY <1>2, <1>3
<1>5. /\ sess' = named.session /\ prev' = f.end /\ pc' = pc
      /\ out' = o1 \o NameText(named.name)
  BY <1>1, <1>4
<1>6. /\ named.name \in Names /\ named.name \in DOMAIN named.session.byName
      /\ named.session.byName[named.name] = lit
      /\ Extends(sess, named.session)
  <2>1. lit \in Text
    BY <1>2, <1>3 DEF Text
  <2>2. RuleOf[f.rule].prefix \in Prefixes
    BY <1>2 DEF Span, Finding, RuleOf, Prefixes
  <2>3. Sound(sess)
    BY DEF TypeInv
  <2> HIDE DEF lit
  <2>4. QED BY <2>1, <2>2, <2>3, NamedSound DEF Extends
<1> HIDE DEF named
<1>7. ASSUME EndsClear PROVE StandsUpTo(prev)'
  <2>1. PICK e, name, back : Stands(in, out, prev, sess, e, name, back)
    BY <1>2, <1>7 DEF BackInv, StandsUpTo
  <2>2. f.start \in prev .. Len(in) + 1 /\ f.end \in f.start .. Len(in) + 1
        /\ f.start \in 1 .. Len(in) + 1
    BY <1>2, <1>3
  <2>3. out \in Text /\ Sound(sess)
    BY DEF TypeInv
  <2>4. out = << >> \/ prev = f.start \/ in[prev] \notin Matched
    BY <1>2, <1>7, <2>2, FreeAhead
  <2>5. PICK back1 : Stands(in, o1, f.start, sess, e, name, back1)
    BY <1>2, <1>3, <2>1, <2>2, <2>3, <2>4, StandsGap
  <2>6. gap \in Text /\ Len(gap) = f.start - prev
        /\ \A i \in 1 .. f.start - prev : gap[i] = in[prev - 1 + i]
    BY <1>2, <1>3 DEF Text
  <2>7. o1 = << >> \/ o1[Len(o1)] \notin Matched
    <3>1. CASE prev = f.start
      <4>1. out = << >> /\ gap = << >>
        <5>1. ASSUME NEW g \in kept, prev = g.end PROVE FALSE
          BY <1>2, <1>7, <3>1, <5>1 DEF EndsClear
        <5>2. Len(gap) = 0
          BY <1>3, <2>6, <3>1
        <5> HIDE DEF gap
        <5>3. gap = << >>
          BY <2>6, <5>2 DEF Text
        <5>4. QED BY <1>2, <5>1, <5>3 DEF BackInv
      <4>2. o1 = << >>
        BY <4>1
      <4>3. QED BY <4>2
    <3>2. CASE prev # f.start
      <4>1. f.start - prev \in 1 .. f.start - prev /\ prev - 1 + (f.start - prev) = f.start - 1
            /\ f.start - 1 \in DOMAIN in
        BY <1>2, <1>3, <3>2 DEF Text
      <4>2. At(in, f.start - 1) \notin Matched
        BY <1>2, FreeBefore
      <4>3. gap[f.start - prev] \notin Matched
        BY <2>6, <4>1, <4>2 DEF At
      <4> HIDE DEF gap
      <4>4. o1[Len(o1)] = gap[Len(gap)]
        <5>1. out \in Seq(Char) /\ gap \in Seq(Char) /\ Len(gap) \in 1 .. Len(gap)
          BY <2>3, <2>6, <4>1 DEF Text
        <5>2. QED BY <5>1
      <4>5. QED BY <2>6, <4>3, <4>4
    <3>3. QED BY <3>1, <3>2
  <2>8. o1 \in Text
    BY <2>3, <2>6, Joined DEF Text
  <2> HIDE DEF o1, gap
  <2>9. \E e2, name2, back2 :
           Stands(in, o1 \o NameText(named.name), f.end, named.session, e2, name2, back2)
    BY <1>2, <1>6, <2>2, <2>3, <2>5, <2>7, <2>8, StandsName
  <2>10. QED BY <1>2, <1>5, <2>9 DEF StandsUpTo
<1>8. EndsClear' = EndsClear /\ \E g \in kept' : prev' = g.end
  BY <1>2, <1>5 DEF EndsClear, BackInv
<1>9. QED BY <1>2, <1>5, <1>7, <1>8 DEF BackInv

(* The end of the text                                                      *)
LEMMA BackFinish ==
  ASSUME IInv, TypeInv, BackInv, Finish
  PROVE  BackInv'
<1>1. /\ in' = in /\ kept' = kept /\ sess' = sess /\ pc = "rewrite" /\ pc' = "done"
      /\ out' = out \o SubSeq(in, prev, Len(in))
  BY DEF Finish
<1>2. /\ in \in Text /\ Len(in) \in Nat /\ out \in Text /\ Sound(sess)
      /\ prev \in 1 .. Len(in) + 1
  BY DEF IInv, TypeInv, Text
<1>3. ASSUME EndsClear PROVE StandsUpTo(Len(in) + 1)'
  <2>1. PICK e, name, back : Stands(in, out, prev, sess, e, name, back)
    BY <1>1, <1>3 DEF BackInv, StandsUpTo
  <2> DEFINE q == Len(in) + 1
  <2>2. q \in prev .. Len(in) + 1 /\ q - 1 = Len(in)
    BY <1>2
  <2>3. out = << >> \/ prev = q \/ in[prev] \notin Matched
    BY <1>1, <1>3, <2>2, FreeAhead
  <2> HIDE DEF q
  <2>4. \E back1 : Stands(in, out \o SubSeq(in, prev, q - 1), q, sess, e, name, back1)
    BY <1>2, <2>1, <2>2, <2>3, StandsGap
  <2>5. QED BY <1>1, <2>2, <2>4 DEF StandsUpTo, q
<1>4. EndsClear' = EndsClear
  BY <1>1 DEF EndsClear, BackInv
<1>5. QED BY <1>1, <1>3, <1>4 DEF BackInv

(* For every payload and whatever the session knows already: the agent can  *)
(* hand back what a hook redacted, and Rehydrate restores it, the secrets   *)
(* and the text around them, byte for byte.                                 *)
THEOREM RoundTripHolds == Spec => []RoundTrip
<1>1. Init => BackInv
  BY DEF Init, BackInv
<1>2. IInv /\ TypeInv /\ BackInv /\ [Next]_vars => BackInv'
  <2>1. SUFFICES ASSUME IInv, TypeInv, BackInv, [Next]_vars PROVE BackInv'
    OBVIOUS
  <2>2. CASE Place
    BY <2>1, <2>2 DEF BackInv, Place
  <2>3. CASE UNCHANGED vars
    BY <2>1, <2>3 DEF BackInv, EndsClear, StandsUpTo, vars
  <2>4. QED BY <2>1, <2>2, <2>3, BackStart, BackRewrite, BackFinish DEF Next
<1>3. IInv /\ TypeInv /\ BackInv => RoundTrip
  <2>1. SUFFICES ASSUME IInv, TypeInv, BackInv, pc = "done",
                        Matches(in) = EmptyMap, EndsClear
                 PROVE  Rehydrate(out, sess) = in
    BY DEF RoundTrip
  <2>2. PICK e, name, back : Stands(in, out, Len(in) + 1, sess, e, name, back)
    BY <2>1 DEF BackInv, StandsUpTo
  <2>3. in \in Text /\ out \in Text /\ Sound(sess)
    BY <2>1 DEF IInv, TypeInv
  <2>4. QED BY <2>1, <2>2, <2>3, StandsRehydrates
<1>4. QED BY SpecIInv, SpecTypeInv, <1>1, <1>2, <1>3, PTL DEF Spec
=============================================================================

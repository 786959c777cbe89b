--------------------------- MODULE GoSlicesProofs ---------------------------
(* What Filter computes, for sequences of any length: induction over them   *)
(* by way of the library's least elements of well-founded relations.        *)
EXTENDS GoSlices, WellFoundedInduction, TLAPS

Below == {p \in Nat \X Nat : p[1] < p[2]}

(* The naturals have no infinite descent. *)
LEMMA BelowWellFounded == IsWellFoundedOn(Below, Nat)
BY NatLessThanWellFounded DEF OpToRel, Below

(* A set of naturals has a least one. *)
LEMMA LeastNumber ==
  ASSUME NEW T, T \subseteq Nat, T # {}
  PROVE  \E m \in T : \A k \in T : m <= k
<1>1. PICK m \in T : \A k \in T : ~(<<k, m>> \in Below)
  BY BelowWellFounded, WFMin
<1>2. ASSUME NEW k \in T, k < m PROVE FALSE
  <2>1. <<k, m>> \in Nat \X Nat /\ <<k, m>>[1] < <<k, m>>[2]
    BY <1>2
  <2>2. <<k, m>> \in Below
    BY <2>1 DEF Below
  <2>3. QED BY <2>2, <1>1
<1>3. QED BY <1>1, <1>2

(* Induction over the naturals, for a set. *)
LEMMA SetInduction ==
  ASSUME NEW T, 0 \in T, \A n \in Nat : n \in T => n + 1 \in T
  PROVE  Nat \subseteq T
<1> SUFFICES ASSUME Nat \ T # {} PROVE FALSE
  OBVIOUS
<1>1. PICK m \in Nat \ T : \A k \in Nat \ T : m <= k
  BY LeastNumber
<1>2. m # 0 /\ m - 1 \in Nat /\ m - 1 \in T
  BY <1>1
<1>3. QED BY <1>1, <1>2

(* f is what the loop of Filter has copied after each round. *)
Copied(f, s, keep) ==
  f = [i \in 0 .. Len(s) |->
         IF i = 0 THEN << >>
         ELSE IF s[i] \in keep THEN Append(f[i - 1], s[i])
         ELSE f[i - 1]]

(* There is such an f for every sequence, and its values are sequences. *)
LEMMA CopiedExists ==
  ASSUME NEW D, NEW s \in Seq(D), NEW keep
  PROVE  \E f \in [0 .. Len(s) -> Seq(D)] : Copied(f, s, keep)
<1> DEFINE Upto(f, n) ==
             \A i \in 0 .. n :
               f[i] = IF i = 0 THEN << >>
                      ELSE IF s[i] \in keep THEN Append(f[i - 1], s[i])
                      ELSE f[i - 1]
           T == {n \in Nat : n <= Len(s) => \E f \in [0 .. n -> Seq(D)] : Upto(f, n)}
<1>1. 0 \in T
  <2> DEFINE f == [i \in 0 .. 0 |-> << >>]
  <2>1. f \in [0 .. 0 -> Seq(D)] /\ Upto(f, 0)
    OBVIOUS
  <2>2. QED BY <2>1
<1>2. ASSUME NEW n \in Nat, n \in T PROVE n + 1 \in T
  <2> SUFFICES ASSUME n + 1 <= Len(s)
               PROVE  \E f \in [0 .. n + 1 -> Seq(D)] : Upto(f, n + 1)
    OBVIOUS
  <2>1. PICK g \in [0 .. n -> Seq(D)] : Upto(g, n)
    BY <1>2
  <2> DEFINE last == IF s[n + 1] \in keep THEN Append(g[n], s[n + 1]) ELSE g[n]
             f == [i \in 0 .. n + 1 |-> IF i = n + 1 THEN last ELSE g[i]]
  <2>2. last \in Seq(D)
    OBVIOUS
  <2>3. f \in [0 .. n + 1 -> Seq(D)]
    BY <2>2
  <2>4. \A i \in 0 .. n : f[i] = g[i]
    OBVIOUS
  <2>5. f[n + 1] = last
    OBVIOUS
  <2> HIDE DEF f
  <2>6. ASSUME NEW i \in 0 .. n + 1
        PROVE  f[i] = IF i = 0 THEN << >>
                      ELSE IF s[i] \in keep THEN Append(f[i - 1], s[i])
                      ELSE f[i - 1]
    <3>1. CASE i = n + 1
      <4>1. i # 0 /\ i - 1 = n /\ n \in 0 .. n
        BY <3>1
      <4>2. f[i - 1] = g[n]
        BY <4>1, <2>4
      <4>3. QED BY <3>1, <4>1, <4>2, <2>5
    <3>2. CASE i = 0
      <4>1. i \in 0 .. n
        BY <3>2
      <4>2. QED BY <4>1, <3>2, <2>1, <2>4
    <3>3. CASE i \in 1 .. n
      <4>1. i \in 0 .. n /\ i - 1 \in 0 .. n
        BY <3>3
      <4>2. f[i] = g[i] /\ f[i - 1] = g[i - 1]
        BY <4>1, <2>4
      <4>3. QED BY <4>1, <4>2, <2>1
    <3>4. QED BY <3>1, <3>2, <3>3
  <2>7. QED BY <2>3, <2>6
<1>3. \A n \in Nat : n \in T
  <2> HIDE DEF T
  <2>1. Nat \subseteq T
    BY <1>1, <1>2, SetInduction
  <2>2. QED BY <2>1
<1>4. PICK f \in [0 .. Len(s) -> Seq(D)] : Upto(f, Len(s))
  BY <1>3, Len(s) \in Nat, Len(s) <= Len(s)
<1>5. QED BY <1>4 DEF Copied

(* and only one: the loop is deterministic. *)
LEMMA CopiedUnique ==
  ASSUME NEW D, NEW s \in Seq(D), NEW keep,
         NEW f, Copied(f, s, keep), NEW g, Copied(g, s, keep)
  PROVE  f = g
<1> DEFINE T == {n \in Nat : n <= Len(s) => f[n] = g[n]}
<1>1. 0 \in T
  BY DEF Copied
<1>2. ASSUME NEW n \in Nat, n \in T PROVE n + 1 \in T
  <2> SUFFICES ASSUME n + 1 <= Len(s) PROVE f[n + 1] = g[n + 1]
    OBVIOUS
  <2>1. n + 1 \in 0 .. Len(s) /\ (n + 1) - 1 = n /\ n + 1 # 0 /\ f[n] = g[n]
    BY <1>2
  <2>2. f[n + 1] = IF s[n + 1] \in keep THEN Append(f[n], s[n + 1]) ELSE f[n]
    BY <2>1 DEF Copied
  <2>3. g[n + 1] = IF s[n + 1] \in keep THEN Append(g[n], s[n + 1]) ELSE g[n]
    BY <2>1 DEF Copied
  <2>4. QED BY <2>1, <2>2, <2>3
<1>3. \A n \in Nat : n \in T
  <2> HIDE DEF T
  <2>1. Nat \subseteq T
    BY <1>1, <1>2, SetInduction
  <2>2. QED BY <2>1
<1>4. \A n \in 0 .. Len(s) : f[n] = g[n]
  BY <1>3
<1>5. QED BY <1>4 DEF Copied

(* The loop of Filter computes such an f. *)
LEMMA FilterCopied ==
  ASSUME NEW D, NEW s \in Seq(D), NEW keep
  PROVE  \E f \in [0 .. Len(s) -> Seq(D)] :
           Copied(f, s, keep) /\ Filter(s, keep) = f[Len(s)]
<1>1. PICK f \in [0 .. Len(s) -> Seq(D)] : Copied(f, s, keep)
  BY CopiedExists
<1> DEFINE out == CHOOSE g : Copied(g, s, keep)
<1>2. Filter(s, keep) = out[Len(s)]
  BY DEF Filter, Copied
<1>3. Copied(out, s, keep)
  BY <1>1
<1>4. out = f
  BY <1>1, <1>3, CopiedUnique
<1>5. QED BY <1>1, <1>2, <1>4

(* Induction over sequences, for a set: from the empty one, by Append. *)
LEMMA SeqInduction ==
  ASSUME NEW D, NEW T, << >> \in T,
         \A s \in Seq(D), e \in D : s \in T => Append(s, e) \in T
  PROVE  Seq(D) \subseteq T
<1> DEFINE N == {n \in Nat : \A s \in Seq(D) : Len(s) = n => s \in T}
<1>1. 0 \in N
  <2>1. ASSUME NEW s \in Seq(D), Len(s) = 0 PROVE s \in T
    BY <2>1, s = << >>
  <2>2. QED BY <2>1
<1>2. ASSUME NEW n \in Nat, n \in N PROVE n + 1 \in N
  <2>1. ASSUME NEW s \in Seq(D), Len(s) = n + 1 PROVE s \in T
    <3> DEFINE r == SubSeq(s, 1, n)
    <3>1. r \in Seq(D) /\ Len(r) = n /\ s[n + 1] \in D
      BY <2>1
    <3>2. s = Append(r, s[n + 1])
      BY <2>1
    <3>3. r \in T
      BY <3>1, <1>2
    <3>4. QED BY <3>1, <3>2, <3>3
  <2>2. QED BY <2>1
<1>3. Nat \subseteq N
  <2> HIDE DEF N
  <2>1. QED BY <1>1, <1>2, SetInduction
<1>4. QED BY <1>3

-----------------------------------------------------------------------------
(* What Filter gives. *)

(* Nothing to copy.                                                         *)
LEMMA FilterEmpty ==
  ASSUME NEW keep
  PROVE  Filter(<< >>, keep) = << >>
<1>1. << >> \in Seq({}) /\ Len(<< >>) = 0
  OBVIOUS
<1>2. PICK f : Copied(f, << >>, keep) /\ Filter(<< >>, keep) = f[0]
  BY <1>1, FilterCopied
<1>3. QED BY <1>2, <1>1 DEF Copied

(* One more round of the loop.                                              *)
LEMMA FilterAppend ==
  ASSUME NEW D, NEW s \in Seq(D), NEW e \in D, NEW keep
  PROVE  Filter(Append(s, e), keep) =
           IF e \in keep THEN Append(Filter(s, keep), e) ELSE Filter(s, keep)
<1> DEFINE n == Len(s)
           t == Append(s, e)
<1>1. t \in Seq(D) /\ Len(t) = n + 1 /\ n \in Nat /\ t[n + 1] = e
      /\ \A i \in 1 .. n : t[i] = s[i]
  OBVIOUS
<1>2. PICK f \in [0 .. n -> Seq(D)] : Copied(f, s, keep) /\ Filter(s, keep) = f[n]
  BY FilterCopied
<1> HIDE DEF t
<1>3. PICK g \in [0 .. n + 1 -> Seq(D)] : Copied(g, t, keep) /\ Filter(t, keep) = g[n + 1]
  BY FilterCopied, <1>1
<1> HIDE DEF n
<1> DEFINE h == [i \in 0 .. n |-> g[i]]
<1>4. Copied(h, s, keep)
  <2>1. ASSUME NEW i \in 0 .. n
        PROVE  h[i] = IF i = 0 THEN << >>
                      ELSE IF s[i] \in keep THEN Append(h[i - 1], s[i])
                      ELSE h[i - 1]
    <3>1. i \in 0 .. n + 1 /\ 0 \in 0 .. n + 1
      BY <1>1
    <3>2. g[i] = IF i = 0 THEN << >>
                 ELSE IF t[i] \in keep THEN Append(g[i - 1], t[i])
                 ELSE g[i - 1]
      BY <3>1, <1>3, <1>1 DEF Copied
    <3>3. CASE i = 0
      BY <3>2, <3>3
    <3>4. CASE i # 0
      <4>1. i - 1 \in 0 .. n /\ i \in 1 .. n
        BY <1>1, <3>4
      <4>2. h[i - 1] = g[i - 1] /\ t[i] = s[i]
        BY <4>1, <1>1
      <4>3. QED BY <3>2, <3>4, <4>2
    <3>5. QED BY <3>3, <3>4
  <2>2. h = [i \in 0 .. n |-> h[i]]
    OBVIOUS
  <2> HIDE DEF h
  <2>3. QED BY <2>1, <2>2 DEF Copied, n
<1>5. h = f
  BY <1>2, <1>4, CopiedUnique
<1>6. f[n] = g[n]
  <2>1. n \in 0 .. n
    BY <1>1
  <2>2. QED BY <2>1, <1>5
<1>7. g[n + 1] = IF e \in keep THEN Append(g[n], e) ELSE g[n]
  <2>1. n + 1 \in 0 .. n + 1 /\ n + 1 # 0 /\ (n + 1) - 1 = n
    BY <1>1
  <2>2. QED BY <2>1, <1>3, <1>1 DEF Copied
<1>8. QED BY <1>2, <1>3, <1>6, <1>7 DEF t

(* Only what is to stay.                                                    *)
LEMMA FilterType ==
  ASSUME NEW D, NEW keep
  PROVE  \A s \in Seq(D) : Filter(s, keep) \in Seq(D \cap keep)
<1> DEFINE T == {s \in Seq(D) : Filter(s, keep) \in Seq(D \cap keep)}
<1>1. << >> \in T
  <2>1. Filter(<< >>, keep) = << >>
    BY FilterEmpty
  <2>2. << >> \in Seq(D) /\ << >> \in Seq(D \cap keep)
    OBVIOUS
  <2>3. QED BY <2>1, <2>2
<1>2. ASSUME NEW s \in Seq(D), NEW e \in D, s \in T PROVE Append(s, e) \in T
  <2>1. Filter(s, keep) \in Seq(D \cap keep) /\ Append(s, e) \in Seq(D)
    BY <1>2
  <2>2. CASE e \in keep
    <3>1. Append(Filter(s, keep), e) \in Seq(D \cap keep)
      BY <2>1, <2>2
    <3>2. QED BY <2>1, <2>2, <3>1, FilterAppend
  <2>3. CASE e \notin keep
    BY <2>1, <2>3, FilterAppend
  <2>4. QED BY <2>2, <2>3
<1>3. Seq(D) \subseteq T
  <2> HIDE DEF T
  <2>1. QED BY <1>1, <1>2, SeqInduction
<1>4. QED BY <1>3

(* All of the elements stay. *)
LEMMA FilterAll ==
  ASSUME NEW D, NEW keep, D \subseteq keep
  PROVE  \A s \in Seq(D) : Filter(s, keep) = s
<1> DEFINE T == {s \in Seq(D) : Filter(s, keep) = s}
<1>1. << >> \in T
  BY FilterEmpty
<1>2. ASSUME NEW s \in Seq(D), NEW e \in D, s \in T PROVE Append(s, e) \in T
  BY <1>2, FilterAppend
<1>3. Seq(D) \subseteq T
  <2> HIDE DEF T
  <2>1. QED BY <1>1, <1>2, SeqInduction
<1>4. QED BY <1>3

(* What is to stay is still there.                                          *)
LEMMA FilterHas ==
  ASSUME NEW D, NEW keep
  PROVE  \A s \in Seq(D) : \A i \in DOMAIN s : s[i] \in keep =>
           \E j \in DOMAIN Filter(s, keep) : Filter(s, keep)[j] = s[i]
<1> DEFINE Has(s) == \A i \in DOMAIN s : s[i] \in keep =>
                       \E j \in DOMAIN Filter(s, keep) : Filter(s, keep)[j] = s[i]
           T == {s \in Seq(D) : Has(s)}
<1>1. << >> \in T
  OBVIOUS
<1>2. ASSUME NEW s \in Seq(D), NEW e \in D, s \in T PROVE Append(s, e) \in T
  <2> DEFINE t == Append(s, e)
             f == Filter(s, keep)
             g == Filter(t, keep)
  <2>1. t \in Seq(D) /\ Has(s)
    BY <1>2
  <2>2. f \in Seq(D)
    <3>1. Filter(s, keep) \in Seq(D \cap keep)
      BY FilterType
    <3>2. QED BY <3>1
  <2>3. g = IF e \in keep THEN Append(f, e) ELSE f
    BY FilterAppend
  <2>4. /\ DOMAIN t = DOMAIN s \cup {Len(s) + 1} /\ t[Len(s) + 1] = e
        /\ \A i \in DOMAIN s : t[i] = s[i]
    OBVIOUS
  <2> HIDE DEF t, f, g
  <2>5. ASSUME NEW i \in DOMAIN t, t[i] \in keep
        PROVE  \E j \in DOMAIN g : g[j] = t[i]
    <3>1. CASE i \in DOMAIN s
      <4>1. PICK j \in DOMAIN f : f[j] = s[i]
        BY <2>1, <2>4, <2>5, <3>1 DEF f
      <4>2. j \in DOMAIN g /\ g[j] = f[j]
        BY <2>2, <2>3
      <4>3. QED BY <2>4, <3>1, <4>1, <4>2
    <3>2. CASE i = Len(s) + 1
      <4>1. g = Append(f, e) /\ t[i] = e
        BY <2>3, <2>4, <2>5, <3>2
      <4>2. Len(f) + 1 \in DOMAIN g /\ g[Len(f) + 1] = e
        BY <2>2, <4>1
      <4>3. QED BY <4>1, <4>2
    <3>3. QED BY <2>4, <3>1, <3>2
  <2>6. Has(t)
    BY <2>5 DEF g
  <2>7. QED BY <2>1, <2>6 DEF t
<1>3. Seq(D) \subseteq T
  <2> HIDE DEF T
  <2>1. QED BY <1>1, <1>2, SeqInduction
<1>4. QED BY <1>3
=============================================================================

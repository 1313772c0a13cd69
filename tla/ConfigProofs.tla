---------------------------- MODULE ConfigProofs ----------------------------
(***************************************************************************)
(* Proofs about the configuration file, for any text of the file: keys and *)
(* values are trimmed (TypeCorrect), the settings are the ones of the file *)
(* (TheFileIsRead, TheSettingsAreRead), and what is saved is read back     *)
(* (WhatIsSavedReadsBack).                                                 *)
(*                                                                         *)
(* The first parts have the inductions that the operators on texts need:   *)
(* FlattenSeq() and Fields() are recursive functions, Min and Max choose   *)
(* from a set.  Then: what getline() reads is the next line of the file    *)
(* (NextLine), and ParserInv, the invariant of the two loops.  At the end: *)
(* the texts that survive being written (WritableInv), and the two loops   *)
(* while they read what operator<< wrote (BackInv).                        *)
(***************************************************************************)
EXTENDS Config, FiniteSetTheorems, SequenceTheorems, WellFoundedInduction, TLAPS

-----------------------------------------------------------------------------
(* Numbers *)

(* The order of the numbers, which is R as a relation, is well-founded.    *)
LEMMA LeastNumber ==
  ASSUME NEW T \in SUBSET Nat, T # {}
  PROVE  \E m \in T : \A k \in T : m <= k
<1>1. PICK R : R = OpToRel(<, Nat)
  BY Zenon
<1>2. IsWellFoundedOn(R, Nat)
  BY <1>1, NatLessThanWellFounded, Zenon
<1>3. \A x, y \in Nat : y < x => << y, x >> \in R
  BY <1>1 DEF OpToRel
<1>4. PICK m \in T : \A k \in T : << k, m >> \notin R
  BY <1>2, WFMin, Zenon
<1>5. ASSUME NEW k \in T PROVE m <= k
  <2>1. m \in Nat /\ k \in Nat
    OBVIOUS
  <2>2. ~ k < m
    BY <1>3, <1>4, <2>1
  <2>3. QED
    BY <2>1, <2>2
<1>6. QED
  BY <1>5

(* Induction, for a set instead of a predicate                             *)
LEMMA Induction ==
  ASSUME NEW T, 0 \in T, \A n \in Nat : n \in T => n + 1 \in T
  PROVE  \A n \in Nat : n \in T
<1>1. SUFFICES ASSUME NEW n \in Nat, n \notin T PROVE FALSE
  OBVIOUS
<1> DEFINE S == { k \in Nat : k \notin T }
<1>2. S \in SUBSET Nat /\ S # {}
  BY <1>1
<1>3. PICK m \in S : \A k \in S : m <= k
  <2> HIDE DEF S
  <2>1. QED
    BY <1>2, LeastNumber
<1>4. m \in Nat /\ m # 0 /\ m \notin T
  OBVIOUS
<1>5. m - 1 \in Nat /\ m = (m - 1) + 1 /\ ~ m <= m - 1
  BY <1>4
<1>6. m - 1 \notin T
  BY <1>4, <1>5
<1>7. m - 1 \in S
  BY <1>5, <1>6
<1>8. QED
  BY <1>3, <1>5, <1>7

LEMMA MinIs ==
  ASSUME NEW S \in SUBSET Nat, S # {}
  PROVE  Min(S) \in S /\ \A k \in S : Min(S) <= k
BY LeastNumber DEF Min

LEMMA MaxIs ==
  ASSUME NEW n \in Nat, NEW S \in SUBSET (0 .. n), S # {}
  PROVE  Max(S) \in S /\ \A k \in S : k <= Max(S)
<1> DEFINE T == { n - k : k \in S }
<1>1. T \in SUBSET Nat /\ T # {}
  <2>1. \A k \in S : n - k \in Nat
    OBVIOUS
  <2>2. QED
    BY <2>1
<1>2. PICK m \in T : \A k \in T : m <= k
  <2> HIDE DEF T
  <2>1. QED
    BY <1>1, LeastNumber
<1>3. PICK x \in S : m = n - x
  OBVIOUS
<1>4. ASSUME NEW k \in S PROVE k <= x
  <2>1. n - x <= n - k
    BY <1>2, <1>3
  <2>2. k \in Int /\ x \in Int
    OBVIOUS
  <2>3. QED
    BY <2>1, <2>2
<1>5. \A k \in S : x >= k
  <2>1. x \in Int /\ S \subseteq Int
    OBVIOUS
  <2>2. QED
    BY <1>4, <2>1
<1>6. Max(S) \in S /\ \A k \in S : Max(S) >= k
  BY <1>5 DEF Max
<1>7. QED
  BY <1>6

-----------------------------------------------------------------------------
(* Lists of texts *)

(* What FlattenSeq() has put together of the first n parts                  *)
Flattens(f, q, n) ==
  \A i \in 1 .. n : f[i] = IF i = 1 THEN q[i] ELSE f[i - 1] \o q[i]

LEMMA OnePartMore ==
  ASSUME NEW S, NEW q \in Seq(Seq(S)), NEW n \in Nat, n + 1 <= Len(q),
         NEW g \in [1 .. n -> Seq(S)], Flattens(g, q, n)
  PROVE  \E h \in [1 .. n + 1 -> Seq(S)] : Flattens(h, q, n + 1)
<1>1. PICK x : x = IF n = 0 THEN q[1] ELSE g[n] \o q[n + 1]
  OBVIOUS
<1>2. x \in Seq(S)
  <2>1. q[n + 1] \in Seq(S) /\ (n # 0 => g[n] \in Seq(S))
    OBVIOUS
  <2>2. QED
    BY <1>1, <2>1
<1>3. PICK h : h = [i \in 1 .. n + 1 |-> IF i = n + 1 THEN x ELSE g[i]]
  OBVIOUS
<1>4. /\ \A i \in 1 .. n : i \in 1 .. n + 1 /\ i # n + 1
      /\ \A i \in 1 .. n + 1 : i \in 1 .. n \/ i = n + 1
      /\ n + 1 \in 1 .. n + 1 /\ (n + 1 = 1 <=> n = 0) /\ (n + 1) - 1 = n
      /\ n # 0 => n \in 1 .. n
      /\ \A i \in 1 .. n : i # 1 => i - 1 \in 1 .. n
  OBVIOUS
<1>5. h[n + 1] = x /\ \A i \in 1 .. n : h[i] = g[i]
  BY <1>3, <1>4
<1>6. h \in [1 .. n + 1 -> Seq(S)]
  BY <1>2, <1>3, <1>4
<1>7. ASSUME NEW i \in 1 .. n + 1 PROVE h[i] = IF i = 1 THEN q[i] ELSE h[i - 1] \o q[i]
  <2>1. CASE i \in 1 .. n
    <3>1. g[i] = IF i = 1 THEN q[i] ELSE g[i - 1] \o q[i]
      BY <2>1 DEF Flattens
    <3>2. QED
      BY <1>4, <1>5, <2>1, <3>1
  <2>2. CASE i = n + 1
    BY <1>1, <1>4, <1>5, <2>2
  <2>3. QED
    BY <1>4, <2>1, <2>2
<1>8. QED
  BY <1>6, <1>7 DEF Flattens

(* FlattenSeq() is what its recursive function has put together.           *)
LEMMA FlattenIs ==
  ASSUME NEW S, NEW q \in Seq(Seq(S)), Len(q) # 0
  PROVE  \E f \in [1 .. Len(q) -> Seq(S)] : Flattens(f, q, Len(q)) /\ FlattenSeq(q) = f[Len(q)]
<1>1. PICK N \in Nat : N = Len(q)
  OBVIOUS
<1> DEFINE T == { n \in Nat : n <= N => \E g \in [1 .. n -> Seq(S)] : Flattens(g, q, n) }
           f == CHOOSE h : h = [i \in 1 .. N |-> IF i = 1 THEN q[i] ELSE h[i - 1] \o q[i]]
           U == { n \in Nat : n < N => f[n + 1] \in Seq(S) }
<1>2. N >= 1 /\ \A i \in 1 .. N : q[i] \in Seq(S)
  BY <1>1
<1>3. 0 \in T
  <2>1. << >> \in [1 .. 0 -> Seq(S)] /\ Flattens(<< >>, q, 0)
    BY DEF Flattens
  <2>2. QED
    BY <2>1
<1>4. ASSUME NEW n \in Nat, n \in T PROVE n + 1 \in T
  <2>1. ASSUME n + 1 <= N PROVE \E g \in [1 .. n + 1 -> Seq(S)] : Flattens(g, q, n + 1)
    <3>1. n <= N
      BY <2>1
    <3>2. PICK g \in [1 .. n -> Seq(S)] : Flattens(g, q, n)
      BY <1>4, <3>1
    <3>3. QED
      BY <1>1, <2>1, <3>2, OnePartMore
  <2>2. n + 1 \in Nat
    OBVIOUS
  <2>3. QED
    BY <2>1, <2>2
<1>5. N \in T
  <2> HIDE DEF T
  <2>1. QED
    BY <1>3, <1>4, Induction
<1>6. PICK g \in [1 .. N -> Seq(S)] : Flattens(g, q, N)
  BY <1>5
<1>7. g = [i \in 1 .. N |-> IF i = 1 THEN q[i] ELSE g[i - 1] \o q[i]]
  BY <1>6 DEF Flattens
<1>8. f = [i \in 1 .. N |-> IF i = 1 THEN q[i] ELSE f[i - 1] \o q[i]]
  BY <1>7
<1>9. Flattens(f, q, N)
  <2> HIDE DEF f
  <2>1. QED
    BY <1>8 DEF Flattens
<1>10. FlattenSeq(q) = f[N]
  BY <1>1, <1>2 DEF FlattenSeq
<1> HIDE DEF f
<1>11. 0 \in U
  <2>1. f[1] = q[1] /\ q[1] \in Seq(S) /\ 0 + 1 = 1
    BY <1>2, <1>9 DEF Flattens
  <2>2. QED
    BY <2>1
<1>12. ASSUME NEW n \in Nat, n \in U PROVE n + 1 \in U
  <2>1. ASSUME n + 1 < N PROVE f[(n + 1) + 1] \in Seq(S)
    <3>1. /\ (n + 1) + 1 \in 1 .. N /\ (n + 1) + 1 # 1 /\ ((n + 1) + 1) - 1 = n + 1
          /\ n < N
      BY <2>1
    <3>2. f[n + 1] \in Seq(S) /\ q[(n + 1) + 1] \in Seq(S)
      BY <1>2, <1>12, <3>1
    <3>3. f[(n + 1) + 1] = f[n + 1] \o q[(n + 1) + 1]
      BY <1>9, <3>1 DEF Flattens
    <3>4. QED
      BY <3>2, <3>3
  <2>2. n + 1 \in Nat
    OBVIOUS
  <2>3. QED
    BY <2>1, <2>2
<1>13. ASSUME NEW i \in 1 .. N PROVE f[i] \in Seq(S)
  <2>1. i - 1 \in Nat /\ i - 1 < N /\ (i - 1) + 1 = i
    OBVIOUS
  <2>2. i - 1 \in U
    <3> HIDE DEF U
    <3>1. QED
      BY <1>11, <1>12, <2>1, Induction
  <2>3. QED
    BY <2>1, <2>2
<1>14. f \in [1 .. N -> Seq(S)]
  BY <1>8, <1>13
<1>15. QED
  BY <1>1, <1>9, <1>10, <1>14

LEMMA FlattenType ==
  ASSUME NEW S, NEW q \in Seq(Seq(S))
  PROVE  FlattenSeq(q) \in Seq(S)
<1>1. CASE Len(q) = 0
  <2>1. q = << >>
    BY <1>1
  <2>2. QED
    BY <1>1, <2>1 DEF FlattenSeq
<1>2. CASE Len(q) # 0
  <2>1. PICK f \in [1 .. Len(q) -> Seq(S)] : FlattenSeq(q) = f[Len(q)]
    BY <1>2, FlattenIs
  <2>2. Len(q) \in 1 .. Len(q)
    BY <1>2
  <2>3. QED
    BY <2>1, <2>2
<1>3. QED
  BY <1>1, <1>2

(* What is put together is determined by the parts.                        *)
LEMMA FlattensOnce ==
  ASSUME NEW n \in Nat, NEW q, NEW f, NEW g, Flattens(f, q, n), Flattens(g, q, n)
  PROVE  \A i \in 1 .. n : f[i] = g[i]
<1> DEFINE T == { i \in Nat : i < n => f[i + 1] = g[i + 1] }
<1>1. 0 \in T
  <2>1. ASSUME 0 < n PROVE f[1] = g[1]
    <3>1. 1 \in 1 .. n
      BY <2>1
    <3>2. QED
      BY <3>1 DEF Flattens
  <2>2. QED
    BY <2>1
<1>2. ASSUME NEW i \in Nat, i \in T PROVE i + 1 \in T
  <2>1. ASSUME i + 1 < n PROVE f[(i + 1) + 1] = g[(i + 1) + 1]
    <3>1. /\ (i + 1) + 1 \in 1 .. n /\ (i + 1) + 1 # 1 /\ ((i + 1) + 1) - 1 = i + 1 /\ i < n
      BY <2>1
    <3>2. f[i + 1] = g[i + 1]
      BY <1>2, <3>1
    <3>3. QED
      BY <3>1, <3>2 DEF Flattens
  <2>2. i + 1 \in Nat
    OBVIOUS
  <2>3. QED
    BY <2>1, <2>2
<1>3. ASSUME NEW i \in 1 .. n PROVE f[i] = g[i]
  <2>1. i - 1 \in Nat /\ i - 1 < n /\ (i - 1) + 1 = i
    OBVIOUS
  <2>2. i - 1 \in T
    <3> HIDE DEF T
    <3>1. QED
      BY <1>1, <1>2, <2>1, Induction
  <2>3. QED
    BY <2>1, <2>2
<1>4. QED
  BY <1>3

LEMMA FlattenAppend ==
  ASSUME NEW S, NEW q \in Seq(Seq(S)), NEW x \in Seq(S)
  PROVE  FlattenSeq(Append(q, x)) = FlattenSeq(q) \o x
<1>1. PICK p, n : p = Append(q, x) /\ n = Len(q)
  OBVIOUS
<1>2. /\ n \in Nat /\ p \in Seq(Seq(S)) /\ Len(p) = n + 1 /\ p[n + 1] = x
      /\ \A i \in 1 .. n : p[i] = q[i] /\ i \in 1 .. n + 1
      /\ n + 1 \in 1 .. n + 1 /\ (n + 1) - 1 = n /\ (n + 1 = 1 <=> n = 0) /\ n + 1 # 0
  BY <1>1
<1>3. PICK f : f \in [1 .. n + 1 -> Seq(S)] /\ Flattens(f, p, n + 1) /\ FlattenSeq(p) = f[n + 1]
  <2>1. p \in Seq(Seq(S)) /\ Len(p) # 0
    BY <1>2
  <2>2. \E f \in [1 .. Len(p) -> Seq(S)] : Flattens(f, p, Len(p)) /\ FlattenSeq(p) = f[Len(p)]
    BY <2>1, FlattenIs
  <2>3. QED
    BY <1>2, <2>2
<1>4. CASE n = 0
  <2>1. q = << >> /\ FlattenSeq(p) = x
    BY <1>1, <1>2, <1>3, <1>4 DEF Flattens
  <2>2. FlattenSeq(q) = << >>
    BY <2>1 DEF FlattenSeq
  <2>3. QED
    BY <1>1, <2>1, <2>2
<1>5. CASE n # 0
  <2>1. PICK g : g \in [1 .. n -> Seq(S)] /\ Flattens(g, q, n) /\ FlattenSeq(q) = g[n]
    BY <1>1, <1>5, FlattenIs
  <2>2. Flattens(f, p, n)
    BY <1>2, <1>3 DEF Flattens
  <2>3. \A i \in 1 .. n : f[i] = g[i]
    <3>1. Flattens(f, q, n)
      BY <1>2, <2>2 DEF Flattens
    <3>2. QED
      BY <1>2, <2>1, <3>1, FlattensOnce
  <2>4. n \in 1 .. n
    BY <1>2, <1>5
  <2>5. f[n + 1] = f[n] \o x
    BY <1>2, <1>3, <1>5 DEF Flattens
  <2>6. QED
    BY <1>1, <1>3, <2>1, <2>3, <2>4, <2>5
<1>6. QED
  BY <1>4, <1>5

(* Induction over sequences                                                *)
LEMMA SeqInduction ==
  ASSUME NEW S, NEW T, << >> \in T, \A s \in Seq(S) : \A x \in S : s \in T => Append(s, x) \in T
  PROVE  \A s \in Seq(S) : s \in T
<1> DEFINE U == { n \in Nat : \A s \in Seq(S) : Len(s) = n => s \in T }
<1>1. 0 \in U
  <2>1. \A s \in Seq(S) : Len(s) = 0 => s = << >>
    OBVIOUS
  <2>2. QED
    BY <2>1
<1>2. ASSUME NEW n \in Nat, n \in U PROVE n + 1 \in U
  <2>1. ASSUME NEW s \in Seq(S), Len(s) = n + 1 PROVE s \in T
    <3>1. PICK t, x : t = SubSeq(s, 1, n) /\ x = s[n + 1]
      OBVIOUS
    <3>2. t \in Seq(S) /\ Len(t) = n /\ x \in S /\ \A i \in 1 .. n : t[i] = s[i]
      BY <2>1, <3>1
    <3>3. s = Append(t, x)
      BY <2>1, <3>1, <3>2
    <3>4. QED
      BY <1>2, <3>2, <3>3
  <2>2. n + 1 \in Nat
    OBVIOUS
  <2>3. QED
    BY <2>1, <2>2
<1>3. \A n \in Nat : n \in U
  <2> HIDE DEF U
  <2>1. QED
    BY <1>1, <1>2, Induction
<1>4. \A s \in Seq(S) : Len(s) \in Nat
  OBVIOUS
<1>5. QED
  BY <1>3, <1>4

-----------------------------------------------------------------------------
(* Words *)

Blank == {Space, Newline}

(* What a piece p adds to the words of a text                              *)
Joined(before, apart, p) ==
  IF p \in Blank THEN before
  ELSE IF apart THEN Append(before, << p >>)
  ELSE [before EXCEPT ![Len(before)] = Append(@, p)]

Apart(s) == s = << >> \/ Last(s) \in Blank

(* What Fields() has put together of the first n pieces                    *)
Collects(f, s, n) ==
  \A i \in 0 .. n : f[i] = IF i = 0 THEN << >>
                           ELSE Joined(f[i - 1], i = 1 \/ s[i - 1] \in Blank, s[i])

Sentences == Seq(Seq(Pieces))

LEMMA BlankPiece == \A p : IsBlank(<< p >>) <=> p \in Blank
BY DEF IsBlank, Blank

LEMMA JoinedType ==
  ASSUME NEW before \in Sentences, NEW apart, NEW p \in Pieces
  PROVE  Joined(before, apart, p) \in Sentences
<1>1. << p >> \in Seq(Pieces)
  OBVIOUS
<1>2. Append(before, << p >>) \in Sentences
  BY <1>1 DEF Sentences
<1>3. [before EXCEPT ![Len(before)] = Append(@, p)] \in Sentences
  <2>1. PICK n \in Nat : n = Len(before)
    BY DEF Sentences
  <2>2. before \in [1 .. n -> Seq(Pieces)]
    BY <2>1 DEF Sentences
  <2>3. n \in 1 .. n => Append(before[n], p) \in Seq(Pieces)
    BY <2>2
  <2>4. [before EXCEPT ![n] = Append(@, p)] \in [1 .. n -> Seq(Pieces)]
    BY <2>2, <2>3
  <2>5. QED
    BY <2>1, <2>4 DEF Sentences
<1>4. QED
  BY <1>2, <1>3 DEF Joined

LEMMA OnePieceMore ==
  ASSUME NEW s \in Seq(Pieces), NEW n \in Nat, n + 1 <= Len(s),
         NEW g \in [0 .. n -> Sentences], Collects(g, s, n)
  PROVE  \E h \in [0 .. n + 1 -> Sentences] : Collects(h, s, n + 1)
<1>1. PICK x : x = Joined(g[n], n + 1 = 1 \/ s[n] \in Blank, s[n + 1])
  OBVIOUS
<1>2. x \in Sentences
  <2>1. g[n] \in Sentences /\ s[n + 1] \in Pieces
    OBVIOUS
  <2>2. QED
    BY <1>1, <2>1, JoinedType
<1>3. PICK h : h = [i \in 0 .. n + 1 |-> IF i = n + 1 THEN x ELSE g[i]]
  OBVIOUS
<1>4. /\ \A i \in 0 .. n : i \in 0 .. n + 1 /\ i # n + 1
      /\ \A i \in 0 .. n + 1 : i \in 0 .. n \/ i = n + 1
      /\ n + 1 \in 0 .. n + 1 /\ (n + 1) - 1 = n /\ n \in 0 .. n /\ n + 1 # 0
      /\ \A i \in 0 .. n : i # 0 => i - 1 \in 0 .. n
  OBVIOUS
<1>5. h[n + 1] = x /\ \A i \in 0 .. n : h[i] = g[i]
  BY <1>3, <1>4
<1>6. h \in [0 .. n + 1 -> Sentences]
  BY <1>2, <1>3, <1>4
<1>7. ASSUME NEW i \in 0 .. n + 1
      PROVE  h[i] = IF i = 0 THEN << >>
                    ELSE Joined(h[i - 1], i = 1 \/ s[i - 1] \in Blank, s[i])
  <2>1. CASE i \in 0 .. n
    <3>1. g[i] = IF i = 0 THEN << >> ELSE Joined(g[i - 1], i = 1 \/ s[i - 1] \in Blank, s[i])
      BY <2>1 DEF Collects
    <3>2. h[i] = g[i] /\ (i # 0 => h[i - 1] = g[i - 1])
      BY <1>4, <1>5, <2>1
    <3>3. QED
      BY <3>1, <3>2
  <2>2. CASE i = n + 1
    <3>1. h[i] = x /\ h[i - 1] = g[n] /\ i # 0 /\ i - 1 = n
      BY <1>4, <1>5, <2>2
    <3>2. QED
      BY <1>1, <2>2, <3>1
  <2>3. QED
    BY <1>4, <2>1, <2>2
<1>8. QED
  BY <1>6, <1>7 DEF Collects

(* Fields() is what its recursive function has collected.                  *)
LEMMA FieldsIs ==
  ASSUME NEW s \in Seq(Pieces)
  PROVE  \E f \in [0 .. Len(s) -> Sentences] : Collects(f, s, Len(s)) /\ Fields(s) = f[Len(s)]
<1>1. PICK N \in Nat : N = Len(s)
  OBVIOUS
<1> DEFINE T == { n \in Nat : n <= N => \E g \in [0 .. n -> Sentences] : Collects(g, s, n) }
           Next1(h, i) == IF i = 0 THEN << >>
             ELSE LET before == h[i - 1]
                  IN  IF IsBlank(<< s[i] >>) THEN before
                      ELSE IF i = 1 \/ IsBlank(<< s[i - 1] >>) THEN Append(before, << s[i] >>)
                      ELSE [before EXCEPT ![Len(before)] = Append(@, s[i])]
           f == CHOOSE h : h = [i \in 0 .. N |-> Next1(h, i)]
<1>2. 0 \in T
  <2>1. PICK g : g = [i \in 0 .. 0 |-> << >>]
    OBVIOUS
  <2>2. g \in [0 .. 0 -> Sentences] /\ Collects(g, s, 0)
    BY <2>1 DEF Collects, Sentences
  <2>3. QED
    BY <2>2
<1>3. ASSUME NEW n \in Nat, n \in T PROVE n + 1 \in T
  <2>1. ASSUME n + 1 <= N PROVE \E g \in [0 .. n + 1 -> Sentences] : Collects(g, s, n + 1)
    <3>1. n <= N
      BY <2>1
    <3>2. PICK g \in [0 .. n -> Sentences] : Collects(g, s, n)
      BY <1>3, <3>1
    <3>3. QED
      BY <1>1, <2>1, <3>2, OnePieceMore
  <2>2. n + 1 \in Nat
    OBVIOUS
  <2>3. QED
    BY <2>1, <2>2
<1>4. N \in T
  <2> HIDE DEF T
  <2>1. QED
    BY <1>2, <1>3, Induction
<1>5. PICK g \in [0 .. N -> Sentences] : Collects(g, s, N)
  BY <1>4
<1>6. \A h : \A i \in 0 .. N :
        Next1(h, i) = IF i = 0 THEN << >>
                      ELSE Joined(h[i - 1], i = 1 \/ s[i - 1] \in Blank, s[i])
  BY BlankPiece DEF Joined
<1>7. g = [i \in 0 .. N |-> Next1(g, i)]
  <2>1. ASSUME NEW i \in 0 .. N PROVE g[i] = Next1(g, i)
    <3> HIDE DEF Next1
    <3>1. QED
      BY <1>5, <1>6 DEF Collects
  <2> HIDE DEF Next1
  <2>2. QED
    BY <1>5, <2>1
<1>8. f = [i \in 0 .. N |-> Next1(f, i)]
  <2> HIDE DEF Next1
  <2>1. QED
    BY <1>7
<1>9. Collects(f, s, N)
  <2> HIDE DEF f, Next1
  <2>1. \A i \in 0 .. N : f[i] = Next1(f, i)
    BY <1>8
  <2>2. QED
    BY <1>6, <2>1 DEF Collects
<1>10. Fields(s) = f[N]
  BY <1>1 DEF Fields
<1> HIDE DEF f, Next1
<1>11. 0 \in { n \in Nat : n <= N => f[n] \in Sentences }
  <2>1. 0 \in 0 .. N /\ << >> \in Sentences
    BY DEF Sentences
  <2>2. f[0] = << >>
    BY <1>9, <2>1 DEF Collects
  <2>3. QED
    BY <2>1, <2>2
<1>12. ASSUME NEW n \in Nat, n \in { k \in Nat : k <= N => f[k] \in Sentences }
       PROVE  n + 1 \in { k \in Nat : k <= N => f[k] \in Sentences }
  <2>1. ASSUME n + 1 <= N PROVE f[n + 1] \in Sentences
    <3>1. n <= N /\ n + 1 \in 0 .. N /\ n + 1 # 0 /\ (n + 1) - 1 = n /\ s[n + 1] \in Pieces
      BY <1>1, <2>1
    <3>2. f[n] \in Sentences
      BY <1>12, <3>1
    <3>3. f[n + 1] = Joined(f[n], n + 1 = 1 \/ s[n] \in Blank, s[n + 1])
      BY <1>9, <3>1 DEF Collects
    <3>4. QED
      BY <3>1, <3>2, <3>3, JoinedType
  <2>2. n + 1 \in Nat
    OBVIOUS
  <2>3. QED
    BY <2>1, <2>2
<1>13. \A n \in Nat : n \in { k \in Nat : k <= N => f[k] \in Sentences }
  BY <1>11, <1>12, Induction
<1>14. f \in [0 .. N -> Sentences]
  BY <1>8, <1>13
<1>15. QED
  BY <1>1, <1>9, <1>10, <1>14

LEMMA CollectsAgree ==
  ASSUME NEW s, NEW t, NEW n \in Nat, NEW f, NEW g, Collects(f, s, n), Collects(g, t, n),
         \A i \in 1 .. n : s[i] = t[i]
  PROVE  \A i \in 0 .. n : f[i] = g[i]
<1> DEFINE T == { i \in Nat : i <= n => f[i] = g[i] }
<1>1. 0 \in T
  BY DEF Collects
<1>2. ASSUME NEW i \in Nat, i \in T PROVE i + 1 \in T
  <2>1. ASSUME i + 1 <= n PROVE f[i + 1] = g[i + 1]
    <3>1. /\ i + 1 \in 0 .. n /\ i + 1 # 0 /\ (i + 1) - 1 = i /\ i <= n
          /\ i + 1 \in 1 .. n /\ (i + 1 # 1 => i \in 1 .. n)
      BY <2>1
    <3>2. f[i] = g[i]
      BY <1>2, <3>1
    <3>3. f[i + 1] = Joined(f[i], i + 1 = 1 \/ s[i] \in Blank, s[i + 1])
      BY <3>1 DEF Collects
    <3>4. g[i + 1] = Joined(g[i], i + 1 = 1 \/ t[i] \in Blank, t[i + 1])
      BY <3>1 DEF Collects
    <3>5. s[i + 1] = t[i + 1] /\ (i + 1 # 1 => s[i] = t[i])
      BY <3>1
    <3>6. QED
      BY <3>2, <3>3, <3>4, <3>5 DEF Joined
  <2>2. i + 1 \in Nat
    OBVIOUS
  <2>3. QED
    BY <2>1, <2>2
<1>3. \A i \in Nat : i \in T
  <2> HIDE DEF T
  <2>1. QED
    BY <1>1, <1>2, Induction
<1>4. QED
  BY <1>3

LEMMA FieldsType == ASSUME NEW s \in Seq(Pieces) PROVE Fields(s) \in Sentences
<1>1. PICK f \in [0 .. Len(s) -> Sentences] : Fields(s) = f[Len(s)]
  BY FieldsIs
<1>2. Len(s) \in 0 .. Len(s)
  OBVIOUS
<1>3. QED
  BY <1>1, <1>2

(* The words of a text, piece by piece                                     *)
LEMMA FieldsEmpty == Fields(<< >>) = << >>
<1>1. << >> \in Seq(Pieces) /\ Len(<< >>) = 0
  OBVIOUS
<1>2. PICK f : Collects(f, << >>, 0) /\ Fields(<< >>) = f[0]
  BY <1>1, FieldsIs
<1>3. QED
  BY <1>2 DEF Collects

LEMMA FieldsAppend ==
  ASSUME NEW s \in Seq(Pieces), NEW p \in Pieces
  PROVE  Fields(Append(s, p)) = Joined(Fields(s), Apart(s), p)
<1>1. PICK t, n : t = Append(s, p) /\ n = Len(s)
  OBVIOUS
<1>2. /\ n \in Nat /\ t \in Seq(Pieces) /\ Len(t) = n + 1 /\ t[n + 1] = p
      /\ n + 1 \in 0 .. n + 1 /\ (n + 1) - 1 = n /\ n + 1 # 0 /\ n \in 0 .. n
      /\ (n + 1 = 1 <=> s = << >>)
      /\ \A i \in 0 .. n : i \in 0 .. n + 1
  BY <1>1
<1>3. \A i \in 1 .. n : t[i] = s[i]
  BY <1>1
<1>4. PICK f : Collects(f, t, n + 1) /\ Fields(t) = f[n + 1]
  <2>1. \E f \in [0 .. Len(t) -> Sentences] : Collects(f, t, Len(t)) /\ Fields(t) = f[Len(t)]
    BY <1>2, FieldsIs
  <2>2. QED
    BY <1>2, <2>1
<1>5. PICK g : Collects(g, s, n) /\ Fields(s) = g[n]
  BY <1>1, FieldsIs
<1>6. Collects(f, t, n)
  BY <1>2, <1>4 DEF Collects
<1>7. f[n] = g[n]
  <2>1. \A i \in 0 .. n : f[i] = g[i]
    BY <1>2, <1>3, <1>5, <1>6, CollectsAgree
  <2>2. QED
    BY <1>2, <2>1
<1>8. f[n + 1] = Joined(f[n], n + 1 = 1 \/ t[n] \in Blank, t[n + 1])
  BY <1>2, <1>4 DEF Collects
<1>9. (n + 1 = 1 \/ t[n] \in Blank) <=> Apart(s)
  <2>1. CASE s = << >>
    BY <1>2, <2>1 DEF Apart
  <2>2. CASE s # << >>
    <3>1. n \in 1 .. n /\ Last(s) = s[n]
      BY <1>1, <2>2 DEF Last
    <3>2. QED
      BY <1>2, <1>3, <2>2, <3>1 DEF Apart
  <2>3. QED
    BY <2>1, <2>2
<1>10. QED
  BY <1>1, <1>2, <1>4, <1>5, <1>7, <1>8, <1>9 DEF Joined

LEMMA LastOfAppend ==
  ASSUME NEW S, NEW s \in Seq(S), NEW x \in S
  PROVE  /\ Append(s, x) # << >> /\ Append(s, x) \in Seq(S) /\ Last(Append(s, x)) = x
         /\ Head(Append(s, x)) = IF s = << >> THEN x ELSE Head(s)
BY DEF Last

(* White space only: no words.                                             *)
LEMMA NoFields ==
  ASSUME NEW s \in Seq(Pieces), IsBlank(s)
  PROVE  Fields(s) = << >>
<1> DEFINE T == { t \in Seq(Pieces) : IsBlank(t) => Fields(t) = << >> }
<1>1. << >> \in T
  BY FieldsEmpty
<1>2. ASSUME NEW t \in Seq(Pieces), NEW p \in Pieces, t \in T PROVE Append(t, p) \in T
  <2>1. ASSUME IsBlank(Append(t, p)) PROVE Fields(Append(t, p)) = << >>
    <3>1. /\ \A i \in DOMAIN t : i \in DOMAIN Append(t, p) /\ Append(t, p)[i] = t[i]
          /\ Len(t) + 1 \in DOMAIN Append(t, p) /\ Append(t, p)[Len(t) + 1] = p
      OBVIOUS
    <3>2. IsBlank(t) /\ p \in Blank
      BY <2>1, <3>1 DEF IsBlank, Blank
    <3>3. QED
      BY <1>2, <3>2, FieldsAppend DEF Joined
  <2>2. Append(t, p) \in Seq(Pieces)
    OBVIOUS
  <2>3. QED
    BY <2>1, <2>2
<1>3. s \in T
  <2> HIDE DEF T
  <2>1. QED
    BY <1>1, <1>2, SeqInduction
<1>4. QED
  BY <1>3

(* A text that ends in the middle of a word has one.                       *)
LEMMA SomeField ==
  ASSUME NEW s \in Seq(Pieces), ~ Apart(s)
  PROVE  Fields(s) # << >>
<1> DEFINE T == { t \in Seq(Pieces) : ~ Apart(t) => Fields(t) # << >> }
<1>1. << >> \in T
  BY DEF Apart
<1>2. ASSUME NEW t \in Seq(Pieces), NEW p \in Pieces, t \in T PROVE Append(t, p) \in T
  <2>1. Last(Append(t, p)) = p /\ Append(t, p) # << >> /\ Append(t, p) \in Seq(Pieces)
    BY LastOfAppend
  <2>2. ASSUME p \notin Blank PROVE Fields(Append(t, p)) # << >>
    <3>1. Fields(Append(t, p)) = Joined(Fields(t), Apart(t), p) /\ Fields(t) \in Sentences
      BY FieldsAppend, FieldsType
    <3>2. CASE Apart(t)
      <4>1. << p >> \in Seq(Pieces) /\ Fields(t) \in Seq(Seq(Pieces))
        BY <3>1 DEF Sentences
      <4>2. Append(Fields(t), << p >>) # << >>
        BY <4>1, LastOfAppend
      <4>3. QED
        BY <2>2, <3>1, <3>2, <4>2 DEF Joined
    <3>3. CASE ~ Apart(t)
      <4>1. Fields(t) # << >> /\ DOMAIN Fields(t) # {}
        <5>1. Fields(t) # << >> /\ Fields(t) \in Seq(Seq(Pieces))
          BY <1>2, <3>1, <3>3 DEF Sentences
        <5>2. Len(Fields(t)) \in DOMAIN Fields(t)
          BY <5>1
        <5>3. QED
          BY <5>1, <5>2
      <4>2. DOMAIN Fields(Append(t, p)) = DOMAIN Fields(t)
        BY <2>2, <3>1, <3>3 DEF Joined
      <4>3. QED
        BY <4>1, <4>2
    <3>4. QED
      BY <3>2, <3>3
  <2>3. QED
    BY <2>1, <2>2 DEF Apart
<1>3. s \in T
  <2> HIDE DEF T
  <2>1. QED
    BY <1>1, <1>2, SeqInduction
<1>4. QED
  BY <1>3

(* What the proofs about words need of sequences, for any set              *)
LEMMA AppendFirst ==
  ASSUME NEW S, NEW s \in Seq(S), NEW x \in S, s # << >>
  PROVE  Append(s, x) # << >> /\ Append(s, x)[1] = s[1]
OBVIOUS

AppendsBehind(a, b, x) == Append(a \o b, x) = a \o Append(b, x)

LEMMA ConcatAppend ==
  ASSUME NEW S, NEW a \in Seq(S), NEW b \in Seq(S), NEW x \in S
  PROVE  AppendsBehind(a, b, x)
BY DEF AppendsBehind

LEMMA ConcatExcept ==
  ASSUME NEW S, NEW a \in Seq(S), NEW b \in Seq(S), b # << >>, NEW w \in S
  PROVE  /\ (a \o b)[Len(a \o b)] = b[Len(b)]
         /\ [a \o b EXCEPT ![Len(a \o b)] = w] = a \o [b EXCEPT ![Len(b)] = w]
<1>1. PICK c : c = [b EXCEPT ![Len(b)] = w]
  OBVIOUS
<1>2. /\ c \in Seq(S) /\ Len(c) = Len(b)
      /\ \A i \in 1 .. Len(b) : c[i] = IF i = Len(b) THEN w ELSE b[i]
  BY <1>1
<1>3. PICK e : e = a \o b
  OBVIOUS
<1>4. PICK n \in Nat : n = Len(a) + Len(b)
  OBVIOUS
<1>5. /\ e \in Seq(S) /\ Len(e) = n /\ n \in 1 .. Len(e) /\ n > Len(a)
      /\ \A i \in 1 .. n : e[i] = IF i <= Len(a) THEN a[i] ELSE b[i - Len(a)]
  <2>1. Len(b) \in Nat /\ Len(b) # 0 /\ Len(a) \in Nat
    OBVIOUS
  <2>2. QED
    BY <1>3, <1>4, <2>1, ConcatProperties
<1>6. PICK d : d = [e EXCEPT ![n] = w]
  OBVIOUS
<1>7. /\ d \in Seq(S) /\ Len(d) = n
      /\ \A i \in 1 .. n : d[i] = IF i = n THEN w ELSE e[i]
  BY <1>5, <1>6, ExceptSeq
<1>8. PICK g : g = a \o c
  OBVIOUS
<1>9. /\ g \in Seq(S) /\ Len(g) = n
      /\ \A i \in 1 .. n : g[i] = IF i <= Len(a) THEN a[i] ELSE c[i - Len(a)]
  <2>1. c \in Seq(S) /\ Len(c) = Len(b)
    BY <1>2
  <2>2. QED
    BY <1>4, <1>8, <2>1, ConcatProperties
<1>10. ASSUME NEW i \in 1 .. n PROVE d[i] = g[i]
  <2>1. CASE i <= Len(a)
    BY <1>5, <1>7, <1>9, <2>1
  <2>2. CASE ~ i <= Len(a)
    <3>1. i - Len(a) \in 1 .. Len(b) /\ (i = n <=> i - Len(a) = Len(b))
      BY <1>4, <2>2
    <3>2. QED
      BY <1>2, <1>5, <1>7, <1>9, <2>2, <3>1
  <2>3. QED
    BY <2>1, <2>2
<1>11. d = g
  BY <1>7, <1>9, <1>10, SeqEqual
<1>12. e[n] = b[Len(b)]
  <2>1. n - Len(a) = Len(b) /\ ~ n <= Len(a)
    BY <1>4, <1>5
  <2>2. QED
    BY <1>5, <2>1
<1>13. QED
  BY <1>1, <1>3, <1>5, <1>6, <1>8, <1>11, <1>12

(* Texts that are put together at white space keep their words.            *)
Meet(a, b) == Apart(a) \/ b = << >> \/ Head(b) \in Blank

LEMMA FieldsConcat ==
  ASSUME NEW a \in Seq(Pieces), NEW b \in Seq(Pieces), Meet(a, b)
  PROVE  Fields(a \o b) = Fields(a) \o Fields(b)
<1> DEFINE T == { t \in Seq(Pieces) : Meet(a, t) => Fields(a \o t) = Fields(a) \o Fields(t) }
<1>1. << >> \in T
  <2>1. a \o << >> = a /\ Fields(a) \o << >> = Fields(a)
    BY FieldsType DEF Sentences
  <2>2. Fields(a \o << >>) = Fields(a) \o Fields(<< >>)
    BY <2>1, FieldsEmpty, Zenon
  <2>3. QED
    BY <2>2
<1>2. ASSUME NEW t \in Seq(Pieces), NEW p \in Pieces, t \in T PROVE Append(t, p) \in T
  <2>1. ASSUME Meet(a, Append(t, p)) PROVE Fields(a \o Append(t, p)) = Fields(a) \o Fields(Append(t, p))
    <3>1. a \o Append(t, p) = Append(a \o t, p) /\ a \o t \in Seq(Pieces)
      OBVIOUS
    <3>2. PICK A, B : A = Fields(a) /\ B = Fields(t)
      OBVIOUS
    <3>3. A \in Sentences /\ B \in Sentences
      BY <3>2, FieldsType
    <3>4. Meet(a, t)
      BY <2>1, LastOfAppend DEF Meet
    <3>5. Fields(a \o Append(t, p)) = Joined(A \o B, Apart(a \o t), p)
      BY <1>2, <3>1, <3>2, <3>4, FieldsAppend
    <3>6. Fields(Append(t, p)) = Joined(B, Apart(t), p)
      BY <3>2, FieldsAppend
    <3>7. SUFFICES Joined(A \o B, Apart(a \o t), p) = A \o Joined(B, Apart(t), p)
      BY <3>2, <3>5, <3>6
    <3>8. CASE p \in Blank
      BY <3>8 DEF Joined
    <3>9. CASE p \notin Blank /\ Apart(t)
      <4>1. Apart(a \o t)
        <5>1. CASE t = << >>
          <6>1. Append(t, p) # << >> /\ Head(Append(t, p)) = p
            BY <5>1, LastOfAppend
          <6>2. Apart(a)
            BY <2>1, <3>9, <6>1 DEF Meet
          <6>3. a \o t = a
            BY <5>1
          <6>4. QED
            BY <6>2, <6>3
        <5>2. CASE t # << >>
          <6>1. Last(a \o t) = Last(t)
            BY <5>2 DEF Last
          <6>2. QED
            BY <3>9, <5>2, <6>1 DEF Apart
        <5>3. QED
          BY <5>1, <5>2
      <4>2. Append(A \o B, << p >>) = A \o Append(B, << p >>)
        <5>1. << p >> \in Seq(Pieces)
          OBVIOUS
        <5>2. PICK W, x : W = Seq(Pieces) /\ x = << p >>
          OBVIOUS
        <5>3. A \in Seq(W) /\ B \in Seq(W) /\ x \in W
          BY <3>3, <5>1, <5>2, Zenon DEF Sentences
        <5>4. AppendsBehind(A, B, x)
          BY <5>3, ConcatAppend, Zenon
        <5>5. QED
          BY <5>2, <5>4, Zenon DEF AppendsBehind
      <4>3. QED
        BY <3>9, <4>1, <4>2 DEF Joined
    <3>10. CASE p \notin Blank /\ ~ Apart(t)
      <4>1. t # << >> /\ B # << >>
        BY <3>2, <3>10, SomeField DEF Apart
      <4>2. Last(a \o t) = Last(t) /\ a \o t # << >>
        BY <4>1 DEF Last
      <4>3. ~ Apart(a \o t)
        BY <3>10, <4>2 DEF Apart
      <4>4. [A \o B EXCEPT ![Len(A \o B)] = Append(@, p)] = A \o [B EXCEPT ![Len(B)] = Append(@, p)]
        <5>1. PICK W, w : W = Seq(Pieces) /\ w = Append(B[Len(B)], p)
          OBVIOUS
        <5>2. w \in Seq(Pieces)
          <6>1. B \in Seq(Seq(Pieces)) /\ Len(B) \in 1 .. Len(B)
            BY <3>3, <4>1 DEF Sentences
          <6>2. QED
            BY <5>1, <6>1
        <5>3. A \in Seq(W) /\ B \in Seq(W) /\ w \in W
          BY <3>3, <5>1, <5>2, Zenon DEF Sentences
        <5>4. /\ (A \o B)[Len(A \o B)] = B[Len(B)]
              /\ [A \o B EXCEPT ![Len(A \o B)] = w] = A \o [B EXCEPT ![Len(B)] = w]
          BY <4>1, <5>3, ConcatExcept
        <5>5. QED
          BY <5>1, <5>4
      <4>5. QED
        BY <3>10, <4>3, <4>4 DEF Joined
    <3>11. QED
      BY <3>8, <3>9, <3>10
  <2>2. Append(t, p) \in Seq(Pieces)
    OBVIOUS
  <2>3. QED
    BY <2>1, <2>2
<1>3. b \in T
  <2> HIDE DEF T
  <2>1. QED
    BY <1>1, <1>2, SeqInduction
<1>4. QED
  BY <1>3

(* A text that starts with a word starts with its first one.               *)
LEMMA FirstField ==
  ASSUME NEW s \in Seq(Pieces), s # << >>, Head(s) \notin Blank
  PROVE  Fields(s) # << >> /\ Fields(s)[1] # << >> /\ Fields(s)[1][1] = Head(s)
<1> DEFINE T == { t \in Seq(Pieces) : t # << >> /\ Head(t) \notin Blank =>
                    Fields(t) # << >> /\ Fields(t)[1] # << >> /\ Fields(t)[1][1] = Head(t) }
<1>1. << >> \in T
  OBVIOUS
<1>2. ASSUME NEW t \in Seq(Pieces), NEW p \in Pieces, t \in T PROVE Append(t, p) \in T
  <2>1. ASSUME Head(Append(t, p)) \notin Blank
        PROVE  /\ Fields(Append(t, p)) # << >> /\ Fields(Append(t, p))[1] # << >>
               /\ Fields(Append(t, p))[1][1] = Head(Append(t, p))
    <3>1. PICK F : F = Fields(t)
      OBVIOUS
    <3>2. /\ Fields(Append(t, p)) = Joined(F, Apart(t), p)
          /\ F \in Seq(Seq(Pieces)) /\ << p >> \in Seq(Pieces)
      BY <3>1, FieldsAppend, FieldsType DEF Sentences
    <3>3. CASE t = << >>
      <4>1. F = << >> /\ Apart(t) /\ Head(Append(t, p)) = p
        BY <3>1, <3>3, FieldsEmpty, LastOfAppend DEF Apart
      <4>2. Joined(F, Apart(t), p) = << << p >> >>
        BY <2>1, <4>1 DEF Joined
      <4>3. << << p >> >> # << >> /\ << << p >> >>[1] = << p >> /\ << p >> # << >> /\ << p >>[1] = p
        OBVIOUS
      <4>4. Fields(Append(t, p)) = << << p >> >>
        BY <3>2, <4>2
      <4>5. QED
        BY <4>1, <4>3, <4>4
    <3>4. CASE t # << >>
      <4>1. Head(Append(t, p)) = Head(t)
        BY <3>4, LastOfAppend
      <4>2. F # << >> /\ F[1] # << >> /\ F[1][1] = Head(t)
        BY <1>2, <2>1, <3>1, <3>4, <4>1
      <4>3. PICK n \in Nat : n = Len(F)
        BY <3>2
      <4>4. n >= 1 /\ F[1] \in Seq(Pieces) /\ F[n] \in Seq(Pieces) /\ 1 \in DOMAIN F
            /\ n \in DOMAIN F
        BY <3>2, <4>2, <4>3
      <4>5. CASE p \in Blank
        BY <3>2, <4>1, <4>2, <4>5 DEF Joined
      <4>6. CASE p \notin Blank /\ Apart(t)
        <5>1. Append(F, << p >>) # << >> /\ Append(F, << p >>)[1] = F[1]
          BY <3>2, <4>3, <4>4
        <5>2. QED
          BY <3>2, <4>1, <4>2, <4>6, <5>1 DEF Joined
      <4>7. CASE p \notin Blank /\ ~ Apart(t)
        <5>1. PICK G : G = [F EXCEPT ![n] = Append(F[n], p)]
          OBVIOUS
        <5>2. Fields(Append(t, p)) = G
          BY <3>2, <4>3, <4>7, <5>1 DEF Joined
        <5>3. DOMAIN G = DOMAIN F /\ G[1] = IF n = 1 THEN Append(F[1], p) ELSE F[1]
          BY <4>4, <5>1
        <5>4. Append(F[1], p) # << >> /\ Append(F[1], p)[1] = F[1][1]
          BY <4>2, <4>4, AppendFirst
        <5>5. G # << >>
          BY <4>4, <5>3
        <5>6. QED
          BY <4>1, <4>2, <5>2, <5>3, <5>4, <5>5
      <4>8. QED
        BY <4>5, <4>6, <4>7
    <3>5. QED
      BY <3>3, <3>4
  <2>2. Append(t, p) \in Seq(Pieces)
    OBVIOUS
  <2>3. QED
    BY <2>1, <2>2
<1>3. s \in T
  <2> HIDE DEF T
  <2>1. QED
    BY <1>1, <1>2, SeqInduction
<1>4. QED
  BY <1>3

-----------------------------------------------------------------------------
(* Texts *)

(* The first p of a text                                                   *)
LEMMA FirstIs ==
  ASSUME NEW s \in Seq(Pieces), NEW p, Has(s, p)
  PROVE  /\ First(s, p) \in 1 .. Len(s) /\ s[First(s, p)] = p
         /\ \A k \in 1 .. First(s, p) - 1 : s[k] # p
<1> DEFINE S == { k \in DOMAIN s : s[k] = p }
<1>1. S \in SUBSET Nat /\ S # {} /\ DOMAIN s = 1 .. Len(s) /\ Len(s) \in Nat
  BY DEF Has
<1>2. Min(S) \in S /\ \A k \in S : Min(S) <= k
  <2> HIDE DEF S
  <2>1. QED
    BY <1>1, MinIs
<1>3. First(s, p) = Min(S)
  BY DEF First
<1>4. First(s, p) \in 1 .. Len(s) /\ s[First(s, p)] = p
  BY <1>1, <1>2, <1>3
<1>5. ASSUME NEW k \in 1 .. First(s, p) - 1 PROVE s[k] # p
  <2>1. k \in DOMAIN s /\ ~ First(s, p) <= k
    BY <1>1, <1>4
  <2>2. QED
    BY <1>2, <1>3, <2>1
<1>6. QED
  BY <1>4, <1>5

LEMMA PartType ==
  ASSUME NEW S, NEW s \in Seq(S), NEW m \in Nat \ {0}, NEW n \in Int, n <= Len(s)
  PROVE  /\ SubSeq(s, m, n) \in Seq(S)
         /\ m <= n => /\ Len(SubSeq(s, m, n)) = n - m + 1
                      /\ \A k \in 1 .. n - m + 1 : SubSeq(s, m, n)[k] = s[m + k - 1]
OBVIOUS

LEMMA BeforeType ==
  ASSUME NEW s \in Seq(Pieces), NEW p
  PROVE  Before(s, p) \in Seq(Pieces)
<1>1. CASE Has(s, p)
  <2>1. First(s, p) \in 1 .. Len(s)
    BY <1>1, FirstIs
  <2>2. First(s, p) - 1 \in Int /\ First(s, p) - 1 <= Len(s)
    BY <2>1
  <2>3. QED
    BY <1>1, <2>2, PartType DEF Before
<1>2. QED
  BY <1>1 DEF Before

LEMMA AfterType ==
  ASSUME NEW s \in Seq(Pieces), NEW p, Has(s, p)
  PROVE  After(s, p) \in Seq(Pieces)
<1>1. First(s, p) \in 1 .. Len(s) /\ Len(s) \in Nat
  BY FirstIs
<1>2. First(s, p) + 1 \in Nat \ {0} /\ Len(s) \in Int
  BY <1>1
<1>3. QED
  BY <1>2, PartType DEF After

Trimmed(s) == s \in Seq(Pieces) /\ (s # << >> => {Head(s), Last(s)} \cap Blank = {})

LEMMA TrimTrims ==
  ASSUME NEW s \in Seq(Pieces)
  PROVE  Trimmed(Trim(s))
<1> DEFINE K == { k \in DOMAIN s : s[k] \notin {Space, Newline} }
<1>1. DOMAIN s = 1 .. Len(s) /\ Len(s) \in Nat
  OBVIOUS
<1>2. CASE K = {}
  BY <1>2 DEF Trim, Trimmed
<1>3. CASE K # {}
  <2>1. PICK i, j : i = Min(K) /\ j = Max(K)
    OBVIOUS
  <2>2. K \in SUBSET (0 .. Len(s)) /\ K \in SUBSET Nat
    BY <1>1
  <2>3. i \in K /\ j \in K /\ i <= j
    <3> HIDE DEF K
    <3>1. QED
      BY <1>1, <1>3, <2>1, <2>2, MinIs, MaxIs
  <2>4. i \in 1 .. Len(s) /\ j \in 1 .. Len(s) /\ s[i] \notin Blank /\ s[j] \notin Blank
    BY <1>1, <2>3 DEF Blank
  <2>5. PICK t : t = SubSeq(s, i, j)
    OBVIOUS
  <2>6. Trim(s) = t
    BY <1>3, <2>1, <2>5 DEF Trim
  <2>7. t \in Seq(Pieces) /\ Len(t) = j - i + 1 /\ \A k \in 1 .. j - i + 1 : t[k] = s[i + k - 1]
    BY <1>1, <2>3, <2>4, <2>5, PartType
  <2>8. t[1] = s[i] /\ t[j - i + 1] = s[j]
    BY <1>1, <2>3, <2>4, <2>7
  <2>9. Head(t) = s[i] /\ Last(t) = s[j]
    BY <2>7, <2>8 DEF Last
  <2>10. QED
    BY <2>4, <2>6, <2>7, <2>9 DEF Trimmed
<1>4. QED
  BY <1>2, <1>3

-----------------------------------------------------------------------------
(* Texts in parts *)

LEMMA BlankIs == \A s : IsBlank(s) <=> \A k \in DOMAIN s : s[k] \in Blank
BY DEF IsBlank, Blank

LEMMA BeforeIs ==
  ASSUME NEW s \in Seq(Pieces), NEW p
  PROVE  /\ ~ Has(Before(s, p), p)
         /\ \A r : Has(Before(s, p), r) => Has(s, r)
         /\ IsBlank(s) => IsBlank(Before(s, p))
<1>1. CASE ~ Has(s, p)
  BY <1>1 DEF Before
<1>2. CASE Has(s, p)
  <2>1. PICK n \in Nat : n = First(s, p) - 1
    BY <1>2, FirstIs
  <2> DEFINE t == Before(s, p)
  <2>2. /\ t = SubSeq(s, 1, n) /\ n <= Len(s)
        /\ \A k \in 1 .. n : s[k] # p
    BY <1>2, <2>1, FirstIs DEF Before
  <2> HIDE DEF t
  <2>3. DOMAIN t = 1 .. n /\ \A k \in 1 .. n : t[k] = s[k] /\ k \in DOMAIN s
    BY <2>2
  <2>4. QED
    BY <2>2, <2>3, BlankIs DEF Has, t
<1>3. QED
  BY <1>1, <1>2

LEMMA BeforeSelf == \A s, p : ~ Has(s, p) => Before(s, p) = s
BY DEF Before

(* A blank text has no delimiter.                                          *)
LEMMA BlankHasNot == \A s : IsBlank(s) => ~ Has(s, Delim) /\ ~ Has(s, Comment)
BY BlankIs, PiecesAssumption DEF Has, Blank

(* White space in front and behind adds no words.                          *)
LEMMA BlankAround ==
  ASSUME NEW a \in Seq(Pieces), NEW s \in Seq(Pieces), NEW b \in Seq(Pieces),
         IsBlank(a), IsBlank(b)
  PROVE  Fields(a \o (s \o b)) = Fields(s)
<1>1. Apart(a)
  <2>1. a # << >> => Last(a) = a[Len(a)] /\ Len(a) \in DOMAIN a
    BY DEF Last
  <2>2. QED
    BY <2>1, BlankIs DEF Apart
<1>2. b = << >> \/ Head(b) \in Blank
  <2>1. b # << >> => Head(b) = b[1] /\ 1 \in DOMAIN b
    OBVIOUS
  <2>2. QED
    BY <2>1, BlankIs
<1>3. s \o b \in Seq(Pieces)
  OBVIOUS
<1>4. Fields(a \o (s \o b)) = Fields(a) \o Fields(s \o b)
  BY <1>1, <1>3, FieldsConcat DEF Meet
<1>5. Fields(s \o b) = Fields(s) \o Fields(b)
  BY <1>2, FieldsConcat DEF Meet
<1>6. Fields(a) = << >> /\ Fields(b) = << >> /\ Fields(s) \in Seq(Seq(Pieces))
  BY NoFields, FieldsType DEF Sentences
<1>7. QED
  BY <1>4, <1>5, <1>6

(* A text, and what is in front of and behind its part from i to j         *)
Parted(s, i, j, a, b) ==
  /\ s = a \o (SubSeq(s, i, j) \o b)
  /\ \A k \in DOMAIN a : k \in 1 .. Len(s) /\ k < i /\ a[k] = s[k]
  /\ \A k \in DOMAIN b : j + k \in 1 .. Len(s) /\ j < j + k /\ b[k] = s[j + k]

LEMMA ThreeParts ==
  ASSUME NEW s \in Seq(Pieces), NEW i \in 1 .. Len(s), NEW j \in 1 .. Len(s), i <= j
  PROVE  /\ SubSeq(s, i, j) \in Seq(Pieces)
         /\ \E a \in Seq(Pieces), b \in Seq(Pieces) : Parted(s, i, j, a, b)
<1>1. PICK n \in Nat : n = Len(s)
  OBVIOUS
<1>2. PICK a, t, b : a = SubSeq(s, 1, i - 1) /\ t = SubSeq(s, i, j) /\ b = SubSeq(s, j + 1, n)
  OBVIOUS
<1>3. a \in Seq(Pieces) /\ Len(a) = i - 1 /\ \A k \in 1 .. i - 1 : a[k] = s[k]
  BY <1>1, <1>2
<1>4. t \in Seq(Pieces) /\ Len(t) = j - i + 1 /\ \A k \in 1 .. j - i + 1 : t[k] = s[i + k - 1]
  BY <1>1, <1>2
<1>5. b \in Seq(Pieces) /\ Len(b) = n - j /\ \A k \in 1 .. n - j : b[k] = s[j + k]
  BY <1>1, <1>2
<1>6. PICK u : u = t \o b
  OBVIOUS
<1>7. /\ u \in Seq(Pieces) /\ Len(u) = n - i + 1
      /\ \A k \in 1 .. n - i + 1 : u[k] = s[i + k - 1]
  <2>1. u \in Seq(Pieces) /\ Len(u) = n - i + 1
    <3>1. t \in Seq(Pieces) /\ b \in Seq(Pieces) /\ Len(t) = j - i + 1 /\ Len(b) = n - j
      BY <1>4, <1>5
    <3>2. u \in Seq(Pieces) /\ Len(u) = Len(t) + Len(b)
      BY <1>6, <3>1, ConcatProperties
    <3>3. i \in Int /\ j \in Int
      BY <1>1
    <3>4. QED
      BY <3>1, <3>2, <3>3
  <2>2. ASSUME NEW k \in 1 .. n - i + 1 PROVE u[k] = s[i + k - 1]
    <3>1. CASE k <= j - i + 1
      BY <1>1, <1>4, <1>5, <1>6, <3>1
    <3>2. CASE k > j - i + 1
      <4>1. u[k] = b[k - (j - i + 1)]
        BY <1>1, <1>4, <1>5, <1>6, <3>2
      <4>2. k - (j - i + 1) \in 1 .. n - j /\ j + (k - (j - i + 1)) = i + k - 1
        BY <1>1, <3>2
      <4>3. QED
        BY <1>5, <4>1, <4>2
    <3>3. QED
      BY <3>1, <3>2
  <2>3. QED
    BY <2>1, <2>2
<1>8. s = a \o u
  <2>1. a \o u \in Seq(Pieces) /\ Len(a \o u) = n
    <3>1. a \in Seq(Pieces) /\ u \in Seq(Pieces) /\ Len(a) = i - 1 /\ Len(u) = n - i + 1
      BY <1>3, <1>7
    <3>2. a \o u \in Seq(Pieces) /\ Len(a \o u) = Len(a) + Len(u)
      BY <3>1
    <3>3. i \in Int /\ j \in Int
      BY <1>1
    <3>4. QED
      BY <3>1, <3>2, <3>3
  <2>2. ASSUME NEW k \in 1 .. n PROVE (a \o u)[k] = s[k]
    <3>1. CASE k <= i - 1
      BY <1>1, <1>3, <1>7, <3>1
    <3>2. CASE ~ k <= i - 1
      <4>1. (a \o u)[k] = u[k - (i - 1)]
        BY <1>1, <1>3, <1>7, <3>2
      <4>2. k - (i - 1) \in 1 .. n - i + 1 /\ i + (k - (i - 1)) - 1 = k
        BY <1>1, <3>2
      <4>3. QED
        BY <1>7, <4>1, <4>2
    <3>3. QED
      BY <3>1, <3>2
  <2>3. QED
    BY <1>1, <2>1, <2>2
<1>9. /\ \A k \in DOMAIN a : k \in 1 .. Len(s) /\ k < i /\ a[k] = s[k]
      /\ \A k \in DOMAIN b : j + k \in 1 .. Len(s) /\ j < j + k /\ b[k] = s[j + k]
  BY <1>1, <1>3, <1>5
<1>10. QED
  BY <1>2, <1>3, <1>4, <1>5, <1>6, <1>8, <1>9 DEF Parted

(* Trimming keeps the words.                                               *)
LEMMA FieldsTrim == ASSUME NEW s \in Seq(Pieces) PROVE Fields(Trim(s)) = Fields(s)
<1> DEFINE K == { k \in DOMAIN s : s[k] \notin {Space, Newline} }
<1>1. DOMAIN s = 1 .. Len(s) /\ Len(s) \in Nat
  OBVIOUS
<1>2. CASE K = {}
  <2>1. IsBlank(s) /\ Trim(s) = << >>
    BY <1>2 DEF Trim, IsBlank
  <2>2. QED
    BY <2>1, NoFields, FieldsEmpty
<1>3. CASE K # {}
  <2>1. PICK i, j : i = Min(K) /\ j = Max(K)
    OBVIOUS
  <2>2. K \in SUBSET (0 .. Len(s)) /\ K \in SUBSET Nat
    BY <1>1
  <2>3. /\ i \in K /\ j \in K
        /\ \A k \in K : i <= k /\ k <= j
    <3> HIDE DEF K
    <3>1. QED
      BY <1>1, <1>3, <2>1, <2>2, MinIs, MaxIs
  <2>4. i \in 1 .. Len(s) /\ j \in 1 .. Len(s) /\ i <= j
    BY <1>1, <2>3
  <2>5. \A k \in 1 .. Len(s) : k < i \/ j < k => s[k] \in Blank
    BY <1>1, <2>3, <2>4 DEF Blank
  <2>6. PICK t : t = SubSeq(s, i, j)
    OBVIOUS
  <2>7. PICK a \in Seq(Pieces), b \in Seq(Pieces) : Parted(s, i, j, a, b)
    <3> HIDE DEF K
    <3>1. QED
      BY <2>4, ThreeParts
  <2>8. t \in Seq(Pieces)
    <3> HIDE DEF K
    <3>1. QED
      BY <2>4, <2>6, ThreeParts
  <2>9. IsBlank(a) /\ IsBlank(b)
    BY <2>5, <2>7, BlankIs DEF Parted
  <2>10. Trim(s) = t
    BY <1>3, <2>1, <2>6 DEF Trim
  <2>11. Fields(a \o (t \o b)) = Fields(t)
    BY <2>8, <2>9, BlankAround
  <2>12. s = a \o (t \o b)
    BY <2>6, <2>7 DEF Parted
  <2>13. QED
    BY <2>10, <2>11, <2>12
<1>4. QED
  BY <1>2, <1>3

(* What a line that continues a value adds to it: its words, set apart by  *)
(* a newline.                                                              *)
LEMMA Continued ==
  ASSUME NEW s \in Seq(Pieces), NEW t \in Seq(Pieces)
  PROVE  Fields(s \o (IF IsBlank(t) THEN << >> ELSE << Newline >>) \o t)
           = Fields(s) \o Fields(t)
<1>1. CASE IsBlank(t)
  <2>1. Fields(s \o t) = Fields(s) \o Fields(t)
    <3>1. t # << >> => Head(t) = t[1] /\ 1 \in DOMAIN t
      OBVIOUS
    <3>2. QED
      BY <1>1, <3>1, BlankIs, FieldsConcat DEF Meet
  <2>2. s \o << >> \o t = s \o t
    OBVIOUS
  <2>3. QED
    BY <1>1, <2>1, <2>2
<1>2. CASE ~ IsBlank(t)
  <2>1. PICK n : n = << Newline >>
    OBVIOUS
  <2>2. n \in Seq(Pieces) /\ Newline \in Blank /\ n \o t \in Seq(Pieces)
    BY <2>1 DEF Pieces, Blank
  <2>3. Fields(s \o (n \o t)) = Fields(s) \o Fields(n \o t)
    <3>1. Head(n \o t) = Newline
      BY <2>1
    <3>2. QED
      BY <2>2, <3>1, FieldsConcat DEF Meet
  <2>4. Fields(n \o t) = Fields(n) \o Fields(t)
    <3>1. Last(n) = Newline
      BY <2>1 DEF Last
    <3>2. QED
      BY <2>2, <3>1, FieldsConcat DEF Meet, Apart
  <2>5. Fields(n) = << >>
    <3>1. IsBlank(n)
      BY <2>1, <2>2, BlankPiece
    <3>2. QED
      BY <2>2, <3>1, NoFields
  <2>6. << >> \o Fields(t) = Fields(t)
    BY FieldsType DEF Sentences
  <2>7. s \o n \o t = s \o (n \o t)
    BY <2>2
  <2>8. QED
    BY <1>2, <2>1, <2>3, <2>4, <2>5, <2>6, <2>7
<1>3. QED
  BY <1>1, <1>2

-----------------------------------------------------------------------------
(* Types *)

Streams == [rest : Seq(Pieces), eof : BOOLEAN, fail : BOOLEAN]

(* There are finitely many settings, so that they can be written.          *)
IInv == TypeOK /\ is \in Streams /\ IsFiniteSet(DOMAIN contents)

LEMMA GetlineType ==
  ASSUME is \in Streams, NEW s \in Seq(Pieces)
  PROVE  getline(s).str \in Seq(Pieces) /\ getline(s).is \in Streams
<1>1. CASE is.rest = << >>
  BY <1>1 DEF getline, Streams
<1>2. CASE is.rest # << >>
  <2>1. is.rest \in Seq(Pieces)
    BY DEF Streams
  <2>2. Before(is.rest, Newline) \in Seq(Pieces)
    BY <2>1, BeforeType
  <2>3. Has(is.rest, Newline) => After(is.rest, Newline) \in Seq(Pieces)
    BY <2>1, AfterType
  <2>4. getline(s).str = Before(is.rest, Newline)
    BY <1>2 DEF getline
  <2>5. getline(s).is = IF Has(is.rest, Newline) THEN [is EXCEPT !.rest = After(@, Newline)]
                        ELSE [is EXCEPT !.rest = << >>, !.eof = TRUE]
    BY <1>2 DEF getline
  <2>6. [is EXCEPT !.rest = << >>, !.eof = TRUE] \in Streams
    <3>1. << >> \in Seq(Pieces)
      OBVIOUS
    <3>2. QED
      BY <3>1 DEF Streams
  <2>7. Has(is.rest, Newline) => [is EXCEPT !.rest = After(@, Newline)] \in Streams
    BY <2>3 DEF Streams
  <2>8. QED
    BY <2>2, <2>4, <2>5, <2>6, <2>7
<1>3. QED
  BY <1>1, <1>2

LEMMA ParseType ==
  ASSUME NEW text \in Seq(Pieces), Parse(text), key \in Seq(Pieces), pc = "outer"
  PROVE  line' \in Seq(Pieces) /\ key' \in Seq(Pieces) /\ pc' \in {"outer", "ahead"}
<1>1. PICK code : code = Before(text, Comment)
  OBVIOUS
<1>2. code \in Seq(Pieces)
  BY <1>1, BeforeType
<1>3. /\ Before(code, Delim) \in Seq(Pieces)
      /\ Has(code, Delim) => After(code, Delim) \in Seq(Pieces)
  BY <1>2, BeforeType, AfterType
<1>4. QED
  BY <1>1, <1>2, <1>3 DEF Parse

LEMMA WithType ==
  ASSUME IInv, NEW k, NEW value, Trimmed(k), Trimmed(value)
  PROVE  /\ IsFiniteSet(DOMAIN With(k, value))
         /\ \A j \in DOMAIN With(k, value) : Trimmed(j) /\ Trimmed(With(k, value)[j])
<1>1. DOMAIN With(k, value) = DOMAIN contents \cup {k}
  BY DEF With
<1>2. IsFiniteSet(DOMAIN contents \cup {k})
  BY FS_AddElement DEF IInv
<1>3. \A j \in DOMAIN contents : Trimmed(j) /\ Trimmed(contents[j])
  BY DEF IInv, TypeOK, Trimmed, Blank
<1>4. \A j \in DOMAIN contents \cup {k} :
        With(k, value)[j] = IF j = k THEN value ELSE contents[j]
  BY DEF With
<1>5. QED
  BY <1>1, <1>2, <1>3, <1>4

LEMMA SetToSeqIs ==
  ASSUME NEW S, IsFiniteSet(S)
  PROVE  /\ Cardinality(S) \in Nat
         /\ SetToSeq(S) \in [1 .. Cardinality(S) -> S]
         /\ \A i, j \in 1 .. Cardinality(S) : SetToSeq(S)[i] = SetToSeq(S)[j] => i = j
<1>1. PICK n \in Nat : ExistsBijection(1 .. n, S) /\ n = Cardinality(S)
  BY FS_CardinalityType, FS_NatBijection
<1>2. PICK f \in Bijection(1 .. n, S) : TRUE
  BY <1>1 DEF ExistsBijection
<1>3. f \in [1 .. n -> S] /\ IsInjective(f)
  BY <1>2 DEF Bijection, Injection, IsInjective
<1>4. SetToSeq(S) \in [1 .. n -> S] /\ IsInjective(SetToSeq(S))
  BY <1>1, <1>3, Zenon DEF SetToSeq
<1>5. QED
  BY <1>1, <1>4 DEF IsInjective

(* What operator<< writes is a text.                                       *)
LEMMA WrittenType ==
  ASSUME IInv
  PROVE  Written(contents) \in Seq(Pieces)
<1>1. PICK n, q : n = Cardinality(DOMAIN contents) /\ q = SetToSeq(DOMAIN contents)
  OBVIOUS
<1>2. n \in Nat /\ q \in [1 .. n -> DOMAIN contents]
  BY <1>1, SetToSeqIs DEF IInv
<1>3. PICK lines : lines = [i \in 1 .. n |->
                      q[i] \o << Space, Delim, Space >> \o contents[q[i]] \o << Newline >>]
  OBVIOUS
<1>4. ASSUME NEW i \in 1 .. n PROVE lines[i] \in Seq(Pieces)
  <2>1. q[i] \in DOMAIN contents
    BY <1>2
  <2>2. q[i] \in Seq(Pieces) /\ contents[q[i]] \in Seq(Pieces)
    BY <2>1 DEF IInv, TypeOK
  <2>3. << Space, Delim, Space >> \in Seq(Pieces) /\ << Newline >> \in Seq(Pieces)
    BY DEF Pieces
  <2>4. q[i] \o << Space, Delim, Space >> \o contents[q[i]] \o << Newline >> \in Seq(Pieces)
    BY <2>2, <2>3
  <2>5. QED
    BY <1>3, <2>4
<1>5. lines \in Seq(Seq(Pieces))
  <2>1. lines \in [1 .. n -> Seq(Pieces)]
    BY <1>3, <1>4
  <2>2. QED
    BY <1>2, <2>1
<1>6. Written(contents) = FlattenSeq(lines)
  BY <1>1, <1>3 DEF Written
<1>7. QED
  BY <1>5, <1>6, FlattenType

LEMMA InitIInv == Init => IInv
<1> SUFFICES ASSUME Init PROVE IInv
  OBVIOUS
<1>1. << >> \in Seq(Pieces) /\ (file = NoFile \/ file \in Seq(Pieces))
  BY FilesAssumption DEF Init
<1>2. is \in Streams /\ is.rest = << >> /\ is.eof \in BOOLEAN /\ is.fail \in BOOLEAN
  BY <1>1 DEF Init, Opened, Streams
<1>3. DOMAIN contents = {} /\ IsFiniteSet({})
  BY FS_EmptySet DEF Init, Empty
<1>4. settings \in [NumberKeys -> Int]
  BY DEF Init
<1>5. QED
  BY <1>1, <1>2, <1>3, <1>4 DEF Init, IInv, TypeOK

(* A step that leaves alone what it does not assign keeps the types.       *)
LEMMA TypesKept ==
  ASSUME IInv, UNCHANGED << file, contents, settings >>, is' \in Streams,
         {line', nextline', key'} \subseteq Seq(Pieces),
         pc' \in {"constructing", "outer", "ahead", "store", "loaded", "edited",
                  "running", "terminated", "undefined"}
  PROVE  IInv'
<1>1. is.rest' \in Seq(Pieces) /\ is.eof' \in BOOLEAN /\ is.fail' \in BOOLEAN
  BY DEF Streams
<1>2. QED
  BY <1>1 DEF IInv, TypeOK, Streams

LEMMA ContentsKept ==
  ASSUME IInv, UNCHANGED << stream, locals, settings >>,
         IsFiniteSet(DOMAIN contents'),
         \A k \in DOMAIN contents' : Trimmed(k) /\ Trimmed(contents'[k]),
         pc' \in {"constructing", "outer", "ahead", "store", "loaded", "edited",
                  "running", "terminated", "undefined"}
  PROVE  IInv'
<1>1. /\ \A k \in DOMAIN contents' : {k, contents'[k]} \subseteq Seq(Pieces)
      /\ \A k \in DOMAIN contents' : \A s \in {k, contents'[k]} :
           s # << >> => {Head(s), Last(s)} \cap {Space, Newline} = {}
  BY DEF Trimmed, Blank
<1>2. UNCHANGED << file, is, line, nextline, key, settings >>
  BY DEF stream, locals
<1>3. QED
  BY <1>1, <1>2 DEF IInv, TypeOK, Streams

LEMMA ReadLineIInv == ASSUME IInv, ReadLine \/ UseReadAhead PROVE IInv'
<1>1. /\ pc = "outer" /\ key \in Seq(Pieces) /\ nextline \in Seq(Pieces)
      /\ is \in Streams /\ << >> \in Seq(Pieces)
  BY DEF IInv, TypeOK, ReadLine, UseReadAhead
<1>2. CASE ReadLine
  <2>1. /\ is' \in Streams /\ Parse(getline(<< >>).str) /\ getline(<< >>).str \in Seq(Pieces)
        /\ UNCHANGED << file, nextline, contents, settings >>
    BY <1>1, <1>2, GetlineType DEF ReadLine
  <2>2. line' \in Seq(Pieces) /\ key' \in Seq(Pieces) /\ pc' \in {"outer", "ahead"}
    BY <1>1, <2>1, ParseType
  <2>3. QED
    BY <1>1, <2>1, <2>2, TypesKept
<1>3. CASE UseReadAhead
  <2>1. /\ nextline' = << >> /\ Parse(nextline)
        /\ UNCHANGED << file, is, contents, settings >>
    BY <1>3 DEF UseReadAhead, stream
  <2>2. line' \in Seq(Pieces) /\ key' \in Seq(Pieces) /\ pc' \in {"outer", "ahead"}
    BY <1>1, <2>1, ParseType
  <2>3. QED
    BY <1>1, <2>1, <2>2, TypesKept
<1>4. QED
  BY <1>2, <1>3

LEMMA ReadAheadIInv == ASSUME IInv, StopAtBlank \/ StopAtKey \/ Continue PROVE IInv'
<1>1. ReadAhead
  BY DEF StopAtBlank, StopAtKey, Continue
<1>2. /\ is' = Ahead.is /\ UNCHANGED << file, key, contents, settings >> /\ pc = "ahead"
      /\ is \in Streams /\ {line, nextline, key} \subseteq Seq(Pieces)
  BY <1>1 DEF ReadAhead, IInv, TypeOK
<1>3. Ahead.str \in Seq(Pieces) /\ Ahead.is \in Streams
  BY <1>2, GetlineType DEF Ahead
<1>4. Before(Ahead.str, Comment) \in Seq(Pieces)
  BY <1>3, BeforeType
<1>5. CASE StopAtBlank
  BY <1>2, <1>3, <1>5, TypesKept DEF StopAtBlank
<1>6. CASE StopAtKey
  BY <1>2, <1>3, <1>4, <1>6, TypesKept DEF StopAtKey
<1>7. CASE Continue
  <2>1. PICK gap \in Seq(Pieces) : line' = line \o gap \o nextline'
    <3>1. << >> \in Seq(Pieces) /\ << Newline >> \in Seq(Pieces)
      BY DEF Pieces
    <3>2. QED
      BY <1>7, <3>1 DEF Continue
  <2>2. nextline' \in Seq(Pieces) /\ pc' = "ahead"
    BY <1>2, <1>4, <1>7 DEF Continue
  <2>3. line' \in Seq(Pieces)
    BY <1>2, <2>1, <2>2
  <2>4. key' \in Seq(Pieces) /\ is' \in Streams
    BY <1>2, <1>3
  <2>5. QED
    BY <1>2, <2>2, <2>3, <2>4, TypesKept
<1>8. QED
  BY <1>5, <1>6, <1>7

LEMMA StoreIInv == ASSUME IInv, Store PROVE IInv'
<1>1. Trimmed(Trim(key)) /\ Trimmed(Trim(line))
  BY TrimTrims DEF IInv, TypeOK
<1>2. contents' = With(Trim(key), Trim(line)) /\ pc' = "outer"
      /\ UNCHANGED << stream, locals, settings >>
  BY DEF Store
<1>3. QED
  BY <1>1, <1>2, WithType, ContentsKept

(* Numbers come from the values, or from nowhere.                          *)
LEMMA SettingsIInv == ASSUME IInv, ReadSettings PROVE IInv'
<1>1. ASSUME NEW k PROVE Converted(k) \subseteq Int
  <2>1. Junk \subseteq Int /\ {0} \subseteq Int /\ \A w \in Words : Number[w] \in Int
    BY NumberAssumption
  <2>2. QED
    BY <2>1, Zenon DEF Converted
<1>2. settings' \in [NumberKeys -> Int]
  BY <1>1 DEF ReadSettings
<1>3. UNCHANGED << file, is, line, nextline, key, contents >> /\ pc' = "running"
  BY DEF ReadSettings, stream, locals
<1>4. QED
  BY <1>2, <1>3 DEF IInv, TypeOK, Streams

(* Add() does not trim what it is given: its calls of trim() are comments. *)
TrimmedEdits == \A e \in Edits : Trimmed(e.key) /\ Trimmed(e.value)

LEMMA EditIInv ==
  ASSUME IInv, TrimmedEdits, NEW e \in Edits,
         AddSetting(e.key, e.value) \/ RemoveSetting(e.key) \/ RemoveAbsent(e.key)
  PROVE  IInv'
<1>1. CASE AddSetting(e.key, e.value)
  <2>1. Trimmed(e.key) /\ Trimmed(e.value)
    BY DEF TrimmedEdits
  <2>2. contents' = With(e.key, e.value) /\ pc' = "edited"
        /\ UNCHANGED << stream, locals, settings >>
    BY <1>1 DEF AddSetting
  <2>3. QED
    BY <2>1, <2>2, WithType, ContentsKept
<1>2. CASE RemoveSetting(e.key)
  <2>1. contents' = Restrict(contents, DOMAIN contents \ {e.key}) /\ pc' = "edited"
        /\ UNCHANGED << stream, locals, settings >>
    BY <1>2 DEF RemoveSetting
  <2>2. /\ DOMAIN contents' = DOMAIN contents \ {e.key}
        /\ \A k \in DOMAIN contents' : contents'[k] = contents[k]
    BY <2>1 DEF Restrict
  <2>3. IsFiniteSet(DOMAIN contents')
    BY <2>2, FS_RemoveElement DEF IInv
  <2>4. \A k \in DOMAIN contents : Trimmed(k) /\ Trimmed(contents[k])
    BY DEF IInv, TypeOK, Trimmed, Blank
  <2>5. \A k \in DOMAIN contents' : Trimmed(k) /\ Trimmed(contents'[k])
    BY <2>2, <2>4
  <2>6. QED
    BY <2>1, <2>3, <2>5, ContentsKept
<1>3. CASE RemoveAbsent(e.key)
  <2>1. /\ UNCHANGED << file, is, contents, settings, line, nextline, key >>
        /\ pc' = "undefined"
    BY <1>3 DEF RemoveAbsent, stream, locals
  <2>2. is' \in Streams /\ {line', nextline', key'} \subseteq Seq(Pieces)
    BY <2>1 DEF IInv, TypeOK
  <2>3. QED
    BY <2>1, <2>2, TypesKept
<1>4. QED
  BY <1>1, <1>2, <1>3

LEMMA SaveIInv == ASSUME IInv, SaveAndConstruct PROVE IInv'
<1>1. file' \in Seq(Pieces) /\ is' = Opened(file')
  BY WrittenType DEF SaveAndConstruct
<1>2. is' \in Streams /\ is'.rest \in Seq(Pieces) /\ is'.eof \in BOOLEAN /\ is'.fail \in BOOLEAN
  BY <1>1 DEF Opened, Streams
<1>3. DOMAIN contents' = {} /\ IsFiniteSet({})
  BY FS_EmptySet DEF SaveAndConstruct, Empty
<1>4. UNCHANGED << line, nextline, key, settings >> /\ pc' = "outer"
  BY DEF SaveAndConstruct, locals
<1>5. QED
  BY <1>1, <1>2, <1>3, <1>4 DEF IInv, TypeOK

(* The steps that only move on                                             *)
LEMMA MoveIInv ==
  ASSUME IInv, Construct \/ Throw \/ EndOfStream \/ StopAtFailure \/ UNCHANGED vars
  PROVE  IInv'
<1>1. is \in Streams /\ {line, nextline, key} \subseteq Seq(Pieces)
  BY DEF IInv, TypeOK
<1>2. CASE Construct
  <2>1. file \in Seq(Pieces)
    BY <1>2 DEF Construct, IInv, TypeOK
  <2>2. is' \in Streams
    BY <1>2, <2>1 DEF Construct, Opened, Streams
  <2>3. QED
    BY <1>1, <1>2, <2>2, TypesKept DEF Construct, locals
<1>3. CASE Throw \/ EndOfStream \/ StopAtFailure \/ UNCHANGED vars
  <2>1. UNCHANGED << file, is, line, nextline, key, contents, settings >>
    BY <1>3 DEF Throw, EndOfStream, StopAtFailure, vars, stream, locals
  <2>2. pc' \in {"terminated", "loaded", "store", pc}
    BY <1>3 DEF Throw, EndOfStream, StopAtFailure, vars
  <2>3. is' \in Streams /\ {line', nextline', key'} \subseteq Seq(Pieces)
    BY <1>1, <2>1
  <2>4. pc' \in {"constructing", "outer", "ahead", "store", "loaded", "edited",
                 "running", "terminated", "undefined"}
    BY <2>2 DEF IInv, TypeOK
  <2>5. QED
    BY <2>1, <2>3, <2>4, TypesKept
<1>4. QED
  BY <1>2, <1>3

LEMMA NextIInv == TrimmedEdits /\ IInv /\ [Next]_vars => IInv'
<1> SUFFICES ASSUME TrimmedEdits, IInv, [Next]_vars PROVE IInv'
  OBVIOUS
<1>1. CASE Load
  BY <1>1, ReadLineIInv, ReadAheadIInv, StoreIInv, MoveIInv DEF Load
<1>2. CASE \E e \in Edits : \/ AddSetting(e.key, e.value) \/ RemoveSetting(e.key)
                           \/ RemoveAbsent(e.key)
  BY <1>2, EditIInv
<1>3. CASE Construct \/ Throw \/ ReadSettings \/ SaveAndConstruct \/ Terminated \/ UNCHANGED vars
  BY <1>3, MoveIInv, SettingsIInv, SaveIInv DEF Terminated
<1>4. QED
  BY <1>1, <1>2, <1>3 DEF Next

LEMMA InvariantHolds == ASSUME TrimmedEdits PROVE Spec => []IInv
<1>1. IInv /\ [Next]_vars => IInv'
  BY NextIInv
<1>2. QED
  BY <1>1, InitIInv, PTL DEF Spec

(* For any file, any delimiter and comment mark and any settings added:    *)
(* the parser's locals are texts, and every key and value stored is a text *)
(* without whitespace around it, provided that what is given to Add() is.  *)
THEOREM TypeCorrect == ASSUME TrimmedEdits PROVE Spec => []TypeOK
<1>1. IInv => TypeOK
  BY DEF IInv
<1>2. QED
  BY <1>1, InvariantHolds, PTL

-----------------------------------------------------------------------------
(* The lines of a file *)

Final == Len(file) + 1

LEMMA EndsAre ==
  ASSUME file \in Seq(Pieces)
  PROVE  /\ Final \in Nat /\ Final >= 1 /\ Final \in Ends
         /\ \A e \in Ends : e \in Nat /\ e \in 0 .. Final /\ 1 <= e /\ e <= Final
         /\ \A k \in 1 .. Len(file) : k \in Ends <=> file[k] = Newline
BY DEF Ends, Final

(* A line starts behind the end of the line before it.                     *)
LEMMA LastEnd ==
  ASSUME file \in Seq(Pieces), NEW e \in Ends, NEW c \in Ends \cup {0}, c < e,
         \A k \in Ends : ~ (c < k /\ k < e)
  PROVE  LineAt(e) = SubSeq(file, c + 1, e - 1)
<1> DEFINE S == {0} \cup { k \in Ends : k < e }
<1>1. Final \in Nat /\ S \in SUBSET (0 .. Final) /\ c \in S /\ e \in Nat
  BY EndsAre
<1>2. Max(S) \in S /\ \A k \in S : k <= Max(S)
  <2> HIDE DEF S
  <2>1. QED
    BY <1>1, MaxIs
<1>3. c <= Max(S) /\ c \in Nat /\ Max(S) \in Nat
  BY <1>1, <1>2
<1>4. ~ c < Max(S)
  <2>1. CASE Max(S) = 0
    BY <1>3, <2>1
  <2>2. CASE Max(S) # 0
    <3>1. Max(S) \in Ends /\ Max(S) < e
      BY <1>2, <2>2
    <3>2. QED
      BY <3>1
  <2>3. QED
    BY <2>1, <2>2
<1>5. Max(S) = c
  BY <1>3, <1>4
<1>6. LineAt(e) = SubSeq(file, Max(S) + 1, e - 1)
  BY DEF LineAt
<1>7. QED
  BY <1>5, <1>6

LEMMA LineType ==
  ASSUME file \in Seq(Pieces), NEW e \in Ends
  PROVE  /\ LineAt(e) \in Seq(Pieces) /\ Code(e) \in Seq(Pieces)
         /\ ~ Has(Code(e), Comment)
         /\ IsBlank(LineAt(e)) => IsBlank(Code(e)) /\ ~ Has(Code(e), Delim)
<1> DEFINE S == {0} \cup { k \in Ends : k < e }
<1>1. Final \in Nat /\ S \in SUBSET (0 .. Final) /\ S # {} /\ e \in Nat /\ e <= Final
  BY EndsAre
<1>2. Max(S) \in Nat
  <2> HIDE DEF S
  <2>1. Max(S) \in 0 .. Final
    BY <1>1, MaxIs
  <2>2. QED
    BY <1>1, <2>1
<1>3. LineAt(e) \in Seq(Pieces)
  <2>1. PICK m : m = Max(S)
    OBVIOUS
  <2>2. LineAt(e) = SubSeq(file, m + 1, e - 1)
    BY <2>1 DEF LineAt
  <2>3. m + 1 \in Nat \ {0} /\ e - 1 \in Int /\ e - 1 <= Len(file) /\ Len(file) \in Nat
    BY <1>1, <1>2, <2>1 DEF Final
  <2>4. QED
    BY <2>2, <2>3, PartType
<1>4. QED
  BY <1>3, BeforeType, BeforeIs, BlankHasNot DEF Code

(* The words of a value, line by line                                      *)
Part(f, e) == IF Belongs(f, e) THEN Fields(Code(f)) ELSE << >>

LEMMA PartIs ==
  ASSUME file \in Seq(Pieces), NEW f, NEW e
  PROVE  Part(f, e) \in Seq(Seq(Pieces))
<1>1. CASE Belongs(f, e)
  <2>1. f \in Ends
    BY <1>1 DEF Belongs
  <2>2. QED
    BY <1>1, <2>1, LineType, FieldsType DEF Part, Sentences
<1>2. CASE ~ Belongs(f, e)
  <2>1. << >> \in Seq(Seq(Pieces))
    OBVIOUS
  <2>2. QED
    BY <1>2, <2>1 DEF Part
<1>3. QED
  BY <1>1, <1>2

LEMMA AppendIs ==
  ASSUME NEW S, NEW q \in Seq(S), NEW x \in S, NEW n \in Nat, n = Len(q)
  PROVE  /\ Append(q, x) \in [1 .. n + 1 -> S]
         /\ \A i \in 1 .. n + 1 : Append(q, x)[i] = IF i = n + 1 THEN x ELSE q[i]
<1>1. Append(q, x) \in Seq(S) /\ Len(Append(q, x)) = n + 1
  BY AppendProperties
<1>2. Append(q, x)[n + 1] = x /\ \A i \in 1 .. n : Append(q, x)[i] = q[i]
  BY AppendProperties
<1>3. \A i \in 1 .. n + 1 : i # n + 1 => i \in 1 .. n
  OBVIOUS
<1>4. \A t : t \in Seq(S) /\ Len(t) = n + 1 => t \in [1 .. n + 1 -> S]
  OBVIOUS
<1>5. Append(q, x) \in [1 .. n + 1 -> S]
  BY <1>1, <1>4, Zenon
<1>6. ASSUME NEW i \in 1 .. n + 1 PROVE Append(q, x)[i] = IF i = n + 1 THEN x ELSE q[i]
  <2>1. CASE i = n + 1
    BY <1>2, <2>1
  <2>2. CASE i # n + 1
    BY <1>2, <1>3, <2>2
  <2>3. QED
    BY <2>1, <2>2
<1>7. QED
  BY <1>5, <1>6

LEMMA ConcatThree ==
  ASSUME NEW S, NEW a \in Seq(S), NEW b \in Seq(S), NEW c \in Seq(S)
  PROVE  a \o (b \o c) = (a \o b) \o c
OBVIOUS

LEMMA UpToType ==
  ASSUME file \in Seq(Pieces), NEW e \in KeyLines, NEW n \in Nat
  PROVE  /\ FieldsUpTo(e, n) \in Seq(Seq(Pieces))
         /\ FieldsUpTo(e, n + 1) = FieldsUpTo(e, n) \o Part(n + 1, e)
<1>1. PICK q, r, x : /\ q = [f \in 1 .. n |-> Part(f, e)]
                     /\ r = [f \in 1 .. n + 1 |-> Part(f, e)] /\ x = Part(n + 1, e)
  OBVIOUS
<1>2. q \in [1 .. n -> Seq(Seq(Pieces))] /\ x \in Seq(Seq(Pieces))
  BY <1>1, PartIs
<1>3. q \in Seq(Seq(Seq(Pieces))) /\ Len(q) = n
  BY <1>1, <1>2
<1>4. r = Append(q, x)
  <2>1. /\ Append(q, x) \in [1 .. n + 1 -> Seq(Seq(Pieces))]
        /\ \A i \in 1 .. n + 1 : Append(q, x)[i] = IF i = n + 1 THEN x ELSE q[i]
    <3>1. PICK W : W = Seq(Seq(Pieces))
      OBVIOUS
    <3>2. q \in Seq(W) /\ x \in W
      BY <1>2, <1>3, <3>1, Zenon
    <3>3. Append(q, x) \in [1 .. n + 1 -> W]
      BY <1>3, <3>2, AppendIs
    <3>4. \A i \in 1 .. n + 1 : Append(q, x)[i] = IF i = n + 1 THEN x ELSE q[i]
      BY <1>3, <3>2, AppendIs
    <3>5. QED
      BY <3>1, <3>3, <3>4, Zenon
  <2>2. \A i \in 1 .. n + 1 : i \in 1 .. n \/ i = n + 1
    OBVIOUS
  <2>3. \A i \in 1 .. n + 1 : Append(q, x)[i] = Part(i, e)
    BY <1>1, <2>1, <2>2
  <2>4. QED
    BY <1>1, <2>1, <2>3
<1>5. PICK Q, R : Q = FlattenSeq(q) /\ R = FlattenSeq(r)
  OBVIOUS
<1>6. Q \in Seq(Seq(Pieces)) /\ R = Q \o x
  BY <1>2, <1>3, <1>4, <1>5, FlattenType, FlattenAppend
<1>7. PICK v : v = Fields(After(Code(e), Delim))
  OBVIOUS
<1>8. v \in Seq(Seq(Pieces))
  <2>1. e \in Ends /\ Has(Code(e), Delim)
    BY DEF KeyLines
  <2>2. After(Code(e), Delim) \in Seq(Pieces)
    BY <2>1, LineType, AfterType
  <2>3. QED
    BY <1>7, <2>2, FieldsType DEF Sentences
<1>9. FieldsUpTo(e, n) = v \o Q /\ FieldsUpTo(e, n + 1) = v \o R
  BY <1>1, <1>5, <1>7 DEF FieldsUpTo, Part
<1>10. v \o (Q \o x) = (v \o Q) \o x
  <2>1. Q \in Seq(Seq(Pieces)) /\ x \in Seq(Seq(Pieces)) /\ v \in Seq(Seq(Pieces))
    BY <1>2, <1>6, <1>8
  <2>2. (v \o Q) \o x = v \o (Q \o x)
    <3>1. PICK W : W = Seq(Pieces)
      OBVIOUS
    <3>2. Q \in Seq(W) /\ x \in Seq(W) /\ v \in Seq(W)
      BY <2>1, <3>1, Zenon
    <3>3. QED
      BY <3>2, ConcatThree
  <2>3. QED
    BY <2>2, Zenon
<1>11. QED
  <2>1. v \o Q \in Seq(Seq(Pieces))
    BY <1>6, <1>8
  <2>2. QED
    BY <1>1, <1>6, <1>9, <1>10, <2>1


LEMMA UpToStays ==
  ASSUME file \in Seq(Pieces), NEW e \in KeyLines, NEW m \in Nat, NEW n \in Nat, m <= n,
         \A f \in Ends : m < f /\ f <= n => ~ Belongs(f, e)
  PROVE  FieldsUpTo(e, n) = FieldsUpTo(e, m)
<1> DEFINE T == { k \in Nat : m + k <= n => FieldsUpTo(e, m + k) = FieldsUpTo(e, m) }
<1>1. 0 \in T
  OBVIOUS
<1>2. ASSUME NEW k \in Nat, k \in T PROVE k + 1 \in T
  <2>1. ASSUME m + (k + 1) <= n PROVE FieldsUpTo(e, m + (k + 1)) = FieldsUpTo(e, m)
    <3>1. PICK x : x = m + k
      OBVIOUS
    <3>2. x \in Nat /\ m + (k + 1) = x + 1 /\ m < x + 1 /\ x + 1 <= n /\ m + k <= n
      BY <2>1, <3>1
    <3>3. ~ Belongs(x + 1, e)
      BY <3>2 DEF Belongs
    <3>4. FieldsUpTo(e, x + 1) = FieldsUpTo(e, x) \o << >>
      BY <3>2, <3>3, UpToType DEF Part
    <3>5. FieldsUpTo(e, x) \o << >> = FieldsUpTo(e, x)
      BY <3>2, UpToType
    <3>6. FieldsUpTo(e, x) = FieldsUpTo(e, m)
      BY <1>2, <3>1, <3>2
    <3>7. QED
      BY <3>2, <3>4, <3>5, <3>6
  <2>2. k + 1 \in Nat
    OBVIOUS
  <2>3. QED
    BY <2>1, <2>2
<1>3. n - m \in T
  <2>1. n - m \in Nat
    OBVIOUS
  <2> HIDE DEF T
  <2>2. QED
    BY <1>1, <1>2, <2>1, Induction
<1>4. m + (n - m) = n /\ n <= n
  OBVIOUS
<1>5. QED
  BY <1>3, <1>4

(* The line of the key itself                                              *)
LEMMA UpToOwn ==
  ASSUME file \in Seq(Pieces), NEW e \in KeyLines
  PROVE  FieldsUpTo(e, e) = Fields(After(Code(e), Delim))
<1>1. e \in Ends /\ e \in Nat /\ Has(Code(e), Delim)
  BY EndsAre DEF KeyLines
<1>2. \A f \in Ends : 0 < f /\ f <= e => ~ Belongs(f, e)
  <2>1. ASSUME NEW f \in Ends, f <= e PROVE ~ Belongs(f, e)
    <3>1. f \in Nat
      BY EndsAre
    <3>2. ~ e < f
      BY <1>1, <2>1, <3>1
    <3>3. QED
      BY <3>2 DEF Belongs
  <2>2. QED
    BY <2>1
<1>3. FieldsUpTo(e, e) = FieldsUpTo(e, 0)
  BY <1>1, <1>2, UpToStays
<1>4. PICK v : v = Fields(After(Code(e), Delim))
  OBVIOUS
<1>5. v \in Seq(Seq(Pieces))
  <2>1. After(Code(e), Delim) \in Seq(Pieces)
    BY <1>1, LineType, AfterType
  <2>2. QED
    BY <1>4, <2>1, FieldsType DEF Sentences
<1>6. [f \in 1 .. 0 |-> IF Belongs(f, e) THEN Fields(Code(f)) ELSE << >>] = << >>
  OBVIOUS
<1>7. FieldsUpTo(e, 0) = v \o FlattenSeq(<< >>)
  BY <1>4, <1>6 DEF FieldsUpTo
<1>8. FlattenSeq(<< >>) = << >>
  BY DEF FlattenSeq
<1>9. v \o << >> = v
  BY <1>5
<1>10. QED
  BY <1>3, <1>4, <1>7, <1>8, <1>9

(* No line ends between c and d.                                           *)
NextTo(c, d) == c < d /\ \A k \in Ends : ~ (c < k /\ k < d)

LEMMA UpToNext ==
  ASSUME file \in Seq(Pieces), NEW e \in KeyLines, NEW c \in Nat, NEW d \in Ends,
         NextTo(c, d), Belongs(d, e)
  PROVE  FieldsUpTo(e, d) = FieldsUpTo(e, c) \o Fields(Code(d))
<1>1. d \in Nat /\ d - 1 \in Nat /\ c <= d - 1 /\ (d - 1) + 1 = d
  BY EndsAre DEF NextTo
<1>2. \A f \in Ends : c < f /\ f <= d - 1 => ~ Belongs(f, e)
  <2>1. ASSUME NEW f \in Ends, c < f, f <= d - 1 PROVE FALSE
    <3>1. f < d
      BY <1>1, <2>1, EndsAre
    <3>2. QED
      BY <2>1, <3>1 DEF NextTo
  <2>2. QED
    BY <2>1
<1>3. FieldsUpTo(e, d - 1) = FieldsUpTo(e, c)
  BY <1>1, <1>2, UpToStays
<1>4. FieldsUpTo(e, (d - 1) + 1) = FieldsUpTo(e, d - 1) \o Part((d - 1) + 1, e)
  BY <1>1, UpToType
<1>5. Part(d, e) = Fields(Code(d))
  BY DEF Part
<1>6. QED
  BY <1>1, <1>3, <1>4, <1>5

-----------------------------------------------------------------------------
(* The stream *)

(* The stream i has consumed the file up to n.                             *)
StreamAt(i, n) ==
  /\ i.fail => i.eof
  /\ IF i.eof THEN i.rest = << >> /\ n = Final
     ELSE n \in Nat /\ n \in Ends \cup {0} /\ n <= Len(file) /\ i.rest = SubSeq(file, n + 1, Len(file))

LEMMA PartOfRest ==
  ASSUME NEW s \in Seq(Pieces), NEW c \in Nat, c <= Len(s),
         NEW rest, rest = SubSeq(s, c + 1, Len(s))
  PROVE  /\ rest \in Seq(Pieces) /\ Len(rest) = Len(s) - c
         /\ \A k \in 1 .. Len(rest) : rest[k] = s[c + k]
         /\ \A m \in 1 .. Len(rest) :
              /\ SubSeq(rest, 1, m - 1) = SubSeq(s, c + 1, c + m - 1)
              /\ SubSeq(rest, m + 1, Len(rest)) = SubSeq(s, c + m + 1, Len(s))
<1>1. rest \in Seq(Pieces) /\ Len(rest) = Len(s) - c
  OBVIOUS
<1>2. \A k \in 1 .. Len(rest) : rest[k] = s[c + k]
  OBVIOUS
<1>3. ASSUME NEW m \in 1 .. Len(rest)
      PROVE  SubSeq(rest, 1, m - 1) = SubSeq(s, c + 1, c + m - 1)
  <2>1. PICK t, u : t = SubSeq(rest, 1, m - 1) /\ u = SubSeq(s, c + 1, c + m - 1)
    OBVIOUS
  <2>2. t \in Seq(Pieces) /\ Len(t) = m - 1 /\ \A k \in 1 .. m - 1 : t[k] = rest[k]
    BY <1>1, <2>1
  <2>3. u \in Seq(Pieces) /\ Len(u) = m - 1 /\ \A k \in 1 .. m - 1 : u[k] = s[c + k]
    BY <1>1, <2>1
  <2>4. \A k \in 1 .. m - 1 : k \in 1 .. Len(rest)
    BY <1>1
  <2>5. \A k \in 1 .. m - 1 : t[k] = u[k]
    BY <1>2, <2>2, <2>3, <2>4
  <2>6. t = u
    BY <2>2, <2>3, <2>5, SeqEqual
  <2>7. QED
    BY <2>1, <2>6
<1>4. ASSUME NEW m \in 1 .. Len(rest)
      PROVE  SubSeq(rest, m + 1, Len(rest)) = SubSeq(s, c + m + 1, Len(s))
  <2>1. PICK t, u, n : /\ t = SubSeq(rest, m + 1, Len(rest)) /\ u = SubSeq(s, c + m + 1, Len(s))
                       /\ n = Len(s) - c - m
    OBVIOUS
  <2>2. n \in Nat /\ m \in Nat
    BY <1>1, <2>1
  <2>3. t \in Seq(Pieces) /\ Len(t) = n /\ \A k \in 1 .. n : t[k] = rest[m + k]
    BY <1>1, <2>1
  <2>4. u \in Seq(Pieces) /\ Len(u) = n /\ \A k \in 1 .. n : u[k] = s[c + m + k]
    BY <1>1, <2>1
  <2>5. \A k \in 1 .. n : m + k \in 1 .. Len(rest) /\ c + (m + k) = c + m + k
    BY <1>1, <2>1, <2>2
  <2>6. \A k \in 1 .. n : t[k] = u[k]
    BY <1>2, <2>3, <2>4, <2>5
  <2>7. t = u
    BY <2>3, <2>4, <2>6, SeqEqual
  <2>8. QED
    BY <2>1, <2>7
<1>5. QED
  BY <1>1, <1>2, <1>3, <1>4

LEMMA StreamType ==
  ASSUME file \in Seq(Pieces), NEW i, NEW n, StreamAt(i, n)
  PROVE  /\ n \in Nat /\ n <= Final /\ n \in Ends \cup {0}
         /\ i.eof => n = Final
<1>1. CASE i.eof
  <2>1. n = Final
    BY <1>1 DEF StreamAt
  <2>2. QED
    BY <1>1, <2>1, EndsAre
<1>2. CASE ~ i.eof
  <2>1. n \in Nat /\ n \in Ends \cup {0} /\ n <= Len(file)
    BY <1>2 DEF StreamAt
  <2>2. QED
    BY <1>2, <2>1 DEF Final
<1>3. QED
  BY <1>1, <1>2

(* getline() reads the next line, unless the end of the file was read.     *)
LEMMA NextLine ==
  ASSUME file \in Seq(Pieces), is \in Streams, NEW n, StreamAt(is, n), ~ is.eof, NEW s
  PROVE  \E d \in Ends : /\ NextTo(n, d)
                         /\ getline(s).str = LineAt(d) /\ StreamAt(getline(s).is, d)
<1>0. PICK rest : rest = is.rest
  OBVIOUS
<1>1. PICK c \in Nat : /\ c = n /\ rest = is.rest /\ c <= Len(file)
                       /\ rest = SubSeq(file, c + 1, Len(file)) /\ c \in Ends \cup {0}
  BY <1>0 DEF StreamAt
<1>2. /\ rest \in Seq(Pieces) /\ Len(rest) = Len(file) - c /\ Len(rest) \in Nat
      /\ \A k \in 1 .. Len(rest) : rest[k] = file[c + k]
      /\ \A m \in 1 .. Len(rest) :
           /\ SubSeq(rest, 1, m - 1) = SubSeq(file, c + 1, c + m - 1)
           /\ SubSeq(rest, m + 1, Len(rest)) = SubSeq(file, c + m + 1, Len(file))
  BY <1>1, PartOfRest
<1>3. ~ is.fail
  BY DEF StreamAt
<1>4. is = [rest |-> rest, eof |-> FALSE, fail |-> FALSE]
  BY <1>1, <1>3 DEF Streams
<1>5. ASSUME NEW d \in Ends, c < d, \A k \in 1 .. Len(file) : c < k /\ k < d => file[k] # Newline
      PROVE  NextTo(c, d) /\ LineAt(d) = SubSeq(file, c + 1, d - 1)
  <2>1. ASSUME NEW k \in Ends, c < k, k < d PROVE FALSE
    <3>1. k \in Nat /\ d \in Nat /\ 1 <= k /\ d <= Final
      BY EndsAre
    <3>2. k \in 1 .. Len(file)
      BY <2>1, <3>1 DEF Final
    <3>3. QED
      BY <1>5, <2>1, <3>2, EndsAre
  <2>2. QED
    BY <1>1, <1>5, <2>1, LastEnd DEF NextTo
<1>6. CASE rest = << >>
  <2>1. c = Len(file) /\ c < Final /\ Final \in Ends /\ Final - 1 = Len(file)
    <3>1. Len(rest) = 0
      BY <1>6
    <3>2. c = Len(file)
      BY <1>1, <1>2, <3>1
    <3>3. Final \in Ends /\ Len(file) \in Nat
      BY EndsAre
    <3>4. QED
      BY <3>2, <3>3 DEF Final
  <2>2. \A k \in 1 .. Len(file) : c < k /\ k < Final => file[k] # Newline
    BY <2>1
  <2>3. NextTo(c, Final) /\ LineAt(Final) = SubSeq(file, c + 1, Final - 1)
    BY <1>5, <2>1, <2>2
  <2>4. LineAt(Final) = << >>
    BY <2>1, <2>3
  <2>5. getline(s).str = << >> /\ getline(s).is = [rest |-> << >>, eof |-> TRUE, fail |-> TRUE]
    BY <1>4, <1>6 DEF getline
  <2>6. StreamAt(getline(s).is, Final)
    BY <2>5 DEF StreamAt
  <2>7. QED
    BY <1>1, <2>1, <2>3, <2>4, <2>5, <2>6
<1>7. CASE rest # << >> /\ ~ Has(rest, Newline)
  <2>1. c < Final /\ Final \in Ends /\ Final - 1 = Len(file) /\ c + Len(rest) = Len(file)
    BY <1>1, <1>2, EndsAre DEF Final
  <2>2. ASSUME NEW k \in 1 .. Len(file), c < k PROVE file[k] # Newline
    <3>1. k - c \in 1 .. Len(rest) /\ c + (k - c) = k
      BY <1>1, <1>2, <2>2
    <3>2. rest[k - c] # Newline
      BY <1>2, <1>7, <3>1 DEF Has
    <3>3. QED
      BY <1>2, <3>1, <3>2
  <2>3. NextTo(c, Final) /\ LineAt(Final) = SubSeq(file, c + 1, Final - 1)
    BY <1>5, <2>1, <2>2
  <2>4. getline(s).str = rest /\ getline(s).is = [rest |-> << >>, eof |-> TRUE, fail |-> FALSE]
    BY <1>4, <1>7 DEF getline, Before
  <2>5. StreamAt(getline(s).is, Final)
    BY <2>4 DEF StreamAt
  <2>6. QED
    BY <1>1, <2>1, <2>3, <2>4, <2>5
<1>8. CASE rest # << >> /\ Has(rest, Newline)
  <2>1. PICK m : m = First(rest, Newline)
    OBVIOUS
  <2>2. /\ m \in 1 .. Len(rest) /\ rest[m] = Newline
        /\ \A k \in 1 .. m - 1 : rest[k] # Newline
    BY <1>2, <1>8, <2>1, FirstIs
  <2>3. PICK d : d = c + m
    OBVIOUS
  <2>4. d \in Nat /\ d \in 1 .. Len(file) /\ c < d /\ d - 1 = c + m - 1 /\ d <= Len(file)
    <3>1. m \in Nat /\ m >= 1 /\ m <= Len(file) - c /\ Len(file) \in Nat
      BY <1>2, <2>2
    <3>2. QED
      BY <2>3, <3>1
  <2>5. d \in Ends
    BY <1>2, <2>2, <2>3, <2>4, EndsAre
  <2>6. ASSUME NEW k \in 1 .. Len(file), c < k, k < d PROVE file[k] # Newline
    <3>1. k - c \in 1 .. m - 1 /\ k - c \in 1 .. Len(rest) /\ c + (k - c) = k
      BY <1>1, <1>2, <2>2, <2>3, <2>6
    <3>2. QED
      BY <1>2, <2>2, <3>1
  <2>7. NextTo(c, d) /\ LineAt(d) = SubSeq(file, c + 1, d - 1)
    BY <1>5, <2>4, <2>5, <2>6
  <2>8. SubSeq(rest, 1, m - 1) = LineAt(d)
    BY <1>2, <2>2, <2>4, <2>7
  <2>9. SubSeq(rest, m + 1, Len(rest)) = SubSeq(file, d + 1, Len(file))
    BY <1>2, <2>2, <2>3
  <2>10. getline(s).str = LineAt(d)
    BY <1>4, <1>8, <2>1, <2>8 DEF getline, Before
  <2>11. getline(s).is = [rest |-> SubSeq(file, d + 1, Len(file)), eof |-> FALSE, fail |-> FALSE]
    BY <1>4, <1>8, <2>1, <2>9 DEF getline, After
  <2>12. StreamAt(getline(s).is, d)
    BY <2>4, <2>5, <2>11 DEF StreamAt
  <2>13. QED
    BY <1>1, <2>5, <2>7, <2>10, <2>12
<1>9. QED
  BY <1>6, <1>7, <1>8

(* Behind the end of the file, getline() fails and leaves its string.      *)
LEMMA NoLine ==
  ASSUME is \in Streams, NEW n, StreamAt(is, n), is.eof, NEW s
  PROVE  getline(s).str = s /\ getline(s).is.fail /\ StreamAt(getline(s).is, n)
BY DEF StreamAt, getline, Streams

-----------------------------------------------------------------------------
(* What the file says does not change while it is read.                    *)
LEMMA SameFile ==
  ASSUME UNCHANGED file
  PROVE  /\ Ends' = Ends /\ KeyLines' = KeyLines /\ Final' = Final
         /\ \A e : Code(e)' = Code(e) /\ KeyOf(e)' = KeyOf(e) /\ LineAt(e)' = LineAt(e)
         /\ \A e, f : Belongs(f, e)' <=> Belongs(f, e)
         /\ \A i, n : StreamAt(i, n)' <=> StreamAt(i, n)
<1>1. Ends' = Ends /\ Final' = Final
  BY DEF Ends, Final
<1>2. \A e : LineAt(e)' = LineAt(e)
  BY <1>1 DEF LineAt
<1>3. \A e : Code(e)' = Code(e)
  BY <1>2 DEF Code
<1>4. KeyLines' = KeyLines /\ \A e : KeyOf(e)' = KeyOf(e)
  BY <1>1, <1>3 DEF KeyLines, KeyOf
<1>5. \A e, f : Belongs(f, e)' <=> Belongs(f, e)
  BY <1>1, <1>2, <1>4 DEF Belongs
<1>6. \A i, n : StreamAt(i, n)' <=> StreamAt(i, n)
  BY <1>1 DEF StreamAt
<1>7. QED
  BY <1>1, <1>2, <1>3, <1>4, <1>5, <1>6

LEMMA SameFields ==
  ASSUME UNCHANGED file
  PROVE  /\ \A e, n : FieldsUpTo(e, n)' = FieldsUpTo(e, n)
         /\ \A e : ValueFields(e)' = ValueFields(e)
         /\ LastLineTwice' <=> LastLineTwice
         /\ \A k : KeyLineOf(k)' = KeyLineOf(k)
<1>1. \A e, n : FieldsUpTo(e, n)' = FieldsUpTo(e, n)
  <2> SUFFICES ASSUME NEW e, NEW n PROVE FieldsUpTo(e, n)' = FieldsUpTo(e, n)
    OBVIOUS
  <2>1. /\ Code(e)' = Code(e)
        /\ \A f : Code(f)' = Code(f) /\ (Belongs(f, e)' <=> Belongs(f, e))
    BY SameFile
  <2>2. [f \in 1 .. n |-> IF Belongs(f, e) THEN Fields(Code(f)) ELSE << >>]'
          = [f \in 1 .. n |-> IF Belongs(f, e) THEN Fields(Code(f)) ELSE << >>]
    BY <2>1
  <2>3. QED
    BY <2>1, <2>2 DEF FieldsUpTo
<1>2. \A e : ValueFields(e)' = ValueFields(e)
  BY <1>1 DEF ValueFields
<1>3. LastLineTwice' <=> LastLineTwice
  BY SameFile DEF LastLineTwice
<1>4. \A k : KeyLineOf(k)' = KeyLineOf(k)
  BY SameFile DEF KeyLineOf
<1>5. QED
  BY <1>1, <1>2, <1>3, <1>4

-----------------------------------------------------------------------------
(* What the parser has made of the file                                    *)

(* The value of the key line at e, or, when the last line was added twice, *)
(* a text that starts like it                                              *)
Told(e, value) ==
  \/ Fields(value) = ValueFields(e)
  \/ /\ LastLineTwice /\ ValueFields(e) # << >> /\ Fields(value) # << >>
     /\ Fields(value)[1] = ValueFields(e)[1]

(* The settings c say what the lines up to n say.                          *)
Described(c, n) ==
  /\ DOMAIN c = { KeyOf(e) : e \in { f \in KeyLines : f <= n } }
  /\ \A e \in KeyLines :
       e <= n /\ (\A f \in KeyLines : f <= n /\ KeyOf(f) = KeyOf(e) => f <= e)
         => Told(e, c[KeyOf(e)])

LEMMA DescribedMore ==
  ASSUME NEW c, NEW m, NEW n, Described(c, m),
         \A f \in KeyLines : f <= m <=> f <= n
  PROVE  Described(c, n)
<1>1. { f \in KeyLines : f <= m } = { f \in KeyLines : f <= n }
  OBVIOUS
<1>2. QED
  BY <1>1 DEF Described

LEMMA ToldNext ==
  ASSUME UNCHANGED file, NEW e
  PROVE  Told(e, line') => Told(e, line)'
BY SameFields DEF Told

LEMMA DescribedNext ==
  ASSUME UNCHANGED file, NEW n
  PROVE  Described(contents', n) => Described(contents, n)'
<1> SUFFICES ASSUME Described(contents', n) PROVE Described(contents, n)'
  OBVIOUS
<1>1. KeyLines' = KeyLines /\ \A e : KeyOf(e)' = KeyOf(e)
  BY SameFile
<1>2. (DOMAIN contents = { KeyOf(e) : e \in { f \in KeyLines : f <= n } })'
  BY <1>1 DEF Described
<1>3. ASSUME NEW e \in KeyLines, e <= n,
             \A f \in KeyLines : f <= n /\ KeyOf(f) = KeyOf(e) => f <= e
      PROVE  Told(e, contents[KeyOf(e)])'
  <2>1. Told(e, contents'[KeyOf(e)])
    BY <1>3 DEF Described
  <2>2. KeyOf(e)' = KeyOf(e) /\ ValueFields(e)' = ValueFields(e)
        /\ (LastLineTwice' <=> LastLineTwice)
    BY SameFile, SameFields
  <2>3. QED
    BY <2>1, <2>2 DEF Told
<1>4. (\A e \in KeyLines :
         e <= n /\ (\A f \in KeyLines : f <= n /\ KeyOf(f) = KeyOf(e) => f <= e)
           => Told(e, contents[KeyOf(e)]))'
  BY <1>1, <1>3
<1>5. QED
  BY <1>2, <1>4 DEF Described

(* A line with a key was read ahead.                                       *)
Pending(text) == Has(text, Delim)

Settled(text, n) == IF Pending(text) THEN n - 1 ELSE n

(* At the head of the loop, the file was consumed up to n.                 *)
AtOuter(n) ==
  /\ file \in Seq(Pieces) /\ StreamAt(is, n)
  /\ Pending(nextline) => n \in KeyLines /\ nextline = Code(n)
  /\ Described(contents, Settled(nextline, n))

(* The value of the key line at e is being put together.                   *)
AtAhead(n, e) ==
  /\ file \in Seq(Pieces) /\ StreamAt(is, n)
  /\ ~ Pending(nextline)
  /\ e \in KeyLines /\ e <= n /\ key = Before(Code(e), Delim)
  /\ Described(contents, e - 1)
  /\ \A f \in Ends : e < f /\ f <= n => Belongs(f, e)
  /\ ~ IsBlank(nextline) => e < n /\ nextline = Code(n)
  /\ \/ Fields(line) = FieldsUpTo(e, n)
     \/ is.fail /\ Told(e, line)

(* The value of the key line at e, the last one before what was read       *)
(* ahead, is complete.                                                     *)
AtStore(n, e) ==
  /\ file \in Seq(Pieces) /\ StreamAt(is, n)
  /\ Pending(nextline) => n \in KeyLines /\ nextline = Code(n)
  /\ e \in KeyLines /\ e <= Settled(nextline, n) /\ key = Before(Code(e), Delim)
  /\ \A f \in KeyLines : f <= Settled(nextline, n) => f <= e
  /\ Described(contents, e - 1)
  /\ Told(e, line)

Loaded == file \in Seq(Pieces) /\ Described(contents, Final)

ParserInv ==
  /\ pc = "constructing" => contents = Empty
  /\ pc \in {"constructing", "loaded", "edited"} => nextline = << >>
  /\ pc = "outer"  => \E n : AtOuter(n)
  /\ pc = "ahead"  => \E n, e : AtAhead(n, e)
  /\ pc = "store"  => \E n, e : AtStore(n, e)
  /\ pc = "loaded" => Loaded

LEMMA OuterNext ==
  ASSUME file \in Seq(Pieces), UNCHANGED file, pc' = "outer", NEW n, StreamAt(is', n),
         Pending(nextline') => n \in KeyLines /\ nextline' = Code(n),
         Described(contents', Settled(nextline', n))
  PROVE  ParserInv'
<1>1. AtOuter(n)'
  <2>1. StreamAt(is, n)'
    BY SameFile DEF StreamAt
  <2>2. (Pending(nextline) => n \in KeyLines /\ nextline = Code(n))'
    BY SameFile
  <2>3. Described(contents, Settled(nextline, n))'
    <3>1. CASE Pending(nextline')
      <4>1. Described(contents, n - 1)'
        BY <3>1, DescribedNext DEF Settled
      <4>2. QED
        BY <3>1, <4>1 DEF Settled
    <3>2. CASE ~ Pending(nextline')
      <4>1. Described(contents, n)'
        BY <3>2, DescribedNext DEF Settled
      <4>2. QED
        BY <3>2, <4>1 DEF Settled
    <3>3. QED
      BY <3>1, <3>2
  <2>4. QED
    BY <2>1, <2>2, <2>3 DEF AtOuter
<1>2. QED
  BY <1>1 DEF ParserInv


LEMMA AheadNext ==
  ASSUME file \in Seq(Pieces), UNCHANGED << file, contents >>, pc' = "ahead",
         NEW n, StreamAt(is', n), ~ Pending(nextline'),
         NEW e \in KeyLines, e <= n, key' = Before(Code(e), Delim), Described(contents, e - 1),
         \A f \in Ends : e < f /\ f <= n => Belongs(f, e),
         ~ IsBlank(nextline') => e < n /\ nextline' = Code(n),
         Fields(line') = FieldsUpTo(e, n) \/ (is'.fail /\ Told(e, line'))
  PROVE  ParserInv'
<1>1. AtAhead(n, e)'
  <2>1. StreamAt(is, n)'
    BY SameFile DEF StreamAt
  <2>2. (/\ e \in KeyLines /\ key = Before(Code(e), Delim)
         /\ \A f \in Ends : e < f /\ f <= n => Belongs(f, e)
         /\ ~ IsBlank(nextline) => e < n /\ nextline = Code(n))'
    BY SameFile
  <2>3. Described(contents, e - 1)'
    BY DescribedNext
  <2>4. (Fields(line) = FieldsUpTo(e, n) \/ (is.fail /\ Told(e, line)))'
    BY SameFields, ToldNext
  <2>5. QED
    BY <2>1, <2>2, <2>3, <2>4 DEF AtAhead
<1>2. QED
  BY <1>1 DEF ParserInv

LEMMA StoreNext ==
  ASSUME file \in Seq(Pieces), UNCHANGED << file, contents >>, pc' = "store",
         NEW n, StreamAt(is', n), Pending(nextline') => n \in KeyLines /\ nextline' = Code(n),
         NEW e \in KeyLines, e <= Settled(nextline', n), key' = Before(Code(e), Delim),
         \A f \in KeyLines : f <= Settled(nextline', n) => f <= e,
         Described(contents, e - 1), Told(e, line')
  PROVE  ParserInv'
<1>1. AtStore(n, e)'
  <2>1. StreamAt(is, n)'
    BY SameFile DEF StreamAt
  <2>2. (/\ Pending(nextline) => n \in KeyLines /\ nextline = Code(n)
         /\ e \in KeyLines /\ key = Before(Code(e), Delim))'
    BY SameFile
  <2>3. Described(contents, e - 1)'
    BY DescribedNext
  <2>4. Told(e, line)'
    BY ToldNext
  <2>5. (e <= Settled(nextline, n) /\ \A f \in KeyLines : f <= Settled(nextline, n) => f <= e)'
    BY SameFile DEF Settled
  <2>6. QED
    BY <2>1, <2>2, <2>3, <2>4, <2>5 DEF AtStore
<1>2. QED
  BY <1>1 DEF ParserInv

LEMMA KeyLineType ==
  ASSUME file \in Seq(Pieces), NEW e \in KeyLines
  PROVE  /\ e \in Ends /\ e \in Nat /\ e >= 1 /\ e <= Final
         /\ Code(e) \in Seq(Pieces) /\ Has(Code(e), Delim)
         /\ Before(Code(e), Comment) = Code(e) /\ ~ IsBlank(LineAt(e))
BY EndsAre, LineType, BeforeSelf DEF KeyLines

(* A line with a key, read or read ahead, starts a value.                  *)
LEMMA KeyLineParsed ==
  ASSUME file \in Seq(Pieces), UNCHANGED << file, contents >>, pc = "outer",
         NEW n \in KeyLines, StreamAt(is', n), nextline' = << >>,
         Described(contents, n - 1), NEW text, Before(text, Comment) = Code(n), Parse(text)
  PROVE  ParserInv'
<1>1. Has(Code(n), Delim) /\ n \in Nat
  BY KeyLineType
<1>2. key' = Before(Code(n), Delim) /\ line' = After(Code(n), Delim) /\ pc' = "ahead"
  BY <1>1 DEF Parse
<1>3. Fields(line') = FieldsUpTo(n, n)
  BY <1>2, UpToOwn
<1>4. ~ Pending(nextline') /\ IsBlank(nextline')
  BY DEF Pending, Has, IsBlank
<1>5. \A f \in Ends : n < f /\ f <= n => Belongs(f, n)
  <2>1. \A f \in Ends : ~ (n < f /\ f <= n)
    BY <1>1, EndsAre
  <2>2. QED
    BY <2>1
<1>6. n <= n
  BY <1>1
<1>7. ~ IsBlank(nextline') => n < n /\ nextline' = Code(n)
  BY <1>4
<1>8. Fields(line') = FieldsUpTo(n, n) \/ (is'.fail /\ Told(n, line'))
  BY <1>3
<1>9. QED
  BY <1>2, <1>4, <1>5, <1>6, <1>7, <1>8, AheadNext

(* A line without a key is left out.                                       *)
LEMMA OtherLineParsed ==
  ASSUME file \in Seq(Pieces), UNCHANGED << file, contents >>, pc = "outer",
         NEW n, StreamAt(is', n), nextline' = << >>,
         Described(contents, n), NEW text, ~ Has(Before(text, Comment), Delim), Parse(text)
  PROVE  ParserInv'
<1>1. pc' = "outer"
  BY DEF Parse
<1>2. ~ Pending(nextline')
  BY DEF Pending, Has
<1>3. Settled(nextline', n) = n
  BY <1>2 DEF Settled
<1>4. QED
  BY <1>1, <1>2, <1>3, OuterNext

LEMMA ReadLineKeeps ==
  ASSUME IInv, ParserInv, ReadLine
  PROVE  ParserInv'
<1>1. PICK n : AtOuter(n)
  BY DEF ParserInv, ReadLine
<1>2. /\ file \in Seq(Pieces) /\ StreamAt(is, n) /\ is \in Streams
      /\ pc = "outer" /\ nextline = << >> /\ UNCHANGED << file, nextline, contents >>
      /\ is' = getline(<< >>).is /\ Parse(getline(<< >>).str)
  BY <1>1 DEF AtOuter, ReadLine, IInv
<1>3. ~ Pending(nextline)
  BY <1>2 DEF Pending, Has
<1>4. Described(contents, n)
  BY <1>1, <1>3 DEF AtOuter, Settled
<1>5. CASE is.eof
  <2>1. getline(<< >>).str = << >> /\ StreamAt(is', n)
    BY <1>2, <1>5, NoLine
  <2>2. ~ Has(Before(<< >>, Comment), Delim)
    BY DEF Has, Before
  <2>3. QED
    BY <1>2, <1>4, <2>1, <2>2, OtherLineParsed
<1>6. CASE ~ is.eof
  <2>1. PICK d \in Ends : /\ NextTo(n, d) /\ getline(<< >>).str = LineAt(d)
                          /\ StreamAt(is', d)
    BY <1>2, <1>6, NextLine
  <2>2. Before(LineAt(d), Comment) = Code(d) /\ Parse(LineAt(d))
    BY <1>2, <2>1 DEF Code
  <2>3. /\ n \in Nat /\ d \in Nat
        /\ \A f \in KeyLines : f \in Nat /\ f \in Ends
    BY <1>2, StreamType, EndsAre DEF KeyLines
  <2>4. \A f \in KeyLines : f <= n <=> f <= d - 1
    BY <2>1, <2>3 DEF NextTo
  <2>5. CASE d \in KeyLines
    <3>1. Described(contents, d - 1)
      BY <1>4, <2>4, DescribedMore
    <3>2. QED
      BY <1>2, <2>1, <2>2, <2>5, <3>1, KeyLineParsed
  <2>6. CASE d \notin KeyLines
    <3>1. \A f \in KeyLines : f <= n <=> f <= d
      <4>1. \A f \in KeyLines : f <= d <=> f <= d - 1
        BY <2>3, <2>6
      <4>2. QED
        BY <2>4, <4>1
    <3>2. Described(contents, d)
      BY <1>4, <3>1, DescribedMore
    <3>3. ~ Has(Before(LineAt(d), Comment), Delim)
      BY <2>2, <2>6 DEF KeyLines
    <3>4. QED
      BY <1>2, <2>1, <2>2, <3>2, <3>3, OtherLineParsed
  <2>7. QED
    BY <2>5, <2>6
<1>7. QED
  BY <1>5, <1>6

LEMMA UseReadAheadKeeps ==
  ASSUME IInv, ParserInv, UseReadAhead
  PROVE  ParserInv'
<1>1. PICK n : AtOuter(n)
  BY DEF ParserInv, UseReadAhead
<1>2. /\ file \in Seq(Pieces) /\ StreamAt(is', n) /\ nextline \in Seq(Pieces)
      /\ pc = "outer" /\ nextline' = << >> /\ UNCHANGED << file, contents >>
      /\ Parse(nextline)
  BY <1>1 DEF AtOuter, UseReadAhead, IInv, TypeOK, stream
<1>3. CASE Pending(nextline)
  <2>1. n \in KeyLines /\ nextline = Code(n) /\ Described(contents, n - 1)
    BY <1>1, <1>3 DEF AtOuter, Settled
  <2>2. Before(nextline, Comment) = Code(n)
    BY <1>2, <2>1, KeyLineType
  <2>3. QED
    BY <1>2, <2>1, <2>2, KeyLineParsed
<1>4. CASE ~ Pending(nextline)
  <2>1. Described(contents, n)
    BY <1>1, <1>4 DEF AtOuter, Settled
  <2>2. ~ Has(Before(nextline, Comment), Delim)
    BY <1>2, <1>4, BeforeIs DEF Pending
  <2>3. QED
    BY <1>2, <2>1, <2>2, OtherLineParsed
<1>5. QED
  BY <1>3, <1>4

(* What one round of the inner loop keeps of the value                     *)
LEMMA AtAheadIs ==
  ASSUME IInv, NEW n, NEW e, AtAhead(n, e), ReadAhead
  PROVE  /\ file \in Seq(Pieces) /\ StreamAt(is, n) /\ ~ is.fail /\ is \in Streams
         /\ is' = Ahead.is /\ UNCHANGED << file, key, contents >> /\ pc = "ahead"
         /\ ~ Pending(nextline) /\ line \in Seq(Pieces) /\ nextline \in Seq(Pieces)
         /\ e \in KeyLines /\ e <= n /\ key = Before(Code(e), Delim)
         /\ e \in Nat /\ n \in Nat /\ Described(contents, e - 1)
         /\ \A f \in Ends : e < f /\ f <= n => Belongs(f, e)
         /\ ~ IsBlank(nextline) => e < n /\ nextline = Code(n)
         /\ Fields(line) = FieldsUpTo(e, n)
BY StreamType, KeyLineType DEF AtAhead, ReadAhead, IInv, TypeOK

(* Whatever ends the value at e, no line up to m has another key.          *)
LEMMA LastKeyLine ==
  ASSUME file \in Seq(Pieces), NEW e \in KeyLines, NEW n \in Nat, NEW m,
         \A f \in Ends : e < f /\ f <= n => Belongs(f, e),
         \A f \in KeyLines : f <= m => f <= n
  PROVE  \A f \in KeyLines : f <= m => f <= e
<1> SUFFICES ASSUME NEW f \in KeyLines, f <= m, ~ f <= e PROVE FALSE
  OBVIOUS
<1>1. f \in Ends /\ f \in Nat /\ e \in Nat /\ f <= n
  BY KeyLineType
<1>2. e < f
  BY <1>1
<1>3. Belongs(f, e)
  BY <1>1, <1>2
<1>4. f <= f
  BY <1>1
<1>5. QED
  BY <1>1, <1>2, <1>3, <1>4 DEF Belongs

(* The value is complete when the line behind it is not part of it.        *)
LEMMA ValueEnds ==
  ASSUME file \in Seq(Pieces), NEW e \in KeyLines, NEW n \in Nat, e <= n,
         n = Final \/ \E d \in Ends : NextTo(n, d) /\ ~ Belongs(d, e)
  PROVE  FieldsUpTo(e, n) = ValueFields(e)
<1>1. ValueFields(e) = FieldsUpTo(e, Final)
  BY DEF ValueFields, Final
<1>2. CASE n = Final
  BY <1>1, <1>2
<1>3. ASSUME NEW d \in Ends, NextTo(n, d), ~ Belongs(d, e)
      PROVE  FieldsUpTo(e, n) = ValueFields(e)
  <2>1. Final \in Nat /\ d \in Nat /\ e \in Nat /\ n < d /\ d <= Final /\ n <= Final /\ e < d
    BY <1>3, EndsAre, KeyLineType DEF NextTo
  <2>2. ASSUME NEW f \in Ends, n < f, Belongs(f, e) PROVE FALSE
    <3>1. f \in Nat /\ ~ f < d
      BY <1>3, <2>2, EndsAre DEF NextTo
    <3>2. d <= f
      BY <2>1, <3>1
    <3>3. \A l \in Ends : e < l /\ l <= d => l <= f
      BY <2>1, <3>1, <3>2, EndsAre
    <3>4. Belongs(d, e)
      BY <2>1, <2>2, <3>3 DEF Belongs
    <3>5. QED
      BY <1>3, <3>4
  <2>3. QED
    BY <1>1, <2>1, <2>2, UpToStays
<1>4. QED
  BY <1>2, <1>3


LEMMA StopAtBlankKeeps ==
  ASSUME IInv, ParserInv, StopAtBlank
  PROVE  ParserInv'
<1>1. PICK n, e : AtAhead(n, e)
  BY DEF ParserInv, StopAtBlank, ReadAhead
<1>2. /\ file \in Seq(Pieces) /\ StreamAt(is, n) /\ is \in Streams
      /\ is' = Ahead.is /\ UNCHANGED << file, key, contents >>
      /\ e \in KeyLines /\ e <= n /\ key = Before(Code(e), Delim)
      /\ e \in Nat /\ n \in Nat /\ Described(contents, e - 1)
      /\ \A f \in Ends : e < f /\ f <= n => Belongs(f, e)
      /\ Fields(line) = FieldsUpTo(e, n)
  BY <1>1, AtAheadIs DEF StopAtBlank
<1>3. /\ IsBlank(Ahead.str) /\ nextline' = Ahead.str /\ pc' = "store" /\ line' = line
      /\ key' = key
  BY <1>2 DEF StopAtBlank
<1>4. ~ Pending(nextline')
  BY <1>3, BlankHasNot DEF Pending
<1>5. PICK m : /\ m \in Nat /\ StreamAt(is', m) /\ n <= m /\ \A f \in KeyLines : f <= m => f <= n
               /\ FieldsUpTo(e, n) = ValueFields(e)
  <2>1. CASE is.eof
    <3>1. StreamAt(is', n) /\ n = Final
      BY <1>2, <2>1, NoLine, StreamType DEF Ahead
    <3>2. FieldsUpTo(e, n) = ValueFields(e)
      BY <1>2, <3>1, ValueEnds
    <3>3. n <= n
      BY <1>2
    <3>4. QED
      BY <1>2, <3>1, <3>2, <3>3
  <2>2. CASE ~ is.eof
    <3>1. PICK d \in Ends : NextTo(n, d) /\ Ahead.str = LineAt(d) /\ StreamAt(is', d)
      BY <1>2, <2>2, NextLine DEF Ahead
    <3>2. d \in Nat /\ n < d /\ IsBlank(LineAt(d)) /\ d \notin KeyLines
      BY <1>2, <1>3, <3>1, EndsAre, LineType DEF NextTo, KeyLines
    <3>3. ~ Belongs(d, e)
      <4>1. d <= d /\ e < d
        BY <1>2, <3>2
      <4>2. QED
        BY <3>2, <4>1 DEF Belongs
    <3>4. FieldsUpTo(e, n) = ValueFields(e)
      BY <1>2, <3>1, <3>3, ValueEnds
    <3>5. ASSUME NEW f \in KeyLines, f <= d PROVE f <= n
      <4>1. f \in Ends /\ f \in Nat /\ f # d
        BY <1>2, <3>2, KeyLineType
      <4>2. ~ (n < f /\ f < d)
        BY <3>1, <4>1 DEF NextTo
      <4>3. QED
        BY <1>2, <3>2, <3>5, <4>1, <4>2
    <3>6. n <= d
      BY <1>2, <3>2
    <3>7. QED
      BY <3>1, <3>2, <3>4, <3>5, <3>6
  <2>3. QED
    BY <2>1, <2>2
<1>6. Settled(nextline', m) = m /\ e <= m
  BY <1>2, <1>4, <1>5 DEF Settled
<1>7. \A f \in KeyLines : f <= Settled(nextline', m) => f <= e
  BY <1>2, <1>5, <1>6, LastKeyLine
<1>8. Told(e, line')
  BY <1>2, <1>3, <1>5 DEF Told
<1>9. QED
  BY <1>2, <1>3, <1>4, <1>5, <1>6, <1>7, <1>8, StoreNext

LEMMA StopAtKeyKeeps ==
  ASSUME IInv, ParserInv, StopAtKey
  PROVE  ParserInv'
<1>1. PICK n, e : AtAhead(n, e)
  BY DEF ParserInv, StopAtKey, ReadAhead
<1>2. /\ file \in Seq(Pieces) /\ StreamAt(is, n) /\ is \in Streams
      /\ is' = Ahead.is /\ UNCHANGED << file, key, contents >> /\ nextline \in Seq(Pieces)
      /\ e \in KeyLines /\ e <= n /\ key = Before(Code(e), Delim)
      /\ e \in Nat /\ n \in Nat /\ Described(contents, e - 1) /\ ~ Pending(nextline)
      /\ \A f \in Ends : e < f /\ f <= n => Belongs(f, e)
      /\ Fields(line) = FieldsUpTo(e, n)
  BY <1>1, AtAheadIs DEF StopAtKey
<1>3. /\ Has(Before(Ahead.str, Comment), Delim) /\ nextline' = Before(Ahead.str, Comment)
      /\ pc' = "store" /\ line' = line /\ key' = key
  BY <1>2 DEF StopAtKey
<1>4. ~ is.eof
  <2>1. SUFFICES ASSUME is.eof PROVE FALSE
    OBVIOUS
  <2>2. Ahead.str = nextline
    BY <1>2, <2>1, NoLine DEF Ahead
  <2>3. QED
    BY <1>2, <1>3, <2>2, BeforeIs DEF Pending
<1>5. PICK d \in Ends : NextTo(n, d) /\ Ahead.str = LineAt(d) /\ StreamAt(is', d)
  BY <1>2, <1>4, NextLine DEF Ahead
<1>6. nextline' = Code(d) /\ d \in KeyLines /\ Pending(nextline')
  BY <1>3, <1>5 DEF Code, KeyLines, Pending
<1>7. d \in Nat /\ n < d /\ Settled(nextline', d) = d - 1
  BY <1>2, <1>5, <1>6, EndsAre DEF NextTo, Settled
<1>8. ~ Belongs(d, e)
  <2>1. d <= d /\ e < d
    BY <1>2, <1>7
  <2>2. QED
    BY <1>6, <2>1 DEF Belongs
<1>9. FieldsUpTo(e, n) = ValueFields(e)
  BY <1>2, <1>5, <1>8, ValueEnds
<1>10. ASSUME NEW f \in KeyLines, f <= d - 1 PROVE f <= n
  <2>1. f \in Ends /\ f \in Nat /\ f < d
    BY <1>2, <1>7, <1>10, KeyLineType
  <2>2. ~ (n < f /\ f < d)
    BY <1>5, <2>1 DEF NextTo
  <2>3. QED
    BY <1>2, <2>1, <2>2
<1>11. \A f \in KeyLines : f <= d - 1 => f <= e
  BY <1>2, <1>10, LastKeyLine
<1>12. e <= Settled(nextline', d) /\ \A f \in KeyLines : f <= Settled(nextline', d) => f <= e
  BY <1>2, <1>7, <1>11
<1>13. Told(e, line')
  BY <1>2, <1>3, <1>9 DEF Told
<1>14. QED
  BY <1>2, <1>3, <1>5, <1>6, <1>12, <1>13, StoreNext

(* A value that the last line is added to twice still starts the same.     *)
LEMMA TwiceTold ==
  ASSUME NEW S, NEW a \in Seq(S), NEW b \in Seq(S), a # << >>
  PROVE  a \o b # << >> /\ (a \o b)[1] = a[1]
OBVIOUS

LEMMA ConcatNotEmpty ==
  ASSUME NEW S, NEW a \in Seq(S), NEW b \in Seq(S), b # << >>
  PROVE  a \o b # << >>
<1>1. Len(b) # 0
  OBVIOUS
<1>2. Len(a \o b) # 0
  BY <1>1
<1>3. QED
  BY <1>2

(* A text that is not blank has words.                                     *)
LEMMA SomeWord ==
  ASSUME NEW s \in Seq(Pieces), ~ IsBlank(s)
  PROVE  Fields(s) # << >>
<1> DEFINE T == { t \in Seq(Pieces) : ~ IsBlank(t) => Fields(t) # << >> }
<1>1. << >> \in T
  <2>1. IsBlank(<< >>)
    BY DEF IsBlank
  <2>2. QED
    BY <2>1
<1>2. ASSUME NEW t \in Seq(Pieces), NEW p \in Pieces, t \in T PROVE Append(t, p) \in T
  <2>1. ASSUME ~ IsBlank(Append(t, p)) PROVE Fields(Append(t, p)) # << >>
    <3>1. CASE p \notin Blank
      <4>1. ~ Apart(Append(t, p)) /\ Append(t, p) \in Seq(Pieces)
        BY <3>1, LastOfAppend DEF Apart
      <4>2. QED
        BY <4>1, SomeField
    <3>2. CASE p \in Blank
      <4>1. ~ IsBlank(t)
        <5>1. SUFFICES ASSUME IsBlank(t) PROVE IsBlank(Append(t, p))
          BY <2>1
        <5>2. ASSUME NEW k \in DOMAIN Append(t, p) PROVE Append(t, p)[k] \in Blank
          <6>1. CASE k = Len(t) + 1
            BY <3>2, <6>1
          <6>2. CASE k # Len(t) + 1
            <7>1. k \in DOMAIN t /\ Append(t, p)[k] = t[k]
              BY <6>2
            <7>2. QED
              BY <5>1, <7>1, BlankIs
          <6>3. QED
            BY <6>1, <6>2
        <5>3. QED
          BY <5>2, BlankIs
      <4>2. Fields(Append(t, p)) = Fields(t)
        BY <3>2, FieldsAppend DEF Joined
      <4>3. QED
        BY <1>2, <4>1, <4>2
    <3>3. QED
      BY <3>1, <3>2
  <2>2. Append(t, p) \in Seq(Pieces)
    OBVIOUS
  <2>3. QED
    BY <2>1, <2>2
<1>3. s \in T
  <2> HIDE DEF T
  <2>1. QED
    BY <1>1, <1>2, SeqInduction
<1>4. QED
  BY <1>3

LEMMA ContinueKeeps ==
  ASSUME IInv, ParserInv, Continue
  PROVE  ParserInv'
<1>1. PICK n, e : AtAhead(n, e)
  BY DEF ParserInv, Continue, ReadAhead
<1>2. /\ file \in Seq(Pieces) /\ StreamAt(is, n) /\ is \in Streams
      /\ is' = Ahead.is /\ UNCHANGED << file, key, contents >>
      /\ line \in Seq(Pieces) /\ nextline \in Seq(Pieces)
      /\ e \in KeyLines /\ e <= n /\ key = Before(Code(e), Delim)
      /\ e \in Nat /\ n \in Nat /\ Described(contents, e - 1) /\ ~ Pending(nextline)
      /\ \A f \in Ends : e < f /\ f <= n => Belongs(f, e)
      /\ ~ IsBlank(nextline) => e < n /\ nextline = Code(n)
      /\ Fields(line) = FieldsUpTo(e, n) /\ pc = "ahead"
  BY <1>1, AtAheadIs DEF Continue
<1>3. PICK text : text = Before(Ahead.str, Comment)
  OBVIOUS
<1>4. /\ ~ IsBlank(Ahead.str) /\ ~ Has(text, Delim) /\ nextline' = text
      /\ line' = line \o (IF IsBlank(text) THEN << >> ELSE << Newline >>) \o text
      /\ pc' = "ahead" /\ key' = key
  BY <1>2, <1>3 DEF Continue
<1>5. text \in Seq(Pieces)
  <2>1. Ahead.str \in Seq(Pieces)
    BY <1>2, GetlineType DEF Ahead
  <2>2. QED
    BY <1>3, <2>1, BeforeType
<1>6. Fields(line') = FieldsUpTo(e, n) \o Fields(text)
  BY <1>2, <1>4, <1>5, Continued
<1>7. CASE is.eof
  <2>1. Ahead.str = nextline /\ is'.fail /\ StreamAt(is', n) /\ n = Final
    BY <1>2, <1>7, NoLine, StreamType DEF Ahead
  <2>2. e < n /\ nextline = Code(n) /\ n \in Ends
    BY <1>2, <1>4, <2>1, EndsAre
  <2>3. text = Code(n)
    BY <1>2, <1>3, <2>1, <2>2, LineType, BeforeSelf
  <2>4. n <= n /\ Belongs(n, e) /\ ~ IsBlank(Code(n))
    BY <1>2, <1>4, <2>1, <2>2
  <2>5. LastLineTwice
    BY <1>2, <2>1, <2>4 DEF LastLineTwice, Final
  <2>6. FieldsUpTo(e, n) = ValueFields(e)
    BY <1>2, <2>1, ValueEnds
  <2>7. ValueFields(e) \in Seq(Seq(Pieces)) /\ Fields(text) \in Seq(Seq(Pieces))
    BY <1>2, <1>5, <2>6, UpToType, FieldsType DEF Sentences
  <2>8. ValueFields(e) # << >>
    <3>1. n - 1 \in Nat /\ (n - 1) + 1 = n
      BY <1>2, <2>2
    <3>2. FieldsUpTo(e, n) = FieldsUpTo(e, n - 1) \o Fields(Code(n))
      <4>1. FieldsUpTo(e, (n - 1) + 1) = FieldsUpTo(e, n - 1) \o Part((n - 1) + 1, e)
        BY <1>2, <3>1, UpToType
      <4>2. QED
        BY <2>4, <3>1, <4>1 DEF Part
    <3>3. Fields(Code(n)) # << >>
      BY <1>5, <2>3, <2>4, SomeWord
    <3>4. FieldsUpTo(e, n - 1) \in Seq(Seq(Pieces))
      BY <1>2, <3>1, UpToType
    <3>5. PICK W : W = Seq(Pieces)
      OBVIOUS
    <3>6. FieldsUpTo(e, n - 1) \in Seq(W) /\ Fields(Code(n)) \in Seq(W)
      BY <2>3, <2>7, <3>4, <3>5, Zenon
    <3>7. QED
      BY <2>6, <3>2, <3>3, <3>6, ConcatNotEmpty
  <2>9. Told(e, line')
    <3>1. PICK W : W = Seq(Pieces)
      OBVIOUS
    <3>2. ValueFields(e) \in Seq(W) /\ Fields(text) \in Seq(W)
      BY <2>7, <3>1, Zenon
    <3>3. Fields(line') # << >> /\ Fields(line')[1] = ValueFields(e)[1]
      BY <1>6, <2>6, <2>8, <3>2, TwiceTold
    <3>4. QED
      BY <2>5, <2>8, <3>3 DEF Told
  <2>10. ~ Pending(nextline')
    BY <1>4 DEF Pending
  <2>11. ~ IsBlank(nextline') => e < n /\ nextline' = Code(n)
    BY <1>4, <2>2, <2>3
  <2>12. key' = Before(Code(e), Delim)
    BY <1>2, <1>4
  <2>13. Fields(line') = FieldsUpTo(e, n) \/ (is'.fail /\ Told(e, line'))
    BY <2>1, <2>9
  <2>14. QED
    BY <1>2, <1>4, <2>1, <2>10, <2>11, <2>12, <2>13, AheadNext
<1>8. CASE ~ is.eof
  <2>1. PICK d \in Ends : NextTo(n, d) /\ Ahead.str = LineAt(d) /\ StreamAt(is', d)
    BY <1>2, <1>8, NextLine DEF Ahead
  <2>2. text = Code(d) /\ d \notin KeyLines /\ ~ IsBlank(LineAt(d))
    BY <1>3, <1>4, <2>1 DEF Code, KeyLines
  <2>3. d \in Nat /\ n < d /\ e < d /\ e <= d
    BY <1>2, <2>1, EndsAre DEF NextTo
  <2>4. ASSUME NEW l \in Ends, e < l, l <= d PROVE l \notin KeyLines /\ ~ IsBlank(LineAt(l))
    <3>1. l \in Nat /\ ~ (n < l /\ l < d)
      BY <1>2, <2>1, EndsAre DEF NextTo
    <3>2. CASE l = d
      BY <2>2, <3>2
    <3>3. CASE l # d
      <4>1. l <= n /\ l <= l
        BY <1>2, <2>3, <2>4, <3>1, <3>3
      <4>2. QED
        BY <1>2, <2>4, <4>1 DEF Belongs
    <3>4. QED
      BY <3>2, <3>3
  <2>5. Belongs(d, e)
    BY <1>2, <2>3, <2>4 DEF Belongs
  <2>6. ASSUME NEW f \in Ends, e < f, f <= d PROVE Belongs(f, e)
    <3>1. f \in Nat /\ ~ (n < f /\ f < d)
      BY <1>2, <2>1, EndsAre DEF NextTo
    <3>2. f <= n \/ f = d
      BY <1>2, <2>3, <2>6, <3>1
    <3>3. QED
      BY <1>2, <2>5, <2>6, <3>2
  <2>7. FieldsUpTo(e, d) = FieldsUpTo(e, n) \o Fields(Code(d))
    BY <1>2, <2>1, <2>5, UpToNext
  <2>8. Fields(line') = FieldsUpTo(e, d)
    BY <1>6, <2>2, <2>7
  <2>9. ~ Pending(nextline')
    BY <1>4 DEF Pending
  <2>10. ~ IsBlank(nextline') => e < d /\ nextline' = Code(d)
    BY <1>4, <2>2, <2>3
  <2>11. key' = Before(Code(e), Delim)
    BY <1>2, <1>4
  <2>12. Fields(line') = FieldsUpTo(e, d) \/ (is'.fail /\ Told(e, line'))
    BY <2>8
  <2>13. \A f \in Ends : e < f /\ f <= d => Belongs(f, e)
    BY <2>6
  <2>14. QED
    BY <1>2, <1>4, <2>1, <2>3, <2>9, <2>10, <2>11, <2>12, <2>13, AheadNext
<1>9. QED
  BY <1>7, <1>8


LEMMA StopAtFailureKeeps ==
  ASSUME IInv, ParserInv, StopAtFailure
  PROVE  ParserInv'
<1>1. PICK n, e : AtAhead(n, e)
  BY DEF ParserInv, StopAtFailure
<1>2. /\ file \in Seq(Pieces) /\ StreamAt(is, n) /\ ~ Pending(nextline)
      /\ e \in KeyLines /\ e <= n /\ key = Before(Code(e), Delim)
      /\ Described(contents, e - 1)
      /\ \A f \in Ends : e < f /\ f <= n => Belongs(f, e)
      /\ \/ Fields(line) = FieldsUpTo(e, n)
         \/ Told(e, line)
  BY <1>1 DEF AtAhead
<1>3. /\ is.fail /\ pc' = "store" /\ is' = is /\ line' = line /\ nextline' = nextline
      /\ key' = key /\ UNCHANGED << file, contents >>
  BY DEF StopAtFailure, stream, locals
<1>4. n \in Nat /\ n = Final /\ e \in Nat
  BY <1>2, <1>3, StreamType, KeyLineType DEF StreamAt
<1>5. Told(e, line')
  <2>1. FieldsUpTo(e, n) = ValueFields(e)
    BY <1>2, <1>4, ValueEnds
  <2>2. QED
    BY <1>2, <1>3, <2>1 DEF Told
<1>6. Settled(nextline', n) = n
  BY <1>2, <1>3 DEF Settled
<1>7. \A f \in KeyLines : f <= n => f <= e
  BY <1>2, <1>4, LastKeyLine
<1>8. QED
  BY <1>2, <1>3, <1>5, <1>6, <1>7, StoreNext

LEMMA StoreKeeps ==
  ASSUME IInv, ParserInv, Store
  PROVE  ParserInv'
<1>1. PICK n, e : AtStore(n, e)
  BY DEF ParserInv, Store
<1>2. /\ pc' = "outer" /\ contents' = With(Trim(key), Trim(line))
      /\ is' = is /\ nextline' = nextline /\ UNCHANGED file
  BY DEF Store, stream, locals
<1>3. PICK m : m = Settled(nextline, n)
  OBVIOUS
<1>4. /\ file \in Seq(Pieces) /\ StreamAt(is, n) /\ line \in Seq(Pieces)
      /\ Pending(nextline) => n \in KeyLines /\ nextline = Code(n)
      /\ e \in KeyLines /\ e <= m /\ \A f \in KeyLines : f <= m => f <= e
      /\ Trim(key) = KeyOf(e) /\ Described(contents, e - 1) /\ Told(e, line)
  BY <1>1, <1>3 DEF AtStore, KeyOf, IInv, TypeOK
<1>5. e \in Nat /\ \A f \in KeyLines : f \in Nat
  BY <1>4, KeyLineType
<1>6. Told(e, Trim(line))
  BY <1>4, FieldsTrim DEF Told
<1>7. /\ DOMAIN contents' = DOMAIN contents \cup {KeyOf(e)}
      /\ \A k \in DOMAIN contents' : contents'[k] = IF k = KeyOf(e) THEN Trim(line) ELSE contents[k]
  BY <1>2, <1>4 DEF With
<1>8. DOMAIN contents = { KeyOf(f) : f \in { g \in KeyLines : g <= e - 1 } }
  BY <1>4 DEF Described
<1>9. { f \in KeyLines : f <= m } = { f \in KeyLines : f <= e - 1 } \cup {e}
  <2>1. ASSUME NEW f \in KeyLines PROVE f <= m <=> f <= e - 1 \/ f = e
    <3>1. f \in Nat /\ (f <= m => f <= e) /\ m \in Int
      <4>1. n \in Nat
        BY <1>4, StreamType
      <4>2. QED
        BY <1>3, <1>4, <1>5, <4>1 DEF Settled
    <3>2. QED
      BY <1>4, <1>5, <3>1
  <2>2. QED
    BY <1>4, <2>1
<1>10. DOMAIN contents' = { KeyOf(f) : f \in { g \in KeyLines : g <= m } }
  BY <1>7, <1>8, <1>9
<1>11. ASSUME NEW f \in KeyLines, f <= m, \A g \in KeyLines : g <= m /\ KeyOf(g) = KeyOf(f) => g <= f
       PROVE  Told(f, contents'[KeyOf(f)])
  <2>1. KeyOf(f) \in DOMAIN contents'
    BY <1>10, <1>11
  <2>2. CASE KeyOf(f) = KeyOf(e)
    <3>1. e <= f /\ f <= e
      BY <1>4, <1>11, <2>2
    <3>2. f = e
      BY <1>5, <3>1
    <3>3. QED
      BY <1>6, <1>7, <2>1, <3>2
  <2>3. CASE KeyOf(f) # KeyOf(e)
    <3>1. f <= e - 1
      <4>1. f <= e /\ f # e
        BY <1>4, <1>11, <2>3
      <4>2. QED
        BY <1>5, <4>1
    <3>2. \A g \in KeyLines : g <= e - 1 => g <= m
      BY <1>9
    <3>3. Told(f, contents[KeyOf(f)])
      BY <1>4, <1>11, <3>1, <3>2 DEF Described
    <3>4. QED
      BY <1>7, <2>1, <2>3, <3>3
  <2>4. QED
    BY <2>2, <2>3
<1>12. Described(contents', m)
  BY <1>10, <1>11 DEF Described
<1>13. Settled(nextline', n) = m
  BY <1>2, <1>3
<1>14. QED
  BY <1>2, <1>4, <1>12, <1>13, OuterNext

LEMMA EndOfStreamKeeps ==
  ASSUME IInv, ParserInv, EndOfStream
  PROVE  ParserInv'
<1>1. PICK n : AtOuter(n)
  BY DEF ParserInv, EndOfStream
<1>2. /\ pc' = "loaded" /\ nextline' = << >> /\ nextline = << >> /\ is.fail
      /\ UNCHANGED << file, contents >>
  BY DEF EndOfStream, stream, locals
<1>3. ~ Pending(nextline)
  BY <1>2 DEF Pending, Has
<1>4. file \in Seq(Pieces) /\ StreamAt(is, n) /\ Described(contents, n)
  BY <1>1, <1>3 DEF AtOuter, Settled
<1>5. n = Final
  BY <1>2, <1>4 DEF StreamAt
<1>6. Loaded'
  <2>1. Described(contents, Final)'
    <3>1. Described(contents, n)'
      BY <1>2, <1>4, DescribedNext
    <3>2. Final' = n
      BY <1>2, <1>5, SameFile
    <3>3. QED
      BY <3>1, <3>2 DEF Described
  <2>2. QED
    BY <1>2, <1>4, <2>1 DEF Loaded
<1>7. QED
  BY <1>2, <1>6 DEF ParserInv

(* Opening a file: nothing was read yet.                                   *)
LEMMA Opens ==
  ASSUME file' \in Seq(Pieces), is' = Opened(file'), pc' = "outer", nextline' = << >>,
         contents' = Empty
  PROVE  ParserInv'
<1>1. StreamAt(is, 0)'
  <2>1. SubSeq(file', 1, Len(file')) = file' /\ Len(file') \in Nat
    OBVIOUS
  <2>2. QED
    BY <2>1 DEF StreamAt, Opened
<1>2. (~ Pending(nextline))'
  BY DEF Pending, Has
<1>3. (\A e \in KeyLines : ~ e <= 0)'
  BY DEF KeyLines, Ends
<1>4. Described(contents, 0)'
  <2>1. (DOMAIN contents = { KeyOf(e) : e \in { f \in KeyLines : f <= 0 } })'
    BY <1>3 DEF Empty
  <2>2. QED
    BY <1>3, <2>1 DEF Described
<1>5. AtOuter(0)'
  BY <1>1, <1>2, <1>4 DEF AtOuter, Settled
<1>6. QED
  BY <1>5 DEF ParserInv


LEMMA UnchangedKeeps ==
  ASSUME ParserInv, UNCHANGED vars
  PROVE  ParserInv'
<1>1. UNCHANGED << file, is, pc, line, nextline, key, contents >>
  BY DEF vars, stream, locals
<1>2. CASE pc = "outer"
  <2>1. PICK n : AtOuter(n)
    BY <1>2 DEF ParserInv
  <2>2. QED
    BY <1>1, <1>2, <2>1, OuterNext DEF AtOuter
<1>3. CASE pc = "ahead"
  <2>1. PICK n, e : AtAhead(n, e)
    BY <1>3 DEF ParserInv
  <2>2. Fields(line') = FieldsUpTo(e, n) \/ (is'.fail /\ Told(e, line'))
    BY <1>1, <2>1 DEF AtAhead
  <2>3. QED
    BY <1>1, <1>3, <2>1, <2>2, AheadNext DEF AtAhead
<1>4. CASE pc = "store"
  <2>1. PICK n, e : AtStore(n, e)
    BY <1>4 DEF ParserInv
  <2>2. QED
    BY <1>1, <1>4, <2>1, StoreNext DEF AtStore
<1>5. CASE pc = "loaded"
  <2>1. Loaded'
    <3>1. file \in Seq(Pieces) /\ Described(contents', Final)
      BY <1>1, <1>5 DEF ParserInv, Loaded
    <3>2. Described(contents, Final)'
      <4>1. PICK n : n = Final
        OBVIOUS
      <4>2. Described(contents, n)'
        BY <1>1, <3>1, <4>1, DescribedNext
      <4>3. Final' = n
        BY <1>1, <4>1, SameFile
      <4>4. QED
        BY <4>2, <4>3 DEF Described
    <3>3. QED
      BY <1>1, <3>1, <3>2 DEF Loaded
  <2>2. QED
    BY <1>1, <1>5, <2>1 DEF ParserInv
<1>6. CASE pc \notin {"outer", "ahead", "store", "loaded"}
  BY <1>1, <1>6 DEF ParserInv
<1>7. QED
  BY <1>2, <1>3, <1>4, <1>5, <1>6

LEMMA NextParserInv == TrimmedEdits /\ IInv /\ ParserInv /\ [Next]_vars => ParserInv'
<1> SUFFICES ASSUME TrimmedEdits, IInv, ParserInv, [Next]_vars PROVE ParserInv'
  OBVIOUS
<1>1. CASE Load
  BY <1>1, ReadLineKeeps, UseReadAheadKeeps, EndOfStreamKeeps, StopAtBlankKeeps,
     StopAtKeyKeeps, ContinueKeeps, StopAtFailureKeeps, StoreKeeps DEF Load
<1>2. CASE Construct
  <2>1. /\ file' \in Seq(Pieces) /\ is' = Opened(file') /\ pc' = "outer"
        /\ nextline' = << >> /\ contents' = Empty
    BY <1>2 DEF Construct, ParserInv, IInv, TypeOK, locals
  <2>2. QED
    BY <2>1, Opens
<1>3. CASE SaveAndConstruct
  <2>1. /\ file' \in Seq(Pieces) /\ is' = Opened(file') /\ pc' = "outer"
        /\ nextline' = << >> /\ contents' = Empty
    BY <1>3, WrittenType DEF SaveAndConstruct, Editing, ParserInv, locals
  <2>2. QED
    BY <2>1, Opens
<1>4. CASE Throw \/ ReadSettings
  BY <1>4 DEF Throw, ReadSettings, ParserInv
<1>5. CASE \E e \in Edits : \/ AddSetting(e.key, e.value) \/ RemoveSetting(e.key)
                           \/ RemoveAbsent(e.key)
  <2>1. pc' \in {"edited", "undefined"} /\ nextline' = << >>
    BY <1>5 DEF AddSetting, RemoveSetting, RemoveAbsent, Editing, ParserInv, locals
  <2>2. QED
    BY <2>1 DEF ParserInv
<1>6. CASE Terminated \/ UNCHANGED vars
  BY <1>6, UnchangedKeeps DEF Terminated
<1>7. QED
  BY <1>1, <1>2, <1>3, <1>4, <1>5, <1>6 DEF Next

LEMMA InitParserInv == Init => ParserInv
BY DEF Init, ParserInv

-----------------------------------------------------------------------------
(* What the file says                                                      *)

LEMMA KeyLineOfIs ==
  ASSUME file \in Seq(Pieces), NEW k, \E e \in KeyLines : KeyOf(e) = k
  PROVE  /\ KeyLineOf(k) \in KeyLines /\ KeyOf(KeyLineOf(k)) = k
         /\ \A e \in KeyLines : KeyOf(e) = k => e <= KeyLineOf(k)
<1> DEFINE S == { e \in KeyLines : KeyOf(e) = k }
<1>1. S \in SUBSET (0 .. Final) /\ S # {} /\ Final \in Nat
  BY EndsAre DEF KeyLines
<1>2. Max(S) \in S /\ \A e \in S : e <= Max(S)
  <2> HIDE DEF S
  <2>1. QED
    BY <1>1, MaxIs
<1>3. KeyLineOf(k) = Max(S)
  BY DEF KeyLineOf
<1>4. QED
  BY <1>2, <1>3

LEMMA ToldByTheFile ==
  ASSUME Loaded
  PROVE  /\ DOMAIN contents = { KeyOf(e) : e \in KeyLines }
         /\ \A k \in DOMAIN contents : Told(KeyLineOf(k), contents[k])
<1>1. file \in Seq(Pieces) /\ Described(contents, Final)
  BY DEF Loaded
<1>2. \A e \in KeyLines : e <= Final
  BY <1>1, KeyLineType
<1>3. { e \in KeyLines : e <= Final } = KeyLines
  BY <1>2
<1>4. DOMAIN contents = { KeyOf(e) : e \in KeyLines }
  BY <1>1, <1>3 DEF Described
<1>5. ASSUME NEW k \in DOMAIN contents PROVE Told(KeyLineOf(k), contents[k])
  <2>1. PICK e : e = KeyLineOf(k)
    OBVIOUS
  <2>2. e \in KeyLines /\ KeyOf(e) = k /\ \A f \in KeyLines : KeyOf(f) = k => f <= e
    BY <1>1, <1>4, <2>1, KeyLineOfIs
  <2>3. Told(e, contents[KeyOf(e)])
    BY <1>1, <1>2, <2>2 DEF Described
  <2>4. QED
    BY <2>1, <2>2, <2>3
<1>6. QED
  BY <1>4, <1>5

LEMMA ParserInvHolds == ASSUME TrimmedEdits PROVE Spec => [](IInv /\ ParserInv)
<1>1. Init => IInv /\ ParserInv
  BY InitIInv, InitParserInv
<1>2. IInv /\ ParserInv /\ [Next]_vars => (IInv /\ ParserInv)'
  BY NextIInv, NextParserInv
<1>3. QED
  BY <1>1, <1>2, PTL DEF Spec

(* For any file, read from disk or saved before: the settings are the ones *)
(* of the file, unless its last line has no newline and continues a value. *)
THEOREM TheFileIsRead == ASSUME TrimmedEdits PROVE Spec => []ContentsAreTheFile
<1>1. ParserInv => ContentsAreTheFile
  <2>1. ASSUME ParserInv, pc = "loaded", ~ LastLineTwice
        PROVE  /\ DOMAIN contents = { KeyOf(e) : e \in KeyLines }
               /\ \A k \in DOMAIN contents : Fields(contents[k]) = ValueFields(KeyLineOf(k))
    <3>1. Loaded
      BY <2>1 DEF ParserInv
    <3>2. QED
      BY <2>1, <3>1, ToldByTheFile DEF Told
  <2>2. QED
    BY <2>1 DEF ContentsAreTheFile
<1>2. QED
  BY <1>1, ParserInvHolds, PTL

(* The number read for the key k, as the file has it                       *)
LEMMA NumberRead ==
  ASSUME IInv, Loaded, NEW k, NEW v, v \in Converted(k)
  PROVE  IF \E e \in KeyLines : KeyOf(e) = k
         THEN LET fields == ValueFields(KeyLineOf(k))
              IN  fields # << >> => v = IF fields[1][1] \in Words THEN Number[fields[1][1]] ELSE 0
         ELSE v = 0
<1>1. CASE \E e \in KeyLines : KeyOf(e) = k
  <2>1. PICK fields, s : fields = ValueFields(KeyLineOf(k)) /\ s = contents[k]
    OBVIOUS
  <2>2. SUFFICES ASSUME fields # << >>
                 PROVE  v = IF fields[1][1] \in Words THEN Number[fields[1][1]] ELSE 0
    BY <1>1, <2>1
  <2>3. k \in DOMAIN contents /\ Told(KeyLineOf(k), s)
    BY <1>1, <2>1, ToldByTheFile
  <2>4. Fields(s) # << >> /\ Fields(s)[1] = fields[1]
    BY <2>1, <2>2, <2>3 DEF Told
  <2>5. s \in Seq(Pieces) /\ (s # << >> => Head(s) \notin Blank)
    BY <2>1, <2>3 DEF IInv, TypeOK, Blank
  <2>6. s # << >>
    BY <2>4, FieldsEmpty
  <2>7. fields[1][1] = Head(s)
    BY <2>4, <2>5, <2>6, FirstField
  <2>8. QED
    BY <2>1, <2>3, <2>6, <2>7 DEF Converted
<1>2. CASE ~ \E e \in KeyLines : KeyOf(e) = k
  <2>1. k \notin DOMAIN contents
    BY <1>2, ToldByTheFile
  <2>2. QED
    BY <1>2, <2>1 DEF Converted
<1>3. QED
  BY <1>1, <1>2

LEMMA NextSettings ==
  TrimmedEdits /\ IInv /\ ParserInv /\ SettingsComeFromTheFile /\ [Next]_vars
    => SettingsComeFromTheFile'
<1> SUFFICES ASSUME TrimmedEdits, IInv, ParserInv, SettingsComeFromTheFile, [Next]_vars,
                    pc' = "running"
             PROVE  SettingsComeFromTheFile'
  BY DEF SettingsComeFromTheFile
<1>1. CASE ReadSettings
  <2>1. Loaded /\ UNCHANGED file /\ \A k \in NumberKeys : settings'[k] \in Converted(k)
    BY <1>1 DEF ReadSettings, ParserInv, stream
  <2>2. QED
    BY <2>1, NumberRead, SameFile, SameFields DEF SettingsComeFromTheFile
<1>2. CASE UNCHANGED vars
  <2>1. UNCHANGED << file, pc, settings >>
    BY <1>2 DEF vars, stream
  <2>2. QED
    BY <2>1, SameFile, SameFields DEF SettingsComeFromTheFile
<1>3. CASE ~ ReadSettings /\ ~ UNCHANGED vars
  <2>1. ASSUME Load PROVE pc' # "running"
    BY <2>1 DEF Load, ReadLine, UseReadAhead, EndOfStream, StopAtBlank, StopAtKey, Continue,
                ReadAhead, StopAtFailure, Store, Parse
  <2>2. QED
    BY <1>3, <2>1 DEF Next, Construct, Throw, SaveAndConstruct, Terminated, AddSetting,
                      RemoveSetting, RemoveAbsent
<1>4. QED
  BY <1>1, <1>2, <1>3

(* For any file and any conversion of words to numbers: main() starts the  *)
(* job with the first number of the last line with the key, even when the  *)
(* last line of the file was added twice, and with 0 without such a line.  *)
THEOREM TheSettingsAreRead == ASSUME TrimmedEdits PROVE Spec => []SettingsComeFromTheFile
<1>1. Init => SettingsComeFromTheFile
  BY DEF Init, SettingsComeFromTheFile
<1>2. TrimmedEdits /\ IInv /\ ParserInv /\ SettingsComeFromTheFile /\ [Next]_vars
        => SettingsComeFromTheFile'
  BY NextSettings
<1>3. QED
  BY <1>1, <1>2, ParserInvHolds, PTL DEF Spec

-----------------------------------------------------------------------------
(* Texts that survive being written and read back                          *)

(* A key on one line, without a mark                                       *)
Unmarked(k) == ~ Has(k, Newline) /\ ~ Has(k, Delim) /\ ~ Has(k, Comment)

(* Behind the newline at p the value has no delimiter, and a word before   *)
(* the next newline: it is read as a line that continues the value.        *)
LineContinues(v, p) ==
  /\ \A q \in DOMAIN v : p < q => v[q] # Delim
  /\ \E q \in DOMAIN v : /\ p < q /\ v[q] \notin Blank
                         /\ \A r \in DOMAIN v : p < r /\ r < q => v[r] # Newline

Continuable(v) ==
  /\ ~ Has(v, Comment)
  /\ \A p \in DOMAIN v : v[p] = Newline => LineContinues(v, p)

Writable(c) ==
  /\ c = [k \in DOMAIN c |-> c[k]] /\ IsFiniteSet(DOMAIN c)
  /\ \A k \in DOMAIN c : /\ Trimmed(k) /\ Trimmed(c[k])
                         /\ Unmarked(k) /\ Continuable(c[k])

(* Add() takes any text: one that cannot be read back is up to its caller. *)
WritableEdits ==
  /\ TrimmedEdits
  /\ \A e \in Edits : Unmarked(e.key) /\ Continuable(e.value)

(* Whatever the file was, what is read from it can be written.             *)
WritableInv ==
  /\ ~ Has(nextline, Newline)
  /\ pc \in {"ahead", "store"} => Unmarked(key) /\ Continuable(line)
  /\ Writable(contents)
  /\ saved # NoFile => Writable(saved)
  /\ pc = "constructing" => saved = NoFile

(* A part of a text                                                        *)
LEMMA HasInPart ==
  ASSUME NEW s \in Seq(Pieces), NEW m \in Nat \ {0}, NEW n \in Int, n <= Len(s), NEW p,
         Has(SubSeq(s, m, n), p)
  PROVE  Has(s, p)
<1>1. PICK t : t = SubSeq(s, m, n)
  OBVIOUS
<1>2. PICK k \in DOMAIN t : t[k] = p
  BY <1>1 DEF Has
<1>3. m <= n /\ k \in 1 .. n - m + 1 /\ t[k] = s[m + k - 1]
  <2>1. CASE m <= n
    <3>1. t \in Seq(Pieces) /\ Len(t) = n - m + 1 /\ \A j \in 1 .. n - m + 1 : t[j] = s[m + j - 1]
      BY <1>1, <2>1, PartType
    <3>2. QED
      BY <1>2, <2>1, <3>1
  <2>2. CASE ~ m <= n
    BY <1>1, <1>2, <2>2
  <2>3. QED
    BY <2>1, <2>2
<1>4. m + k - 1 \in DOMAIN s
  BY <1>3
<1>5. QED
  BY <1>2, <1>3, <1>4 DEF Has

LEMMA HasInTrim ==
  ASSUME NEW s \in Seq(Pieces), NEW p, Has(Trim(s), p)
  PROVE  Has(s, p)
<1> DEFINE K == { k \in DOMAIN s : s[k] \notin {Space, Newline} }
<1>1. K # {}
  BY DEF Trim, Has
<1>2. K \in SUBSET Nat /\ K \in SUBSET (0 .. Len(s)) /\ Len(s) \in Nat
  OBVIOUS
<1>3. Min(K) \in K /\ Max(K) \in K
  <2> HIDE DEF K
  <2>1. QED
    BY <1>1, <1>2, MinIs, MaxIs
<1>4. Min(K) \in Nat \ {0} /\ Max(K) \in Int /\ Max(K) <= Len(s)
  BY <1>3
<1>5. Trim(s) = SubSeq(s, Min(K), Max(K))
  BY <1>1 DEF Trim
<1>6. QED
  <2> HIDE DEF K
  <2>1. QED
    BY <1>4, <1>5, HasInPart

LEMMA HasAfter ==
  ASSUME NEW s \in Seq(Pieces), NEW d, NEW p, Has(s, d), Has(After(s, d), p)
  PROVE  Has(s, p)
<1>1. First(s, d) \in 1 .. Len(s) /\ Len(s) \in Nat
  BY FirstIs
<1>2. First(s, d) + 1 \in Nat \ {0} /\ Len(s) \in Int /\ Len(s) <= Len(s)
  BY <1>1
<1>3. QED
  BY <1>2, HasInPart DEF After

LEMMA Concat ==
  ASSUME NEW a \in Seq(Pieces), NEW b \in Seq(Pieces), NEW ab, ab = a \o b
  PROVE  /\ ab \in Seq(Pieces) /\ Len(ab) = Len(a) + Len(b)
         /\ \A k \in 1 .. Len(a) : ab[k] = a[k]
         /\ \A k \in 1 .. Len(b) : ab[Len(a) + k] = b[k]
         /\ \A k \in 1 .. Len(ab) : k \in 1 .. Len(a) \/ k - Len(a) \in 1 .. Len(b)
<1>1. ab \in Seq(Pieces) /\ Len(ab) = Len(a) + Len(b)
  BY ConcatProperties
<1>2. Len(a) \in Nat /\ Len(b) \in Nat
  OBVIOUS
<1>3. \A k \in 1 .. Len(ab) : ab[k] = IF k <= Len(a) THEN a[k] ELSE b[k - Len(a)]
  BY ConcatProperties
<1>4. \A k \in 1 .. Len(a) : ab[k] = a[k]
  BY <1>1, <1>2, <1>3
<1>5. ASSUME NEW k \in 1 .. Len(b) PROVE ab[Len(a) + k] = b[k]
  <2>1. Len(a) + k \in 1 .. Len(ab) /\ ~ Len(a) + k <= Len(a) /\ (Len(a) + k) - Len(a) = k
    BY <1>1, <1>2
  <2>2. QED
    BY <1>3, <2>1
<1>6. \A k \in 1 .. Len(ab) : k \in 1 .. Len(a) \/ k - Len(a) \in 1 .. Len(b)
  BY <1>1, <1>2
<1>7. QED
  BY <1>1, <1>4, <1>5, <1>6

LEMMA HasConcat ==
  ASSUME NEW a \in Seq(Pieces), NEW b \in Seq(Pieces), NEW p
  PROVE  Has(a \o b, p) <=> Has(a, p) \/ Has(b, p)
<1>1. PICK ab : ab = a \o b
  OBVIOUS
<1>2. /\ ab \in Seq(Pieces) /\ Len(ab) = Len(a) + Len(b)
      /\ \A k \in 1 .. Len(a) : ab[k] = a[k]
      /\ \A k \in 1 .. Len(b) : ab[Len(a) + k] = b[k]
      /\ \A k \in 1 .. Len(ab) : k \in 1 .. Len(a) \/ k - Len(a) \in 1 .. Len(b)
  BY <1>1, Concat
<1>3. /\ DOMAIN a = 1 .. Len(a) /\ DOMAIN b = 1 .. Len(b) /\ DOMAIN ab = 1 .. Len(ab)
      /\ Len(a) \in Nat /\ Len(b) \in Nat
  BY <1>2
<1>4. ASSUME NEW k \in DOMAIN a, a[k] = p PROVE Has(ab, p)
  <2>1. k \in DOMAIN ab
    BY <1>2, <1>3
  <2>2. QED
    BY <1>2, <1>3, <1>4, <2>1 DEF Has
<1>5. ASSUME NEW k \in DOMAIN b, b[k] = p PROVE Has(ab, p)
  <2>1. Len(a) + k \in DOMAIN ab
    BY <1>2, <1>3
  <2>2. QED
    BY <1>2, <1>3, <1>5, <2>1 DEF Has
<1>6. ASSUME NEW k \in DOMAIN ab, ab[k] = p PROVE Has(a, p) \/ Has(b, p)
  <2>1. CASE k \in 1 .. Len(a)
    BY <1>2, <1>3, <1>6, <2>1 DEF Has
  <2>2. CASE k - Len(a) \in 1 .. Len(b)
    <3>1. Len(a) + (k - Len(a)) = k
      BY <1>3
    <3>2. QED
      BY <1>2, <1>3, <1>6, <2>2, <3>1 DEF Has
  <2>3. QED
    BY <1>2, <1>3, <2>1, <2>2
<1>7. QED
  BY <1>1, <1>4, <1>5, <1>6 DEF Has

(* Texts that can be continued                                             *)
LEMMA OneLine ==
  ASSUME NEW v, ~ Has(v, Newline), ~ Has(v, Comment)
  PROVE  Continuable(v)
BY DEF Continuable, Has

LEMMA AnotherLine ==
  ASSUME NEW u \in Seq(Pieces), ~ IsBlank(u),
         ~ Has(u, Newline), ~ Has(u, Delim), ~ Has(u, Comment)
  PROVE  /\ << Newline >> \o u \in Seq(Pieces) /\ Continuable(<< Newline >> \o u)
         /\ ~ Has(<< Newline >> \o u, Delim)
<1>1. PICK a, b : a = << Newline >> /\ b = a \o u
  OBVIOUS
<1>2. a \in Seq(Pieces) /\ Len(a) = 1 /\ a[1] = Newline /\ DOMAIN a = 1 .. 1
  BY <1>1 DEF Pieces
<1>3. /\ b \in Seq(Pieces) /\ Len(b) = 1 + Len(u) /\ b[1] = Newline
      /\ \A k \in 1 .. Len(u) : b[1 + k] = u[k]
  BY <1>1, <1>2, Concat
<1>4. DOMAIN b = 1 .. 1 + Len(u) /\ DOMAIN u = 1 .. Len(u) /\ Len(u) \in Nat
  BY <1>3
<1>5. ~ Has(a, Delim) /\ ~ Has(a, Comment)
  <2>1. a[1] # Delim /\ a[1] # Comment
    BY <1>2, PiecesAssumption
  <2>2. QED
    BY <1>2, <2>1 DEF Has
<1>6. ~ Has(b, Delim) /\ ~ Has(b, Comment)
  BY <1>1, <1>2, <1>5, HasConcat
<1>7. PICK m \in DOMAIN u : u[m] \notin Blank
  BY BlankIs
<1>8. ASSUME NEW p \in DOMAIN b, b[p] = Newline PROVE LineContinues(b, p)
  <2>1. p = 1
    <3>1. ASSUME p # 1 PROVE FALSE
      <4>1. p - 1 \in DOMAIN u /\ 1 + (p - 1) = p
        BY <1>4, <3>1
      <4>2. u[p - 1] = Newline
        BY <1>3, <1>4, <1>8, <4>1
      <4>3. QED
        BY <4>1, <4>2 DEF Has
    <3>2. QED
      BY <3>1
  <2>2. 1 + m \in DOMAIN b /\ p < 1 + m /\ b[1 + m] \notin Blank
    BY <1>3, <1>4, <1>7, <2>1
  <2>3. ASSUME NEW r \in DOMAIN b, p < r PROVE b[r] # Newline
    <3>1. r - 1 \in DOMAIN u /\ 1 + (r - 1) = r
      BY <1>4, <2>1, <2>3
    <3>2. b[r] = u[r - 1]
      BY <1>3, <1>4, <3>1
    <3>3. QED
      BY <3>1, <3>2 DEF Has
  <2>4. \A q \in DOMAIN b : b[q] # Delim
    BY <1>6 DEF Has
  <2>5. QED
    BY <2>2, <2>3, <2>4 DEF LineContinues
<1>9. QED
  BY <1>1, <1>3, <1>6, <1>8 DEF Continuable, Has

LEMMA ContinuableConcat ==
  ASSUME NEW a \in Seq(Pieces), NEW b \in Seq(Pieces),
         Continuable(a), Continuable(b), ~ Has(b, Delim)
  PROVE  Continuable(a \o b)
<1>1. PICK ab : ab = a \o b
  OBVIOUS
<1>2. /\ ab \in Seq(Pieces) /\ Len(ab) = Len(a) + Len(b)
      /\ \A k \in 1 .. Len(a) : ab[k] = a[k]
      /\ \A k \in 1 .. Len(b) : ab[Len(a) + k] = b[k]
      /\ \A k \in 1 .. Len(ab) : k \in 1 .. Len(a) \/ k - Len(a) \in 1 .. Len(b)
  BY <1>1, Concat
<1>3. PICK m \in Nat : m = Len(a)
  OBVIOUS
<1>4. /\ DOMAIN a = 1 .. m /\ DOMAIN b = 1 .. Len(b) /\ DOMAIN ab = 1 .. m + Len(b)
      /\ Len(b) \in Nat
  BY <1>2, <1>3
<1>5. /\ \A k \in DOMAIN a : k \in DOMAIN ab /\ ab[k] = a[k] /\ k \in Int /\ k <= m
      /\ \A k \in DOMAIN b : m + k \in DOMAIN ab /\ ab[m + k] = b[k] /\ k \in Int /\ 1 <= k
      /\ \A k \in DOMAIN ab : /\ k \in Int
                              /\ \/ k \in DOMAIN a /\ k <= m
                                 \/ k - m \in DOMAIN b /\ m < k /\ ab[k] = b[k - m]
  <2>1. \A k \in DOMAIN a : k \in DOMAIN ab /\ ab[k] = a[k] /\ k \in Int /\ k <= m
    BY <1>2, <1>3, <1>4
  <2>2. ASSUME NEW k \in DOMAIN b
        PROVE  m + k \in DOMAIN ab /\ ab[m + k] = b[k] /\ k \in Int /\ 1 <= k
    <3>1. k \in 1 .. Len(b) /\ ab[m + k] = b[k]
      BY <1>2, <1>3, <1>4
    <3>2. QED
      BY <1>4, <3>1
  <2>3. ASSUME NEW k \in DOMAIN ab
        PROVE  /\ k \in Int
               /\ \/ k \in DOMAIN a /\ k <= m
                  \/ k - m \in DOMAIN b /\ m < k /\ ab[k] = b[k - m]
    <3>1. k \in Int /\ (k \in DOMAIN a \/ k - m \in DOMAIN b)
      BY <1>2, <1>3, <1>4
    <3>2. CASE k \in DOMAIN a
      BY <2>1, <3>1, <3>2
    <3>3. CASE k - m \in DOMAIN b
      <4>1. m + (k - m) = k /\ m < k
        BY <1>4, <3>1, <3>3
      <4>2. QED
        BY <2>2, <3>1, <3>3, <4>1
    <3>4. QED
      BY <3>1, <3>2, <3>3
  <2>4. QED
    BY <2>1, <2>2, <2>3
<1>6. \A k \in DOMAIN b : b[k] # Delim
  BY DEF Has
<1>7. ASSUME NEW p \in DOMAIN a, a[p] = Newline PROVE LineContinues(ab, p)
  <2>1. LineContinues(a, p)
    BY <1>7 DEF Continuable
  <2>2. ASSUME NEW q \in DOMAIN ab, p < q PROVE ab[q] # Delim
    <3>1. CASE q \in DOMAIN a
      BY <1>5, <2>1, <2>2, <3>1 DEF LineContinues
    <3>2. CASE q \notin DOMAIN a
      BY <1>5, <1>6, <3>2
    <3>3. QED
      BY <3>1, <3>2
  <2>3. PICK q \in DOMAIN a : /\ p < q /\ a[q] \notin Blank
                              /\ \A r \in DOMAIN a : p < r /\ r < q => a[r] # Newline
    BY <2>1 DEF LineContinues
  <2>4. ASSUME NEW r \in DOMAIN ab, p < r, r < q PROVE ab[r] # Newline
    <3>1. r \in DOMAIN a
      <4>1. q <= m /\ q \in Int /\ r \in Int
        BY <1>5
      <4>2. QED
        BY <1>5, <2>4, <4>1
    <3>2. QED
      BY <1>5, <2>3, <2>4, <3>1
  <2>5. QED
    BY <1>5, <2>2, <2>3, <2>4 DEF LineContinues
<1>8. ASSUME NEW p \in DOMAIN b, b[p] = Newline PROVE LineContinues(ab, m + p)
  <2>1. p \in Int /\ 1 <= p
    BY <1>5
  <2>2. ASSUME NEW r \in DOMAIN ab, m + p < r
        PROVE  r - m \in DOMAIN b /\ ab[r] = b[r - m] /\ p < r - m /\ r \in Int
    BY <1>5, <2>1, <2>2
  <2>3. \A q \in DOMAIN ab : m + p < q => ab[q] # Delim
    BY <1>6, <2>2
  <2>4. PICK q \in DOMAIN b : /\ p < q /\ b[q] \notin Blank
                              /\ \A r \in DOMAIN b : p < r /\ r < q => b[r] # Newline
    BY <1>8 DEF Continuable, LineContinues
  <2>5. m + q \in DOMAIN ab /\ m + p < m + q /\ ab[m + q] \notin Blank /\ q \in Int
    BY <1>5, <2>1, <2>4
  <2>6. ASSUME NEW r \in DOMAIN ab, m + p < r, r < m + q PROVE ab[r] # Newline
    <3>1. r - m \in DOMAIN b /\ p < r - m /\ r - m < q /\ ab[r] = b[r - m]
      BY <2>2, <2>5, <2>6
    <3>2. QED
      BY <2>4, <3>1
  <2>7. QED
    BY <2>3, <2>5, <2>6 DEF LineContinues
<1>9. ASSUME NEW p \in DOMAIN ab, ab[p] = Newline PROVE LineContinues(ab, p)
  <2>1. CASE p \in DOMAIN a
    BY <1>5, <1>7, <1>9, <2>1
  <2>2. CASE p \notin DOMAIN a
    <3>1. p - m \in DOMAIN b /\ b[p - m] = Newline /\ m + (p - m) = p
      BY <1>5, <1>9, <2>2
    <3>2. QED
      BY <1>8, <3>1
  <2>3. QED
    BY <2>1, <2>2
<1>10. ~ Has(ab, Comment)
  BY <1>1, HasConcat DEF Continuable
<1>11. QED
  BY <1>1, <1>9, <1>10 DEF Continuable

LEMMA ContinuableTrim ==
  ASSUME NEW s \in Seq(Pieces), Continuable(s)
  PROVE  Continuable(Trim(s))
<1> DEFINE K == { k \in DOMAIN s : s[k] \notin {Space, Newline} }
<1>1. CASE K = {}
  <2>1. Trim(s) = << >>
    BY <1>1 DEF Trim
  <2>2. QED
    BY <2>1 DEF Continuable, Has
<1>2. CASE K # {}
  <2>1. K \in SUBSET Nat /\ K \in SUBSET (0 .. Len(s)) /\ Len(s) \in Nat
    OBVIOUS
  <2>2. PICK i, j : i = Min(K) /\ j = Max(K)
    OBVIOUS
  <2>3. i \in K /\ j \in K /\ \A k \in K : i <= k /\ k <= j
    <3> HIDE DEF K
    <3>1. QED
      BY <1>2, <2>1, <2>2, MinIs, MaxIs
  <2>4. PICK t : t = SubSeq(s, i, j)
    OBVIOUS
  <2>5. Trim(s) = t
    BY <1>2, <2>2, <2>4 DEF Trim
  <2>6. i \in 1 .. Len(s) /\ j \in 1 .. Len(s) /\ i <= j
    BY <2>1, <2>3
  <2>7. t \in Seq(Pieces) /\ Len(t) = j - i + 1 /\ \A k \in 1 .. j - i + 1 : t[k] = s[i + k - 1]
    BY <2>1, <2>4, <2>6, PartType
  <2>8. \A k \in DOMAIN t : k \in Int /\ i + k - 1 \in DOMAIN s /\ t[k] = s[i + k - 1]
    BY <2>6, <2>7
  <2>9. ASSUME NEW p \in DOMAIN t, t[p] = Newline PROVE LineContinues(t, p)
    <3>1. PICK c \in DOMAIN s : c = i + p - 1 /\ s[c] = Newline /\ LineContinues(s, c)
      BY <2>8, <2>9 DEF Continuable
    <3>2. \A q \in DOMAIN t : p < q => t[q] # Delim
      <4>1. ASSUME NEW q \in DOMAIN t, p < q PROVE t[q] # Delim
        <5>1. i + q - 1 \in DOMAIN s /\ c < i + q - 1 /\ t[q] = s[i + q - 1]
          BY <2>6, <2>8, <3>1, <4>1
        <5>2. QED
          BY <3>1, <5>1 DEF LineContinues
      <4>2. QED
        BY <4>1
    <3>3. PICK q \in DOMAIN s : /\ c < q /\ s[q] \notin Blank
                                /\ \A r \in DOMAIN s : c < r /\ r < q => s[r] # Newline
      BY <3>1 DEF LineContinues
    <3>4. q \in K
      BY <3>3 DEF Blank
    <3>5. /\ q - i + 1 \in DOMAIN t /\ p < q - i + 1 /\ t[q - i + 1] = s[q] /\ q \in Int
      <4>1. q <= j /\ i <= q /\ q \in Int /\ c \in Int /\ p \in Int
        BY <2>3, <2>8, <3>4
      <4>2. q - i + 1 \in 1 .. j - i + 1 /\ i + (q - i + 1) - 1 = q /\ p < q - i + 1
        BY <2>6, <3>1, <3>3, <4>1
      <4>3. DOMAIN t = 1 .. j - i + 1
        BY <2>7
      <4>4. QED
        BY <2>7, <4>1, <4>2, <4>3
    <3>6. ASSUME NEW r \in DOMAIN t, p < r, r < q - i + 1 PROVE t[r] # Newline
      <4>1. i + r - 1 \in DOMAIN s /\ c < i + r - 1 /\ i + r - 1 < q
        <5>1. /\ r \in Int /\ i + r - 1 \in DOMAIN s /\ i \in Int /\ p \in Int /\ q \in Int
              /\ c = i + p - 1
          BY <2>6, <2>8, <3>1, <3>5
        <5>2. c < i + r - 1 /\ i + r - 1 < q
          BY <3>6, <5>1
        <5>3. QED
          BY <5>1, <5>2
      <4>2. QED
        BY <2>8, <3>3, <4>1
    <3>7. QED
      BY <3>2, <3>3, <3>5, <3>6 DEF LineContinues
  <2>10. ~ Has(t, Comment)
    BY <2>5, HasInTrim DEF Continuable
  <2>11. QED
    BY <2>5, <2>9, <2>10 DEF Continuable
<1>3. QED
  BY <1>1, <1>2

(* What is read is on one line.                                            *)
LEMMA LineRead ==
  ASSUME is \in Streams, NEW s \in Seq(Pieces), ~ Has(s, Newline)
  PROVE  getline(s).str \in Seq(Pieces) /\ ~ Has(getline(s).str, Newline)
<1>1. getline(s).str \in Seq(Pieces) /\ is.rest \in Seq(Pieces)
  BY GetlineType DEF Streams
<1>2. ~ Has(<< >>, Newline)
  BY DEF Has
<1>3. ~ Has(Before(is.rest, Newline), Newline)
  BY <1>1, BeforeIs
<1>4. QED
  BY <1>1, <1>2, <1>3 DEF getline

LEMMA ParseWritable ==
  ASSUME NEW text \in Seq(Pieces), ~ Has(text, Newline), Parse(text), pc = "outer"
  PROVE  pc' = "outer" \/ (pc' = "ahead" /\ Unmarked(key') /\ Continuable(line'))
<1>1. PICK code : code = Before(text, Comment)
  OBVIOUS
<1>2. /\ code \in Seq(Pieces) /\ ~ Has(code, Comment) /\ ~ Has(code, Newline)
  BY <1>1, BeforeType, BeforeIs
<1>3. CASE Has(code, Delim)
  <2>1. key' = Before(code, Delim) /\ line' = After(code, Delim) /\ pc' = "ahead"
    BY <1>1, <1>3 DEF Parse
  <2>2. Unmarked(key')
    BY <1>2, <2>1, BeforeIs DEF Unmarked
  <2>3. ~ Has(line', Newline) /\ ~ Has(line', Comment)
    BY <1>2, <1>3, <2>1, HasAfter
  <2>4. QED
    BY <2>1, <2>2, <2>3, OneLine
<1>4. CASE ~ Has(code, Delim)
  BY <1>1, <1>4 DEF Parse
<1>5. QED
  BY <1>3, <1>4

LEMMA WithWritable ==
  ASSUME Writable(contents), NEW k, NEW value, Trimmed(k), Trimmed(value),
         Unmarked(k), Continuable(value)
  PROVE  Writable(With(k, value))
<1>1. PICK c : c = With(k, value)
  OBVIOUS
<1>2. /\ DOMAIN c = DOMAIN contents \cup {k}
      /\ \A j \in DOMAIN c : c[j] = IF j = k THEN value ELSE contents[j]
      /\ c = [j \in DOMAIN c |-> c[j]]
  BY <1>1 DEF With
<1>3. IsFiniteSet(DOMAIN c)
  BY <1>2, FS_AddElement DEF Writable
<1>4. QED
  BY <1>1, <1>2, <1>3 DEF Writable

LEMMA StoreWritable ==
  ASSUME IInv, WritableInv, Store
  PROVE  Writable(contents')
<1>1. /\ key \in Seq(Pieces) /\ line \in Seq(Pieces)
      /\ Unmarked(key) /\ Continuable(line) /\ Writable(contents)
      /\ contents' = With(Trim(key), Trim(line))
  BY DEF IInv, TypeOK, WritableInv, Store
<1>2. Trimmed(Trim(key)) /\ Trimmed(Trim(line)) /\ Continuable(Trim(line))
  BY <1>1, TrimTrims, ContinuableTrim
<1>3. Unmarked(Trim(key))
  BY <1>1, HasInTrim DEF Unmarked
<1>4. QED
  BY <1>1, <1>2, <1>3, WithWritable

LEMMA ContinueWritable ==
  ASSUME IInv, WritableInv, Continue
  PROVE  ~ Has(nextline', Newline) /\ Unmarked(key') /\ Continuable(line') /\ pc' = "ahead"
<1>1. /\ is \in Streams /\ nextline \in Seq(Pieces) /\ ~ Has(nextline, Newline)
      /\ line \in Seq(Pieces) /\ Unmarked(key) /\ Continuable(line)
      /\ pc' = "ahead" /\ key' = key
  BY DEF IInv, TypeOK, WritableInv, Continue, ReadAhead
<1>2. PICK u : u = Before(Ahead.str, Comment)
  OBVIOUS
<1>3. Ahead.str \in Seq(Pieces) /\ ~ Has(Ahead.str, Newline)
  BY <1>1, LineRead DEF Ahead
<1>4. u \in Seq(Pieces) /\ ~ Has(u, Newline) /\ ~ Has(u, Comment)
  BY <1>2, <1>3, BeforeType, BeforeIs
<1>5. /\ nextline' = u /\ ~ Has(u, Delim)
      /\ line' = line \o (IF IsBlank(u) THEN << >> ELSE << Newline >>) \o u
  BY <1>2 DEF Continue
<1>6. CASE IsBlank(u)
  <2>1. line' = line \o u
    BY <1>1, <1>5, <1>6
  <2>2. QED
    BY <1>1, <1>4, <1>5, <2>1, OneLine, ContinuableConcat
<1>7. CASE ~ IsBlank(u)
  <2>1. PICK a : a = << Newline >> /\ a \in Seq(Pieces)
    <3>1. << Newline >> \in Seq(Pieces)
      BY DEF Pieces
    <3>2. QED
      BY <3>1
  <2>2. line' = (line \o a) \o u
    BY <1>5, <1>7, <2>1
  <2>3. line' = line \o (a \o u)
    BY <1>1, <1>4, <2>1, <2>2, ConcatThree
  <2>4. a \o u \in Seq(Pieces) /\ Continuable(a \o u) /\ ~ Has(a \o u, Delim)
    BY <1>4, <1>5, <1>7, <2>1, AnotherLine
  <2>5. QED
    BY <1>1, <1>4, <1>5, <2>3, <2>4, ContinuableConcat
<1>8. QED
  BY <1>6, <1>7

LEMMA LoadWritable ==
  ASSUME IInv, WritableInv, Load
  PROVE  WritableInv'
<1>1. /\ is \in Streams /\ {line, nextline, key} \subseteq Seq(Pieces)
      /\ ~ Has(nextline, Newline) /\ Writable(contents)
      /\ saved # NoFile => Writable(saved)
  BY DEF IInv, TypeOK, WritableInv
<1>2. ~ Has(<< >>, Newline) /\ << >> \in Seq(Pieces)
  BY DEF Has
<1>3. saved' = saved /\ pc' # "constructing"
  BY DEF Load, ReadLine, UseReadAhead, EndOfStream, StopAtBlank, StopAtKey, Continue, ReadAhead,
         StopAtFailure, Store, Parse
<1>4. SUFFICES /\ ~ Has(nextline', Newline) /\ Writable(contents')
               /\ pc' \in {"ahead", "store"} => Unmarked(key') /\ Continuable(line')
  BY <1>1, <1>3 DEF WritableInv
<1>5. CASE ReadLine
  <2>1. /\ pc = "outer" /\ nextline' = nextline /\ contents' = contents
        /\ Parse(getline(<< >>).str)
    BY <1>5 DEF ReadLine
  <2>2. getline(<< >>).str \in Seq(Pieces) /\ ~ Has(getline(<< >>).str, Newline)
    BY <1>1, <1>2, LineRead
  <2>3. QED
    BY <1>1, <2>1, <2>2, ParseWritable
<1>6. CASE UseReadAhead
  <2>1. pc = "outer" /\ nextline' = << >> /\ contents' = contents /\ Parse(nextline)
    BY <1>6 DEF UseReadAhead
  <2>2. QED
    BY <1>1, <1>2, <2>1, ParseWritable
<1>7. CASE StopAtBlank \/ StopAtKey
  <2>1. /\ pc = "ahead" /\ line' = line /\ key' = key /\ contents' = contents
        /\ nextline' = Ahead.str \/ nextline' = Before(Ahead.str, Comment)
    BY <1>7 DEF StopAtBlank, StopAtKey, ReadAhead
  <2>2. Ahead.str \in Seq(Pieces) /\ ~ Has(Ahead.str, Newline)
    BY <1>1, LineRead DEF Ahead
  <2>3. ~ Has(nextline', Newline)
    BY <2>1, <2>2, BeforeIs
  <2>4. QED
    BY <1>1, <2>1, <2>3 DEF WritableInv
<1>8. CASE Continue
  <2>1. contents' = contents
    BY <1>8 DEF Continue, ReadAhead
  <2>2. QED
    BY <1>1, <1>8, <2>1, ContinueWritable
<1>9. CASE Store
  BY <1>1, <1>9, StoreWritable DEF Store, locals
<1>10. CASE EndOfStream \/ StopAtFailure
  <2>1. /\ nextline' = nextline /\ contents' = contents /\ line' = line /\ key' = key
        /\ pc' = "loaded" \/ pc = "ahead"
    BY <1>10 DEF EndOfStream, StopAtFailure, locals
  <2>2. QED
    BY <1>1, <1>10, <2>1 DEF WritableInv, EndOfStream
<1>11. QED
  BY <1>5, <1>6, <1>7, <1>8, <1>9, <1>10 DEF Load

LEMMA EditWritable ==
  ASSUME WritableEdits, WritableInv, NEW e \in Edits,
         AddSetting(e.key, e.value) \/ RemoveSetting(e.key) \/ RemoveAbsent(e.key)
  PROVE  WritableInv'
<1>1. /\ nextline' = nextline /\ saved' = saved
      /\ pc' \notin {"ahead", "store", "constructing"} /\ Writable(contents)
  BY DEF AddSetting, RemoveSetting, RemoveAbsent, locals, WritableInv
<1>2. SUFFICES Writable(contents')
  BY <1>1 DEF WritableInv
<1>3. CASE AddSetting(e.key, e.value)
  BY <1>1, <1>3, WithWritable DEF AddSetting, WritableEdits, TrimmedEdits
<1>4. CASE RemoveSetting(e.key)
  <2>1. contents' = Restrict(contents, DOMAIN contents \ {e.key})
    BY <1>4 DEF RemoveSetting
  <2>2. /\ DOMAIN contents' = DOMAIN contents \ {e.key}
        /\ contents' = [k \in DOMAIN contents' |-> contents'[k]]
        /\ \A k \in DOMAIN contents' : contents'[k] = contents[k]
    BY <2>1 DEF Restrict
  <2>3. IsFiniteSet(DOMAIN contents')
    BY <1>1, <2>2, FS_RemoveElement DEF Writable
  <2>4. QED
    BY <1>1, <2>2, <2>3 DEF Writable
<1>5. CASE RemoveAbsent(e.key)
  BY <1>1, <1>5 DEF RemoveAbsent
<1>6. QED
  BY <1>3, <1>4, <1>5

LEMMA EmptyWritable == Writable(Empty)
<1>1. DOMAIN Empty = {} /\ Empty = [k \in DOMAIN Empty |-> Empty[k]]
  BY DEF Empty
<1>2. QED
  BY <1>1, FS_EmptySet DEF Writable

LEMMA NextWritable == WritableEdits /\ IInv /\ WritableInv /\ [Next]_vars => WritableInv'
<1> SUFFICES ASSUME WritableEdits, IInv, WritableInv, [Next]_vars PROVE WritableInv'
  OBVIOUS
<1>1. CASE Load
  BY <1>1, LoadWritable
<1>2. CASE \E e \in Edits : \/ AddSetting(e.key, e.value) \/ RemoveSetting(e.key)
                           \/ RemoveAbsent(e.key)
  BY <1>2, EditWritable
<1>3. CASE Construct \/ Throw \/ ReadSettings
  <2>1. /\ UNCHANGED << nextline, line, key, contents, saved >>
        /\ pc' \notin {"ahead", "store", "constructing"}
    BY <1>3 DEF Construct, Throw, ReadSettings, locals
  <2>2. QED
    BY <2>1 DEF WritableInv
<1>4. CASE SaveAndConstruct
  <2>1. /\ nextline' = nextline /\ contents' = Empty /\ saved' = contents /\ pc' = "outer"
    BY <1>4 DEF SaveAndConstruct, locals
  <2>2. QED
    BY <2>1, EmptyWritable DEF WritableInv
<1>5. CASE Terminated \/ UNCHANGED vars
  <2>1. UNCHANGED << nextline, line, key, contents, saved, pc >>
    BY <1>5 DEF Terminated, vars, locals
  <2>2. QED
    BY <2>1 DEF WritableInv
<1>6. QED
  BY <1>1, <1>2, <1>3, <1>4, <1>5 DEF Next

LEMMA InitWritable == Init => WritableInv
<1> SUFFICES ASSUME Init PROVE WritableInv
  OBVIOUS
<1>1. nextline = << >> /\ contents = Empty /\ saved = NoFile /\ pc = "constructing"
  BY DEF Init
<1>2. QED
  BY <1>1, EmptyWritable DEF WritableInv, Has

-----------------------------------------------------------------------------
(* What is written, line by line                                           *)

LEMMA FlattenCons ==
  ASSUME NEW S, NEW q \in Seq(Seq(S)), NEW x \in Seq(S)
  PROVE  FlattenSeq(<< x >> \o q) = x \o FlattenSeq(q)
<1>1. PICK W : W = Seq(S)
  OBVIOUS
<1> DEFINE T == { t \in Seq(W) : FlattenSeq(<< x >> \o t) = x \o FlattenSeq(t) }
<1>2. << >> \in T
  <2>1. << x >> \o << >> = Append(<< >>, x) /\ << >> \in Seq(Seq(S))
    OBVIOUS
  <2>2. FlattenSeq(Append(<< >>, x)) = FlattenSeq(<< >>) \o x
    BY <2>1, FlattenAppend
  <2>3. FlattenSeq(<< >>) = << >>
    BY DEF FlattenSeq
  <2>4. FlattenSeq(<< x >> \o << >>) = x \o FlattenSeq(<< >>)
    <3>1. << >> \o x = x /\ x \o << >> = x
      OBVIOUS
    <3>2. QED
      BY <2>1, <2>2, <2>3, <3>1
  <2>5. QED
    BY <2>4
<1>3. ASSUME NEW t \in Seq(W), NEW y \in W, t \in T PROVE Append(t, y) \in T
  <2>1. t \in Seq(Seq(S)) /\ y \in Seq(S) /\ FlattenSeq(t) \in Seq(S)
    BY <1>1, FlattenType
  <2>2. << x >> \o Append(t, y) = Append(<< x >> \o t, y)
    <3>1. x \in W
      BY <1>1
    <3>2. QED
      BY <3>1
  <2>3. << x >> \o t \in Seq(Seq(S))
    <3>1. << x >> \o t \in Seq(W)
      BY <1>1
    <3>2. QED
      BY <1>1, <3>1, Zenon
  <2>4. FlattenSeq(Append(<< x >> \o t, y)) = FlattenSeq(<< x >> \o t) \o y
    BY <2>1, <2>3, FlattenAppend
  <2>5. FlattenSeq(Append(t, y)) = FlattenSeq(t) \o y
    BY <2>1, FlattenAppend
  <2>6. FlattenSeq(<< x >> \o t) = x \o FlattenSeq(t)
    BY <1>3
  <2>7. (x \o FlattenSeq(t)) \o y = x \o (FlattenSeq(t) \o y)
    BY <2>1
  <2>8. FlattenSeq(<< x >> \o Append(t, y)) = x \o FlattenSeq(Append(t, y))
    BY <2>2, <2>4, <2>5, <2>6, <2>7
  <2>9. Append(t, y) \in Seq(W)
    OBVIOUS
  <2>10. QED
    BY <2>8, <2>9
<1>4. \A t \in Seq(W) : t \in T
  <2> HIDE DEF T
  <2>1. QED
    BY <1>2, <1>3, SeqInduction
<1>5. q \in Seq(W)
  BY <1>1, Zenon
<1>6. QED
  BY <1>4, <1>5

(* The text s is a, the piece p, and b.                                    *)
Around(s, a, p, b) == s = a \o (<< p >> \o b)

(* Where a text is cut at a piece, for the first of that piece             *)
LEMMA Cut ==
  ASSUME NEW s, NEW a \in Seq(Pieces), NEW p \in Pieces, NEW b \in Seq(Pieces),
         Around(s, a, p, b), ~ Has(a, p)
  PROVE  s \in Seq(Pieces) /\ Has(s, p) /\ Before(s, p) = a /\ After(s, p) = b
<1>1. PICK u, n : u = << p >> \o b /\ s = a \o u /\ n = Len(a)
  BY DEF Around
<1>2. PICK one : one = << p >> /\ one \in Seq(Pieces) /\ Len(one) = 1 /\ one[1] = p
  <2>1. << p >> \in Seq(Pieces) /\ Len(<< p >>) = 1 /\ << p >>[1] = p
    OBVIOUS
  <2>2. QED
    BY <2>1
<1>3. /\ u \in Seq(Pieces) /\ Len(u) = 1 + Len(b) /\ u[1] = p
      /\ \A k \in 1 .. Len(b) : u[1 + k] = b[k]
  BY <1>1, <1>2, Concat
<1>4. /\ s \in Seq(Pieces) /\ Len(s) = n + Len(u)
      /\ \A k \in 1 .. n : s[k] = a[k]
      /\ \A k \in 1 .. Len(u) : s[n + k] = u[k]
  BY <1>1, <1>3, Concat
<1>5. /\ n \in Nat /\ Len(b) \in Nat /\ Len(s) = n + 1 + Len(b) /\ DOMAIN s = 1 .. Len(s)
      /\ s[n + 1] = p /\ n + 1 \in DOMAIN s
  BY <1>1, <1>3, <1>4
<1>6. Has(s, p)
  BY <1>5 DEF Has
<1>7. /\ First(s, p) \in 1 .. Len(s) /\ s[First(s, p)] = p
      /\ \A k \in 1 .. First(s, p) - 1 : s[k] # p
  BY <1>4, <1>6, FirstIs
<1>8. First(s, p) = n + 1
  <2>1. ~ n + 1 < First(s, p)
    BY <1>5, <1>7
  <2>2. ASSUME First(s, p) <= n PROVE FALSE
    <3>1. First(s, p) \in DOMAIN a /\ First(s, p) \in 1 .. n
      BY <1>1, <1>7, <2>2
    <3>2. QED
      BY <1>4, <1>7, <3>1 DEF Has
  <2>3. QED
    BY <1>5, <1>7, <2>1, <2>2
<1>9. Before(s, p) = a
  <2>1. PICK t : t = SubSeq(s, 1, n)
    OBVIOUS
  <2>2. t \in Seq(Pieces) /\ Len(t) = n /\ \A k \in 1 .. n : t[k] = s[k]
    BY <1>4, <1>5, <2>1
  <2>3. t = a
    BY <1>1, <1>4, <2>2, SeqEqual
  <2>4. (n + 1) - 1 = n
    BY <1>5
  <2>5. QED
    BY <1>6, <1>8, <2>1, <2>3, <2>4 DEF Before
<1>10. After(s, p) = b
  <2>1. PICK t : t = SubSeq(s, (n + 1) + 1, Len(s))
    OBVIOUS
  <2>2. t \in Seq(Pieces) /\ Len(t) = Len(b) /\ \A k \in 1 .. Len(b) : t[k] = s[n + (1 + k)]
    BY <1>4, <1>5, <2>1
  <2>3. ASSUME NEW k \in 1 .. Len(b) PROVE t[k] = b[k]
    <3>1. 1 + k \in 1 .. Len(u) /\ u[1 + k] = b[k]
      BY <1>3, <1>5
    <3>2. QED
      BY <1>4, <2>2, <3>1
  <2>4. t = b
    BY <2>2, <2>3, SeqEqual
  <2>5. QED
    BY <1>8, <2>1, <2>4 DEF After
<1>11. QED
  BY <1>1, <1>4, <1>6, <1>9, <1>10

LEMMA CutAtFirst ==
  ASSUME NEW s \in Seq(Pieces), NEW p \in Pieces, Has(s, p)
  PROVE  /\ Around(s, Before(s, p), p, After(s, p))
         /\ Before(s, p) \in Seq(Pieces) /\ After(s, p) \in Seq(Pieces)
         /\ ~ Has(Before(s, p), p)
<1>1. PICK m, n : m = First(s, p) /\ n = Len(s)
  OBVIOUS
<1>2. m \in 1 .. n /\ n \in Nat /\ s[m] = p /\ m - 1 \in Int
  BY <1>1, FirstIs
<1>3. PICK a, b : a = Before(s, p) /\ b = After(s, p)
  OBVIOUS
<1>4. a \in Seq(Pieces) /\ b \in Seq(Pieces) /\ ~ Has(a, p)
  BY <1>3, BeforeType, AfterType, BeforeIs
<1>5. a = SubSeq(s, 1, m - 1) /\ b = SubSeq(s, m + 1, n)
  BY <1>1, <1>3 DEF Before, After
<1>6. Len(a) = m - 1 /\ \A k \in 1 .. m - 1 : a[k] = s[k]
  BY <1>1, <1>2, <1>5
<1>7. Len(b) = n - m /\ \A k \in 1 .. n - m : b[k] = s[m + k]
  BY <1>1, <1>2, <1>5
<1>8. PICK one : one = << p >> /\ one \in Seq(Pieces) /\ Len(one) = 1 /\ one[1] = p
  <2>1. << p >> \in Seq(Pieces) /\ Len(<< p >>) = 1 /\ << p >>[1] = p
    OBVIOUS
  <2>2. QED
    BY <2>1
<1>9. PICK u, t : u = one \o b /\ t = a \o u
  OBVIOUS
<1>10. /\ u \in Seq(Pieces) /\ Len(u) = 1 + Len(b) /\ u[1] = p
       /\ \A k \in 1 .. Len(b) : u[1 + k] = b[k]
  BY <1>4, <1>8, <1>9, Concat
<1>11. /\ t \in Seq(Pieces) /\ Len(t) = Len(a) + Len(u)
       /\ \A k \in 1 .. Len(a) : t[k] = a[k]
       /\ \A k \in 1 .. Len(u) : t[Len(a) + k] = u[k]
  <2>1. a \in Seq(Pieces) /\ u \in Seq(Pieces) /\ t = a \o u
    BY <1>4, <1>9, <1>10
  <2>2. QED
    BY <2>1, Concat
<1>12. Len(t) = n
  BY <1>2, <1>6, <1>7, <1>10, <1>11
<1>13. ASSUME NEW k \in 1 .. n PROVE t[k] = s[k]
  <2>1. CASE k <= m - 1
    BY <1>2, <1>6, <1>11, <2>1
  <2>2. CASE k = m
    <3>1. t[(m - 1) + 1] = u[1] /\ (m - 1) + 1 = m
      BY <1>2, <1>6, <1>7, <1>10, <1>11
    <3>2. QED
      BY <1>2, <1>10, <2>2, <3>1
  <2>3. CASE k > m
    <3>1. /\ k - m \in 1 .. n - m /\ 1 + (k - m) \in 1 .. Len(u)
          /\ (m - 1) + (1 + (k - m)) = k /\ m + (k - m) = k
      BY <1>2, <1>7, <1>10, <2>3
    <3>2. t[k] = u[1 + (k - m)]
      BY <1>6, <1>11, <3>1
    <3>3. QED
      BY <1>7, <1>10, <3>1, <3>2
  <2>4. QED
    BY <1>2, <2>1, <2>2, <2>3
<1>14. t = s
  BY <1>1, <1>11, <1>12, <1>13, SeqEqual
<1>15. QED
  BY <1>3, <1>4, <1>8, <1>9, <1>14 DEF Around

(* What is in a text that ends in a newline, and what is behind it         *)
LEMMA Mark ==
  ASSUME NEW p \in Pieces
  PROVE  << p >> \in Seq(Pieces) /\ Len(<< p >>) = 1 /\ << p >>[1] = p /\ DOMAIN << p >> = 1 .. 1
         /\ \A r : Has(<< p >>, r) <=> r = p
<1>1. << p >> \in Seq(Pieces) /\ Len(<< p >>) = 1 /\ << p >>[1] = p /\ DOMAIN << p >> = 1 .. 1
  OBVIOUS
<1>2. QED
  BY <1>1 DEF Has

LEMMA MarksAre ==
  /\ Newline \in Pieces /\ Delim \in Pieces /\ Comment \in Pieces /\ Space \in Pieces
  /\ Newline # Delim /\ Newline # Comment /\ Newline # Space
  /\ Delim # Comment /\ Delim # Space /\ Comment # Space
BY PiecesAssumption DEF Pieces

LEMMA AroundType ==
  ASSUME NEW s, NEW a \in Seq(Pieces), NEW p \in Pieces, NEW b \in Seq(Pieces), Around(s, a, p, b)
  PROVE  s \in Seq(Pieces) /\ \A r : Has(s, r) <=> Has(a, r) \/ r = p \/ Has(b, r)
<1>1. PICK one, u : one = << p >> /\ u = one \o b /\ s = a \o u
  BY DEF Around
<1>2. one \in Seq(Pieces) /\ \A r : Has(one, r) <=> r = p
  BY <1>1, Mark
<1>3. u \in Seq(Pieces) /\ \A r : Has(u, r) <=> r = p \/ Has(b, r)
  BY <1>1, <1>2, Concat, HasConcat
<1>4. QED
  BY <1>1, <1>3, Concat, HasConcat

(* Texts in three parts                                                    *)
LEMMA AroundAround ==
  ASSUME NEW p \in Pieces, NEW q \in Pieces, NEW r, NEW v, NEW y,
         NEW x \in Seq(Pieces), NEW z \in Seq(Pieces), NEW more \in Seq(Pieces),
         Around(v, x, p, z), Around(y, z, q, more)
  PROVE  Around(r, v, q, more) <=> Around(r, x, p, y)
<1>1. PICK a, b : a = << p >> /\ b = << q >>
  OBVIOUS
<1>2. a \in Seq(Pieces) /\ b \in Seq(Pieces)
  BY <1>1, Mark
<1>3. PICK c, d : c = a \o z /\ d = b \o more
  OBVIOUS
<1>4. c \in Seq(Pieces) /\ d \in Seq(Pieces)
  BY <1>2, <1>3
<1>5. v = x \o c /\ y = z \o d
  BY <1>1, <1>3 DEF Around
<1>6. (x \o c) \o d = x \o (c \o d)
  BY <1>4, SMT
<1>7. (a \o z) \o d = a \o (z \o d)
  BY <1>2, <1>4, SMT
<1>8. v \o d = x \o (a \o y)
  BY <1>3, <1>5, <1>6, <1>7, Zenon
<1>9. /\ Around(r, v, q, more) <=> r = v \o d
      /\ Around(r, x, p, y) <=> r = x \o (a \o y)
  BY <1>1, <1>3, Zenon DEF Around
<1>10. QED
  BY <1>8, <1>9, Zenon

(* From the text v, text was read and rest is still to be read, in front   *)
(* of more.                                                                *)
CutAt(v, text, rest, more) ==
  \/ text = v /\ rest = more
  \/ \E z \in Seq(Pieces) : Around(v, text, Newline, z) /\ Around(rest, z, Newline, more)

(* The next line of the text v, with more behind it                        *)
LEMMA NextPart ==
  ASSUME NEW r, NEW v \in Seq(Pieces), NEW more \in Seq(Pieces), Around(r, v, Newline, more),
         NEW w, NEW y, w = Before(r, Newline), y = After(r, Newline)
  PROVE  /\ r \in Seq(Pieces) /\ Has(r, Newline)
         /\ w \in Seq(Pieces) /\ y \in Seq(Pieces) /\ CutAt(v, w, y, more)
         /\ ~ Has(w, Newline) /\ \A p : Has(w, p) => Has(v, p)
<1>1. r \in Seq(Pieces) /\ Has(r, Newline)
  BY MarksAre, AroundType
<1>2. Around(r, w, Newline, y) /\ w \in Seq(Pieces) /\ y \in Seq(Pieces) /\ ~ Has(w, Newline)
  BY <1>1, MarksAre, CutAtFirst
<1>3. CASE ~ Has(v, Newline)
  <2>1. w = v /\ y = more
    BY <1>3, MarksAre, Cut
  <2>2. QED
    BY <1>1, <1>2, <2>1 DEF CutAt
<1>4. CASE Has(v, Newline)
  <2>1. PICK x, z, t : /\ x = Before(v, Newline) /\ z = After(v, Newline)
                       /\ t = z \o (<< Newline >> \o more)
    OBVIOUS
  <2>2. /\ Around(v, x, Newline, z) /\ x \in Seq(Pieces) /\ z \in Seq(Pieces)
        /\ ~ Has(x, Newline) /\ \A p : Has(x, p) => Has(v, p)
    BY <1>4, <2>1, MarksAre, CutAtFirst, BeforeIs
  <2>3. Around(t, z, Newline, more)
    BY <2>1 DEF Around
  <2>4. t \in Seq(Pieces)
    BY <2>2, <2>3, MarksAre, AroundType
  <2>5. Around(r, x, Newline, t)
    BY <2>2, <2>3, MarksAre, AroundAround
  <2>6. w = x /\ y = t
    BY <2>2, <2>4, <2>5, MarksAre, Cut
  <2>7. QED
    BY <1>1, <1>2, <2>2, <2>3, <2>6 DEF CutAt
<1>5. QED
  BY <1>3, <1>4

(* The l elements behind the n-th                                          *)
LEMMA PartAt ==
  ASSUME NEW S, NEW s \in Seq(S), NEW n \in Nat, NEW l \in Nat \ {0}, n + l <= Len(s)
  PROVE  /\ SubSeq(s, n + 1, n + l) \in Seq(S) /\ Len(SubSeq(s, n + 1, n + l)) = l
         /\ \A k \in 1 .. l : SubSeq(s, n + 1, n + l)[k] = s[n + k]
OBVIOUS

(* White space around a trimmed text                                       *)
LEMMA TrimAround ==
  ASSUME NEW a \in Seq(Pieces), NEW s \in Seq(Pieces), NEW b \in Seq(Pieces),
         IsBlank(a), IsBlank(b), Trimmed(s)
  PROVE  Trim(a \o (s \o b)) = s
<1>1. PICK u, t, n, l : u = s \o b /\ t = a \o u /\ n = Len(a) /\ l = Len(s)
  OBVIOUS
<1>2. /\ u \in Seq(Pieces) /\ Len(u) = l + Len(b)
      /\ \A k \in 1 .. l : u[k] = s[k]
      /\ \A k \in 1 .. Len(b) : u[l + k] = b[k]
      /\ \A k \in 1 .. Len(u) : k \in 1 .. l \/ k - l \in 1 .. Len(b)
  BY <1>1, Concat
<1>3. /\ t \in Seq(Pieces) /\ Len(t) = n + Len(u)
      /\ \A k \in 1 .. n : t[k] = a[k]
      /\ \A k \in 1 .. Len(u) : t[n + k] = u[k]
      /\ \A k \in 1 .. Len(t) : k \in 1 .. n \/ k - n \in 1 .. Len(u)
  BY <1>1, <1>2, Concat
<1>4. /\ n \in Nat /\ l \in Nat /\ Len(b) \in Nat /\ Len(t) = n + l + Len(b)
      /\ DOMAIN t = 1 .. Len(t) /\ DOMAIN s = 1 .. l /\ DOMAIN a = 1 .. n /\ DOMAIN b = 1 .. Len(b)
  BY <1>1, <1>2, <1>3
<1>5. ASSUME NEW k \in DOMAIN t, t[k] \notin Blank PROVE k - n \in 1 .. l
  <2>1. k \notin 1 .. n
    BY <1>3, <1>4, <1>5, BlankIs
  <2>2. k - n \in 1 .. Len(u) /\ n + (k - n) = k /\ k \in Int
    BY <1>3, <1>4, <2>1
  <2>3. t[k] = u[k - n]
    BY <1>3, <2>2
  <2>4. ASSUME (k - n) - l \in 1 .. Len(b) PROVE FALSE
    <3>1. l + ((k - n) - l) = k - n
      BY <1>4, <2>2
    <3>2. u[k - n] = b[(k - n) - l]
      BY <1>2, <2>4, <3>1
    <3>3. QED
      BY <1>4, <1>5, <2>3, <2>4, <3>2, BlankIs
  <2>5. QED
    BY <1>2, <2>2, <2>4
<1>6. ASSUME NEW k \in 1 .. l PROVE n + k \in DOMAIN t /\ t[n + k] = s[k]
  <2>1. k \in 1 .. Len(u)
    BY <1>2, <1>4
  <2>2. QED
    BY <1>2, <1>3, <1>4, <2>1
<1> DEFINE K == { k \in DOMAIN t : t[k] \notin {Space, Newline} }
<1>7. K = { k \in DOMAIN t : t[k] \notin Blank }
  BY DEF Blank
<1>8. CASE l = 0
  <2>1. K = {} /\ s = << >>
    BY <1>1, <1>4, <1>5, <1>7, <1>8
  <2>2. QED
    BY <1>1, <2>1 DEF Trim
<1>9. CASE l # 0
  <2>1. s # << >> /\ Head(s) = s[1] /\ Last(s) = s[l] /\ 1 \in 1 .. l /\ l \in 1 .. l
    BY <1>1, <1>4, <1>9 DEF Last
  <2>2. s[1] \notin Blank /\ s[l] \notin Blank
    BY <2>1 DEF Trimmed
  <2>3. n + 1 \in K /\ n + l \in K
    BY <1>6, <1>7, <2>1, <2>2
  <2>4. \A k \in K : k \in Int /\ n + 1 <= k /\ k <= n + l
    <3>1. ASSUME NEW k \in K PROVE k \in Int /\ n + 1 <= k /\ k <= n + l
      <4>1. k \in DOMAIN t /\ k - n \in 1 .. l
        BY <1>5, <1>7
      <4>2. QED
        BY <1>4, <4>1
    <3>2. QED
      BY <3>1
  <2>5. K \in SUBSET Nat /\ K \in SUBSET (0 .. Len(t)) /\ K # {} /\ Len(t) \in Nat
    BY <1>4, <2>3
  <2>6. PICK i, j : i = Min(K) /\ j = Max(K)
    OBVIOUS
  <2>7. i \in K /\ j \in K /\ \A k \in K : i <= k /\ k <= j
    <3> HIDE DEF K
    <3>1. QED
      BY <2>5, <2>6, MinIs, MaxIs
  <2>8. i = n + 1 /\ j = n + l
    <3> HIDE DEF K
    <3>1. i <= n + 1 /\ n + 1 <= i /\ j <= n + l /\ n + l <= j /\ i \in Int /\ j \in Int
      BY <2>3, <2>4, <2>7
    <3>2. QED
      BY <1>4, <3>1
  <2>9. Trim(t) = SubSeq(t, n + 1, n + l)
    BY <2>5, <2>6, <2>8 DEF Trim
  <2>10. PICK x : x = SubSeq(t, n + 1, n + l)
    OBVIOUS
  <2>11. x \in Seq(Pieces) /\ Len(x) = l /\ \A k \in 1 .. l : x[k] = t[n + k]
    <3>1. n \in Nat /\ l \in Nat \ {0} /\ n + l <= Len(t)
      BY <1>4, <1>9
    <3>2. QED
      BY <1>3, <2>10, <3>1, PartAt
  <2>12. x = s
    BY <1>1, <1>6, <2>11, SeqEqual
  <2>13. QED
    BY <1>1, <2>9, <2>10, <2>12
<1>10. QED
  BY <1>8, <1>9

LEMMA TrimSpace ==
  ASSUME NEW s, Trimmed(s)
  PROVE  Trim(s \o << Space >>) = s /\ Trim(<< Space >> \o s) = s
<1>1. PICK sp : sp = << Space >> /\ sp \in Seq(Pieces) /\ IsBlank(sp)
  <2>1. << Space >> \in Seq(Pieces) /\ IsBlank(<< Space >>)
    BY Mark, MarksAre DEF IsBlank
  <2>2. QED
    BY <2>1
<1>2. s \in Seq(Pieces) /\ << >> \in Seq(Pieces) /\ IsBlank(<< >>)
  BY DEF Trimmed, IsBlank
<1>3. Trim(<< >> \o (s \o sp)) = s /\ Trim(sp \o (s \o << >>)) = s
  BY <1>1, <1>2, TrimAround
<1>4. << >> \o (s \o sp) = s \o sp /\ s \o << >> = s
  BY <1>1, <1>2
<1>5. QED
  BY <1>1, <1>3, <1>4

(* The i-th key that is written, and its value with the space before it    *)
Name(c, i)  == SetToSeq(DOMAIN c)[i]
Count(c)    == Cardinality(DOMAIN c)
Value(c, i) == << Space >> \o c[Name(c, i)]
Lines(c)    == [i \in 1 .. Count(c) |->
                  Name(c, i) \o << Space, Delim, Space >> \o c[Name(c, i)] \o << Newline >>]

(* What comes behind the i-th line, and the settings up to it              *)
Rest(c, i)  == FlattenSeq(SubSeq(Lines(c), i + 1, Count(c)))
Got(c, i)   == [k \in { Name(c, j) : j \in 1 .. i } |-> c[k]]

LEMMA NamesAre ==
  ASSUME NEW c, Writable(c)
  PROVE  /\ Count(c) \in Nat /\ { Name(c, j) : j \in 1 .. Count(c) } = DOMAIN c
         /\ \A i \in 1 .. Count(c) :
              /\ Name(c, i) \in DOMAIN c /\ Trimmed(Name(c, i)) /\ Trimmed(c[Name(c, i)])
              /\ Name(c, i) \in Seq(Pieces) /\ c[Name(c, i)] \in Seq(Pieces)
              /\ Unmarked(Name(c, i)) /\ Continuable(c[Name(c, i)])
<1>1. PICK S, n, f : S = DOMAIN c /\ n = Count(c) /\ f = SetToSeq(S)
  OBVIOUS
<1>2. IsFiniteSet(S) /\ n = Cardinality(S) /\ \A i : Name(c, i) = f[i]
  BY <1>1 DEF Writable, Count, Name
<1>3. n \in Nat /\ f \in [1 .. n -> S] /\ \A i, j \in 1 .. n : f[i] = f[j] => i = j
  BY <1>1, <1>2, SetToSeqIs
<1>4. f \in Injection(1 .. n, S)
  BY <1>3 DEF Injection, IsInjective
<1>5. Cardinality(1 .. n) = n
  <2>1. Cardinality(1 .. n) = IF 1 > n THEN 0 ELSE n - 1 + 1
    BY <1>3, FS_Interval
  <2>2. QED
    BY <1>3, <2>1
<1>6. f \in Surjection(1 .. n, S)
  BY <1>2, <1>4, <1>5, FS_Injection
<1>7. { f[j] : j \in 1 .. n } = S
  BY <1>3, <1>6 DEF Surjection
<1>8. \A i \in 1 .. n : f[i] \in S
  BY <1>3
<1>9. \A k \in S : /\ Trimmed(k) /\ Trimmed(c[k]) /\ Unmarked(k) /\ Continuable(c[k])
                   /\ k \in Seq(Pieces) /\ c[k] \in Seq(Pieces)
  BY <1>1 DEF Writable, Trimmed
<1>10. { Name(c, j) : j \in 1 .. n } = S
  BY <1>2, <1>7
<1>11. ASSUME NEW i \in 1 .. n
       PROVE  /\ Name(c, i) \in S /\ Trimmed(Name(c, i)) /\ Trimmed(c[Name(c, i)])
              /\ Name(c, i) \in Seq(Pieces) /\ c[Name(c, i)] \in Seq(Pieces)
              /\ Unmarked(Name(c, i)) /\ Continuable(c[Name(c, i)])
  <2>1. Name(c, i) \in S
    BY <1>2, <1>8
  <2>2. QED
    BY <1>9, <2>1, Zenon
<1>12. QED
  BY <1>1, <1>3, <1>10, <1>11, Zenon

LEMMA ValueIs ==
  ASSUME NEW c, Writable(c), NEW i \in 1 .. Count(c)
  PROVE  /\ Value(c, i) \in Seq(Pieces) /\ Continuable(Value(c, i))
         /\ Trim(Value(c, i)) = c[Name(c, i)]
         /\ Name(c, i) \o << Space >> \in Seq(Pieces) /\ Unmarked(Name(c, i) \o << Space >>)
         /\ Trim(Name(c, i) \o << Space >>) = Name(c, i)
<1>1. PICK k, s : k = Name(c, i) /\ s = c[k]
  OBVIOUS
<1>2. /\ k \in Seq(Pieces) /\ Unmarked(k) /\ Trimmed(k)
      /\ s \in Seq(Pieces) /\ Continuable(s) /\ Trimmed(s)
  BY <1>1, NamesAre
<1>3. PICK sp : sp = << Space >>
  OBVIOUS
<1>4. /\ sp \in Seq(Pieces) /\ \A r : Has(sp, r) <=> r = Space
  BY <1>3, Mark, MarksAre
<1>5. sp \o s \in Seq(Pieces) /\ k \o sp \in Seq(Pieces)
  BY <1>2, <1>4
<1>6. Unmarked(k \o sp)
  BY <1>2, <1>4, MarksAre, HasConcat DEF Unmarked
<1>7. Trim(sp \o s) = s /\ Trim(k \o sp) = k
  BY <1>2, <1>3, TrimSpace
<1>8. Continuable(sp \o s)
  <2>1. PICK v : v = sp \o s
    OBVIOUS
  <2>2. /\ v \in Seq(Pieces) /\ Len(v) = Len(sp) + Len(s)
        /\ \A j \in 1 .. Len(sp) : v[j] = sp[j]
        /\ \A j \in 1 .. Len(s) : v[Len(sp) + j] = s[j]
        /\ \A j \in 1 .. Len(v) : j \in 1 .. Len(sp) \/ j - Len(sp) \in 1 .. Len(s)
    BY <1>2, <1>4, <2>1, Concat
  <2>3. Len(sp) = 1 /\ sp[1] = Space
    BY <1>3
  <2>4. DOMAIN v = 1 .. 1 + Len(s) /\ DOMAIN s = 1 .. Len(s) /\ Len(s) \in Nat /\ v[1] = Space
    BY <1>2, <2>2, <2>3
  <2>5. ASSUME NEW j \in DOMAIN v
        PROVE  j \in Int /\ (j = 1 \/ (j - 1 \in DOMAIN s /\ v[j] = s[j - 1]))
    <3>1. j = 1 \/ (j - 1 \in 1 .. Len(s) /\ 1 + (j - 1) = j)
      BY <2>4
    <3>2. QED
      BY <2>2, <2>3, <2>4, <3>1
  <2>6. ASSUME NEW j \in DOMAIN s
        PROVE  j \in Int /\ 1 + j \in DOMAIN v /\ v[1 + j] = s[j]
    BY <2>2, <2>3, <2>4
  <2>7. ASSUME NEW p \in DOMAIN v, v[p] = Newline PROVE LineContinues(v, p)
    <3>1. p - 1 \in DOMAIN s /\ s[p - 1] = Newline /\ p \in Int
      BY <2>4, <2>5, <2>7, MarksAre
    <3>2. LineContinues(s, p - 1)
      BY <1>2, <3>1 DEF Continuable
    <3>3. ASSUME NEW q \in DOMAIN v, p < q PROVE v[q] # Delim
      <4>1. q - 1 \in DOMAIN s /\ v[q] = s[q - 1] /\ p - 1 < q - 1
        BY <2>4, <2>5, <3>1, <3>3
      <4>2. QED
        BY <3>2, <4>1 DEF LineContinues
    <3>4. PICK q \in DOMAIN s : /\ p - 1 < q /\ s[q] \notin Blank
                                /\ \A r \in DOMAIN s : p - 1 < r /\ r < q => s[r] # Newline
      BY <3>2 DEF LineContinues
    <3>5. 1 + q \in DOMAIN v /\ p < 1 + q /\ v[1 + q] \notin Blank /\ q \in Int
      BY <2>6, <3>1, <3>4
    <3>6. ASSUME NEW r \in DOMAIN v, p < r, r < 1 + q PROVE v[r] # Newline
      <4>1. r - 1 \in DOMAIN s /\ v[r] = s[r - 1] /\ p - 1 < r - 1 /\ r - 1 < q
        BY <2>4, <2>5, <3>1, <3>5, <3>6
      <4>2. QED
        BY <3>4, <4>1
    <3>7. QED
      BY <3>3, <3>5, <3>6 DEF LineContinues
  <2>8. ~ Has(v, Comment)
    BY <1>2, <1>4, <2>1, MarksAre, HasConcat DEF Continuable
  <2>9. QED
    BY <2>1, <2>7, <2>8 DEF Continuable
<1>9. QED
  BY <1>1, <1>3, <1>5, <1>6, <1>7, <1>8 DEF Value

LEMMA LineIs ==
  ASSUME NEW c, Writable(c), NEW i \in 1 .. Count(c), NEW more \in Seq(Pieces)
  PROVE  /\ Lines(c)[i] \in Seq(Pieces)
         /\ \E body \in Seq(Pieces) :
              /\ Around(body, Name(c, i) \o << Space >>, Delim, Value(c, i))
              /\ Around(Lines(c)[i] \o more, body, Newline, more)
<1>1. PICK k, s : k = Name(c, i) /\ s = c[k]
  OBVIOUS
<1>2. k \in Seq(Pieces) /\ s \in Seq(Pieces)
  BY <1>1, NamesAre
<1>3. PICK sp, de, nl, gap, l :
        /\ sp = << Space >> /\ de = << Delim >> /\ nl = << Newline >>
        /\ gap = << Space, Delim, Space >> /\ l = k \o gap \o s \o nl
  OBVIOUS
<1>4. /\ sp \in Seq(Pieces) /\ de \in Seq(Pieces) /\ nl \in Seq(Pieces) /\ gap \in Seq(Pieces)
  BY <1>3, MarksAre
<1>5. Lines(c)[i] = l
  BY <1>1, <1>3 DEF Lines
<1>6. PICK ds, kk, v, body :
        ds = de \o sp /\ kk = k \o sp /\ v = sp \o s /\ body = (k \o gap) \o s
  OBVIOUS
<1>7. ds \in Seq(Pieces) /\ kk \in Seq(Pieces) /\ v \in Seq(Pieces) /\ body \in Seq(Pieces)
  BY <1>2, <1>4, <1>6
<1>8. gap = sp \o ds
  <2>1. /\ Len(sp) = 1 /\ sp[1] = Space /\ Len(de) = 1 /\ de[1] = Delim
        /\ Len(gap) = 3 /\ gap[1] = Space /\ gap[2] = Delim /\ gap[3] = Space
    BY <1>3
  <2>2. /\ Len(ds) = 2 /\ \A j \in 1 .. 1 : ds[j] = de[j]
        /\ \A j \in 1 .. 1 : ds[1 + j] = sp[j]
    <3>1. sp \in Seq(Pieces) /\ de \in Seq(Pieces) /\ ds = de \o sp
      BY <1>4, <1>6
    <3>2. /\ Len(ds) = Len(de) + Len(sp)
          /\ \A j \in 1 .. Len(de) : ds[j] = de[j]
          /\ \A j \in 1 .. Len(sp) : ds[Len(de) + j] = sp[j]
      BY <3>1, Concat
    <3>3. Len(sp) = 1 /\ Len(de) = 1
      BY <2>1
    <3>4. QED
      BY <3>2, <3>3
  <2>3. PICK g : g = sp \o ds
    OBVIOUS
  <2>4. /\ g \in Seq(Pieces) /\ Len(g) = 3 /\ \A j \in 1 .. 1 : g[j] = sp[j]
        /\ \A j \in 1 .. 2 : g[1 + j] = ds[j]
    <3>1. sp \in Seq(Pieces) /\ ds \in Seq(Pieces) /\ g = sp \o ds
      BY <1>4, <1>7, <2>3
    <3>2. /\ g \in Seq(Pieces) /\ Len(g) = Len(sp) + Len(ds)
          /\ \A j \in 1 .. Len(sp) : g[j] = sp[j]
          /\ \A j \in 1 .. Len(ds) : g[Len(sp) + j] = ds[j]
      BY <3>1, Concat
    <3>3. Len(sp) = 1 /\ Len(ds) = 2
      BY <2>1, <2>2
    <3>4. QED
      BY <3>2, <3>3
  <2>5. g[1] = Space /\ g[2] = Delim /\ g[3] = Space
    <3>1. ds[1] = Delim /\ ds[2] = Space
      BY <2>1, <2>2
    <3>2. QED
      BY <2>1, <2>4, <3>1
  <2>6. \A j \in 1 .. 3 : gap[j] = g[j]
    BY <2>1, <2>5
  <2>7. gap = g
    BY <1>4, <2>1, <2>4, <2>6, SeqEqual
  <2>8. QED
    BY <2>3, <2>7
<1>9. k \o (sp \o ds) = (k \o sp) \o ds
  <2>1. k \in Seq(Pieces) /\ sp \in Seq(Pieces) /\ ds \in Seq(Pieces)
    BY <1>2, <1>4, <1>7
  <2>2. QED
    BY <2>1, SMT
<1>10. (kk \o ds) \o s = kk \o (ds \o s)
  BY <1>2, <1>7, SMT
<1>11. (de \o sp) \o s = de \o (sp \o s)
  <2>1. s \in Seq(Pieces) /\ sp \in Seq(Pieces) /\ de \in Seq(Pieces)
    BY <1>2, <1>4
  <2>2. QED
    BY <2>1, SMT
<1>12. body = kk \o (de \o v)
  BY <1>6, <1>8, <1>9, <1>10, <1>11, Zenon
<1>13. Around(body, kk, Delim, v)
  BY <1>3, <1>12 DEF Around
<1>14. l = body \o nl /\ l \in Seq(Pieces)
  BY <1>3, <1>4, <1>6, <1>7
<1>15. (body \o nl) \o more = body \o (nl \o more)
  <2>1. body \in Seq(Pieces) /\ nl \in Seq(Pieces)
    BY <1>4, <1>7
  <2>2. QED
    BY <2>1, SMT
<1>16. Around(l \o more, body, Newline, more)
  BY <1>3, <1>14, <1>15, Zenon DEF Around
<1>17. v = Value(c, i) /\ kk = Name(c, i) \o << Space >>
  BY <1>1, <1>3, <1>6 DEF Value
<1>18. QED
  BY <1>5, <1>7, <1>13, <1>14, <1>16, <1>17

LEMMA PartBehind ==
  ASSUME NEW S, NEW s \in Seq(S), NEW n, Len(s) = n, NEW i \in 0 .. n
  PROVE  /\ SubSeq(s, i + 1, n) \in Seq(S) /\ Len(SubSeq(s, i + 1, n)) = n - i
         /\ \A j \in 1 .. n - i : SubSeq(s, i + 1, n)[j] = s[i + j]
OBVIOUS

(* What is left to read when i lines were read                             *)
LEMMA RestIs ==
  ASSUME NEW c, Writable(c)
  PROVE  /\ Rest(c, 0) = Written(c) /\ Rest(c, Count(c)) = << >>
         /\ \A i \in 0 .. Count(c) : Rest(c, i) \in Seq(Pieces)
         /\ \A i \in 0 .. Count(c) - 1 : Rest(c, i) = Lines(c)[i + 1] \o Rest(c, i + 1)
<1>1. PICK n, q : n = Count(c) /\ q = Lines(c)
  OBVIOUS
<1>2. n \in Nat /\ Lines(c) = [i \in 1 .. n |-> Lines(c)[i]] /\ \A i : Rest(c, i) = FlattenSeq(SubSeq(q, i + 1, n))
  BY <1>1, NamesAre DEF Lines, Rest
<1>3. \A i \in 1 .. n : q[i] \in Seq(Pieces)
  <2>1. << >> \in Seq(Pieces)
    OBVIOUS
  <2>2. QED
    BY <1>1, <2>1, LineIs
<1>4. PICK W : W = Seq(Pieces)
  OBVIOUS
<1>5. q \in Seq(W) /\ Len(q) = n
  <2>1. q \in [1 .. n -> W]
    BY <1>1, <1>2, <1>3, <1>4
  <2>2. QED
    BY <1>2, <2>1
<1>6. ASSUME NEW i \in 0 .. n
      PROVE  /\ SubSeq(q, i + 1, n) \in Seq(W) /\ Len(SubSeq(q, i + 1, n)) = n - i
             /\ \A j \in 1 .. n - i : SubSeq(q, i + 1, n)[j] = q[i + j]
  BY <1>5, PartBehind
<1>7. ASSUME NEW i \in 0 .. n PROVE Rest(c, i) \in Seq(Pieces)
  <2>1. SubSeq(q, i + 1, n) \in Seq(Seq(Pieces))
    BY <1>4, <1>6, Zenon
  <2>2. QED
    BY <1>2, <2>1, FlattenType
<1>8. Rest(c, 0) = Written(c)
  <2>1. SubSeq(q, 1, n) = q
    BY <1>2, <1>5
  <2>2. FlattenSeq(q) = Written(c)
    BY <1>1 DEF Lines, Written, Name, Count
  <2>3. 0 + 1 = 1
    OBVIOUS
  <2>4. QED
    BY <1>2, <2>1, <2>2, <2>3, Zenon
<1>9. Rest(c, n) = << >>
  <2>1. SubSeq(q, n + 1, n) = << >>
    BY <1>2, <1>5
  <2>2. FlattenSeq(<< >>) = << >>
    BY DEF FlattenSeq
  <2>3. QED
    BY <1>2, <2>1, <2>2
<1>10. ASSUME NEW i \in 0 .. n - 1
       PROVE  Rest(c, i) = Lines(c)[i + 1] \o Rest(c, i + 1)
  <2>1. i + 1 \in 1 .. n /\ i + 1 \in 0 .. n /\ i \in 0 .. n /\ i \in Nat
    BY <1>2
  <2>2. PICK x, t, u : x = q[i + 1] /\ t = SubSeq(q, (i + 1) + 1, n) /\ u = SubSeq(q, i + 1, n)
    OBVIOUS
  <2>3. x \in W /\ t \in Seq(W) /\ u \in Seq(W)
    BY <1>3, <1>4, <1>6, <2>1, <2>2
  <2>4. Len(t) = n - (i + 1) /\ \A j \in 1 .. n - (i + 1) : t[j] = q[(i + 1) + j]
    BY <1>6, <2>1, <2>2, Zenon
  <2>5. Len(u) = n - i /\ \A j \in 1 .. n - i : u[j] = q[i + j]
    BY <1>6, <2>1, <2>2, Zenon
  <2>6. PICK one, ct : one = << x >> /\ ct = one \o t
    OBVIOUS
  <2>7. one \in Seq(W) /\ Len(one) = 1 /\ one[1] = x
    BY <2>3, <2>6
  <2>8. /\ ct \in Seq(W) /\ Len(ct) = 1 + Len(t)
        /\ \A j \in 1 .. 1 + Len(t) : ct[j] = IF j <= 1 THEN one[j] ELSE t[j - 1]
    BY <2>3, <2>6, <2>7, ConcatProperties
  <2>9. Len(ct) = n - i
    BY <1>2, <2>1, <2>4, <2>8
  <2>10. ASSUME NEW j \in 1 .. n - i PROVE ct[j] = u[j]
    <3>0. i \in Nat /\ n \in Nat /\ j \in Nat /\ Len(t) = n - (i + 1)
      BY <1>2, <2>1, <2>4
    <3>1. CASE j = 1
      <4>1. 1 \in 1 .. 1 + Len(t) /\ 1 <= 1 /\ u[1] = q[i + 1]
        BY <2>5, <3>0, <3>1
      <4>2. ct[1] = one[1]
        BY <2>8, <4>1
      <4>3. QED
        BY <2>2, <2>7, <3>1, <4>1, <4>2
    <3>2. CASE j # 1
      <4>1. /\ j - 1 \in 1 .. n - (i + 1) /\ ~ j <= 1 /\ (i + 1) + (j - 1) = i + j
            /\ j \in 1 .. 1 + Len(t)
        BY <3>0, <3>2
      <4>2. ct[j] = t[j - 1]
        BY <2>8, <4>1
      <4>3. QED
        BY <2>4, <2>5, <4>1, <4>2
    <3>3. QED
      BY <3>1, <3>2
  <2>11. u = ct
    BY <2>3, <2>5, <2>8, <2>9, <2>10, SeqEqual
  <2>12. t \in Seq(Seq(Pieces)) /\ x \in Seq(Pieces)
    BY <1>4, <2>3, Zenon
  <2>13. FlattenSeq(<< x >> \o t) = x \o FlattenSeq(t)
    BY <2>12, FlattenCons
  <2>14. Rest(c, i) = FlattenSeq(<< x >> \o t) /\ Rest(c, i + 1) = FlattenSeq(t)
    BY <1>2, <2>2, <2>6, <2>11, Zenon
  <2>15. QED
    BY <1>1, <2>2, <2>13, <2>14, Zenon
<1>11. QED
  BY <1>1, <1>2, <1>7, <1>8, <1>9, <1>10

-----------------------------------------------------------------------------
(* Reading back                                                            *)

(* next was read ahead, or nothing was, of the lines behind the i-th.      *)
ReadOn(c, i, next, s) ==
  /\ ~ Has(next, Comment)
  /\ IF next = << >> THEN s.rest = Rest(c, i) ELSE Around(Rest(c, i), next, Newline, s.rest)
  /\ s.fail = s.eof /\ (s.fail => i = Count(c))

BackOuter(i) ==
  /\ i \in 0 .. Count(saved) /\ contents = Got(saved, i)
  /\ ReadOn(saved, i, nextline, is)

BackAhead(i) ==
  /\ i \in 1 .. Count(saved) /\ contents = Got(saved, i - 1)
  /\ key = Name(saved, i) \o << Space >> /\ ~ is.fail /\ ~ is.eof
  /\ CutAt(Value(saved, i), line, is.rest, Rest(saved, i))

BackStore(i) ==
  /\ i \in 1 .. Count(saved) /\ contents = Got(saved, i - 1)
  /\ key = Name(saved, i) \o << Space >> /\ line = Value(saved, i)
  /\ ReadOn(saved, i, nextline, is)

(* While what was saved is read, so far the settings are the ones saved.   *)
BackInv ==
  saved # NoFile =>
    /\ pc = "outer"  => \E i \in Nat : BackOuter(i)
    /\ pc = "ahead"  => \E i \in Nat : BackAhead(i)
    /\ pc = "store"  => \E i \in Nat : BackStore(i)
    /\ pc = "loaded" => contents = saved

(* The next line that is read has the next key, and its value begins.      *)
LEMMA FirstLine ==
  ASSUME NEW c, Writable(c), NEW i \in 0 .. Count(c) - 1,
         NEW r, r = Rest(c, i), NEW x, x = Before(r, Newline), NEW y, y = After(r, Newline)
  PROVE  /\ r \in Seq(Pieces) /\ Has(r, Newline) /\ r # << >> /\ i + 1 \in 1 .. Count(c)
         /\ x \in Seq(Pieces) /\ y \in Seq(Pieces) /\ x # << >> /\ Around(r, x, Newline, y)
         /\ ~ Has(x, Comment) /\ ~ IsBlank(x) /\ Has(x, Delim)
         /\ Before(x, Delim) = Name(c, i + 1) \o << Space >>
         /\ CutAt(Value(c, i + 1), After(x, Delim), y, Rest(c, i + 1))
<1>1. PICK j, more, v, kk : /\ j = i + 1 /\ more = Rest(c, j) /\ v = Value(c, j)
                            /\ kk = Name(c, j) \o << Space >>
  OBVIOUS
<1>2. j \in 1 .. Count(c) /\ j \in 0 .. Count(c) /\ i \in 0 .. Count(c)
  <2>1. Count(c) \in Nat
    BY NamesAre
  <2>2. QED
    BY <1>1, <2>1
<1>3. more \in Seq(Pieces) /\ r = Lines(c)[j] \o more /\ r \in Seq(Pieces)
  BY <1>1, <1>2, RestIs
<1>4. /\ v \in Seq(Pieces) /\ Continuable(v) /\ kk \in Seq(Pieces) /\ Unmarked(kk)
  BY <1>1, <1>2, ValueIs
<1>5. PICK body \in Seq(Pieces) : Around(body, kk, Delim, v) /\ Around(r, body, Newline, more)
  BY <1>1, <1>2, <1>3, LineIs
<1>6. PICK t : Around(t, v, Newline, more)
  BY DEF Around
<1>7. t \in Seq(Pieces) /\ Around(r, kk, Delim, t)
  BY <1>3, <1>4, <1>5, <1>6, MarksAre, AroundType, AroundAround
<1>8. PICK w, u : w = Before(t, Newline) /\ u = After(t, Newline)
  OBVIOUS
<1>9. /\ Has(t, Newline) /\ w \in Seq(Pieces) /\ u \in Seq(Pieces) /\ CutAt(v, w, u, more)
      /\ ~ Has(w, Newline) /\ \A p : Has(w, p) => Has(v, p)
  BY <1>3, <1>4, <1>6, <1>8, NextPart
<1>10. Around(t, w, Newline, u)
  BY <1>7, <1>8, <1>9, MarksAre, CutAtFirst
<1>11. PICK xx : Around(xx, kk, Delim, w)
  BY DEF Around
<1>12. xx \in Seq(Pieces) /\ \A p : Has(xx, p) <=> Has(kk, p) \/ p = Delim \/ Has(w, p)
  BY <1>4, <1>9, <1>11, MarksAre, AroundType
<1>13. Around(r, xx, Newline, u)
  BY <1>4, <1>7, <1>9, <1>10, <1>11, MarksAre, AroundAround
<1>14. ~ Has(xx, Newline) /\ ~ Has(xx, Comment) /\ Has(xx, Delim)
  BY <1>4, <1>9, <1>12, MarksAre DEF Unmarked, Continuable
<1>15. Has(r, Newline) /\ x = xx /\ y = u
  <2>1. /\ xx \in Seq(Pieces) /\ u \in Seq(Pieces) /\ Newline \in Pieces
        /\ Around(r, xx, Newline, u) /\ ~ Has(xx, Newline)
    BY <1>9, <1>12, <1>13, <1>14, MarksAre
  <2>2. Has(r, Newline) /\ Before(r, Newline) = xx /\ After(r, Newline) = u
    BY <2>1, Cut
  <2>3. QED
    BY <2>2
<1>16. Before(x, Delim) = kk /\ After(x, Delim) = w
  <2>1. /\ kk \in Seq(Pieces) /\ w \in Seq(Pieces) /\ Delim \in Pieces
        /\ Around(xx, kk, Delim, w) /\ ~ Has(kk, Delim)
    BY <1>4, <1>9, <1>11, MarksAre DEF Unmarked
  <2>2. Before(xx, Delim) = kk /\ After(xx, Delim) = w
    BY <2>1, Cut
  <2>3. QED
    BY <1>15, <2>2
<1>17. ~ IsBlank(x) /\ x # << >> /\ r # << >>
  BY <1>14, <1>15, BlankHasNot DEF Has
<1>18. QED
  BY <1>1, <1>2, <1>3, <1>9, <1>12, <1>13, <1>14, <1>15, <1>16, <1>17

(* getline() in front of a newline, and behind the last one                *)
LEMMA LineTaken ==
  ASSUME is \in Streams, NEW s
  PROVE  /\ Has(is.rest, Newline) =>
              /\ getline(s).str = Before(is.rest, Newline)
              /\ getline(s).is = [rest |-> After(is.rest, Newline), eof |-> is.eof, fail |-> is.fail]
         /\ is.rest = << >> /\ ~ is.eof =>
              /\ getline(s).str = << >>
              /\ getline(s).is = [rest |-> << >>, eof |-> TRUE, fail |-> TRUE]
<1>1. CASE Has(is.rest, Newline)
  <2>1. is.rest # << >>
    BY <1>1 DEF Has
  <2>2. QED
    BY <1>1, <2>1 DEF getline, Streams
<1>2. CASE is.rest = << >> /\ ~ is.eof
  <2>1. ~ Has(is.rest, Newline)
    BY <1>2 DEF Has
  <2>2. QED
    BY <1>2, <2>1 DEF getline, Streams
<1>3. QED
  BY <1>1, <1>2

(* The lines of the outer loop                                             *)
LEMMA KeyLineRead ==
  ASSUME Writable(saved), NEW i \in 0 .. Count(saved) - 1, contents = Got(saved, i),
         Parse(Before(Rest(saved, i), Newline)),
         is'.rest = After(Rest(saved, i), Newline), ~ is'.eof, ~ is'.fail,
         UNCHANGED << contents, saved >>
  PROVE  pc' = "ahead" /\ BackAhead(i + 1)'
<1>1. PICK r, x, y : r = Rest(saved, i) /\ x = Before(r, Newline) /\ y = After(r, Newline)
  OBVIOUS
<1>2. /\ i + 1 \in 1 .. Count(saved) /\ ~ Has(x, Comment) /\ Has(x, Delim)
      /\ Before(x, Delim) = Name(saved, i + 1) \o << Space >>
      /\ CutAt(Value(saved, i + 1), After(x, Delim), y, Rest(saved, i + 1))
  BY <1>1, FirstLine
<1>3. Before(x, Comment) = x
  BY <1>2, BeforeSelf
<1>4. key' = Before(x, Delim) /\ line' = After(x, Delim) /\ pc' = "ahead"
  BY <1>1, <1>2, <1>3 DEF Parse
<1>5. contents' = Got(saved', (i + 1) - 1) /\ saved' = saved
  <2>1. (i + 1) - 1 = i
    OBVIOUS
  <2>2. QED
    BY <2>1
<1>6. is'.rest = y
  BY <1>1
<1>7. QED
  BY <1>2, <1>4, <1>5, <1>6 DEF BackAhead

LEMMA OuterBack ==
  ASSUME IInv, WritableInv, saved # NoFile, NEW i, BackOuter(i), ReadLine \/ UseReadAhead
  PROVE  \/ pc' = "outer" /\ BackOuter(i)'
         \/ pc' = "ahead" /\ BackAhead(i + 1)'
<1>1. /\ Writable(saved) /\ ~ Has(nextline, Newline) /\ nextline \in Seq(Pieces)
      /\ is \in Streams /\ is.rest \in Seq(Pieces)
      /\ i \in 0 .. Count(saved) /\ contents = Got(saved, i) /\ ReadOn(saved, i, nextline, is)
      /\ pc = "outer" /\ UNCHANGED << contents, saved >>
  BY DEF WritableInv, IInv, TypeOK, BackOuter, ReadLine, UseReadAhead, Streams
<1>2. PICK r : r = Rest(saved, i)
  OBVIOUS
<1>3. Count(saved) \in Nat /\ Rest(saved, Count(saved)) = << >> /\ i \in Nat
  <2>1. Count(saved) \in Nat /\ Rest(saved, Count(saved)) = << >>
    BY <1>1, NamesAre, RestIs
  <2>2. QED
    BY <1>1, <2>1
<1>4. CASE UseReadAhead
  <2>1. nextline # << >> /\ Parse(nextline) /\ is' = is
    BY <1>4 DEF UseReadAhead, stream
  <2>2. Around(r, nextline, Newline, is.rest)
    BY <1>1, <1>2, <2>1 DEF ReadOn
  <2>3. Has(r, Newline) /\ Before(r, Newline) = nextline /\ After(r, Newline) = is.rest
    BY <1>1, <2>2, MarksAre, Cut
  <2>4. i # Count(saved)
    BY <1>2, <1>3, <2>3 DEF Has
  <2>5. i \in 0 .. Count(saved) - 1 /\ ~ is.fail /\ ~ is.eof
    BY <1>1, <1>3, <2>4 DEF ReadOn, Streams
  <2>6. QED
    BY <1>1, <1>2, <2>1, <2>3, <2>5, KeyLineRead
<1>5. CASE ReadLine
  <2>1. /\ nextline = << >> /\ nextline' = << >> /\ ~ is.fail
        /\ is' = getline(<< >>).is /\ Parse(getline(<< >>).str)
    BY <1>5 DEF ReadLine
  <2>2. is.rest = r /\ ~ is.eof
    BY <1>1, <1>2, <2>1 DEF ReadOn
  <2>3. CASE i = Count(saved)
    <3>1. /\ getline(<< >>).str = << >>
          /\ is' = [rest |-> << >>, eof |-> TRUE, fail |-> TRUE]
      BY <1>1, <1>2, <1>3, <2>1, <2>2, <2>3, LineTaken
    <3>2. ~ Has(<< >>, Comment) /\ ~ Has(<< >>, Delim) /\ Before(<< >>, Comment) = << >>
      BY BeforeSelf DEF Has
    <3>3. pc' = "outer"
      BY <1>1, <2>1, <3>1, <3>2 DEF Parse
    <3>4. ReadOn(saved, i, nextline', is')
      <4>1. is'.rest = << >> /\ is'.fail /\ is'.eof
        BY <3>1
      <4>2. QED
        BY <1>3, <2>1, <2>3, <3>1, <3>2, <4>1 DEF ReadOn
    <3>5. QED
      BY <1>1, <3>3, <3>4 DEF BackOuter
  <2>4. CASE i # Count(saved)
    <3>1. i \in 0 .. Count(saved) - 1
      BY <1>1, <1>3, <2>4
    <3>2. Has(r, Newline)
      BY <1>1, <1>2, <3>1, FirstLine
    <3>3. /\ getline(<< >>).str = Before(r, Newline)
          /\ is' = [rest |-> After(r, Newline), eof |-> is.eof, fail |-> is.fail]
      BY <1>1, <2>1, <2>2, <3>2, LineTaken
    <3>4. QED
      BY <1>1, <1>2, <2>1, <2>2, <3>1, <3>3, KeyLineRead
  <2>5. QED
    BY <2>3, <2>4
<1>6. QED
  BY <1>4, <1>5

(* Where the parts of a text are                                           *)
LEMMA AroundAt ==
  ASSUME NEW s, NEW a \in Seq(Pieces), NEW p \in Pieces, NEW b \in Seq(Pieces), Around(s, a, p, b),
         NEW m, m = Len(a) + 1
  PROVE  /\ m \in Nat /\ m \in DOMAIN s /\ s[m] = p
         /\ \A k \in DOMAIN a : k \in Int /\ k < m /\ k \in DOMAIN s /\ s[k] = a[k]
         /\ \A k \in DOMAIN b : k \in Int /\ 1 <= k /\ m + k \in DOMAIN s /\ s[m + k] = b[k]
         /\ \A k \in DOMAIN s : /\ k \in Int
                                /\ k < m => k \in DOMAIN a
                                /\ k > m => k - m \in DOMAIN b
<1>1. PICK one, u : one = << p >> /\ u = one \o b /\ s = a \o u
  BY DEF Around
<1>2. one \in Seq(Pieces) /\ Len(one) = 1 /\ one[1] = p
  BY <1>1, Mark
<1>3. /\ u \in Seq(Pieces) /\ Len(u) = Len(one) + Len(b)
      /\ \A k \in 1 .. Len(one) : u[k] = one[k]
      /\ \A k \in 1 .. Len(b) : u[Len(one) + k] = b[k]
  BY <1>1, <1>2, Concat
<1>4. /\ s \in Seq(Pieces) /\ Len(s) = Len(a) + Len(u)
      /\ \A k \in 1 .. Len(a) : s[k] = a[k]
      /\ \A k \in 1 .. Len(u) : s[Len(a) + k] = u[k]
  BY <1>1, <1>3, Concat
<1>5. /\ Len(a) \in Nat /\ Len(b) \in Nat /\ Len(u) = 1 + Len(b) /\ Len(s) = m + Len(b)
      /\ DOMAIN a = 1 .. Len(a) /\ DOMAIN b = 1 .. Len(b) /\ DOMAIN s = 1 .. m + Len(b)
  BY <1>2, <1>3, <1>4
<1>6. m \in Nat /\ m \in DOMAIN s /\ s[m] = p
  <2>1. 1 \in 1 .. Len(u) /\ 1 \in 1 .. Len(one)
    BY <1>2, <1>5
  <2>2. s[m] = u[1] /\ u[1] = one[1]
    BY <1>3, <1>4, <2>1
  <2>3. QED
    BY <1>2, <1>5, <2>2
<1>7. ASSUME NEW k \in DOMAIN a PROVE k \in Int /\ k < m /\ k \in DOMAIN s /\ s[k] = a[k]
  BY <1>4, <1>5
<1>8. ASSUME NEW k \in DOMAIN b
      PROVE  k \in Int /\ 1 <= k /\ m + k \in DOMAIN s /\ s[m + k] = b[k]
  <2>1. k \in 1 .. Len(b) /\ 1 + k \in 1 .. Len(u) /\ Len(a) + (1 + k) = m + k
    BY <1>5
  <2>2. u[1 + k] = b[k] /\ s[m + k] = u[1 + k]
    BY <1>2, <1>3, <1>4, <2>1
  <2>3. QED
    BY <1>5, <2>1, <2>2
<1>9. ASSUME NEW k \in DOMAIN s
      PROVE  k \in Int /\ (k < m => k \in DOMAIN a) /\ (k > m => k - m \in DOMAIN b)
  BY <1>5
<1>10. QED
  BY <1>6, <1>7, <1>8, <1>9

(* Where the newline behind a line is                                      *)
LEMMA NewlineAt ==
  ASSUME NEW z, NEW w \in Seq(Pieces), NEW u \in Seq(Pieces), Around(z, w, Newline, u)
  PROVE  \E n \in DOMAIN z : /\ n \in Nat /\ z[n] = Newline
                             /\ \A j \in DOMAIN w : z[j] = w[j]
                             /\ \A j \in DOMAIN z : j < n => j \in DOMAIN w
<1>1. PICK n : n = Len(w) + 1
  OBVIOUS
<1>2. /\ n \in Nat /\ n \in DOMAIN z /\ z[n] = Newline
      /\ \A j \in DOMAIN w : z[j] = w[j]
      /\ \A j \in DOMAIN z : j < n => j \in DOMAIN w
  BY <1>1, MarksAre, AroundAt
<1>3. QED
  BY <1>2

(* The next line of a value continues it.                                  *)
LEMMA NextContinues ==
  ASSUME NEW v \in Seq(Pieces), Continuable(v), NEW text \in Seq(Pieces), NEW z \in Seq(Pieces),
         Around(v, text, Newline, z), NEW w \in Seq(Pieces), NEW y, NEW more, CutAt(z, w, y, more)
  PROVE  ~ Has(z, Delim) /\ ~ Has(z, Comment) /\ ~ IsBlank(w)
<1>1. PICK m : m = Len(text) + 1
  OBVIOUS
<1>2. /\ m \in Nat /\ m \in DOMAIN v /\ v[m] = Newline
      /\ \A k \in DOMAIN z : k \in Int /\ 1 <= k /\ m + k \in DOMAIN v /\ v[m + k] = z[k]
      /\ \A k \in DOMAIN v : k \in Int /\ (k > m => k - m \in DOMAIN z)
  BY <1>1, MarksAre, AroundAt
<1>3. LineContinues(v, m) /\ ~ Has(v, Comment)
  BY <1>2 DEF Continuable
<1>4. ~ Has(z, Comment)
  BY <1>3, MarksAre, AroundType
<1>5. ASSUME NEW k \in DOMAIN z PROVE z[k] # Delim
  <2>1. m + k \in DOMAIN v /\ v[m + k] = z[k] /\ m < m + k
    BY <1>2
  <2>2. QED
    BY <1>3, <2>1 DEF LineContinues
<1>6. PICK q \in DOMAIN v : /\ m < q /\ v[q] \notin Blank
                            /\ \A r \in DOMAIN v : m < r /\ r < q => v[r] # Newline
  BY <1>3 DEF LineContinues
<1>7. PICK k \in DOMAIN z : k = q - m /\ q = m + k /\ k \in Int
  <2>1. q - m \in DOMAIN z /\ q = m + (q - m) /\ q - m \in Int
    BY <1>2, <1>6
  <2>2. QED
    BY <2>1
<1>8. z[k] \notin Blank
  BY <1>2, <1>6, <1>7
<1>9. ASSUME NEW r \in DOMAIN z, r < k PROVE z[r] # Newline
  <2>1. r \in Int /\ 1 <= r /\ m + r \in DOMAIN v /\ v[m + r] = z[r]
    BY <1>2, <1>9
  <2>2. m \in Nat /\ k \in Int /\ q = m + k
    BY <1>2, <1>7
  <2>3. m < m + r /\ m + r < q
    BY <1>9, <2>1, <2>2
  <2>4. QED
    BY <1>6, <2>1, <2>3
<1>10. \E j \in DOMAIN w : w[j] \notin Blank
  <2>1. CASE w = z
    BY <1>8, <2>1
  <2>2. CASE w # z
    <3>1. PICK u \in Seq(Pieces) : Around(z, w, Newline, u)
      BY <2>2 DEF CutAt
    <3>2. \E n \in DOMAIN z : /\ n \in Nat /\ z[n] = Newline
                              /\ \A j \in DOMAIN w : z[j] = w[j]
                              /\ \A j \in DOMAIN z : j < n => j \in DOMAIN w
      BY <3>1, NewlineAt, Zenon
    <3>3. PICK n \in DOMAIN z : /\ n \in Nat /\ z[n] = Newline
                                /\ \A j \in DOMAIN w : z[j] = w[j]
                                /\ \A j \in DOMAIN z : j < n => j \in DOMAIN w
      BY <3>2, Zenon
    <3>4. k # n /\ ~ n < k
      BY <1>8, <1>9, <3>3 DEF Blank
    <3>5. k \in DOMAIN w
      <4>1. k \in Int /\ k \in DOMAIN z
        BY <1>7
      <4>2. n \in Nat
        BY <3>3
      <4>3. k < n
        BY <3>4, <4>1, <4>2
      <4>4. QED
        BY <3>3, <4>1, <4>3
    <3>6. QED
      BY <1>8, <3>3, <3>5
  <2>3. QED
    BY <2>1, <2>2
<1>11. QED
  BY <1>4, <1>5, <1>10, BlankIs DEF Has

(* The lines of the inner loop: another line of the value                  *)
LEMMA ValueLineRead ==
  ASSUME is \in Streams, line \in Seq(Pieces), saved # NoFile, Writable(saved),
         NEW i, BackAhead(i), StopAtBlank \/ StopAtKey \/ Continue,
         NEW z \in Seq(Pieces), Around(Value(saved, i), line, Newline, z),
         Around(is.rest, z, Newline, Rest(saved, i))
  PROVE  pc' = "ahead" /\ BackAhead(i)'
<1>1. PICK v, more, r, w, y : /\ v = Value(saved, i) /\ more = Rest(saved, i) /\ r = is.rest
                              /\ w = Before(r, Newline) /\ y = After(r, Newline)
  OBVIOUS
<1>2. /\ i \in 1 .. Count(saved) /\ ~ is.fail /\ ~ is.eof
      /\ v \in Seq(Pieces) /\ Continuable(v) /\ more \in Seq(Pieces)
  <2>1. i \in 1 .. Count(saved) /\ ~ is.fail /\ ~ is.eof
    BY DEF BackAhead
  <2>2. i \in 0 .. Count(saved)
    BY <2>1, NamesAre
  <2>3. QED
    BY <1>1, <2>1, <2>2, ValueIs, RestIs
<1>3. Around(v, line, Newline, z) /\ Around(r, z, Newline, more)
  BY <1>1
<1>4. /\ Has(r, Newline) /\ w \in Seq(Pieces) /\ y \in Seq(Pieces) /\ CutAt(z, w, y, more)
      /\ \A p : Has(w, p) => Has(z, p)
  BY <1>1, <1>2, <1>3, NextPart
<1>5. ~ Has(z, Delim) /\ ~ Has(z, Comment) /\ ~ IsBlank(w)
  BY <1>2, <1>3, <1>4, NextContinues
<1>6. ~ Has(w, Delim) /\ ~ Has(w, Comment) /\ Before(w, Comment) = w
  BY <1>4, <1>5, BeforeSelf
<1>7. /\ Ahead.str = w
      /\ Ahead.is = [rest |-> y, eof |-> is.eof, fail |-> is.fail]
  BY <1>1, <1>4, LineTaken DEF Ahead
<1>8. Continue
  BY <1>5, <1>6, <1>7 DEF StopAtBlank, StopAtKey
<1>9. /\ pc' = "ahead" /\ nextline' = w /\ line' = line \o << Newline >> \o w
      /\ is'.rest = y /\ ~ is'.eof /\ ~ is'.fail /\ UNCHANGED << key, contents, saved >>
  BY <1>2, <1>5, <1>6, <1>7, <1>8 DEF Continue, ReadAhead
<1>10. line \o << Newline >> \o w = line \o (<< Newline >> \o w)
  <2>1. PICK nl : nl = << Newline >>
    OBVIOUS
  <2>2. nl \in Seq(Pieces)
    BY <2>1, Mark, MarksAre
  <2>3. (line \o nl) \o w = line \o (nl \o w)
    BY <1>4, <2>2, SMT
  <2>4. QED
    BY <2>1, <2>3, Zenon
<1>11. PICK l : l = line \o << Newline >> \o w
  OBVIOUS
<1>12. Around(l, line, Newline, w)
  BY <1>10, <1>11, Zenon DEF Around
<1>13. CutAt(v, l, y, more)
  <2>1. CASE w = z /\ y = more
    <3>1. l = v
      BY <1>3, <1>12, <2>1, Zenon DEF Around
    <3>2. QED
      BY <2>1, <3>1 DEF CutAt
  <2>2. CASE \E u \in Seq(Pieces) : Around(z, w, Newline, u) /\ Around(y, u, Newline, more)
    <3>1. PICK u \in Seq(Pieces) : Around(z, w, Newline, u) /\ Around(y, u, Newline, more)
      BY <2>2
    <3>2. Around(v, l, Newline, u)
      BY <1>3, <1>4, <1>12, <3>1, MarksAre, AroundAround
    <3>3. QED
      BY <3>1, <3>2 DEF CutAt
  <2>3. QED
    BY <1>4, <2>1, <2>2 DEF CutAt
<1>14. /\ i \in 1 .. Count(saved') /\ contents' = Got(saved', i - 1)
       /\ key' = Name(saved', i) \o << Space >>
       /\ Value(saved', i) = v /\ Rest(saved', i) = more /\ line' = l
  BY <1>1, <1>9, <1>11 DEF BackAhead
<1>15. QED
  BY <1>9, <1>13, <1>14 DEF BackAhead

(* The lines of the inner loop: the value has ended, and what is read is   *)
(* the next line with a key, or the end                                    *)
LEMMA ValueRead ==
  ASSUME is \in Streams, saved # NoFile, Writable(saved),
         NEW i, BackAhead(i), StopAtBlank \/ StopAtKey \/ Continue,
         line = Value(saved, i), is.rest = Rest(saved, i)
  PROVE  pc' = "store" /\ BackStore(i)'
<1>1. PICK r : r = Rest(saved, i) /\ r = is.rest
  OBVIOUS
<1>2. /\ i \in 1 .. Count(saved) /\ ~ is.fail /\ ~ is.eof /\ contents = Got(saved, i - 1)
      /\ key = Name(saved, i) \o << Space >>
  BY DEF BackAhead
<1>3. Count(saved) \in Nat /\ Rest(saved, Count(saved)) = << >>
  BY NamesAre, RestIs
<1>4. UNCHANGED << key, contents, saved >> /\ is' = Ahead.is
  BY DEF StopAtBlank, StopAtKey, Continue, ReadAhead
<1>5. SUFFICES pc' = "store" /\ line' = line /\ ReadOn(saved, i, nextline', is')
  BY <1>2, <1>4 DEF BackStore
<1>6. CASE i = Count(saved)
  <2>1. Ahead.str = << >> /\ Ahead.is = [rest |-> << >>, eof |-> TRUE, fail |-> TRUE]
    BY <1>1, <1>2, <1>3, <1>6, LineTaken DEF Ahead
  <2>2. IsBlank(<< >>) /\ ~ Has(<< >>, Comment)
    BY DEF IsBlank, Has
  <2>3. StopAtBlank
    BY <2>1, <2>2 DEF StopAtKey, Continue
  <2>4. pc' = "store" /\ line' = line /\ nextline' = << >>
    BY <2>1, <2>3 DEF StopAtBlank
  <2>5. is'.rest = << >> /\ is'.eof /\ is'.fail /\ is'.eof = TRUE /\ is'.fail = TRUE
    BY <1>4, <2>1
  <2>6. QED
    BY <1>3, <1>6, <2>2, <2>4, <2>5 DEF ReadOn
<1>7. CASE i # Count(saved)
  <2>1. PICK x, y : x = Before(r, Newline) /\ y = After(r, Newline)
    OBVIOUS
  <2>2. i \in 0 .. Count(saved) - 1
    BY <1>2, <1>3, <1>7
  <2>3. /\ Has(r, Newline) /\ x # << >> /\ Around(r, x, Newline, y)
        /\ ~ Has(x, Comment) /\ ~ IsBlank(x) /\ Has(x, Delim)
    BY <1>1, <2>1, <2>2, FirstLine
  <2>4. Before(x, Comment) = x
    BY <2>3, BeforeSelf
  <2>5. Ahead.str = x /\ Ahead.is = [rest |-> y, eof |-> is.eof, fail |-> is.fail]
    BY <1>1, <2>1, <2>3, LineTaken DEF Ahead
  <2>6. StopAtKey
    BY <2>3, <2>4, <2>5 DEF StopAtBlank, Continue
  <2>7. pc' = "store" /\ line' = line /\ nextline' = x
    BY <2>4, <2>5, <2>6 DEF StopAtKey
  <2>8. is'.rest = y /\ is'.eof = is.eof /\ is'.fail = is.fail
    BY <1>4, <2>5
  <2>9. is.eof = FALSE /\ is.fail = FALSE
    BY <1>2 DEF Streams
  <2>10. QED
    BY <1>1, <2>3, <2>7, <2>8, <2>9 DEF ReadOn
<1>8. QED
  BY <1>6, <1>7

LEMMA StoreBack ==
  ASSUME saved # NoFile, Writable(saved), NEW i, BackStore(i), Store
  PROVE  pc' = "outer" /\ BackOuter(i)'
<1>1. /\ i \in 1 .. Count(saved) /\ contents = Got(saved, i - 1)
      /\ key = Name(saved, i) \o << Space >> /\ line = Value(saved, i)
      /\ ReadOn(saved, i, nextline, is)
  BY DEF BackStore
<1>2. /\ pc' = "outer" /\ contents' = With(Trim(key), Trim(line))
      /\ UNCHANGED << nextline, is, saved >>
  BY DEF Store, stream, locals
<1>3. PICK k : k = Name(saved, i)
  OBVIOUS
<1>4. Trim(key) = k /\ Trim(line) = saved[k]
  BY <1>1, <1>3, ValueIs
<1>5. i \in 0 .. Count(saved) /\ i \in Nat /\ i # 0
  BY <1>1, NamesAre
<1>6. { Name(saved, j) : j \in 1 .. i } = { Name(saved, j) : j \in 1 .. i - 1 } \cup {k}
  <2>1. ASSUME NEW j PROVE j \in 1 .. i <=> j \in 1 .. i - 1 \/ j = i
    BY <1>5
  <2>2. QED
    BY <1>3, <2>1
<1>7. /\ DOMAIN contents = { Name(saved, j) : j \in 1 .. i - 1 }
      /\ \A j \in DOMAIN contents : contents[j] = saved[j]
  BY <1>1 DEF Got
<1>8. With(k, saved[k]) = Got(saved, i)
  BY <1>6, <1>7 DEF With, Got
<1>9. QED
  BY <1>1, <1>2, <1>4, <1>5, <1>8 DEF BackOuter

LEMMA AllGot ==
  ASSUME NEW c, Writable(c)
  PROVE  Got(c, Count(c)) = c /\ Got(c, 0) = Empty
<1>1. Got(c, Count(c)) = [k \in DOMAIN c |-> c[k]]
  BY NamesAre DEF Got
<1>2. { Name(c, j) : j \in 1 .. 0 } = {}
  OBVIOUS
<1>3. Got(c, 0) = Empty
  BY <1>2 DEF Got, Empty
<1>4. QED
  BY <1>1, <1>3 DEF Writable

LEMMA LoadBack ==
  ASSUME IInv, WritableInv, BackInv, Load
  PROVE  BackInv'
<1>1. saved' = saved
  BY DEF Load, ReadLine, UseReadAhead, EndOfStream, StopAtBlank, StopAtKey, Continue, ReadAhead,
         StopAtFailure, Store
<1>2. SUFFICES ASSUME saved # NoFile PROVE BackInv'
  BY <1>1 DEF BackInv
<1>3. /\ Writable(saved) /\ is \in Streams /\ line \in Seq(Pieces)
      /\ pc = "outer"  => \E i \in Nat : BackOuter(i)
      /\ pc = "ahead"  => \E i \in Nat : BackAhead(i)
      /\ pc = "store"  => \E i \in Nat : BackStore(i)
  BY <1>2 DEF WritableInv, IInv, TypeOK, BackInv
<1>4. CASE ReadLine \/ UseReadAhead
  <2>1. PICK i \in Nat : BackOuter(i)
    BY <1>3, <1>4 DEF ReadLine, UseReadAhead
  <2>2. \/ pc' = "outer" /\ BackOuter(i)'
        \/ pc' = "ahead" /\ BackAhead(i + 1)'
    BY <1>2, <1>4, <2>1, OuterBack
  <2>3. i + 1 \in Nat
    OBVIOUS
  <2>4. QED
    BY <2>2, <2>3 DEF BackInv
<1>5. CASE StopAtBlank \/ StopAtKey \/ Continue
  <2>1. PICK i \in Nat : BackAhead(i)
    BY <1>3, <1>5 DEF StopAtBlank, StopAtKey, Continue, ReadAhead
  <2>2. CASE line = Value(saved, i) /\ is.rest = Rest(saved, i)
    <3>1. pc' = "store" /\ BackStore(i)'
      BY <1>2, <1>3, <1>5, <2>1, <2>2, ValueRead
    <3>2. QED
      BY <3>1 DEF BackInv
  <2>3. CASE \E z \in Seq(Pieces) : /\ Around(Value(saved, i), line, Newline, z)
                                    /\ Around(is.rest, z, Newline, Rest(saved, i))
    <3>1. pc' = "ahead" /\ BackAhead(i)'
      BY <1>2, <1>3, <1>5, <2>1, <2>3, ValueLineRead
    <3>2. QED
      BY <3>1 DEF BackInv
  <2>4. QED
    BY <2>1, <2>2, <2>3 DEF BackAhead, CutAt
<1>6. CASE Store
  <2>1. PICK i \in Nat : BackStore(i)
    BY <1>3, <1>6 DEF Store
  <2>2. pc' = "outer" /\ BackOuter(i)'
    BY <1>2, <1>3, <1>6, <2>1, StoreBack
  <2>3. QED
    BY <2>2 DEF BackInv
<1>7. CASE EndOfStream
  <2>1. PICK i \in Nat : BackOuter(i)
    BY <1>3, <1>7 DEF EndOfStream
  <2>2. pc' = "loaded" /\ contents' = contents /\ is.fail
    BY <1>7 DEF EndOfStream
  <2>3. contents = Got(saved, Count(saved))
    BY <2>1, <2>2 DEF BackOuter, ReadOn
  <2>4. contents' = saved'
    BY <1>1, <1>3, <2>2, <2>3, AllGot
  <2>5. QED
    BY <2>2, <2>4 DEF BackInv
<1>8. CASE StopAtFailure
  <2>1. pc = "ahead" /\ is.fail
    BY <1>8 DEF StopAtFailure
  <2>2. QED
    BY <1>3, <2>1 DEF BackAhead
<1>9. QED
  BY <1>4, <1>5, <1>6, <1>7, <1>8 DEF Load

(* What is saved was not read yet.                                         *)
LEMMA SaveBack ==
  ASSUME WritableInv, ParserInv, SaveAndConstruct
  PROVE  BackInv'
<1>1. /\ pc' = "outer" /\ contents' = Empty /\ saved' = contents /\ nextline' = << >>
      /\ is' = Opened(Written(contents)) /\ Writable(contents)
  BY DEF SaveAndConstruct, Editing, ParserInv, WritableInv, locals
<1>2. /\ Count(contents) \in Nat /\ Got(contents, 0) = Empty
      /\ Rest(contents, 0) = Written(contents)
  BY <1>1, NamesAre, AllGot, RestIs
<1>3. ReadOn(contents, 0, nextline', is')
  BY <1>1, <1>2 DEF ReadOn, Opened, Has
<1>4. BackOuter(0)'
  BY <1>1, <1>2, <1>3 DEF BackOuter
<1>5. QED
  BY <1>1, <1>4 DEF BackInv

LEMMA NextBack ==
  WritableEdits /\ IInv /\ ParserInv /\ WritableInv /\ BackInv /\ [Next]_vars => BackInv'
<1> SUFFICES ASSUME WritableEdits, IInv, ParserInv, WritableInv, BackInv, [Next]_vars
             PROVE  BackInv'
  OBVIOUS
<1>1. CASE Load
  BY <1>1, LoadBack
<1>2. CASE SaveAndConstruct
  BY <1>2, SaveBack
<1>3. CASE \/ Construct \/ Throw \/ ReadSettings
           \/ \E e \in Edits : \/ AddSetting(e.key, e.value) \/ RemoveSetting(e.key)
                               \/ RemoveAbsent(e.key)
  <2>1. saved = NoFile /\ saved' = saved
    BY <1>3 DEF Construct, Throw, ReadSettings, AddSetting, RemoveSetting, RemoveAbsent, Editing,
                WritableInv
  <2>2. QED
    BY <2>1 DEF BackInv
<1>4. CASE Terminated \/ UNCHANGED vars
  <2>1. UNCHANGED << is, pc, line, nextline, key, contents, saved >>
    BY <1>4 DEF Terminated, vars, stream, locals
  <2>2. QED
    BY <2>1 DEF BackInv, BackOuter, BackAhead, BackStore
<1>5. QED
  BY <1>1, <1>2, <1>3, <1>4 DEF Next

(* For any file, any delimiter and comment mark and any order in which the *)
(* keys are written: what operator<< writes, another Config reads back,    *)
(* provided that what was given to Add() can be written: a key without a   *)
(* mark, and a value whose further lines are not blank and have no mark.   *)
(* What was read from a file always can.                                   *)
THEOREM WhatIsSavedReadsBack == ASSUME WritableEdits PROVE Spec => []SavedReadsBack
<1>1. TrimmedEdits
  BY DEF WritableEdits
<1>2. Init => WritableInv /\ BackInv
  BY InitWritable DEF Init, BackInv
<1>3. IInv /\ ParserInv /\ WritableInv /\ BackInv /\ [Next]_vars => (WritableInv /\ BackInv)'
  BY NextWritable, NextBack
<1>4. BackInv => SavedReadsBack
  BY DEF BackInv, SavedReadsBack
<1>5. Spec => [](IInv /\ ParserInv)
  BY <1>1, ParserInvHolds
<1>6. QED
  BY <1>2, <1>3, <1>4, <1>5, PTL DEF Spec

=============================================================================

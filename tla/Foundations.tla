----------------------------- MODULE Foundations -----------------------------
(***************************************************************************)
(* Lemmas the proofs about the stores share: least and greatest members of *)
(* sets of numbers.  The least-number principle is what they use in place  *)
(* of induction: a set is something the provers can be handed, a predicate *)
(* is not.                                                                 *)
(***************************************************************************)
EXTENDS Integers, Sequences, FiniteSets, Loops, FiniteSetTheorems, WellFoundedInduction, TLAPS

(* A set of natural numbers that is not empty has a least member. *)
LEMMA LeastNatural ==
  ASSUME NEW T \in SUBSET Nat, T # {}
  PROVE  \E n \in T : \A m \in T : n <= m
<1> DEFINE R == OpToRel(<, Nat)
<1>1. IsWellFoundedOn(R, Nat)
  BY NatLessThanWellFounded
<1>2. \A x, y \in Nat : y < x => <<y, x>> \in R
  BY DEF OpToRel
<1> HIDE DEF R
<1>3. \E x \in T : \A y \in T : ~ (<<y, x>> \in R)
  BY <1>1, WFMin
<1>4. PICK n \in T : \A m \in T : ~ (<<m, n>> \in R)
  BY <1>3
<1>5. \A m \in T : n <= m
  <2> SUFFICES ASSUME NEW m \in T
               PROVE  n <= m
    OBVIOUS
  <2>1. n \in Nat /\ m \in Nat
    OBVIOUS
  <2>2. m < n => <<m, n>> \in R
    BY <1>2, <2>1
  <2>3. ~ (m < n)
    BY <1>4, <2>2
  <2> QED
    BY <2>1, <2>3
<1> QED
  BY <1>5

(* One that is bounded has a greatest member. *)
LEMMA GreatestNatural ==
  ASSUME NEW T \in SUBSET Nat, T # {}, NEW b \in Nat, \A n \in T : n <= b
  PROVE  \E n \in T : \A m \in T : m <= n
<1> DEFINE U == {k \in Nat : b - k \in T}
<1>1. \A n \in T : b - n \in Nat /\ b - (b - n) = n
  OBVIOUS
<1>2. U \in SUBSET Nat /\ U # {}
  BY <1>1
<1>3. PICK u \in U : \A v \in U : u <= v
  <2> HIDE DEF U
  <2> QED BY <1>2, LeastNatural
<1>4. \A m \in T : m <= b - u
  <2> SUFFICES ASSUME NEW m \in T
               PROVE  m <= b - u
    OBVIOUS
  <2>1. b - m \in U
    BY <1>1
  <2>2. u <= b - m
    BY <1>3, <2>1
  <2> QED
    BY <1>3, <2>2
<1>5. b - u \in T
  BY <1>3
<1> QED
  BY <1>4, <1>5

-----------------------------------------------------------------------------
(* What is left of a sequence when its first k elements are cut off.       *)
LEMMA SuffixType ==
  ASSUME NEW S, NEW s \in Seq(S), NEW k \in 0 .. Len(s)
  PROVE  /\ SubSeq(s, k + 1, Len(s)) \in Seq(S)
         /\ Len(SubSeq(s, k + 1, Len(s))) = Len(s) - k
         /\ \A i \in 1 .. Len(s) - k : SubSeq(s, k + 1, Len(s))[i] = s[i + k]
<1>1. Len(SubSeq(s, k + 1, Len(s))) = Len(s) - k
  OBVIOUS
<1>2. SubSeq(s, k + 1, Len(s)) \in Seq(S)
  OBVIOUS
<1>3. ASSUME NEW i \in 1 .. Len(s) - k
      PROVE  SubSeq(s, k + 1, Len(s))[i] = s[i + k]
  OBVIOUS
<1> QED
  BY <1>1, <1>2, <1>3

(* A sequence is a function on its positions.                              *)
LEMMA SequenceIsTuple ==
  ASSUME NEW S, NEW s \in Seq(S)
  PROVE  /\ Len(s) \in Nat /\ DOMAIN s = 1 .. Len(s)
         /\ s = [i \in 1 .. Len(s) |-> s[i]]
         /\ \A i \in 1 .. Len(s) : s[i] \in S
OBVIOUS

(* A function on the positions up to n is a sequence.                      *)
LEMMA TupleIsSequence ==
  ASSUME NEW S, NEW n \in Nat, NEW f \in [1 .. n -> S]
  PROVE  f \in Seq(S) /\ Len(f) = n
OBVIOUS

(* A sequence stays one of any set that has its elements.                  *)
LEMMA SequenceOfMore ==
  ASSUME NEW S, NEW T, NEW s \in Seq(S), \A i \in 1 .. Len(s) : s[i] \in T
  PROVE  s \in Seq(T)
<1>1. Len(s) \in Nat /\ s = [i \in 1 .. Len(s) |-> s[i]]
  BY SequenceIsTuple
<1>2. s \in [1 .. Len(s) -> T]
  BY <1>1
<1> QED
  BY <1>1, <1>2, TupleIsSequence

(* A sequence without its first element.                                   *)
LEMMA TailIsSequence ==
  ASSUME NEW S, NEW s \in Seq(S), Len(s) > 0
  PROVE  /\ Tail(s) \in Seq(S) /\ Len(Tail(s)) = Len(s) - 1
         /\ \A i \in 1 .. Len(s) - 1 : Tail(s)[i] = s[i + 1]
OBVIOUS

(* Sequences that agree at every position are the same.                    *)
LEMMA SameSequence ==
  ASSUME NEW S, NEW s \in Seq(S), NEW T, NEW t \in Seq(T), Len(s) = Len(t),
         \A i \in 1 .. Len(s) : s[i] = t[i]
  PROVE  s = t
<1>1. s = [i \in 1 .. Len(s) |-> s[i]] /\ t = [i \in 1 .. Len(t) |-> t[i]]
  BY SequenceIsTuple
<1> QED
  BY <1>1

(* Short sequences.                                                        *)
LEMMA PairType ==
  ASSUME NEW S, NEW a \in S, NEW b \in S
  PROVE  /\ <<a>> \in Seq(S) /\ Len(<<a>>) = 1 /\ <<a>>[1] = a
         /\ <<a, b>> \in Seq(S) /\ Len(<<a, b>>) = 2
         /\ <<a, b>>[1] = a /\ <<a, b>>[2] = b
OBVIOUS

(* The rest of a sequence of two.                                          *)
LEMMA SecondType ==
  ASSUME NEW S, NEW s \in Seq(S), Len(s) = 2
  PROVE  s[2] \in S /\ Tail(s) = <<s[2]>>
<1> DEFINE t == Tail(s)
           g == <<s[2]>>
<1>1. s[2] \in S
  OBVIOUS
<1>2. t \in Seq(S) /\ Len(t) = 1 /\ t[1] = s[2]
  <2>1. /\ t \in Seq(S) /\ Len(t) = Len(s) - 1
        /\ \A i \in 1 .. Len(s) - 1 : t[i] = s[i + 1]
    <3>1. Len(s) > 0
      OBVIOUS
    <3> QED
      BY <3>1, TailIsSequence
  <2> HIDE DEF t
  <2> QED
    BY <2>1
<1>3. g \in Seq(S) /\ Len(g) = 1 /\ g[1] = s[2]
  BY <1>1, PairType
<1> HIDE DEF t, g
<1>4. t = g
  <2>1. \A i \in 1 .. Len(t) : t[i] = g[i]
    BY <1>2, <1>3
  <2> QED
    BY <1>2, <1>3, <2>1, SameSequence
<1> QED
  BY <1>1, <1>4 DEF t, g

-----------------------------------------------------------------------------
(* The loops of Loops, turn by turn. *)

(* A function that holds what the loop has kept after each of m turns.     *)
Loop(s, I, g, m) ==
  /\ g[0] = <<>>
  /\ \A i \in 1 .. m : g[i] = IF i \in I THEN Append(g[i - 1], s[i]) ELSE g[i - 1]

(* A loop that keeps some elements of a sequence has its turns.            *)
LEMMA TurnsExist ==
  ASSUME NEW S, NEW s \in Seq(S), NEW I
  PROVE  \E g \in [0 .. Len(s) -> Seq(S)] : Loop(s, I, g, Len(s))
<1> DEFINE U == {m \in 0 .. Len(s) : ~ \E g \in [0 .. m -> Seq(S)] : Loop(s, I, g, m)}
<1>1. SUFFICES U = {}
  BY DEF U
<1>2. SUFFICES ASSUME U # {} PROVE FALSE
  OBVIOUS
<1>3. U \in SUBSET Nat
  OBVIOUS
<1>4. PICK m \in U : \A k \in U : m <= k
  <2> HIDE DEF U
  <2> QED BY <1>2, <1>3, LeastNatural
<1>5. m \in 0 .. Len(s) /\ ~ \E g \in [0 .. m -> Seq(S)] : Loop(s, I, g, m)
  BY DEF U
<1>6. CASE m = 0
  <2> DEFINE g == [i \in 0 .. 0 |-> <<>>]
  <2>1. g \in [0 .. 0 -> Seq(S)] /\ Loop(s, I, g, 0)
    BY DEF Loop
  <2> QED
    BY <1>5, <1>6, <2>1
<1>7. CASE m # 0
  <2>1. m - 1 \in 0 .. Len(s) /\ m - 1 \notin U
    <3>1. m - 1 \in 0 .. Len(s) /\ ~ (m <= m - 1)
      BY <1>5, <1>7
    <3> HIDE DEF U
    <3> QED BY <1>4, <3>1
  <2>2. PICK g \in [0 .. m - 1 -> Seq(S)] : Loop(s, I, g, m - 1)
    BY <2>1
  <2> DEFINE h == [i \in 0 .. m |-> IF i < m THEN g[i]
                                   ELSE IF m \in I THEN Append(g[m - 1], s[m]) ELSE g[m - 1]]
  <2>3. h \in [0 .. m -> Seq(S)]
    BY <1>5, <1>7, <2>2
  <2>4. Loop(s, I, h, m)
    <3>1. \A i \in 0 .. m - 1 : h[i] = g[i]
      BY <1>5
    <3>2. h[m] = IF m \in I THEN Append(h[m - 1], s[m]) ELSE h[m - 1]
      <4>1. m \in 0 .. m /\ ~ (m < m) /\ m - 1 \in 0 .. m - 1
        BY <1>5, <1>7
      <4>2. h[m] = IF m \in I THEN Append(g[m - 1], s[m]) ELSE g[m - 1]
        BY <4>1
      <4> HIDE DEF h
      <4> QED
        BY <3>1, <4>1, <4>2
    <3> HIDE DEF h
    <3>3. h[0] = <<>>
      BY <1>5, <1>7, <2>2, <3>1 DEF Loop
    <3>4. ASSUME NEW i \in 1 .. m, i # m
          PROVE  h[i] = IF i \in I THEN Append(h[i - 1], s[i]) ELSE h[i - 1]
      <4>1. i \in 1 .. m - 1 /\ i \in 0 .. m - 1 /\ i - 1 \in 0 .. m - 1
        BY <1>5, <3>4
      <4> QED
        BY <2>2, <3>1, <4>1 DEF Loop
    <3> QED
      BY <3>2, <3>3, <3>4 DEF Loop
  <2> QED
    BY <1>5, <2>3, <2>4
<1> QED
  BY <1>6, <1>7

(* What the loop keeps is what any such function holds at its end.         *)
LEMMA TurnsType ==
  ASSUME NEW S, NEW s \in Seq(S), NEW I
  PROVE  Turns(s, I) \in [0 .. Len(s) -> Seq(S)] /\ Loop(s, I, Turns(s, I), Len(s))
<1> DEFINE F(f) == [i \in 0 .. Len(s) |->
                      IF i = 0 THEN <<>>
                      ELSE IF i \in I THEN Append(f[i - 1], s[i]) ELSE f[i - 1]]
           t == Turns(s, I)
<1>1. PICK g \in [0 .. Len(s) -> Seq(S)] : Loop(s, I, g, Len(s))
  BY TurnsExist
<1>2. g = F(g)
  <2>1. F(g) = [i \in 0 .. Len(s) |-> g[i]]
    <3>1. Len(s) \in Nat
      OBVIOUS
    <3>2. ASSUME NEW i \in 0 .. Len(s) PROVE F(g)[i] = g[i]
      <4>1. CASE i = 0
        BY <1>1, <3>1, <4>1 DEF Loop
      <4>2. CASE i # 0
        <5>1. i \in 1 .. Len(s)
          BY <3>1, <4>2
        <5> QED
          BY <1>1, <4>2, <5>1 DEF Loop
      <4> QED
        BY <4>1, <4>2
    <3> QED
      BY <3>2
  <2> HIDE DEF F
  <2> QED
    BY <2>1
<1>3. t = CHOOSE f : f = F(f)
  BY DEF Turns
<1>4. t = F(t)
  <2> HIDE DEF F, t
  <2> QED BY <1>2, <1>3
<1>5. DOMAIN t = 0 .. Len(s)
  BY <1>4
<1>6. t[0] = <<>> /\ \A i \in 1 .. Len(s) : t[i] = IF i \in I THEN Append(t[i - 1], s[i]) ELSE t[i - 1]
  <2>1. \A i \in 0 .. Len(s) : t[i] = IF i = 0 THEN <<>>
                                     ELSE IF i \in I THEN Append(t[i - 1], s[i]) ELSE t[i - 1]
    <3> HIDE DEF t
    <3> QED BY <1>4
  <2> HIDE DEF t
  <2> QED
    BY <2>1
<1> DEFINE D == {i \in 0 .. Len(s) : t[i] # g[i]}
<1>7. D = {}
  <2> SUFFICES ASSUME D # {} PROVE FALSE
    OBVIOUS
  <2>1. D \in SUBSET Nat
    OBVIOUS
  <2>2. PICK i \in D : \A k \in D : i <= k
    <3> HIDE DEF D
    <3> QED BY <2>1, LeastNatural
  <2>3. i \in 0 .. Len(s) /\ t[i] # g[i]
    OBVIOUS
  <2> HIDE DEF t
  <2>4. i # 0
    BY <1>1, <1>6, <2>3 DEF Loop
  <2>5. i \in 1 .. Len(s) /\ i - 1 \in 0 .. Len(s) /\ ~ (i <= i - 1)
    BY <2>3, <2>4
  <2>6. t[i - 1] = g[i - 1]
    BY <2>2, <2>5
  <2> QED
    BY <1>1, <1>6, <2>3, <2>5, <2>6 DEF Loop
<1>8. t = g
  <2>1. \A i \in 0 .. Len(s) : t[i] = g[i]
    BY <1>7
  <2>2. t = [i \in 0 .. Len(s) |-> t[i]]
    <3> HIDE DEF t
    <3> QED BY <1>4
  <2> HIDE DEF t, D
  <2> QED
    BY <1>1, <2>1, <2>2
<1> QED
  BY <1>1, <1>8

(* q lists what s has at those of its first m positions that are in I, and *)
(* h says where each element was.                                          *)
Embeds(s, I, m, q, h) ==
  /\ h \in [1 .. Len(q) -> 1 .. m]
  /\ \A k \in 1 .. Len(q) : h[k] \in I /\ q[k] = s[h[k]]
  /\ \A k, l \in 1 .. Len(q) : k < l => h[k] < h[l]
  /\ \A i \in 1 .. m : i \in I => \E k \in 1 .. Len(q) : h[k] = i

(* What a loop has kept is embedded in what it has read, one turn on.      *)
LEMMA EmbedsGrow ==
  ASSUME NEW S, NEW s \in Seq(S), NEW I, NEW m \in 1 .. Len(s), NEW q \in Seq(S), NEW h,
         Embeds(s, I, m - 1, q, h)
  PROVE  \E g : Embeds(s, I, m, IF m \in I THEN Append(q, s[m]) ELSE q, g)
<1>1. m \in Nat /\ m - 1 \in Nat /\ Len(q) \in Nat /\ s[m] \in S
  OBVIOUS
<1>2. CASE m \notin I
  <2>1. h \in [1 .. Len(q) -> 1 .. m]
    BY <1>1 DEF Embeds
  <2>2. \A i \in 1 .. m : i \in I => i \in 1 .. m - 1
    BY <1>1, <1>2
  <2>3. Embeds(s, I, m, q, h)
    BY <2>1, <2>2 DEF Embeds
  <2> QED
    BY <1>2, <2>3
<1>3. CASE m \in I
  <2> DEFINE r == Append(q, s[m])
             g == [k \in 1 .. Len(q) + 1 |-> IF k = Len(q) + 1 THEN m ELSE h[k]]
  <2>1. Len(r) = Len(q) + 1 /\ r[Len(q) + 1] = s[m] /\ \A k \in 1 .. Len(q) : r[k] = q[k]
    BY <1>1
  <2>2. g[Len(q) + 1] = m /\ \A k \in 1 .. Len(q) : g[k] = h[k] /\ h[k] \in 1 .. m - 1
    BY <1>1 DEF Embeds
  <2>4. \A k \in 1 .. Len(q) + 1 : k = Len(q) + 1 \/ k \in 1 .. Len(q)
    BY <1>1
  <2>3. g \in [1 .. Len(q) + 1 -> 1 .. m]
    <3>1. \A k \in 1 .. Len(q) + 1 : (IF k = Len(q) + 1 THEN m ELSE h[k]) \in 1 .. m
      <4>1. m \in 1 .. m /\ \A k \in 1 .. Len(q) : h[k] \in 1 .. m
        BY <1>1 DEF Embeds
      <4> QED
        BY <2>4, <4>1
    <3> QED
      BY <3>1
  <2> HIDE DEF g, r
  <2>5. \A k \in 1 .. Len(r) : g[k] \in I /\ r[k] = s[g[k]]
    BY <1>3, <2>1, <2>2, <2>4 DEF Embeds
  <2>6. \A k, l \in 1 .. Len(r) : k < l => g[k] < g[l]
    <3> SUFFICES ASSUME NEW k \in 1 .. Len(r), NEW l \in 1 .. Len(r), k < l
                 PROVE  g[k] < g[l]
      OBVIOUS
    <3>1. k \in 1 .. Len(q)
      BY <1>1, <2>1
    <3>2. CASE l = Len(q) + 1
      BY <1>1, <2>2, <3>1, <3>2
    <3>3. CASE l \in 1 .. Len(q)
      BY <2>2, <3>1, <3>3 DEF Embeds
    <3> QED
      BY <2>1, <2>4, <3>2, <3>3
  <2>7. \A i \in 1 .. m : i \in I => \E k \in 1 .. Len(r) : g[k] = i
    <3> SUFFICES ASSUME NEW i \in 1 .. m, i \in I
                 PROVE  \E k \in 1 .. Len(r) : g[k] = i
      OBVIOUS
    <3>1. CASE i = m
      BY <1>1, <2>1, <2>2, <3>1
    <3>2. CASE i # m
      <4>1. i \in 1 .. m - 1
        BY <1>1, <3>2
      <4>2. PICK k \in 1 .. Len(q) : h[k] = i
        BY <4>1 DEF Embeds
      <4> QED
        BY <1>1, <2>1, <2>2, <4>2
    <3> QED
      BY <3>1, <3>2
  <2>8. Embeds(s, I, m, r, g)
    BY <2>1, <2>3, <2>5, <2>6, <2>7 DEF Embeds
  <2> QED
    BY <1>3, <2>8 DEF r
<1> QED
  BY <1>2, <1>3

(* KeepAt keeps the elements at the positions it is given, all of them, in *)
(* their order.                                                            *)
LEMMA KeepAtEmbeds ==
  ASSUME NEW S, NEW s \in Seq(S), NEW I
  PROVE  /\ KeepAt(s, I) \in Seq(S)
         /\ \E h : Embeds(s, I, Len(s), KeepAt(s, I), h)
<1> DEFINE t == Turns(s, I)
           U == {m \in 0 .. Len(s) : ~ \E h : Embeds(s, I, m, t[m], h)}
<1>1. t \in [0 .. Len(s) -> Seq(S)] /\ Loop(s, I, t, Len(s)) /\ Len(s) \in Nat
  BY TurnsType
<1> HIDE DEF t
<1>2. U = {}
  <2> SUFFICES ASSUME U # {} PROVE FALSE
    OBVIOUS
  <2>1. U \in SUBSET Nat
    OBVIOUS
  <2>2. PICK m \in U : \A k \in U : m <= k
    <3> HIDE DEF U
    <3> QED BY <2>1, LeastNatural
  <2>3. m \in 0 .. Len(s) /\ ~ \E h : Embeds(s, I, m, t[m], h)
    OBVIOUS
  <2>4. CASE m = 0
    <3>1. t[m] = <<>>
      BY <1>1, <2>4 DEF Loop
    <3>2. Embeds(s, I, 0, <<>>, [k \in 1 .. 0 |-> 0])
      BY DEF Embeds
    <3> QED
      BY <2>3, <2>4, <3>1, <3>2
  <2>5. CASE m # 0
    <3>1. m \in 1 .. Len(s) /\ m - 1 \in 0 .. Len(s) /\ ~ (m <= m - 1)
      BY <1>1, <2>3, <2>5
    <3>2. m - 1 \notin U
      <4> HIDE DEF U
      <4> QED BY <2>2, <3>1
    <3>3. PICK h : Embeds(s, I, m - 1, t[m - 1], h)
      BY <3>1, <3>2
    <3>4. t[m] = IF m \in I THEN Append(t[m - 1], s[m]) ELSE t[m - 1]
      BY <1>1, <3>1 DEF Loop
    <3>5. t[m - 1] \in Seq(S)
      BY <1>1, <3>1
    <3> QED
      BY <2>3, <3>1, <3>3, <3>4, <3>5, EmbedsGrow
  <2> QED
    BY <2>4, <2>5
<1>3. Len(s) \in 0 .. Len(s)
  BY <1>1
<1>4. PICK h : Embeds(s, I, Len(s), t[Len(s)], h)
  BY <1>2, <1>3
<1> QED
  BY <1>1, <1>3, <1>4 DEF KeepAt, t

-----------------------------------------------------------------------------
Summing(s, g, m) == g[0] = 0 /\ \A n \in 1 .. m : g[n] = g[n - 1] + s[Len(s) - n + 1]

(* The partial sums of a sequence of numbers exist.                        *)
LEMMA SumsExist ==
  ASSUME NEW s \in Seq(Nat)
  PROVE  \E g \in [0 .. Len(s) -> Nat] : Summing(s, g, Len(s))
<1> DEFINE U == {m \in 0 .. Len(s) : ~ \E g \in [0 .. m -> Nat] : Summing(s, g, m)}
<1>1. SUFFICES ASSUME U # {} PROVE FALSE
  BY DEF U
<1>2. U \in SUBSET Nat
  OBVIOUS
<1>3. PICK m \in U : \A k \in U : m <= k
  <2> HIDE DEF U
  <2> QED BY <1>1, <1>2, LeastNatural
<1>4. m \in 0 .. Len(s) /\ ~ \E g \in [0 .. m -> Nat] : Summing(s, g, m)
  BY DEF U
<1>5. CASE m = 0
  <2> DEFINE g == [i \in 0 .. 0 |-> 0]
  <2>1. g \in [0 .. 0 -> Nat] /\ Summing(s, g, 0)
    BY DEF Summing
  <2> QED
    BY <1>4, <1>5, <2>1
<1>6. CASE m # 0
  <2>1. m - 1 \in 0 .. Len(s) /\ ~ (m <= m - 1)
    BY <1>4, <1>6
  <2>2. m - 1 \notin U
    <3> HIDE DEF U
    <3> QED BY <1>3, <2>1
  <2>3. PICK g \in [0 .. m - 1 -> Nat] : Summing(s, g, m - 1)
    BY <2>1, <2>2
  <2> DEFINE v == g[m - 1] + s[Len(s) - m + 1]
             h == [i \in 0 .. m |-> IF i < m THEN g[i] ELSE v]
  <2>4. v \in Nat
    BY <1>4, <1>6, <2>3
  <2>5. h \in [0 .. m -> Nat]
    <3> HIDE DEF v
    <3> QED BY <1>4, <1>6, <2>3, <2>4
  <2>6. /\ \A i \in 0 .. m - 1 : h[i] = g[i]
        /\ h[m] = v
    BY <1>4
  <2> HIDE DEF h
  <2>7. h[0] = 0 /\ h[m] = h[m - 1] + s[Len(s) - m + 1]
    BY <1>4, <1>6, <2>3, <2>6 DEF Summing
  <2>8. ASSUME NEW i \in 1 .. m, i # m
        PROVE  h[i] = h[i - 1] + s[Len(s) - i + 1]
    <3>1. i \in 1 .. m - 1 /\ i \in 0 .. m - 1 /\ i - 1 \in 0 .. m - 1
      BY <1>4, <2>8
    <3> QED
      BY <2>3, <2>6, <3>1 DEF Summing
  <2>9. Summing(s, h, m)
    BY <2>7, <2>8 DEF Summing
  <2> QED
    BY <1>4, <2>5, <2>9
<1> QED
  BY <1>5, <1>6

(* The partial sums are numbers and obey their equations.                  *)
LEMMA SumsType ==
  ASSUME NEW s \in Seq(Nat)
  PROVE  Sums(s) \in [0 .. Len(s) -> Nat] /\ Summing(s, Sums(s), Len(s))
<1> DEFINE F(f) == [n \in 0 .. Len(s) |-> IF n = 0 THEN 0 ELSE f[n - 1] + s[Len(s) - n + 1]]
           t == Sums(s)
<1>0. Len(s) \in Nat
  OBVIOUS
<1>1. PICK g \in [0 .. Len(s) -> Nat] : Summing(s, g, Len(s))
  BY SumsExist
<1>2. g = F(g)
  <2>1. ASSUME NEW i \in 0 .. Len(s) PROVE F(g)[i] = g[i]
    <3>1. CASE i = 0
      BY <1>0, <1>1, <3>1 DEF Summing
    <3>2. CASE i # 0
      <4>1. i \in 1 .. Len(s)
        BY <1>0, <3>2
      <4> QED
        BY <1>1, <3>2, <4>1 DEF Summing
    <3> QED
      BY <3>1, <3>2
  <2>2. F(g) = [i \in 0 .. Len(s) |-> g[i]]
    BY <2>1
  <2> HIDE DEF F
  <2> QED
    BY <2>2
<1>3. t = CHOOSE f : f = F(f)
  BY DEF Sums
<1>4. t = F(t)
  <2> HIDE DEF F, t
  <2> QED BY <1>2, <1>3
<1>5. \A n \in 0 .. Len(s) : t[n] = IF n = 0 THEN 0 ELSE t[n - 1] + s[Len(s) - n + 1]
  <2> HIDE DEF t
  <2> QED BY <1>4
<1> DEFINE D == {i \in 0 .. Len(s) : t[i] # g[i]}
<1>6. D = {}
  <2> SUFFICES ASSUME D # {} PROVE FALSE
    OBVIOUS
  <2>1. D \in SUBSET Nat
    OBVIOUS
  <2>2. PICK i \in D : \A k \in D : i <= k
    <3> HIDE DEF D
    <3> QED BY <2>1, LeastNatural
  <2>3. i \in 0 .. Len(s) /\ t[i] # g[i]
    OBVIOUS
  <2> HIDE DEF t
  <2>4. i # 0
    BY <1>0, <1>1, <1>5, <2>3 DEF Summing
  <2>5. i \in 1 .. Len(s) /\ i - 1 \in 0 .. Len(s) /\ ~ (i <= i - 1)
    BY <2>3, <2>4
  <2>6. t[i - 1] = g[i - 1]
    BY <2>2, <2>5
  <2>7. t[i] = t[i - 1] + s[Len(s) - i + 1]
    BY <1>5, <2>3, <2>4
  <2>8. g[i] = g[i - 1] + s[Len(s) - i + 1]
    BY <1>1, <2>5 DEF Summing
  <2> QED
    BY <2>3, <2>6, <2>7, <2>8
<1>7. t = g
  <2>1. \A i \in 0 .. Len(s) : t[i] = g[i]
    BY <1>6
  <2>2. t = [i \in 0 .. Len(s) |-> t[i]]
    <3> HIDE DEF t
    <3> QED BY <1>4
  <2> HIDE DEF t, D
  <2> QED
    BY <1>1, <2>1, <2>2
<1> QED
  BY <1>1, <1>7

(* The sum of the last n numbers grows with n.                             *)
LEMMA SumOfLastType ==
  ASSUME NEW s \in Seq(Nat)
  PROVE  /\ \A n \in 0 .. Len(s) : SumOfLast(s, n) \in Nat
         /\ SumOfLast(s, 0) = 0
         /\ \A n \in 1 .. Len(s) : /\ SumOfLast(s, n) = SumOfLast(s, n - 1) + s[Len(s) - n + 1]
                                   /\ SumOfLast(s, n - 1) <= SumOfLast(s, n)
<1>1. Sums(s) \in [0 .. Len(s) -> Nat] /\ Summing(s, Sums(s), Len(s)) /\ Len(s) \in Nat
  BY SumsType
<1>2. ASSUME NEW n \in 1 .. Len(s)
      PROVE  /\ SumOfLast(s, n) = SumOfLast(s, n - 1) + s[Len(s) - n + 1]
             /\ SumOfLast(s, n - 1) <= SumOfLast(s, n)
  <2>1. n - 1 \in 0 .. Len(s) /\ Len(s) - n + 1 \in 1 .. Len(s)
    BY <1>1
  <2>2. Sums(s)[n - 1] \in Nat /\ s[Len(s) - n + 1] \in Nat
    BY <1>1, <2>1
  <2> QED
    BY <1>1, <2>2 DEF Summing, SumOfLast
<1> QED
  BY <1>1, <1>2 DEF Summing, SumOfLast

(* Two sequences that end alike have the same sums.                        *)
LEMMA SumOfLastAlike ==
  ASSUME NEW r \in Seq(Nat), NEW s \in Seq(Nat), NEW n \in 0 .. Len(r), n <= Len(s),
         \A k \in 1 .. n : r[Len(r) - k + 1] = s[Len(s) - k + 1]
  PROVE  SumOfLast(r, n) = SumOfLast(s, n)
<1> DEFINE U == {m \in 0 .. n : SumOfLast(r, m) # SumOfLast(s, m)}
<1>1. U = {}
  <2> SUFFICES ASSUME U # {} PROVE FALSE
    OBVIOUS
  <2>1. U \in SUBSET Nat
    OBVIOUS
  <2>2. PICK m \in U : \A k \in U : m <= k
    <3> HIDE DEF U
    <3> QED BY <2>1, LeastNatural
  <2>3. m \in 0 .. n /\ SumOfLast(r, m) # SumOfLast(s, m)
    OBVIOUS
  <2>4. m # 0
    BY <2>3, SumOfLastType
  <2>5. m \in 1 .. n /\ m - 1 \in 0 .. n /\ ~ (m <= m - 1)
    BY <2>3, <2>4
  <2>6. SumOfLast(r, m - 1) = SumOfLast(s, m - 1)
    BY <2>2, <2>5
  <2>7. m \in 1 .. Len(r) /\ m \in 1 .. Len(s)
    BY <2>5
  <2> HIDE DEF U
  <2> QED
    BY <2>3, <2>5, <2>6, <2>7, SumOfLastType
<1>2. n \in 0 .. n
  OBVIOUS
<1> QED
  BY <1>1, <1>2

(* The sums grow with what they take.                                      *)
LEMMA SumOfLastGrows ==
  ASSUME NEW s \in Seq(Nat), NEW n \in 0 .. Len(s), NEW m \in 0 .. n
  PROVE  SumOfLast(s, m) <= SumOfLast(s, n)
<1> DEFINE U == {k \in 0 .. Len(s) : m <= k /\ ~ (SumOfLast(s, m) <= SumOfLast(s, k))}
<1>0. Len(s) \in Nat /\ n \in Nat /\ m \in Nat /\ m <= n /\ m \in 0 .. Len(s)
  OBVIOUS
<1>1. U = {}
  <2> SUFFICES ASSUME U # {} PROVE FALSE
    OBVIOUS
  <2>1. U \in SUBSET Nat
    OBVIOUS
  <2>2. PICK k \in U : \A j \in U : k <= j
    <3> HIDE DEF U
    <3> QED BY <2>1, LeastNatural
  <2>3. k \in 0 .. Len(s) /\ m <= k /\ ~ (SumOfLast(s, m) <= SumOfLast(s, k))
    OBVIOUS
  <2>4. SumOfLast(s, m) \in Nat /\ SumOfLast(s, k) \in Nat
    BY <1>0, <2>3, SumOfLastType
  <2>5. k # m
    BY <2>3, <2>4
  <2>6. k \in 1 .. Len(s) /\ k - 1 \in 0 .. Len(s) /\ m <= k - 1 /\ ~ (k <= k - 1)
    BY <1>0, <2>3, <2>5
  <2>7. SumOfLast(s, m) <= SumOfLast(s, k - 1)
    BY <2>2, <2>6
  <2>8. SumOfLast(s, k - 1) <= SumOfLast(s, k) /\ SumOfLast(s, k - 1) \in Nat
    BY <2>6, SumOfLastType
  <2> HIDE DEF U
  <2> QED
    BY <2>3, <2>4, <2>7, <2>8
<1> QED
  BY <1>0, <1>1

(* The sum of a beginning of a sequence is the sum of the one that is one  *)
(* shorter and the number it lacks.                                        *)
LEMMA SumOfBeginning ==
  ASSUME NEW s \in Seq(Nat), NEW k \in 1 .. Len(s), NEW n \in 0 .. k - 1
  PROVE  SumOfLast(SubSeq(s, 1, k), n + 1) = s[k] + SumOfLast(SubSeq(s, 1, k - 1), n)
<1> DEFINE r == SubSeq(s, 1, k)
           q == SubSeq(s, 1, k - 1)
           U == {m \in 0 .. k - 1 : SumOfLast(r, m + 1) # s[k] + SumOfLast(q, m)}
<1>0. \A i \in 1 .. k : s[i] \in Nat
  OBVIOUS
<1>1. /\ r \in Seq(Nat) /\ Len(r) = k /\ q \in Seq(Nat) /\ Len(q) = k - 1 /\ k \in Nat
      /\ \A i \in 1 .. k : r[i] = s[i]
      /\ \A i \in 1 .. k - 1 : q[i] = s[i]
      /\ s[k] \in Nat
  OBVIOUS
<1> HIDE DEF r, q
<1>2. U = {}
  <2> SUFFICES ASSUME U # {} PROVE FALSE
    OBVIOUS
  <2>1. U \in SUBSET Nat
    OBVIOUS
  <2>2. PICK m \in U : \A j \in U : m <= j
    <3> HIDE DEF U
    <3> QED BY <2>1, LeastNatural
  <2>3. m \in 0 .. k - 1 /\ SumOfLast(r, m + 1) # s[k] + SumOfLast(q, m)
    OBVIOUS
  <2> DEFINE n1 == m + 1
             x == r[k - m]
             y == SumOfLast(q, m - 1)
             z == SumOfLast(r, m)
  <2>4. n1 \in 1 .. Len(r) /\ Len(r) - n1 + 1 = k - m /\ k - m \in 1 .. k /\ n1 - 1 = m
        /\ m \in 0 .. Len(r) /\ m \in Int
    BY <1>1, <2>3
  <2>5. SumOfLast(r, n1) = SumOfLast(r, n1 - 1) + r[Len(r) - n1 + 1]
    <3> HIDE DEF n1
    <3> QED BY <1>1, <2>4, SumOfLastType
  <2>6. SumOfLast(r, n1) = z + x
    <3> HIDE DEF n1
    <3> QED BY <2>4, <2>5
  <2>7. z \in Nat
    BY <1>1, <2>4, SumOfLastType
  <2>8. SumOfLast(r, n1) # s[k] + SumOfLast(q, m)
    BY <2>3
  <2> HIDE DEF n1
  <2>9. CASE m = 0
    <3>1. z = 0 /\ SumOfLast(q, m) = 0
      BY <1>1, <2>9, SumOfLastType
    <3>2. x = s[k]
      BY <1>1, <2>4, <2>9
    <3> HIDE DEF x, z
    <3> QED
      BY <1>1, <2>6, <2>8, <3>1, <3>2
  <2>10. CASE m # 0
    <3>1. m \in 1 .. Len(q) /\ m - 1 \in 0 .. k - 1 /\ ~ (m <= m - 1) /\ m - 1 + 1 = m
          /\ Len(q) - m + 1 = k - m /\ k - m \in 1 .. k - 1 /\ m - 1 \in 0 .. Len(q)
      BY <1>1, <2>3, <2>10
    <3>2. m - 1 \notin U
      <4> HIDE DEF U
      <4> QED BY <2>2, <3>1
    <3>3. SumOfLast(r, m - 1 + 1) = s[k] + y
      BY <3>1, <3>2
    <3>4. z = s[k] + y
      BY <3>1, <3>3
    <3>5. SumOfLast(q, m) = y + q[Len(q) - m + 1]
      BY <1>1, <3>1, SumOfLastType
    <3>6. q[Len(q) - m + 1] = q[k - m]
      BY <3>1
    <3>7. q[k - m] = s[k - m]
      BY <1>1, <3>1
    <3>8. x = s[k - m]
      BY <1>1, <2>4
    <3>9. s[k - m] \in Nat
      <4> HIDE DEF U
      <4> QED BY ONLY <1>0, <2>4
    <3>10. y \in Nat
      BY <1>1, <3>1, SumOfLastType
    <3>11. SumOfLast(q, m) = y + x
      BY <3>5, <3>6, <3>7, <3>8
    <3>12. x \in Nat
      BY <3>8, <3>9
    <3>13. s[k] \in Nat
      BY <1>1
    <3> HIDE DEF x, y, z
    <3>14. z + x = s[k] + (y + x)
      BY ONLY <3>4, <3>10, <3>12, <3>13
    <3> QED
      BY ONLY <2>6, <2>8, <3>11, <3>14
  <2> QED
    BY <2>9, <2>10
<1> QED
  BY <1>2 DEF r, q

(* A beginning sums to no more than the whole, and there is room in the    *)
(* sum of the whole for the number after it.                               *)
LEMMA BeginningsFit ==
  ASSUME NEW s \in Seq(Nat), NEW i \in 1 .. Len(s)
  PROVE  /\ SumOfLast(SubSeq(s, 1, i - 1), i - 1) \in Nat
         /\ SumOfLast(SubSeq(s, 1, i - 1), i - 1) + s[i] <= SumOfLast(s, Len(s))
<1> DEFINE b(k) == SumOfLast(SubSeq(s, 1, k), k)
           U == {k \in 0 .. Len(s) : i <= k /\ ~ (b(i - 1) + s[i] <= b(k))}
<1>1. ASSUME NEW k \in 0 .. Len(s) PROVE b(k) \in Nat
  <2>1. SubSeq(s, 1, k) \in Seq(Nat) /\ Len(SubSeq(s, 1, k)) = k /\ k \in 0 .. k
    OBVIOUS
  <2> QED
    BY <2>1, SumOfLastType
<1>2. ASSUME NEW k \in 1 .. Len(s) PROVE b(k) = s[k] + b(k - 1)
  <2>1. k - 1 \in 0 .. k - 1 /\ k - 1 + 1 = k
    OBVIOUS
  <2> QED
    BY <2>1, SumOfBeginning
<1>3. Len(s) \in Nat /\ i \in Nat /\ i - 1 \in 0 .. Len(s) /\ s[i] \in Nat
  OBVIOUS
<1> HIDE DEF b
<1>4. U = {}
  <2> SUFFICES ASSUME U # {} PROVE FALSE
    OBVIOUS
  <2>1. U \in SUBSET Nat
    OBVIOUS
  <2>2. PICK k \in U : \A j \in U : k <= j
    <3> HIDE DEF U
    <3> QED BY <2>1, LeastNatural
  <2>3. k \in 0 .. Len(s) /\ i <= k /\ ~ (b(i - 1) + s[i] <= b(k))
    OBVIOUS
  <2>4. k \in 1 .. Len(s) /\ k - 1 \in 0 .. Len(s) /\ ~ (k <= k - 1) /\ s[k] \in Nat
    BY <1>3, <2>3
  <2>5. b(k) = s[k] + b(k - 1) /\ b(k) \in Nat /\ b(k - 1) \in Nat /\ b(i - 1) \in Nat
    BY <1>1, <1>2, <1>3, <2>4
  <2>6. k # i
    BY <1>3, <2>3, <2>5
  <2>7. k - 1 \notin U
    <3> HIDE DEF U
    <3> QED BY <2>2, <2>4
  <2>8. b(i - 1) + s[i] <= b(k - 1)
    BY <1>3, <2>3, <2>4, <2>6, <2>7
  <2>9. s[i] \in Nat /\ s[k] \in Nat /\ ~ (b(i - 1) + s[i] <= b(k))
    BY <1>3, <2>3, <2>4
  <2>10. \A v, w, z, x, y \in Nat : v + x <= w /\ z = y + w => v + x <= z
    OBVIOUS
  <2> DEFINE v == b(i - 1)
             w == b(k - 1)
             z == b(k)
             x == s[i]
             y == s[k]
  <2>11. v \in Nat /\ w \in Nat /\ z \in Nat /\ x \in Nat /\ y \in Nat /\ z = y + w
         /\ v + x <= w /\ ~ (v + x <= z)
    BY ONLY <2>5, <2>8, <2>9
  <2> HIDE DEF v, w, z, x, y
  <2> QED
    BY ONLY <2>10, <2>11
<1>5. Len(s) \in 0 .. Len(s) /\ i <= Len(s)
  BY <1>3
<1>6. b(i - 1) + s[i] <= b(Len(s)) /\ b(i - 1) \in Nat
  BY <1>1, <1>3, <1>4, <1>5
<1>7. SubSeq(s, 1, Len(s)) = s
  OBVIOUS
<1> QED
  BY <1>6, <1>7 DEF b

-----------------------------------------------------------------------------
(* A loop that keeps every element keeps the sequence.                     *)
LEMMA KeepAtAll ==
  ASSUME NEW S, NEW s \in Seq(S), NEW I, 1 .. Len(s) \subseteq I
  PROVE  KeepAt(s, I) = s
<1> DEFINE t == Turns(s, I)
           U == {m \in 0 .. Len(s) : t[m] # SubSeq(s, 1, m)}
<1>1. t \in [0 .. Len(s) -> Seq(S)] /\ Loop(s, I, t, Len(s)) /\ Len(s) \in Nat
  BY TurnsType
<1> HIDE DEF t
<1>2. U = {}
  <2> SUFFICES ASSUME U # {} PROVE FALSE
    OBVIOUS
  <2>1. U \in SUBSET Nat
    OBVIOUS
  <2>2. PICK m \in U : \A j \in U : m <= j
    <3> HIDE DEF U
    <3> QED BY <2>1, LeastNatural
  <2>3. m \in 0 .. Len(s) /\ t[m] # SubSeq(s, 1, m)
    OBVIOUS
  <2>4. m # 0
    BY <1>1, <2>3 DEF Loop
  <2>5. m \in 1 .. Len(s) /\ m - 1 \in 0 .. Len(s) /\ ~ (m <= m - 1)
    BY <1>1, <2>3, <2>4
  <2>6. t[m - 1] = SubSeq(s, 1, m - 1)
    BY <2>2, <2>5
  <2>7. t[m] = Append(SubSeq(s, 1, m - 1), s[m])
    BY <1>1, <2>5, <2>6 DEF Loop
  <2>8. Append(SubSeq(s, 1, m - 1), s[m]) = SubSeq(s, 1, m)
    BY <2>5
  <2> QED
    BY <2>3, <2>7, <2>8
<1>3. t[Len(s)] = SubSeq(s, 1, Len(s))
  BY <1>1, <1>2
<1>4. SubSeq(s, 1, Len(s)) = s
  OBVIOUS
<1> QED
  BY <1>3, <1>4 DEF KeepAt, t

(* A loop that keeps the last element ends with it.                        *)
LEMMA KeepAtLast ==
  ASSUME NEW S, NEW s \in Seq(S), NEW I, Len(s) > 0, Len(s) \in I
  PROVE  /\ Len(KeepAt(s, I)) > 0
         /\ KeepAt(s, I)[Len(KeepAt(s, I))] = s[Len(s)]
<1> DEFINE t == Turns(s, I)
           n == Len(s)
<1>1. t \in [0 .. n -> Seq(S)] /\ Loop(s, I, t, n) /\ n \in Nat /\ n > 0
  BY TurnsType
<1> HIDE DEF t
<1>2. n \in 1 .. n /\ n - 1 \in 0 .. n /\ s[n] \in S
  BY <1>1
<1> HIDE DEF n
<1>3. t[n] = Append(t[n - 1], s[n]) /\ t[n - 1] \in Seq(S)
  <2>1. n \in I
    BY DEF n
  <2> QED
    BY <1>1, <1>2, <2>1 DEF Loop
<1>4. Len(Append(t[n - 1], s[n])) > 0
      /\ Append(t[n - 1], s[n])[Len(Append(t[n - 1], s[n]))] = s[n]
  BY <1>2, <1>3
<1> QED
  BY <1>3, <1>4 DEF KeepAt, t, n

-----------------------------------------------------------------------------
(* g holds the states of a loop, in which a step is a function.            *)
Steps(g, start, step, m) == g[0] = start /\ \A i \in 1 .. m : g[i] = step[i][g[i - 1]]

(* A loop that takes one state to the next at each turn has its turns.     *)
LEMMA StatesExist ==
  ASSUME NEW S, NEW n \in Nat, NEW start \in S, NEW step \in [1 .. n -> [S -> S]]
  PROVE  \E g \in [0 .. n -> S] : Steps(g, start, step, n)
<1> DEFINE Goes(g, m) == Steps(g, start, step, m)
           U == {m \in 0 .. n : ~ \E g \in [0 .. m -> S] : Goes(g, m)}
<1>1. SUFFICES ASSUME U # {} PROVE FALSE
  <2>1. n \in 0 .. n
    OBVIOUS
  <2> QED
    BY <2>1
<1>2. U \in SUBSET Nat
  OBVIOUS
<1>3. PICK m \in U : \A k \in U : m <= k
  <2> HIDE DEF U
  <2> QED BY <1>1, <1>2, LeastNatural
<1>4. m \in 0 .. n /\ ~ \E g \in [0 .. m -> S] : Goes(g, m)
  OBVIOUS
<1>5. CASE m = 0
  <2> DEFINE g == [i \in 0 .. 0 |-> start]
  <2>1. g \in [0 .. 0 -> S] /\ Goes(g, 0)
    BY DEF Steps
  <2> QED
    BY <1>4, <1>5, <2>1
<1>6. CASE m # 0
  <2>1. m - 1 \in 0 .. n /\ ~ (m <= m - 1) /\ m \in 1 .. n
    BY <1>4, <1>6
  <2>2. m - 1 \notin U
    <3> HIDE DEF U
    <3> QED BY <1>3, <2>1
  <2>3. PICK g \in [0 .. m - 1 -> S] : Goes(g, m - 1)
    BY <2>1, <2>2
  <2> DEFINE v == step[m][g[m - 1]]
             h == [i \in 0 .. m |-> IF i < m THEN g[i] ELSE v]
  <2>4. v \in S
    <3>1. g[m - 1] \in S
      BY <2>1, <2>3
    <3> QED
      BY <2>1, <3>1
  <2>5. h \in [0 .. m -> S]
    <3> HIDE DEF v
    <3> QED BY <1>4, <1>6, <2>3, <2>4
  <2>6. (\A i \in 0 .. m - 1 : h[i] = g[i]) /\ h[m] = v
    BY <1>4
  <2> HIDE DEF h
  <2>7. h[m] = step[m][h[m - 1]]
    <3>1. m - 1 \in 0 .. m - 1
      BY <1>4, <1>6
    <3>2. h[m - 1] = g[m - 1]
      BY <2>6, <3>1
    <3> QED
      BY <2>6, <3>2
  <2>8. h[0] = start
    BY <1>4, <1>6, <2>3, <2>6 DEF Steps
  <2>9. ASSUME NEW i \in 1 .. m, i # m PROVE h[i] = step[i][h[i - 1]]
    <3>1. i \in 1 .. m - 1 /\ i \in 0 .. m - 1 /\ i - 1 \in 0 .. m - 1
      BY <1>4, <2>9
    <3> QED
      BY <2>3, <2>6, <3>1 DEF Steps
  <2>10. Goes(h, m)
    BY <2>7, <2>8, <2>9 DEF Steps
  <2> QED
    BY <1>4, <2>5, <2>10
<1> QED
  BY <1>5, <1>6

(* A set of numbers has one that none precedes, in any order.              *)
LEMMA FirstInOrder ==
  ASSUME NEW n \in Nat, NEW T \in SUBSET (1 .. n), T # {}, NEW R,
         \A a, b, c \in T : <<a, b>> \in R /\ <<b, c>> \in R => <<a, c>> \in R,
         \A a \in T : <<a, a>> \notin R
  PROVE  \E a \in T : \A b \in T : <<b, a>> \notin R
<1> DEFINE First(m, a) == a \in T /\ a <= m /\ \A b \in T : b <= m => <<b, a>> \notin R
           U == {m \in 0 .. n : (\E a \in T : a <= m) /\ ~ \E a \in T : First(m, a)}
<1>1. U = {}
  <2> SUFFICES ASSUME U # {} PROVE FALSE
    OBVIOUS
  <2>1. U \in SUBSET Nat
    OBVIOUS
  <2>2. PICK m \in U : \A k \in U : m <= k
    <3> HIDE DEF U
    <3> QED BY <2>1, LeastNatural
  <2>3. m \in 0 .. n /\ (\E a \in T : a <= m) /\ ~ \E a \in T : First(m, a)
    OBVIOUS
  <2>4. m # 0
    BY <2>3
  <2>5. m - 1 \in 0 .. n /\ ~ (m <= m - 1)
    BY <2>3, <2>4
  <2>6. m - 1 \notin U
    <3> HIDE DEF U
    <3> QED BY <2>2, <2>5
  <2>7. CASE \E a \in T : a <= m - 1
    <3>1. PICK a \in T : First(m - 1, a)
      BY <2>5, <2>6, <2>7
    <3>2. CASE m \in T /\ <<m, a>> \in R
      <4>1. ASSUME NEW b \in T, b <= m PROVE <<b, m>> \notin R
        <5>1. CASE b = m
          BY <5>1
        <5>2. CASE b # m
          <6>1. <<b, a>> \notin R
            BY <3>1, <4>1, <5>2, <2>3
          <6> QED
            BY <3>2, <6>1
        <5> QED
          BY <5>1, <5>2
      <4>2. First(m, m)
        BY <2>3, <3>2, <4>1
      <4> QED
        BY <2>3, <3>2, <4>2
    <3>3. CASE ~ (m \in T /\ <<m, a>> \in R)
      <4>1. ASSUME NEW b \in T, b <= m PROVE <<b, a>> \notin R
        <5>1. CASE b = m
          BY <3>3, <5>1
        <5>2. CASE b # m
          <6>1. b <= m - 1
            BY <2>3, <4>1, <5>2
          <6> QED
            BY <3>1, <6>1
        <5> QED
          BY <5>1, <5>2
      <4>2. a <= m
        BY <2>3, <3>1
      <4> QED
        BY <2>3, <4>1, <4>2
    <3> QED
      BY <3>2, <3>3
  <2>8. CASE ~ \E a \in T : a <= m - 1
    <3>1. ASSUME NEW a \in T, a <= m PROVE a = m
      <4>1. ~ (a <= m - 1) /\ a \in Nat /\ m \in Nat
        BY <2>3, <2>8
      <4> QED
        BY <3>1, <4>1
    <3>2. m \in T /\ First(m, m)
      BY <2>3, <3>1
    <3> QED
      BY <2>3, <3>2
  <2> QED
    BY <2>7, <2>8
<1>2. n \in 0 .. n /\ \E a \in T : a <= n
  <2>1. PICK a \in T : TRUE
    OBVIOUS
  <2>2. a <= n /\ n \in 0 .. n
    BY <2>1
  <2> QED
    BY <2>2
<1>3. PICK a \in T : First(n, a)
  BY <1>1, <1>2
<1>4. \A b \in T : b <= n
  OBVIOUS
<1> QED
  BY <1>3, <1>4

-----------------------------------------------------------------------------
(* Walks over positions. *)

(* The walk goes ahead.                                                    *)
Ahead(n, stops, next) == \A k \in (1 .. n) \ stops : next[k] \in k + 1 .. n + 1

(* Where a step goes.                                                      *)
LEMMA AheadType ==
  ASSUME NEW n \in Nat, NEW stops, NEW next, Ahead(n, stops, next),
         NEW k \in 1 .. n + 1, k <= n, k \notin stops
  PROVE  /\ next[k] \in 1 .. n + 1 /\ next[k] \in Nat
         /\ next[k] > k /\ next[k] # k /\ ~ (next[k] <= k)
<1>1. k \in (1 .. n) \ stops
  OBVIOUS
<1>2. next[k] \in k + 1 .. n + 1
  BY <1>1 DEF Ahead
<1> DEFINE x == next[k]
<1>3. x \in k + 1 .. n + 1
  BY <1>2
<1> HIDE DEF x
<1>4. x \in 1 .. n + 1 /\ x \in Nat /\ x > k /\ x # k /\ ~ (x <= k)
  BY <1>3
<1> QED
  BY <1>4 DEF x

(* A walk that goes ahead ends wherever it begins.                         *)
LEMMA WalksExist ==
  ASSUME NEW n \in Nat, NEW stops, NEW next, Ahead(n, stops, next)
  PROVE  \E g \in [1 .. n + 1 -> 1 .. n + 1] :
           \A k \in 1 .. n + 1 : g[k] = IF k > n \/ k \in stops THEN k ELSE g[next[k]]
<1> DEFINE Ends(g, k) == g[k] = IF k > n \/ k \in stops THEN k ELSE g[next[k]]
           U == {m \in 0 .. n : ~ \E g \in [1 .. n + 1 -> 1 .. n + 1] :
                                   \A k \in n + 1 - m .. n + 1 : Ends(g, k)}
<1>1. U = {}
  <2> SUFFICES ASSUME U # {} PROVE FALSE
    OBVIOUS
  <2>1. U \in SUBSET Nat
    OBVIOUS
  <2>2. PICK m \in U : \A j \in U : m <= j
    <3> HIDE DEF U
    <3> QED BY <2>1, LeastNatural
  <2>3. m \in 0 .. n /\ ~ \E g \in [1 .. n + 1 -> 1 .. n + 1] :
                             \A k \in n + 1 - m .. n + 1 : Ends(g, k)
    OBVIOUS
  <2>4. CASE m = 0
    <3> DEFINE g == [k \in 1 .. n + 1 |-> k]
    <3>1. g \in [1 .. n + 1 -> 1 .. n + 1]
      OBVIOUS
    <3>2. \A k \in n + 1 - m .. n + 1 : Ends(g, k)
      <4> SUFFICES ASSUME NEW k \in n + 1 - m .. n + 1 PROVE Ends(g, k)
        OBVIOUS
      <4>1. k = n + 1 /\ k \in 1 .. n + 1 /\ k > n
        BY <2>4
      <4> QED
        BY <4>1
    <3> HIDE DEF g, Ends
    <3> QED
      BY <2>3, <3>1, <3>2
  <2>5. CASE m # 0
    <3>1. m - 1 \in 0 .. n /\ m - 1 \notin U
      <4>1. m - 1 \in 0 .. n /\ ~ (m <= m - 1)
        BY <2>3, <2>5
      <4> HIDE DEF U
      <4> QED BY <2>2, <4>1
    <3>2. PICK g \in [1 .. n + 1 -> 1 .. n + 1] : \A k \in n + 1 - (m - 1) .. n + 1 : Ends(g, k)
      <4> HIDE DEF Ends
      <4> QED BY <3>1
    <3> DEFINE i == n + 1 - m
               x == IF i \in stops THEN i ELSE g[next[i]]
               h == [g EXCEPT ![i] = x]
    <3>3. i \in 1 .. n /\ i \in 1 .. n + 1 /\ ~ (i > n)
      BY <2>3, <2>5
    <3>4. x \in 1 .. n + 1
      <4>1. CASE i \in stops
        BY <3>3, <4>1
      <4>2. CASE i \notin stops
        <5>1. next[i] \in 1 .. n + 1
          <6> HIDE DEF i
          <6> QED BY <3>3, <4>2, AheadType
        <5> QED
          BY <3>2, <4>2, <5>1
      <4> QED
        BY <4>1, <4>2
    <3>5. h \in [1 .. n + 1 -> 1 .. n + 1] /\ h[i] = x /\ \A k \in 1 .. n + 1 : k # i => h[k] = g[k]
      <4> HIDE DEF x, i
      <4> QED BY <3>2, <3>3, <3>4
    <3>6. ASSUME NEW k \in i .. n + 1 PROVE Ends(h, k)
      <4>1. k \in 1 .. n + 1 /\ k \in Int
        BY <3>3
      <4>2. k \notin stops /\ ~ (k > n) => next[k] \in 1 .. n + 1 /\ next[k] # i
        <5> SUFFICES ASSUME k \notin stops, ~ (k > n) PROVE next[k] \in 1 .. n + 1 /\ next[k] # i
          OBVIOUS
        <5>1. next[k] \in 1 .. n + 1 /\ next[k] > k /\ next[k] \in Nat
          BY <4>1, AheadType
        <5> DEFINE y == next[k]
        <5> HIDE DEF y
        <5>2. y > k /\ y \in Nat => y # i
          BY <3>3
        <5> QED
          BY <5>1, <5>2 DEF y
      <4>3. CASE k = i
        <5> HIDE DEF h, i
        <5> QED BY <3>3, <3>5, <4>2, <4>3
      <4>4. CASE k # i
        <5>1. k \in n + 1 - (m - 1) .. n + 1
          BY <2>3, <4>4
        <5>2. Ends(g, k)
          <6> HIDE DEF Ends
          <6> QED BY <3>2, <5>1
        <5> HIDE DEF h, i
        <5> QED
          BY <3>5, <4>1, <4>2, <4>4, <5>2
      <4> QED
        BY <4>3, <4>4
    <3> HIDE DEF h, Ends
    <3> QED
      BY <2>3, <3>5, <3>6
  <2> QED
    BY <2>4, <2>5
<1>2. 0 <= n /\ n \in 0 .. n /\ n + 1 - n = 1
  OBVIOUS
<1>3. \E g \in [1 .. n + 1 -> 1 .. n + 1] : \A k \in n + 1 - n .. n + 1 : Ends(g, k)
  <2> HIDE DEF Ends
  <2> QED BY <1>1, <1>2
<1> QED
  BY <1>2, <1>3

(* Where a walk ends, turn by turn.                                        *)
LEMMA WalkEndStep ==
  ASSUME NEW n \in Nat, NEW stops, NEW next, Ahead(n, stops, next), NEW i \in 1 .. n + 1
  PROVE  WalkEnd(n, stops, next, i) =
           IF i > n \/ i \in stops THEN i ELSE WalkEnd(n, stops, next, next[i])
<1> DEFINE F(f) == [k \in 1 .. n + 1 |-> IF k > n \/ k \in stops THEN k ELSE f[next[k]]]
           t == CHOOSE f : f = F(f)
<1>1. PICK g \in [1 .. n + 1 -> 1 .. n + 1] :
        \A k \in 1 .. n + 1 : g[k] = IF k > n \/ k \in stops THEN k ELSE g[next[k]]
  BY WalksExist
<1>2. g = F(g)
  <2>1. g = [k \in 1 .. n + 1 |-> g[k]]
    BY <1>1
  <2>2. F(g) = [k \in 1 .. n + 1 |-> g[k]]
    BY <1>1
  <2> HIDE DEF F
  <2> QED
    BY <2>1, <2>2
<1>3. t = F(t)
  <2> HIDE DEF F
  <2> QED BY <1>2
<1>4. \A k \in 1 .. n + 1 : t[k] = IF k > n \/ k \in stops THEN k ELSE t[next[k]]
  <2> HIDE DEF t
  <2> QED BY <1>3
<1>5. \A k : WalkEnd(n, stops, next, k) = t[k]
  BY DEF WalkEnd
<1> HIDE DEF t
<1> QED
  BY <1>4, <1>5

(* A walk that begins in a set and does not leave it ends in it, at a stop *)
(* or past the last position.                                              *)
LEMMA WalkStays ==
  ASSUME NEW n \in Nat, NEW stops, NEW next, Ahead(n, stops, next),
         NEW P \in SUBSET (1 .. n + 1), NEW i \in P,
         \A k \in P : k <= n /\ k \notin stops => next[k] \in P
  PROVE  /\ WalkEnd(n, stops, next, i) \in P
         /\ WalkEnd(n, stops, next, i) > n \/ WalkEnd(n, stops, next, i) \in stops
<1> DEFINE end(k) == WalkEnd(n, stops, next, k)
           U == {k \in P : ~ (end(k) \in P /\ (end(k) > n \/ end(k) \in stops))}
<1>1. \A k \in 1 .. n + 1 : end(k) = IF k > n \/ k \in stops THEN k ELSE end(next[k])
  BY WalkEndStep
<1> HIDE DEF end
<1>2. U = {}
  <2> SUFFICES ASSUME U # {} PROVE FALSE
    OBVIOUS
  <2>1. U \in SUBSET Nat /\ \A k \in U : k <= n + 1
    <3>1. U \in SUBSET (1 .. n + 1)
      OBVIOUS
    <3> HIDE DEF U
    <3> QED BY <3>1
  <2>2. PICK k \in U : \A j \in U : j <= k
    <3> HIDE DEF U
    <3>1. n + 1 \in Nat
      OBVIOUS
    <3> QED BY <2>1, <3>1, GreatestNatural
  <2>3. k \in P /\ k \in 1 .. n + 1 /\ ~ (end(k) \in P /\ (end(k) > n \/ end(k) \in stops))
    OBVIOUS
  <2>4. ~ (k > n \/ k \in stops) /\ end(k) = end(next[k])
    BY <1>1, <2>3
  <2>5. next[k] \in P /\ ~ (next[k] <= k)
    <3>1. k <= n /\ k \notin stops
      BY <2>3, <2>4
    <3> QED
      BY <2>3, <3>1, AheadType
  <2>6. next[k] \notin U
    <3> HIDE DEF U
    <3> QED BY <2>2, <2>5
  <2> QED
    BY <2>3, <2>4, <2>5, <2>6
<1> QED
  BY <1>2 DEF end

(* A walk never goes back.                                                 *)
LEMMA WalkEndType ==
  ASSUME NEW n \in Nat, NEW stops, NEW next, Ahead(n, stops, next), NEW i \in 1 .. n + 1
  PROVE  /\ WalkEnd(n, stops, next, i) \in i .. n + 1
         /\ WalkEnd(n, stops, next, i) > n \/ WalkEnd(n, stops, next, i) \in stops
<1>1. ASSUME NEW k \in i .. n + 1, k <= n, k \notin stops PROVE next[k] \in i .. n + 1
  <2> DEFINE x == next[k]
  <2>1. k \in 1 .. n + 1
    OBVIOUS
  <2>2. x \in 1 .. n + 1 /\ x > k
    BY <1>1, <2>1, AheadType
  <2> HIDE DEF x
  <2>3. x \in i .. n + 1
    BY <2>2
  <2> QED
    BY <2>3 DEF x
<1>2. i \in i .. n + 1 /\ i .. n + 1 \in SUBSET (1 .. n + 1)
  OBVIOUS
<1> QED
  BY <1>1, <1>2, WalkStays
=============================================================================

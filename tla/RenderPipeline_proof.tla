------------------------- MODULE RenderPipeline_proof -------------------------
(***************************************************************************)
(* What the pipeline of a run promises, whatever the command prints and    *)
(* its reducer makes of it: a failing run says something, the facts the    *)
(* verifier looks for survive it, and what was left out can be recovered.  *)
(* Texts are of any length: what is shown of the operators on them is the  *)
(* lines they hold, and what of a text they keep.                          *)
(***************************************************************************)
EXTENDS RenderPipeline, Foundations

(* The lines of a text before it is given a suffix.                        *)
Unreferred == {l \in TextLine : l.kind # "ref"}

-----------------------------------------------------------------------------
(* Lines and texts. *)

(* What the engine makes is a line, and clipping makes a line of one.      *)
LEMMA LineTypes ==
  /\ Unreferred \subseteq TextLine
  /\ Gap \in Unreferred /\ More \in Unreferred /\ Header \in Unreferred /\ Ok \in Unreferred
  /\ Gap.kind = "gap" /\ More.kind = "more" /\ Header.kind = "header"
  /\ \A n \in Nat : Reference(n) \in TextLine /\ Reference(n).kind = "ref" /\ Reference(n).tokens = n
  /\ \A l \in Unreferred, n \in Nat : Clip(l, n) \in Unreferred /\ Clip(l, n).kind = "clip"
                                       /\ Clip(l, n).id = l.id
<1>1. ASSUME NEW l \in Unreferred, NEW n \in Nat
      PROVE  Clip(l, n) \in Unreferred /\ Clip(l, n).kind = "clip" /\ Clip(l, n).id = l.id
  <2>1. l \in TextLine
    BY DEF Unreferred
  <2>2. l.head \in SUBSET Words
    BY <2>1 DEF TextLine
  <2>3. Clip(l, n) = [l EXCEPT !.kind = "clip", !.tokens = n, !.keeps = l.head]
    BY <2>1 DEF Clip, TextLine
  <2>4. Clip(l, n) \in TextLine /\ Clip(l, n).kind = "clip" /\ Clip(l, n).id = l.id
    BY <2>1, <2>2, <2>3 DEF TextLine, LineKinds
  <2> QED
    BY <2>4 DEF Unreferred
<1>2. /\ Gap \in TextLine /\ Gap.kind = "gap"
      /\ More \in TextLine /\ More.kind = "more"
  BY DEF TextLine, LineKinds, Gap, More, Mark
<1>3. /\ Header \in TextLine /\ Header.kind = "header"
      /\ Ok \in TextLine /\ Ok.kind = "ok"
  BY DEF TextLine, LineKinds, Header, Ok, Mark
<1>4. ASSUME NEW n \in Nat
      PROVE  Reference(n) \in TextLine /\ Reference(n).kind = "ref" /\ Reference(n).tokens = n
  BY DEF TextLine, LineKinds, Reference, Mark
<1> QED
  BY <1>1, <1>2, <1>3, <1>4 DEF Unreferred

(* A text without references is a text.                                    *)
LEMMA UnreferredIsText ==
  ASSUME NEW t \in Seq(Unreferred)
  PROVE  t \in Seq(TextLine)
<1>1. Unreferred \subseteq TextLine
  BY LineTypes
<1> QED
  BY <1>1

(* A text costs a number of tokens.                                        *)
LEMMA TokensType ==
  ASSUME NEW t \in Seq(TextLine)
  PROVE  Tokens(t) \in Nat
<1> DEFINE costs == [i \in DOMAIN t |-> t[i].tokens]
<1>1. ASSUME NEW i \in 1 .. Len(t) PROVE t[i].tokens \in Nat
  <2>1. t[i] \in TextLine
    OBVIOUS
  <2> QED
    BY <2>1 DEF TextLine
<1>2. costs \in Seq(Nat) /\ Len(costs) = Len(t)
  BY <1>1
<1>3. Len(t) \in 0 .. Len(costs)
  BY <1>2
<1> HIDE DEF costs
<1>4. SumOfLast(costs, Len(t)) \in Nat
  BY <1>2, <1>3, SumOfLastType
<1> QED
  BY <1>4 DEF Tokens, costs

(* Lines kept of a text are lines of it, at the positions that are kept.   *)
LEMMA KeepAtFrom ==
  ASSUME NEW S, NEW t \in Seq(S), NEW I, NEW k \in DOMAIN KeepAt(t, I)
  PROVE  \E i \in DOMAIN t : i \in I /\ KeepAt(t, I)[k] = t[i]
<1> DEFINE q == KeepAt(t, I)
<1>1. q \in Seq(S)
  BY KeepAtEmbeds
<1>2. PICK h : Embeds(t, I, Len(t), q, h)
  BY KeepAtEmbeds
<1>3. k \in DOMAIN q
  OBVIOUS
<1> HIDE DEF q
<1>4. DOMAIN q = 1 .. Len(q) /\ DOMAIN t = 1 .. Len(t)
  BY <1>1
<1>5. \E i \in DOMAIN t : i \in I /\ q[k] = t[i]
  BY <1>2, <1>3, <1>4 DEF Embeds
<1> QED
  BY <1>5 DEF q

(* All that were to be kept are.                                           *)
LEMMA KeepAtHolds ==
  ASSUME NEW S, NEW t \in Seq(S), NEW I, NEW i \in DOMAIN t, i \in I
  PROVE  \E k \in DOMAIN KeepAt(t, I) : KeepAt(t, I)[k] = t[i]
<1> DEFINE q == KeepAt(t, I)
<1>1. q \in Seq(S)
  BY KeepAtEmbeds
<1>2. PICK h : Embeds(t, I, Len(t), q, h)
  BY KeepAtEmbeds
<1> HIDE DEF q
<1>3. DOMAIN q = 1 .. Len(q) /\ DOMAIN t = 1 .. Len(t)
  BY <1>1
<1>4. \E k \in DOMAIN q : q[k] = t[i]
  BY <1>2, <1>3 DEF Embeds
<1> QED
  BY <1>4 DEF q

-----------------------------------------------------------------------------
(* Compacting. *)

(* Compacting a text keeps lines of it, and none but a mark is new.        *)
LEMMA CompactType ==
  ASSUME NEW t \in Seq(Unreferred), NEW n \in Int
  PROVE  CompactLines(t, n) \in Seq(Unreferred)
<1> DEFINE lines == FoldConsecutive(t)
           limit == IF n > 0 THEN n ELSE 12
<1>1. lines \in Seq(Unreferred)
  BY KeepAtEmbeds DEF FoldConsecutive
<1>2. limit \in Nat /\ More \in Unreferred
  BY LineTypes
<1> HIDE DEF lines, limit
<1>3. Len(lines) > limit => SubSeq(lines, 1, limit) \in Seq(Unreferred)
  BY <1>1, <1>2
<1>4. Len(lines) > limit => Append(SubSeq(lines, 1, limit), More) \in Seq(Unreferred)
  BY <1>2, <1>3
<1> QED
  BY <1>1, <1>2, <1>4 DEF CompactLines, lines, limit

(* Which lines are gaps depends on what they print.                        *)
AlikeGaps(t) ==
  \A i, k \in DOMAIN t : t[i].id = t[k].id => (t[i].kind = "gap" <=> t[k].kind = "gap")

(* A text without references that is not content free has a line that is   *)
(* not a gap.                                                              *)
LEMMA ContentLine ==
  ASSUME NEW t \in Seq(Unreferred)
  PROVE  ~ContentFree(t) <=> \E i \in DOMAIN t : t[i].kind # "gap"
<1>1. \A i \in DOMAIN t : t[i].kind # "ref"
  BY DEF Unreferred
<1> QED
  BY <1>1 DEF ContentFree

(* Each line of a text stands for a run of lines that print alike, the     *)
(* first of which is kept.                                                 *)
LEMMA FoldKeepsFirst ==
  ASSUME NEW t \in Seq(Unreferred), NEW i \in DOMAIN t
  PROVE  \E j \in DOMAIN t : /\ j = 1 \/ t[j].id # t[j - 1].id
                             /\ t[j].id = t[i].id
<1> DEFINE T == {j \in 1 .. i : \A k \in j .. i : t[k].id = t[i].id}
<1>1. i \in Nat /\ i \in 1 .. i /\ DOMAIN t = 1 .. Len(t) /\ Len(t) \in Nat
  OBVIOUS
<1>2. T \in SUBSET Nat /\ i \in T
  BY <1>1
<1>3. PICK j \in T : \A m \in T : j <= m
  <2> HIDE DEF T
  <2> QED BY <1>2, LeastNatural
<1>4. j \in 1 .. i /\ j \in DOMAIN t /\ t[j].id = t[i].id
  BY <1>1, <1>3
<1>5. ASSUME j # 1, t[j].id = t[j - 1].id PROVE FALSE
  <2>1. j - 1 \in 1 .. i /\ ~ (j <= j - 1)
    BY <1>1, <1>4, <1>5
  <2>2. ASSUME NEW k \in j - 1 .. i PROVE t[k].id = t[i].id
    <3>1. CASE k = j - 1
      BY <1>4, <1>5, <3>1
    <3>2. CASE k # j - 1
      <4>1. k \in j .. i
        BY <1>1, <1>4, <3>2
      <4> QED
        BY <1>3, <4>1
    <3> QED
      BY <3>1, <3>2
  <2>3. j - 1 \in T
    BY <2>1, <2>2
  <2> HIDE DEF T
  <2> QED
    BY <1>3, <2>1, <2>3
<1> QED
  BY <1>4, <1>5

(* What is compacted of a text with content has content.                   *)
LEMMA CompactContent ==
  ASSUME NEW t \in Seq(Unreferred), NEW n \in Int, AlikeGaps(t), ~ContentFree(t)
  PROVE  ~ContentFree(CompactLines(t, n))
<1> DEFINE lines == FoldConsecutive(t)
           limit == IF n > 0 THEN n ELSE 12
           I == {i \in DOMAIN t : i = 1 \/ t[i].id # t[i - 1].id}
<1>1. lines \in Seq(Unreferred)
  BY KeepAtEmbeds DEF FoldConsecutive
<1>2. PICK i \in DOMAIN t : t[i].kind # "gap"
  BY ContentLine
<1>3. PICK j \in DOMAIN t : j \in I /\ t[j].id = t[i].id
  BY FoldKeepsFirst
<1>4. t[j].kind # "gap"
  BY <1>2, <1>3 DEF AlikeGaps
<1>5. \E k \in DOMAIN lines : lines[k] = t[j]
  <2>1. lines = KeepAt(t, I)
    BY DEF FoldConsecutive
  <2>2. j \in I
    BY <1>3
  <2> HIDE DEF I
  <2>3. \E k \in DOMAIN KeepAt(t, I) : KeepAt(t, I)[k] = t[j]
    BY <2>2, KeepAtHolds
  <2> HIDE DEF lines
  <2> QED
    BY <2>1, <2>3
<1>6. limit \in Nat /\ More.kind = "more" /\ More \in Unreferred
  BY LineTypes
<1> HIDE DEF lines, limit, I
<1>7. ~ContentFree(lines)
  BY <1>1, <1>4, <1>5, ContentLine
<1>8. ASSUME Len(lines) > limit
      PROVE  ~ContentFree(Append(SubSeq(lines, 1, limit), More))
  <2> DEFINE s == SubSeq(lines, 1, limit)
  <2>1. s \in Seq(Unreferred)
    BY <1>1, <1>6, <1>8
  <2> HIDE DEF s
  <2>2. /\ Append(s, More) \in Seq(Unreferred) /\ Len(s) + 1 \in DOMAIN Append(s, More)
        /\ Append(s, More)[Len(s) + 1] = More
    BY <1>6, <2>1
  <2>3. ~ContentFree(Append(s, More))
    BY <1>6, <2>2, ContentLine
  <2> QED
    BY <2>3 DEF s
<1> QED
  BY <1>1, <1>6, <1>7, <1>8 DEF CompactLines, lines, limit

-----------------------------------------------------------------------------
(* hardCapTokens. *)

(* A compressed text has the lines that were kept, and gaps.               *)
LEMMA BuildLines ==
  ASSUME NEW t \in Seq(Unreferred), NEW kept
  PROVE  /\ BuildCompressedFromKeptLines(t, kept) \in Seq(Unreferred)
         /\ \A i \in DOMAIN t : i \in kept =>
              \E k \in DOMAIN BuildCompressedFromKeptLines(t, kept) :
                BuildCompressedFromKeptLines(t, kept)[k] = t[i]
<1> DEFINE spaced == [n \in 1 .. 2 * Len(t) + 1 |-> IF n % 2 = 0 THEN t[n \div 2] ELSE Gap]
           skipped(i) == i \in DOMAIN t \ kept
           lines == {n \in DOMAIN spaced : n % 2 = 0 /\ n \div 2 \in kept}
           gaps == {n \in DOMAIN spaced : n % 2 = 1 /\ skipped(n \div 2) /\ ~skipped(n \div 2 + 1)}
           I == lines \cup gaps
<1>1. Len(t) \in Nat /\ DOMAIN t = 1 .. Len(t) /\ Gap \in Unreferred
  BY LineTypes
<1>2. ASSUME NEW n \in 1 .. 2 * Len(t) + 1, n % 2 = 0 PROVE n \div 2 \in DOMAIN t
  BY <1>1, <1>2
<1>3. ASSUME NEW n \in 1 .. 2 * Len(t) + 1
      PROVE  (IF n % 2 = 0 THEN t[n \div 2] ELSE Gap) \in Unreferred
  <2>1. CASE n % 2 = 0
    <3>1. t[n \div 2] \in Unreferred
      BY <1>2, <2>1
    <3> QED
      BY <2>1, <3>1
  <2>2. CASE n % 2 # 0
    BY <1>1, <2>2
  <2> QED
    BY <2>1, <2>2
<1>4. spaced \in Seq(Unreferred) /\ DOMAIN spaced = 1 .. 2 * Len(t) + 1
  BY <1>1, <1>3
<1>5. BuildCompressedFromKeptLines(t, kept) = KeepAt(spaced, I)
  BY DEF BuildCompressedFromKeptLines
<1>6. ASSUME NEW i \in DOMAIN t, i \in kept
      PROVE  2 * i \in DOMAIN spaced /\ 2 * i \in I /\ spaced[2 * i] = t[i]
  <2>1. 2 * i \in 1 .. 2 * Len(t) + 1 /\ (2 * i) % 2 = 0 /\ (2 * i) \div 2 = i
    BY <1>1
  <2> QED
    BY <1>6, <2>1
<1> HIDE DEF spaced, I
<1>7. ASSUME NEW i \in DOMAIN t, i \in kept
      PROVE  \E k \in DOMAIN KeepAt(spaced, I) : KeepAt(spaced, I)[k] = t[i]
  <2>1. \E k \in DOMAIN KeepAt(spaced, I) : KeepAt(spaced, I)[k] = spaced[2 * i]
    BY <1>4, <1>6, <1>7, KeepAtHolds
  <2> QED
    BY <1>6, <1>7, <2>1
<1> QED
  BY <1>4, <1>5, <1>7, KeepAtEmbeds

(* The candidates of a text are lines of it, and no gaps if there are      *)
(* others.                                                                 *)
LEMMA CandidateLines ==
  ASSUME NEW t \in Seq(Unreferred), t # <<>>
  PROVE  /\ CompressionCandidates(t) \subseteq DOMAIN t /\ CompressionCandidates(t) # {}
         /\ t[1].kind # "gap" => 1 \in CompressionCandidates(t)
         /\ ~ContentFree(t) => \A i \in CompressionCandidates(t) : t[i].kind # "gap"
<1>1. 1 \in DOMAIN t
  OBVIOUS
<1>2. ~ContentFree(t) <=> \E i \in DOMAIN t : t[i].kind # "gap"
  BY ContentLine
<1> QED
  BY <1>1, <1>2 DEF CompressionCandidates

(* The lines that are kept are candidates.                                 *)
LEMMA KeptAreCandidates ==
  ASSUME NEW t \in Seq(Unreferred), t # <<>>, NEW m \in Int
  PROVE  KeptWithinCap(t, m)[Len(t) + 1] \subseteq CompressionCandidates(t)
<1> DEFINE C == CompressionCandidates(t)
           N == Len(t) + 1
           kept == KeptWithinCap(t, m)
           fits(before, i) == Tokens(BuildCompressedFromKeptLines(t, before \cup {i})) <= m
           adds(n, before) == {i \in CompressionSelectionOrder(t, m, n) : fits(before, i)}
           F(f) == [n \in 0 .. N |-> IF n = 0 THEN {} ELSE f[n - 1] \cup adds(n, f[n - 1])]
           step == [n \in 1 .. N |-> [b \in SUBSET C |-> b \cup adds(n, b)]]
<1>1. N \in Nat
  OBVIOUS
<1>2. ASSUME NEW n \in 1 .. N, NEW b PROVE adds(n, b) \subseteq C
  <2>1. CompressionSelectionOrder(t, m, n) \subseteq C
    BY CandidateLines DEF CompressionSelectionOrder
  <2> QED
    BY <2>1
<1> HIDE DEF adds
<1>3. step \in [1 .. N -> [SUBSET C -> SUBSET C]]
  <2>1. ASSUME NEW n \in 1 .. N, NEW b \in SUBSET C PROVE b \cup adds(n, b) \in SUBSET C
    BY <1>2
  <2> HIDE DEF C, N
  <2> QED
    BY <2>1
<1>4. PICK g \in [0 .. N -> SUBSET C] :
        g[0] = {} /\ \A i \in 1 .. N : g[i] = step[i][g[i - 1]]
  <2> DEFINE D == SUBSET C
             e == {}
  <2>1. e \in D /\ step \in [1 .. N -> [D -> D]]
    BY <1>3
  <2> HIDE DEF D, e, step, N
  <2>2. \E g \in [0 .. N -> D] : Steps(g, e, step, N)
    BY <1>1, <2>1, StatesExist
  <2> QED
    BY <2>2 DEF D, e, Steps
<1>5. g = F(g)
  <2>1. ASSUME NEW n \in 0 .. N PROVE F(g)[n] = g[n]
    <3>1. CASE n = 0
      BY <1>4, <3>1
    <3>2. CASE n # 0
      <4>1. n \in 1 .. N /\ n - 1 \in 0 .. N
        BY <1>1, <3>2
      <4>2. g[n - 1] \in SUBSET C
        BY <1>4, <4>1
      <4>3. step[n][g[n - 1]] = g[n - 1] \cup adds(n, g[n - 1])
        BY <4>1, <4>2
      <4> QED
        BY <1>4, <3>2, <4>1, <4>3
    <3> QED
      BY <3>1, <3>2
  <2>2. F(g) = [n \in 0 .. N |-> g[n]]
    BY <2>1
  <2> HIDE DEF F
  <2> QED
    BY <1>4, <2>2
<1>6. kept = CHOOSE f : f = F(f)
  BY DEF KeptWithinCap, adds
<1>7. kept = F(kept)
  <2> HIDE DEF F, kept
  <2> QED BY <1>5, <1>6
<1> HIDE DEF kept, C, step, N
<1>8. /\ kept[0] = {}
      /\ \A n \in 1 .. N : kept[n] = kept[n - 1] \cup adds(n, kept[n - 1])
  BY <1>1, <1>7
<1> DEFINE U == {n \in 0 .. N : ~ (kept[n] \subseteq C)}
<1>9. U = {}
  <2> SUFFICES ASSUME U # {} PROVE FALSE
    OBVIOUS
  <2>1. U \in SUBSET Nat
    BY <1>1
  <2>2. PICK n \in U : \A k \in U : n <= k
    <3> HIDE DEF U
    <3> QED BY <2>1, LeastNatural
  <2>3. n \in 0 .. N /\ ~ (kept[n] \subseteq C)
    OBVIOUS
  <2>4. n # 0
    BY <1>8, <2>3
  <2>5. n \in 1 .. N /\ n - 1 \in 0 .. N /\ ~ (n <= n - 1)
    BY <1>1, <2>3, <2>4
  <2>6. kept[n - 1] \subseteq C
    BY <2>2, <2>5
  <2>7. adds(n, kept[n - 1]) \subseteq C
    BY <1>2, <2>5
  <2> HIDE DEF U
  <2> QED
    BY <1>8, <2>3, <2>5, <2>6, <2>7
<1>10. N \in 0 .. N
  BY <1>1
<1>11. kept[N] \subseteq C
  BY <1>9, <1>10
<1> QED
  BY <1>11 DEF kept, C, N

(* One line is the worthiest to compress a text to.                        *)
LEMMA BestLine ==
  ASSUME NEW t \in Seq(Unreferred), t # <<>>
  PROVE  \E i \in CompressionCandidates(t) : BestCompressionLine(t) = t[i]
<1> DEFINE C == CompressionCandidates(t)
           R == {p \in C \X C : Worthier(t, p[1], p[2])}
           D == [i \in C |-> Density(t, i)]
           L == [i \in C |-> LineScore(t, i)]
<1>1. C \subseteq 1 .. Len(t) /\ C # {} /\ Len(t) \in Nat
  BY CandidateLines
<1>2. ASSUME NEW i \in C PROVE LineScore(t, i) \in Int /\ Density(t, i) \in Int
  <2>1. t[i] \in TextLine
    BY <1>1 DEF Unreferred
  <2>2. t[i].score \in Int /\ t[i].tokens \in Nat
    BY <2>1 DEF TextLine
  <2>3. LineScore(t, i) \in Int
    BY <2>2 DEF LineScore
  <2>4. Larger(t[i].tokens, 1) \in Nat /\ Larger(t[i].tokens, 1) > 0
    BY <2>2 DEF Larger
  <2>5. \A x \in Int, y \in Nat : y > 0 => (x * 100) \div y \in Int
    OBVIOUS
  <2> QED
    BY <2>3, <2>4, <2>5 DEF Density
<1>3. \A i, j \in C : Worthier(t, i, j) <=>
        IF D[i] # D[j] THEN D[i] > D[j] ELSE IF L[i] # L[j] THEN L[i] > L[j] ELSE i < j
  BY DEF Worthier
<1>4. \A i \in C : D[i] \in Int /\ L[i] \in Int /\ i \in Int
  BY <1>1, <1>2
<1>5. \A i, j \in C : <<i, j>> \in R <=> Worthier(t, i, j)
  OBVIOUS
<1> HIDE DEF C, R, D, L
<1>6. ASSUME NEW a \in C, NEW b \in C, NEW c \in C, Worthier(t, a, b), Worthier(t, b, c)
      PROVE  Worthier(t, a, c)
  <2>1. /\ D[a] \in Int /\ L[a] \in Int /\ a \in Int
        /\ D[b] \in Int /\ L[b] \in Int /\ b \in Int
        /\ D[c] \in Int /\ L[c] \in Int /\ c \in Int
    BY <1>4
  <2>2. IF D[a] # D[b] THEN D[a] > D[b] ELSE IF L[a] # L[b] THEN L[a] > L[b] ELSE a < b
    BY <1>3, <1>6
  <2>3. IF D[b] # D[c] THEN D[b] > D[c] ELSE IF L[b] # L[c] THEN L[b] > L[c] ELSE b < c
    BY <1>3, <1>6
  <2>4. IF D[a] # D[c] THEN D[a] > D[c] ELSE IF L[a] # L[c] THEN L[a] > L[c] ELSE a < c
    BY ONLY <2>1, <2>2, <2>3
  <2> QED
    BY <1>3, <2>4
<1>7. ASSUME NEW a \in C PROVE ~ Worthier(t, a, a)
  BY <1>3, <1>4
<1>8. \E a \in C : \A b \in C : <<b, a>> \notin R
  <2>1. \A a, b, c \in C : <<a, b>> \in R /\ <<b, c>> \in R => <<a, c>> \in R
    BY <1>5, <1>6
  <2>2. \A a \in C : <<a, a>> \notin R
    BY <1>5, <1>7
  <2> QED
    BY <1>1, <2>1, <2>2, FirstInOrder
<1>9. \E i \in C : \A j \in C : ~ Worthier(t, j, i)
  BY <1>5, <1>8
<1> QED
  BY <1>9 DEF BestCompressionLine, C

(* A line that is cut to size says something if it did before.             *)
LEMMA CapLine ==
  ASSUME NEW l \in Unreferred, NEW m \in Int, m > 0
  PROVE  /\ CapSingleLine(l, m) \in Seq(Unreferred)
         /\ l.kind # "gap" => ~ContentFree(CapSingleLine(l, m))
<1>1. l.tokens \in Nat
  BY DEF Unreferred, TextLine
<1>2. Smaller(l.tokens, m) \in Nat /\ m + 1 \in Nat
  BY <1>1 DEF Smaller
<1>3. PICK c \in Unreferred : CapSingleLine(l, m) = <<c>> /\ (l.kind # "gap" => c.kind # "gap")
  BY <1>2, LineTypes DEF CapSingleLine
<1>4. <<c>> \in Seq(Unreferred) /\ 1 \in DOMAIN <<c>> /\ <<c>>[1] = c
  OBVIOUS
<1>5. c.kind # "gap" => ~ContentFree(<<c>>)
  BY <1>4, ContentLine
<1> QED
  BY <1>3, <1>4, <1>5

(* A text that is capped is a text, and one with content still has some.   *)
LEMMA HardCapLines ==
  ASSUME NEW t \in Seq(Unreferred), NEW m \in Int
  PROVE  /\ HardCapTokens(t, m) \in Seq(Unreferred)
         /\ ~ContentFree(t) /\ m > 0 => ~ContentFree(HardCapTokens(t, m))
<1>1. CASE m <= 0 \/ t = <<>>
  <2>1. HardCapTokens(t, m) = <<>>
    BY <1>1 DEF HardCapTokens
  <2>2. t = <<>> => ContentFree(t)
    BY DEF ContentFree
  <2> QED
    BY <1>1, <2>1, <2>2
<1>2. CASE m > 0 /\ t # <<>> /\ Tokens(t) <= m
  <2>1. HardCapTokens(t, m) = t
    BY <1>2 DEF HardCapTokens
  <2> QED
    BY <2>1
<1>3. CASE m > 0 /\ t # <<>> /\ ~ (Tokens(t) <= m)
  <2> DEFINE whole == SelectWholeLinesWithinCap(t, m)
             kept == KeptWithinCap(t, m)[Len(t) + 1]
  <2>1. HardCapTokens(t, m) =
          IF whole # <<>> THEN whole ELSE CapSingleLine(BestCompressionLine(t), m)
    BY <1>3 DEF HardCapTokens
  <2>2. whole = IF kept = {} THEN <<>> ELSE BuildCompressedFromKeptLines(t, kept)
    BY DEF SelectWholeLinesWithinCap
  <2>3. kept \subseteq CompressionCandidates(t)
    BY <1>3, KeptAreCandidates
  <2> HIDE DEF whole, kept
  <2>4. CASE whole # <<>>
    <3>1. whole = BuildCompressedFromKeptLines(t, kept) /\ kept # {}
      BY <2>2, <2>4
    <3>2. whole \in Seq(Unreferred)
      BY <3>1, BuildLines
    <3>3. ASSUME ~ContentFree(t) PROVE ~ContentFree(whole)
      <4>1. PICK i \in kept : i \in DOMAIN t /\ t[i].kind # "gap"
        BY <1>3, <2>3, <3>1, <3>3, CandidateLines
      <4>2. \E k \in DOMAIN whole : whole[k] = t[i]
        BY <3>1, <4>1, BuildLines
      <4> QED
        BY <3>2, <4>1, <4>2, ContentLine
    <3> QED
      BY <2>1, <2>4, <3>2, <3>3
  <2>5. CASE whole = <<>>
    <3>1. PICK i \in CompressionCandidates(t) : BestCompressionLine(t) = t[i]
      BY <1>3, BestLine
    <3>2. i \in DOMAIN t /\ (~ContentFree(t) => t[i].kind # "gap")
      BY <1>3, CandidateLines
    <3>3. t[i] \in Unreferred
      BY <3>2
    <3> QED
      BY <1>3, <2>1, <2>5, <3>1, <3>2, <3>3, CapLine
  <2> QED
    BY <2>4, <2>5
<1>4. Tokens(t) \in Nat
  BY UnreferredIsText, TokensType
<1> QED
  BY <1>1, <1>2, <1>3, <1>4

-----------------------------------------------------------------------------
(* The ultra-compact form, the contract and the guards. *)

(* The error lines of a text are lines, and so is what stands for none.    *)
LEMMA ErrorLinesType ==
  ASSUME NEW t \in Seq(Unreferred), NEW n \in Nat
  PROVE  InterestingErrorLines(t, n) \in Seq(Unreferred)
<1> DEFINE errors == KeepAt(t, {i \in DOMAIN t : t[i].keeps # {}})
<1>1. errors \in Seq(Unreferred) /\ More \in Unreferred /\ Ok \in Unreferred
  BY KeepAtEmbeds, LineTypes
<1>2. InterestingErrorLines(t, n) =
        IF errors = <<>> THEN <<Ok>>
        ELSE IF Len(errors) <= n THEN errors ELSE Append(SubSeq(errors, 1, n), More)
  BY DEF InterestingErrorLines
<1> HIDE DEF errors
<1>3. ASSUME ~ (Len(errors) <= n) PROVE Append(SubSeq(errors, 1, n), More) \in Seq(Unreferred)
  <2>1. SubSeq(errors, 1, n) \in Seq(Unreferred)
    BY <1>1, <1>3
  <2> QED
    BY <1>1, <2>1
<1>4. <<Ok>> \in Seq(Unreferred)
  BY <1>1
<1> QED
  BY <1>1, <1>2, <1>3, <1>4

(* The facts of a text are facts.                                          *)
LEMMA KeepsType ==
  ASSUME NEW t \in Seq(TextLine)
  PROVE  Keeps(t) \in SUBSET Words
<1>1. ASSUME NEW i \in DOMAIN t PROVE t[i].keeps \in SUBSET Words
  <2>1. t[i] \in TextLine
    OBVIOUS
  <2> QED
    BY <2>1 DEF TextLine
<1> QED
  BY <1>1 DEF Keeps

(* The details are lines of the text, of its errors, or a mark.            *)
LEMMA DetailsType ==
  ASSUME NEW t \in Seq(Unreferred), NEW raw \in Seq(Unreferred), NEW failed \in BOOLEAN,
         Len(t) > 1
  PROVE  UltraCompactDetails(t, raw, failed) \in Seq(Unreferred)
<1> DEFINE lines == UltraCompactLines(t, raw, failed)
<1>1. lines \in Seq(Unreferred)
  <2>1. (IF failed /\ raw # <<>> THEN InterestingErrorLines(raw, 4) ELSE <<>>) \in Seq(Unreferred)
    BY ErrorLinesType
  <2> QED
    BY <2>1 DEF UltraCompactLines
<1>2. More \in Unreferred /\ t[2] \in Unreferred
  <2>1. 2 \in DOMAIN t
    OBVIOUS
  <2> QED
    BY <2>1, LineTypes
<1> DEFINE score(i) == UltraCompactLineScore(lines[i], i, failed) + IF i <= Len(t) THEN 0 ELSE 12
           before(i, j) == score(i) > score(j) \/ (score(i) = score(j) /\ i < j)
           worthy == {i \in UltraCompactCandidates(lines) : score(i) > 0}
           most == IF failed THEN 3 ELSE 2
           chosen == {i \in worthy : Cardinality({j \in worthy : before(j, i)}) < most}
           kept == KeepAt(lines, chosen)
           rest == IF Len(t) - 1 > Cardinality(chosen \cap DOMAIN t) THEN <<More>> ELSE <<>>
<1>3. UltraCompactDetails(t, raw, failed) =
        IF UltraCompactCandidates(lines) = {} THEN <<>>
        ELSE IF chosen = {} THEN <<t[2]>> ELSE kept \o rest
  BY DEF UltraCompactDetails
<1> HIDE DEF lines, chosen
<1>4. kept \in Seq(Unreferred)
  BY <1>1, KeepAtEmbeds
<1>5. <<t[2]>> \in Seq(Unreferred) /\ rest \in Seq(Unreferred)
  BY <1>2
<1> HIDE DEF kept, rest
<1>6. kept \o rest \in Seq(Unreferred)
  BY <1>4, <1>5
<1> QED
  BY <1>3, <1>5, <1>6

(* The ultra-compact form is a text.                                       *)
LEMMA UltraCompactType ==
  ASSUME NEW t \in Seq(Unreferred), NEW raw \in Seq(Unreferred), NEW failed \in BOOLEAN
  PROVE  RenderUltraCompact(t, raw, failed) \in Seq(Unreferred)
<1>1. ASSUME NEW parts \in Seq(Unreferred) PROVE UltraCompactDetail(parts) \in Seq(Unreferred)
  <2> DEFINE line == [kind |-> "detail", id |-> "detail", tokens |-> Tokens(parts), score |-> 1,
                      keeps |-> Keeps(parts), head |-> {}, word |-> FALSE]
  <2>1. Tokens(parts) \in Nat /\ Keeps(parts) \in SUBSET Words
    BY UnreferredIsText, TokensType, KeepsType
  <2>2. line \in TextLine
    BY <2>1 DEF TextLine, LineKinds
  <2>3. line \in Unreferred
    BY <2>2 DEF Unreferred
  <2>4. UltraCompactDetail(parts) = IF parts = <<>> THEN <<>> ELSE HardCapTokens(<<line>>, 24)
    BY DEF UltraCompactDetail
  <2> HIDE DEF line
  <2> DEFINE one == <<line>>
             most == 24
  <2>5. one \in Seq(Unreferred) /\ most \in Int
    BY <2>3
  <2> HIDE DEF one, most
  <2>6. HardCapTokens(one, most) \in Seq(Unreferred)
    BY <2>5, HardCapLines
  <2> QED
    BY <2>4, <2>6 DEF one, most
<1>2. CASE Len(t) <= 1
  <2> DEFINE most == 24
  <2>1. most \in Int
    OBVIOUS
  <2> HIDE DEF most
  <2>2. HardCapTokens(t, most) \in Seq(Unreferred)
    BY <2>1, HardCapLines
  <2>3. t = <<>> \/ Len(t) = 1
    BY <1>2
  <2> QED
    BY <2>2, <2>3 DEF RenderUltraCompact, most
<1>3. CASE Len(t) > 1
  <2>1. UltraCompactDetail(UltraCompactDetails(t, raw, failed)) \in Seq(Unreferred)
    BY <1>1, <1>3, DetailsType
  <2> DEFINE head == <<t[1]>>
             most == 14
  <2>2. head \in Seq(Unreferred) /\ most \in Int
    <3>1. 1 \in DOMAIN t
      BY <1>3
    <3> QED
      BY <3>1
  <2> HIDE DEF head, most
  <2>3. HardCapTokens(head, most) \in Seq(Unreferred)
    BY <2>2, HardCapLines
  <2>4. t # <<>> /\ Len(t) # 1
    <3>1. Len(t) \in Nat
      OBVIOUS
    <3>2. Len(t) # 0 /\ Len(t) # 1
      BY ONLY <1>3, <3>1
    <3> QED
      BY <3>2
  <2> QED
    BY <2>1, <2>3, <2>4 DEF RenderUltraCompact, head, most
<1> QED
  BY <1>2, <1>3

(* What the contract allows is never less than its floor.                  *)
LEMMA AllowedType ==
  ASSUME NEW rawTokens \in Int, NEW budget, budget.tokens \in Nat
  PROVE  /\ CompressionContractAllowedTokens(rawTokens, budget) \in Int
         /\ CompressionContractAllowedTokens(rawTokens, budget) >= 48
<1>1. CeilDiv(rawTokens, 5) \in Int
  BY DEF CeilDiv
<1>2. (IF budget.tokens > 0 THEN Smaller(CeilDiv(rawTokens, 5), budget.tokens)
       ELSE CeilDiv(rawTokens, 5)) \in Int
  BY <1>1 DEF Smaller
<1> QED
  BY <1>2 DEF CompressionContractAllowedTokens, Larger, ContractMinTokens

(* A text under the contract is a text.                                    *)
LEMMA ContractType ==
  ASSUME NEW t \in Seq(Unreferred), NEW rawTokens \in Int, NEW budget, budget.tokens \in Nat
  PROVE  EnforceCompressionContract(t, rawTokens, budget) \in Seq(Unreferred)
BY AllowedType, HardCapLines DEF EnforceCompressionContract

-----------------------------------------------------------------------------
(* What is added to a text. *)

(* A text goes on as it was before what is added to it.                    *)
LEMMA AddedLines ==
  ASSUME NEW t \in Seq(TextLine), NEW u \in Seq(TextLine)
  PROVE  /\ t \o u \in Seq(TextLine)
         /\ \A kind : HasKind(t, kind) \/ HasKind(u, kind) => HasKind(t \o u, kind)
         /\ ~ContentFree(t) => ~ContentFree(t \o u)
         /\ Keeps(t) \subseteq Keeps(t \o u) /\ Keeps(u) \subseteq Keeps(t \o u)
<1> DEFINE r == t \o u
<1>1. r \in Seq(TextLine) /\ DOMAIN r = 1 .. Len(t) + Len(u)
  OBVIOUS
<1>2. ASSUME NEW i \in DOMAIN t PROVE i \in DOMAIN r /\ r[i] = t[i]
  OBVIOUS
<1>3. ASSUME NEW i \in DOMAIN u PROVE \E k \in DOMAIN r : r[k] = u[i]
  <2>1. Len(t) + i \in DOMAIN r /\ r[Len(t) + i] = u[i]
    OBVIOUS
  <2> QED
    BY <2>1
<1> HIDE DEF r
<1>4. ASSUME NEW kind, HasKind(t, kind) \/ HasKind(u, kind) PROVE HasKind(r, kind)
  <2>1. (\E i \in DOMAIN t : t[i].kind = kind) \/ (\E i \in DOMAIN u : u[i].kind = kind)
    BY <1>4 DEF HasKind
  <2>2. \E k \in DOMAIN r : r[k].kind = kind
    BY <1>2, <1>3, <2>1
  <2> QED
    BY <2>2 DEF HasKind
<1>5. ~ContentFree(t) => ~ContentFree(r)
  BY <1>2 DEF ContentFree
<1>6. ASSUME NEW x \in Keeps(t) PROVE x \in Keeps(r)
  <2>1. PICK i \in DOMAIN t : x \in t[i].keeps
    BY DEF Keeps
  <2> QED
    BY <1>2, <2>1 DEF Keeps
<1>7. ASSUME NEW x \in Keeps(u) PROVE x \in Keeps(r)
  <2>1. PICK i \in DOMAIN u : x \in u[i].keeps
    BY DEF Keeps
  <2>2. PICK k \in DOMAIN r : r[k] = u[i]
    BY <1>3
  <2> QED
    BY <2>1, <2>2 DEF Keeps
<1> QED
  BY <1>1, <1>4, <1>5, <1>6, <1>7 DEF r

(* So it does before a line.                                               *)
LEMMA AddedLine ==
  ASSUME NEW t \in Seq(TextLine), NEW l \in TextLine
  PROVE  /\ Append(t, l) \in Seq(TextLine)
         /\ HasKind(Append(t, l), l.kind)
         /\ \A kind : HasKind(t, kind) => HasKind(Append(t, l), kind)
         /\ ~ContentFree(t) => ~ContentFree(Append(t, l))
         /\ Keeps(t) \subseteq Keeps(Append(t, l))
<1>1. Append(t, l) = t \o <<l>> /\ <<l>> \in Seq(TextLine)
  OBVIOUS
<1>2. HasKind(<<l>>, l.kind)
  <2>1. 1 \in DOMAIN <<l>> /\ <<l>>[1] = l
    OBVIOUS
  <2> QED
    BY <2>1 DEF HasKind
<1> QED
  BY <1>1, <1>2, AddedLines

(* A text with a suffix refers to the artifact, and says no less.          *)
LEMMA Suffixed ==
  ASSUME NEW t \in Seq(Unreferred), NEW planned, NEW rawTokens \in Int,
         NEW budget, budget.tokens \in Nat, NEW contract
  PROVE  LET r == AssembleWithSuffixes(t, DisplayArtifactSuffixes(planned), rawTokens, budget,
                                       contract)
         IN  /\ r \in Seq(TextLine) /\ HasKind(r, "ref")
             /\ ~ContentFree(t) => ~ContentFree(r)
<1> DEFINE suffixes == DisplayArtifactSuffixes(planned)
           allowed == CompressionContractAllowedTokens(rawTokens, budget)
           r == AssembleWithSuffixes(t, suffixes, rawTokens, budget, contract)
           Refers(s) == s \in TextLine /\ s.kind = "ref" /\ s.tokens \in Nat
<1>1. /\ \A i \in DOMAIN suffixes : Refers(suffixes[i])
      /\ 1 \in DOMAIN suffixes /\ Refers(Last(suffixes))
  <2>1. ASSUME NEW n \in Nat PROVE Refers(Reference(n))
    BY LineTypes
  <2> HIDE DEF Refers
  <2>2. CASE planned
    <3>1. suffixes = <<Reference(20), Reference(12), Reference(4)>>
      BY <2>2 DEF DisplayArtifactSuffixes
    <3> QED
      BY <2>1, <3>1 DEF Last
  <2>3. CASE ~planned
    <3>1. suffixes = <<Reference(12), Reference(4)>>
      BY <2>3 DEF DisplayArtifactSuffixes
    <3> QED
      BY <2>1, <3>1 DEF Last
  <2> QED
    BY <2>2, <2>3
<1>2. allowed \in Int /\ allowed > 0
  BY AllowedType
<1> HIDE DEF suffixes, allowed
<1>3. ASSUME NEW m \in Int, m > 0, NEW s, Refers(s)
      PROVE  /\ Append(HardCapTokens(t, m), s) \in Seq(TextLine)
             /\ HasKind(Append(HardCapTokens(t, m), s), "ref")
             /\ ~ContentFree(t) => ~ContentFree(Append(HardCapTokens(t, m), s))
  <2>1. HardCapTokens(t, m) \in Seq(TextLine)
    BY HardCapLines, UnreferredIsText
  <2>2. ~ContentFree(t) => ~ContentFree(HardCapTokens(t, m))
    BY <1>3, HardCapLines
  <2> HIDE DEF Refers
  <2>3. s \in TextLine /\ s.kind = "ref"
    BY <1>3 DEF Refers
  <2> QED
    BY <2>1, <2>2, <2>3, AddedLine
<1>4. CASE ~contract \/ rawTokens < ContractMinRawTokens
  <2>1. r = Append(t, suffixes[1])
    BY <1>4 DEF AssembleWithSuffixes
  <2>2. suffixes[1] \in TextLine /\ suffixes[1].kind = "ref" /\ t \in Seq(TextLine)
    BY <1>1, UnreferredIsText
  <2> HIDE DEF r
  <2> QED
    BY <2>1, <2>2, AddedLine DEF r, suffixes
<1>5. CASE ~ (~contract \/ rawTokens < ContractMinRawTokens)
  <2> DEFINE fits(s) == s.tokens < allowed /\ Tokens(WithSuffix(t, s, allowed)) <= allowed
             fitting == {i \in DOMAIN suffixes : fits(suffixes[i])}
             first == CHOOSE i \in fitting : \A j \in fitting : i <= j
  <2>1. r = IF fitting # {} THEN WithSuffix(t, suffixes[first], allowed)
            ELSE Append(HardCapTokens(t, allowed), Last(suffixes))
    BY <1>5 DEF AssembleWithSuffixes, FitSuffix, allowed
  <2>2. ASSUME fitting # {} PROVE first \in fitting
    <3>1. DOMAIN suffixes \subseteq Nat
      BY DEF suffixes, DisplayArtifactSuffixes
    <3>2. fitting \in SUBSET Nat
      BY <3>1
    <3> HIDE DEF fitting
    <3>3. \E i \in fitting : \A j \in fitting : i <= j
      BY <2>2, <3>2, LeastNatural
    <3> QED
      BY <3>3
  <2>3. CASE fitting # {}
    <3>1. suffixes[first].tokens < allowed /\ first \in DOMAIN suffixes
      BY <2>2, <2>3
    <3> HIDE DEF first, fitting
    <3>2. Refers(suffixes[first])
      BY <1>1, <3>1
    <3>3. allowed - suffixes[first].tokens \in Int /\ allowed - suffixes[first].tokens > 0
      BY <1>2, <3>1, <3>2
    <3>4. r = Append(HardCapTokens(t, allowed - suffixes[first].tokens), suffixes[first])
      BY <2>1, <2>3 DEF WithSuffix
    <3> HIDE DEF Refers, r
    <3> QED
      BY <1>3, <3>2, <3>3, <3>4 DEF r, suffixes
  <2>4. CASE fitting = {}
    <3>1. r = Append(HardCapTokens(t, allowed), Last(suffixes))
      BY <2>1, <2>4
    <3> HIDE DEF Refers, r
    <3> QED
      BY <1>1, <1>2, <1>3, <3>1 DEF r, suffixes
  <2> QED
    BY <2>3, <2>4
<1> QED
  BY <1>4, <1>5

-----------------------------------------------------------------------------
(* The capture. *)

(* What a command prints, and a reducer makes, has no reference.           *)
LEMMA OutputType ==
  ASSUME NEW t, IsOutput(t)
  PROVE  t \in Seq(Unreferred)
<1>1. t \in Seq(TextLine) /\ \A i \in 1 .. Len(t) : t[i].kind # "ref"
  BY DEF IsOutput
<1>2. ASSUME NEW i \in 1 .. Len(t) PROVE t[i] \in Unreferred
  <2>1. t[i] \in TextLine
    BY <1>1
  <2> QED
    BY <1>1, <2>1 DEF Unreferred
<1> QED
  BY <1>1, <1>2

(* A preview holds lines, each of which stands for a line of the text,     *)
(* and is a gap of an output if and only if that one is.                   *)
LEMMA PreviewLines ==
  ASSUME NEW t \in Seq(Unreferred), NEW limit \in Nat
  PROVE  /\ RawPreview(t, limit) \in Seq(Unreferred)
         /\ IsOutput(t) => \A k \in DOMAIN RawPreview(t, limit) : \E i \in DOMAIN t :
              /\ RawPreview(t, limit)[k].id = t[i].id
              /\ RawPreview(t, limit)[k].kind = "gap" <=> t[i].kind = "gap"
<1> DEFINE left(i) == limit - Tokens(SubSeq(t, 1, i - 1))
           part(i) == IF t[i].tokens <= left(i) THEN t[i] ELSE Clip(t[i], left(i))
           parts == [i \in DOMAIN t |-> part(i)]
           I == {i \in DOMAIN t : left(i) > 0}
           S == {part(i) : i \in DOMAIN t}
           q == KeepAt(parts, I)
           Like(l, m) == l.id = m.id /\ (l.kind = "gap" <=> m.kind = "gap")
<1>1. t \in Seq(Unreferred) /\ t \in Seq(TextLine) /\ DOMAIN t = 1 .. Len(t) /\ Len(t) \in Nat
  BY UnreferredIsText
<1>2. ASSUME NEW i \in DOMAIN t, i \in I
      PROVE  part(i) \in Unreferred /\ (IsOutput(t) => Like(part(i), t[i]))
  <2>1. SubSeq(t, 1, i - 1) \in Seq(TextLine)
    BY <1>1
  <2>2. left(i) \in Int
    <3> DEFINE w == Tokens(SubSeq(t, 1, i - 1))
    <3>1. w \in Nat
      BY <2>1, TokensType
    <3>2. left(i) = limit - w
      OBVIOUS
    <3> HIDE DEF w, left
    <3> QED
      BY <3>1, <3>2
  <2>3. left(i) \in Nat /\ left(i) >= 1
    BY <1>2, <2>2
  <2> HIDE DEF left
  <2>4. t[i] \in Unreferred
    BY <1>1
  <2>5. IsOutput(t) => (t[i].kind = "gap" => t[i].tokens = 1)
    BY DEF IsOutput
  <2>6. CASE t[i].tokens <= left(i)
    <3>1. part(i) = t[i]
      BY <2>6
    <3> HIDE DEF part
    <3> QED
      BY <2>4, <3>1
  <2>7. CASE ~ (t[i].tokens <= left(i))
    <3>1. part(i) = Clip(t[i], left(i))
      BY <2>7
    <3>2. Clip(t[i], left(i)) \in Unreferred /\ Clip(t[i], left(i)).kind = "clip"
          /\ Clip(t[i], left(i)).id = t[i].id
      BY <2>3, <2>4, LineTypes
    <3>3. IsOutput(t) => t[i].kind # "gap"
      BY <2>3, <2>5, <2>7
    <3> HIDE DEF part
    <3> QED
      BY <3>1, <3>2, <3>3
  <2> QED
    BY <2>6, <2>7
<1> HIDE DEF left, part
<1>3. parts \in Seq(S)
  BY <1>1
<1>4. q \in Seq(S)
  BY <1>3, KeepAtEmbeds
<1>5. ASSUME NEW k \in DOMAIN q
      PROVE  q[k] \in Unreferred /\ (IsOutput(t) => \E i \in DOMAIN t : Like(q[k], t[i]))
  <2>1. PICK i \in DOMAIN parts : i \in I /\ q[k] = parts[i]
    <3> HIDE DEF parts, I, S
    <3> QED BY <1>3, <1>5, KeepAtFrom
  <2>2. i \in DOMAIN t /\ q[k] = part(i)
    BY <2>1
  <2> HIDE DEF q, Like, I
  <2> QED
    BY <1>2, <2>1, <2>2
<1>6. q \in Seq(Unreferred)
  <2> HIDE DEF q
  <2> QED BY <1>4, <1>5
<1>7. RawPreview(t, limit) = q
  BY DEF RawPreview, left, part
<1> HIDE DEF q
<1> QED
  BY <1>5, <1>6, <1>7

(* A preview of an output within the limit is the output.                  *)
LEMMA PreviewWhole ==
  ASSUME NEW t, IsOutput(t), NEW limit \in Nat, Tokens(t) <= limit
  PROVE  RawPreview(t, limit) = t
<1> DEFINE left(i) == limit - Tokens(SubSeq(t, 1, i - 1))
           part(i) == IF t[i].tokens <= left(i) THEN t[i] ELSE Clip(t[i], left(i))
           costs == [i \in DOMAIN t |-> t[i].tokens]
           I == {i \in DOMAIN t : left(i) > 0}
<1>1. t \in Seq(Unreferred) /\ t \in Seq(TextLine) /\ DOMAIN t = 1 .. Len(t) /\ Len(t) \in Nat
  BY OutputType, UnreferredIsText
<1>2. \A i \in DOMAIN t : t[i].tokens \in Nat /\ t[i].tokens > 0
  <2>1. ASSUME NEW i \in DOMAIN t PROVE t[i].tokens \in Nat
    <3>1. t[i] \in TextLine
      BY <1>1
    <3> QED
      BY <3>1 DEF TextLine
  <2> QED
    BY <2>1 DEF IsOutput
<1>3. costs \in Seq(Nat) /\ Len(costs) = Len(t)
  BY <1>1, <1>2
<1>4. ASSUME NEW i \in DOMAIN t
      PROVE  Tokens(SubSeq(t, 1, i - 1)) = SumOfLast(SubSeq(costs, 1, i - 1), i - 1)
  <2> DEFINE b == SubSeq(t, 1, i - 1)
             c == [k \in DOMAIN b |-> b[k].tokens]
  <2>1. Len(b) = i - 1 /\ DOMAIN b = 1 .. i - 1 /\ \A k \in 1 .. i - 1 : b[k] = t[k]
    BY <1>1
  <2>2. SubSeq(costs, 1, i - 1) = [k \in 1 .. i - 1 |-> costs[k]]
    BY <1>1, <1>3
  <2>3. \A k \in 1 .. i - 1 : k \in DOMAIN t /\ costs[k] = t[k].tokens
    BY <1>1
  <2> HIDE DEF b, costs
  <2>4. c = SubSeq(costs, 1, i - 1)
    BY <2>1, <2>2, <2>3
  <2> QED
    BY <2>1, <2>4 DEF Tokens, b
<1>5. ASSUME NEW i \in DOMAIN t PROVE left(i) > 0 /\ part(i) = t[i]
  <2> DEFINE a == SumOfLast(SubSeq(costs, 1, i - 1), i - 1)
             w == SumOfLast(costs, Len(costs))
             x == t[i].tokens
  <2>1. i \in 1 .. Len(costs) /\ costs[i] = x
    BY <1>1, <1>3
  <2>2. a \in Nat /\ a + costs[i] <= w
    <3> HIDE DEF costs
    <3> QED BY <1>3, <2>1, BeginningsFit
  <2>3. w = Tokens(t) /\ w \in Nat
    BY <1>1, <1>3, TokensType DEF Tokens
  <2>4. x \in Nat /\ x > 0
    BY <1>2
  <2>5. left(i) = limit - a
    BY <1>4
  <2>6. a + x <= limit
    <3> HIDE DEF a, w, x
    <3> QED BY <2>1, <2>2, <2>3, <2>4
  <2> HIDE DEF a, w, left, costs
  <2>7. x <= left(i) /\ left(i) > 0
    <3> HIDE DEF x
    <3> QED BY <2>2, <2>4, <2>5, <2>6
  <2> QED
    BY <2>7
<1> HIDE DEF left, part
<1>6. [i \in DOMAIN t |-> part(i)] = t
  BY <1>1, <1>5
<1>7. 1 .. Len(t) \subseteq I
  BY <1>1, <1>5
<1>8. KeepAt(t, I) = t
  <2> HIDE DEF I
  <2> QED BY <1>1, <1>7, KeepAtAll
<1> QED
  BY <1>6, <1>8 DEF RawPreview, left, part

-----------------------------------------------------------------------------
(* The verifier. *)

Steady(t) == \A i, k \in DOMAIN t : t[i].id = t[k].id => t[i] = t[k]

(* A line put back is a line, and the lines put back are a text.  None is  *)
(* missing from the source itself.                                         *)
LEMMA MissingType ==
  ASSUME NEW s \in Seq(Unreferred), NEW failed
  PROVE  /\ \A t : MissingLines(s, t, failed) \in Seq(TextLine)
         /\ MissingLines(s, s, failed) = <<>>
<1> DEFINE parts == [i \in DOMAIN s |-> Collapsed(s[i])]
           lines(t) == {i \in FactLines(s) :
                          NewFacts(s, i) \cap MissingFacts(s, t, failed) # {}}
<1>1. \A i \in DOMAIN s : Collapsed(s[i]) \in Unreferred
  <2>1. \A i \in DOMAIN s : s[i] \in Unreferred
    OBVIOUS
  <2>2. RepairTokens \in Nat
    BY DEF RepairTokens
  <2> QED
    BY <2>1, <2>2, LineTypes DEF Collapsed
<1>2. parts \in Seq(Unreferred)
  <2>1. DOMAIN s = 1 .. Len(s) /\ Len(s) \in Nat
    OBVIOUS
  <2> QED
    BY <1>1, <2>1
<1>3. \A t : MissingLines(s, t, failed) = KeepAt(parts, lines(t))
  BY DEF MissingLines
<1> HIDE DEF parts
<1>4. ASSUME NEW t PROVE MissingLines(s, t, failed) \in Seq(TextLine)
  <2> DEFINE I == lines(t)
  <2> HIDE DEF I
  <2>1. KeepAt(parts, I) \in Seq(Unreferred)
    BY <1>2, KeepAtEmbeds
  <2>2. KeepAt(parts, I) \in Seq(TextLine)
    BY <2>1, UnreferredIsText
  <2> QED
    BY <1>3, <2>2 DEF I
<1>5. MissingLines(s, s, failed) = <<>>
  <2> DEFINE q == KeepAt(parts, lines(s))
  <2>1. MissingFacts(s, s, failed) = {}
    <3>1. \A i \in FactLines(s) : NewFacts(s, i) \subseteq Keeps(s)
      BY DEF NewFacts, FactLines, Keeps
    <3>2. Facts(s) \ Keeps(s) = {}
      BY <3>1 DEF Facts
    <3> QED
      BY <3>2 DEF MissingFacts
  <2>2. lines(s) = {}
    BY <2>1
  <2>3. ASSUME NEW k \in DOMAIN q PROVE FALSE
    <3> DEFINE I == lines(s)
    <3>1. I = {}
      BY <2>2
    <3>2. k \in DOMAIN KeepAt(parts, I)
      BY <2>3
    <3> HIDE DEF I
    <3>3. \E i \in DOMAIN parts : i \in I
      BY <1>2, <3>2, KeepAtFrom
    <3> QED
      BY <3>1, <3>3
  <2>4. q \in Seq(TextLine)
    BY <1>3, <1>4
  <2> HIDE DEF q
  <2>5. q # <<>> => 1 \in DOMAIN q
    BY <2>4
  <2>6. q = <<>>
    BY <2>3, <2>5
  <2> QED
    BY <1>3, <2>6 DEF q
<1> QED
  BY <1>4, <1>5

(* What is promised is named by the text or by a line put back: by the     *)
(* first line of the source that names it.  A promised count is one of a   *)
(* failure without details, so that no detail excuses its absence.         *)
LEMMA MissingHolds ==
  ASSUME NEW s \in Seq(Unreferred), NEW t, NEW failed
  PROVE  /\ Promised(s, failed) \subseteq Keeps(t) \cup Keeps(MissingLines(s, t, failed))
         /\ Promised(s, failed) \subseteq Keeps(s)
<1> DEFINE parts == [i \in DOMAIN s |-> Collapsed(s[i])]
           I == {i \in FactLines(s) : NewFacts(s, i) \cap MissingFacts(s, t, failed) # {}}
           q == KeepAt(parts, I)
<1>1. Promised(s, failed) \subseteq Keeps(s)
  BY DEF Promised, NewFacts, FactLines, Keeps
<1>2. SUFFICES ASSUME NEW f \in Promised(s, failed), f \notin Keeps(t)
               PROVE  f \in Keeps(q)
  BY <1>1 DEF MissingLines
<1>3. PICK i \in FactLines(s) : f \in NewFacts(s, i) /\ f \in Collapsed(s[i]).keeps
  BY DEF Promised
<1>4. f \in Facts(s) \ Keeps(t)
  BY <1>2, <1>3 DEF Facts
<1>5. f \in SummaryCounts => failed /\ Details(s) = {}
  BY DEF Promised
<1>6. f \in MissingFacts(s, t, failed)
  BY <1>4, <1>5 DEF MissingFacts
<1>7. i \in I /\ i \in DOMAIN parts /\ parts[i] = Collapsed(s[i])
  BY <1>3, <1>6 DEF FactLines
<1>8. parts \in Seq({parts[k] : k \in DOMAIN s})
  <2>1. DOMAIN s = 1 .. Len(s) /\ Len(s) \in Nat
    OBVIOUS
  <2> QED
    BY <2>1
<1> HIDE DEF I, parts
<1>9. PICK k \in DOMAIN q : q[k] = parts[i]
  BY <1>7, <1>8, KeepAtHolds
<1> HIDE DEF q
<1> QED
  BY <1>3, <1>7, <1>9 DEF Keeps

(* A repair is added to the text, and holds all that is missing unless     *)
(* that is too much.                                                       *)
LEMMA Repair ==
  ASSUME NEW t \in Seq(TextLine), NEW missing \in Seq(TextLine), NEW maxLines \in Int
  PROVE  LET r == AppendRetentionRepair(t, missing, maxLines)
         IN  /\ r \in Seq(TextLine)
             /\ \A kind : HasKind(t, kind) => HasKind(r, kind)
             /\ ~ContentFree(t) => ~ContentFree(r)
             /\ Keeps(t) \subseteq Keeps(r)
             /\ Len(missing) <= maxLines => Keeps(missing) \subseteq Keeps(r)
<1> DEFINE n == Smaller(Len(missing), Larger(maxLines, 1))
           h == Append(t, Header)
           m == SubSeq(missing, 1, n)
           r == AppendRetentionRepair(t, missing, maxLines)
<1>1. Header \in TextLine
  BY LineTypes
<1>2. Len(missing) \in Nat /\ n \in 0 .. Len(missing)
  BY DEF Smaller, Larger
<1>3. m \in Seq(TextLine)
  <2> HIDE DEF n
  <2> QED BY <1>2
<1>4. ASSUME Len(missing) <= maxLines PROVE m = missing
  <2>1. n = Len(missing)
    BY <1>2, <1>4 DEF Smaller, Larger
  <2> HIDE DEF n
  <2> QED
    BY <2>1
<1>5. r = h \o m
  BY DEF AppendRetentionRepair
<1> HIDE DEF m
<1>6. /\ h \in Seq(TextLine) /\ \A kind : HasKind(t, kind) => HasKind(h, kind)
      /\ ~ContentFree(t) => ~ContentFree(h)
      /\ Keeps(t) \subseteq Keeps(h)
  BY <1>1, AddedLine
<1> HIDE DEF h, r
<1>7. /\ r \in Seq(TextLine) /\ \A kind : HasKind(h, kind) => HasKind(r, kind)
      /\ ~ContentFree(h) => ~ContentFree(r)
      /\ Keeps(h) \subseteq Keeps(r) /\ Keeps(m) \subseteq Keeps(r)
  BY <1>3, <1>5, <1>6, AddedLines
<1>8. Len(missing) <= maxLines => Keeps(missing) \subseteq Keeps(r)
  BY <1>4, <1>7
<1>9. /\ r \in Seq(TextLine) /\ \A kind : HasKind(t, kind) => HasKind(r, kind)
      /\ ~ContentFree(t) => ~ContentFree(r)
      /\ Keeps(t) \subseteq Keeps(r)
  BY <1>6, <1>7
<1> QED
  BY <1>8, <1>9 DEF r

-----------------------------------------------------------------------------
(* The guards. *)

(* Each guard shows the text, the raw output or the raw output compacted.  *)
LEMMA GuardsType ==
  ASSUME NEW t, NEW raw \in Seq(Unreferred), NEW exit
  PROVE  /\ PreferRawSmallOutput(t, raw, exit) \in {t, raw}
         /\ PreferTerseRender(t, raw) = t
            \/ PreferTerseRender(t, raw) \in Seq(Unreferred)
         /\ NeverWorseThanRaw(t, raw) \in {t, raw}
<1>1. CompactLines(raw, TerseLines) \in Seq(Unreferred)
  BY CompactType DEF TerseLines
<1> QED
  BY <1>1 DEF PreferRawSmallOutput, PreferTerseRender, NeverWorseThanRaw

-----------------------------------------------------------------------------
(* The invariant. *)

Stages == {"start", "captured", "rendered", "escalated", "compacted", "contracted",
           "finalized", "artifact", "assembled", "verified", "done"}
Shown == {"assembled", "verified", "done"}

(* What each variable holds: no text has a reference before it is          *)
(* assembled.                                                              *)
TypeInv ==
  /\ job \in Jobs /\ stage \in Stages
  /\ run.out \in Seq(Unreferred) /\ run.err \in Seq(Unreferred) /\ run.counted \in Int
  /\ text \in Seq(TextLine) /\ (stage \notin Shown => text \in Seq(Unreferred))
  /\ notes \in [fallback : BOOLEAN, plan : BOOLEAN]

(* A capture that is not truncated is the output; one that is, is cut from *)
(* it, and makes no gap of a line.                                         *)
CaptureInv ==
  /\ stage = "start" =>
       run = [out |-> <<>>, err |-> <<>>, truncated |-> FALSE, counted |-> 0, rewritten |-> FALSE]
  /\ stage # "start" /\ ~run.truncated => run.out = job.cmd.out /\ run.err = job.cmd.err
  /\ AlikeGaps(Raw)

(* A plan to recover is kept by an artifact, unless it could not be        *)
(* written, and by a reference to it, unless the text is the whole output. *)
(* What is written is the capture in memory, of a run without a file.      *)
RecoveryInv ==
  /\ notes.plan => ~job.inv.pass
  /\ stage \notin Shown \cup {"artifact"} => tee \in {"none", "kept"}
  /\ artifact = "written" => tee = "none" /\ stage \in Shown \cup {"artifact"}
  /\ artifact = "tee" => tee = "kept" /\ stage \in Shown \cup {"artifact"}
  /\ stage \in Shown \cup {"artifact"} /\ notes.plan /\ Raw # <<>> /\ artifact # "lost" =>
       artifact \in {"tee", "written"}
  /\ stage \in Shown /\ notes.plan /\ Raw # <<>> /\ artifact # "lost" =>
       (text = Whole /\ ~CaptureIncomplete) \/ HasKind(text, "ref")

FactsInv ==
  /\ stage \notin {"verified", "done"} => verified = "no"
  /\ verified \in {"held", "repaired"} /\ (artifact = "tee" \/ ~CaptureIncomplete) =>
       Promised(ReadByVerifier, IsFailureExit) \subseteq Keeps(text)

(* From the guard against empty failures on, a failing run says something. *)
ContentInv ==
  stage \in Shown \cup {"finalized", "artifact"} /\ ~job.inv.pass /\ IsFailureExit
    /\ ~ContentFree(Raw) => ~ContentFree(text)

PipelineInv == TypeInv /\ CaptureInv /\ RecoveryInv /\ FactsInv /\ ContentInv

-----------------------------------------------------------------------------
(* The jobs. *)

Like(l, m) == l.id = m.id /\ (l.kind = "gap" <=> m.kind = "gap")

(* What the assumption on the jobs says of one of them.                    *)
LEMMA JobType ==
  ASSUME job \in Jobs
  PROVE  /\ IsOutput(job.cmd.out) /\ IsOutput(job.cmd.err) /\ IsOutput(job.reduced.text)
         /\ job.cmd.out \in Seq(Unreferred) /\ job.cmd.err \in Seq(Unreferred)
         /\ job.reduced.text \in Seq(Unreferred)
         /\ Whole \in Seq(Unreferred) /\ Whole \in Seq(TextLine) /\ Steady(Whole)
         /\ job.budget.lines \in Nat /\ job.budget.tokens \in Nat
<1>1. /\ IsOutput(job.cmd.out) /\ IsOutput(job.cmd.err) /\ IsOutput(job.reduced.text)
      /\ job.budget.lines \in Nat /\ job.budget.tokens \in Nat
  BY JobsAreJobs DEF JobsAssumption
<1>2. Steady(Whole)
  BY JobsAreJobs DEF JobsAssumption, Whole, Combine, Steady
<1>3. /\ job.cmd.out \in Seq(Unreferred) /\ job.cmd.err \in Seq(Unreferred)
      /\ job.reduced.text \in Seq(Unreferred)
  BY <1>1, OutputType
<1>4. Whole \in Seq(Unreferred)
  BY <1>3 DEF Whole, Combine
<1>5. Whole \in Seq(TextLine)
  BY <1>4, UnreferredIsText
<1> QED
  BY <1>1, <1>2, <1>3, <1>4, <1>5

(* What is captured of a stream is its lines, or a preview of them.        *)
LEMMA CapturedLines ==
  ASSUME job \in Jobs, NEW s \in Streams
  PROVE  /\ Captured(s) \in Seq(Unreferred)
         /\ \A k \in DOMAIN Captured(s) : \E i \in DOMAIN job.cmd[s] :
              Like(Captured(s)[k], job.cmd[s][i])
         /\ ~Truncated(s) => Captured(s) = job.cmd[s]
<1> DEFINE t == job.cmd[s]
<1>1. IsOutput(t) /\ t \in Seq(Unreferred)
  BY JobType DEF Streams
<1>2. PreviewTokens \in Nat
  BY DEF PreviewTokens
<1>3. CASE CapturesAll(s)
  <2>1. Captured(s) = t
    BY <1>3 DEF Captured
  <2> HIDE DEF t
  <2>2. \A k \in DOMAIN t : \E i \in DOMAIN t : Like(t[k], t[i])
    BY DEF Like
  <2> QED
    BY <1>1, <2>1, <2>2 DEF t
<1>4. CASE ~CapturesAll(s)
  <2> DEFINE q == RawPreview(t, PreviewTokens)
  <2>1. Captured(s) = q
    BY <1>4 DEF Captured
  <2>2. Tokens(t) \in Nat
    <3> HIDE DEF t
    <3> QED BY <1>1, UnreferredIsText, TokensType
  <2>3. ~Truncated(s) => Tokens(t) <= PreviewTokens
    <3> DEFINE n == Tokens(t)
    <3>1. ~Truncated(s) => ~(n > PreviewTokens)
      BY <1>4 DEF Truncated
    <3>2. n \in Nat
      BY <2>2
    <3> HIDE DEF n
    <3>3. ~Truncated(s) => n <= PreviewTokens
      BY <1>2, <3>1, <3>2
    <3> QED
      BY <3>3 DEF n
  <2> HIDE DEF t
  <2>4. /\ q \in Seq(Unreferred)
        /\ \A k \in DOMAIN q : \E i \in DOMAIN t : Like(q[k], t[i])
    BY <1>1, <1>2, PreviewLines DEF Like
  <2>5. ~Truncated(s) => q = t
    BY <1>1, <1>2, <2>3, PreviewWhole
  <2> HIDE DEF q
  <2> QED
    BY <2>1, <2>4, <2>5 DEF t
<1> QED
  BY <1>3, <1>4

(* Lines that stand for those of an output in which what prints alike is   *)
(* the same line, are gaps together.                                       *)
LEMMA CombineAlike ==
  ASSUME NEW S, NEW out \in Seq(S), NEW err \in Seq(S), Steady(out \o err),
         NEW p \in Seq(S), \A k \in DOMAIN p : \E i \in DOMAIN out : Like(p[k], out[i]),
         NEW q \in Seq(S), \A k \in DOMAIN q : \E i \in DOMAIN err : Like(q[k], err[i])
  PROVE  AlikeGaps(p \o q)
<1> DEFINE w == out \o err
           r == p \o q
<1>1. /\ DOMAIN w = 1 .. Len(out) + Len(err) /\ Len(out) \in Nat /\ Len(err) \in Nat
      /\ \A i \in DOMAIN out : i \in DOMAIN w /\ w[i] = out[i]
      /\ \A i \in DOMAIN err : Len(out) + i \in DOMAIN w /\ w[Len(out) + i] = err[i]
  OBVIOUS
<1>2. ASSUME NEW k \in DOMAIN r PROVE \E i \in DOMAIN w : Like(r[k], w[i])
  <2>1. (k \in DOMAIN p /\ r[k] = p[k]) \/ (k - Len(p) \in DOMAIN q /\ r[k] = q[k - Len(p)])
    <3>1. k \in 1 .. Len(p) + Len(q) /\ Len(p) \in Nat /\ Len(q) \in Nat
      OBVIOUS
    <3>2. CASE k <= Len(p)
      BY <3>1, <3>2
    <3>3. CASE ~ (k <= Len(p))
      BY <3>1, <3>3
    <3> QED
      BY <3>2, <3>3
  <2> HIDE DEF r, w
  <2>2. CASE k \in DOMAIN p /\ r[k] = p[k]
    <3>1. PICK i \in DOMAIN out : Like(p[k], out[i])
      BY <2>2
    <3> QED
      BY <1>1, <2>2, <3>1
  <2>3. CASE k - Len(p) \in DOMAIN q /\ r[k] = q[k - Len(p)]
    <3>1. PICK i \in DOMAIN err : Like(q[k - Len(p)], err[i])
      BY <2>3
    <3>2. Len(out) + i \in DOMAIN w /\ w[Len(out) + i] = err[i]
      BY <1>1
    <3> QED
      BY <2>3, <3>1, <3>2
  <2> QED
    BY <2>1, <2>2, <2>3
<1>3. \A i, k \in DOMAIN w : w[i].id = w[k].id => w[i] = w[k]
  BY DEF Steady
<1> HIDE DEF r, w
<1>4. ASSUME NEW i \in DOMAIN r, NEW k \in DOMAIN r, r[i].id = r[k].id
      PROVE  r[i].kind = "gap" <=> r[k].kind = "gap"
  <2>1. PICK a \in DOMAIN w : Like(r[i], w[a])
    BY <1>2
  <2>2. PICK b \in DOMAIN w : Like(r[k], w[b])
    BY <1>2
  <2>3. w[a] = w[b]
    BY <1>3, <1>4, <2>1, <2>2 DEF Like
  <2> QED
    BY <2>1, <2>2, <2>3 DEF Like
<1>5. AlikeGaps(r)
  BY <1>4 DEF AlikeGaps
<1> QED
  BY <1>5 DEF r

(* A complete capture is the output.                                       *)
LEMMA CompleteIsWhole ==
  ASSUME CaptureInv, stage # "start", ~CaptureIncomplete
  PROVE  Raw = Whole
BY DEF CaptureInv, CaptureIncomplete, Raw, Whole, Combine

(* What is raw is lines without references, and its cost a number.         *)
LEMMA RawType ==
  ASSUME TypeInv
  PROVE  Raw \in Seq(Unreferred) /\ Raw \in Seq(TextLine) /\ TrueRawTokens \in Int
<1>1. Raw \in Seq(Unreferred)
  BY DEF TypeInv, Raw, Combine
<1>2. Raw \in Seq(TextLine)
  BY <1>1, UnreferredIsText
<1>3. Tokens(Raw) \in Nat
  BY <1>2, TokensType
<1>4. TrueRawTokens \in Int
  BY <1>3 DEF TrueRawTokens, TypeInv, Larger
<1> QED
  BY <1>1, <1>2, <1>4

-----------------------------------------------------------------------------
(* The steps. *)

(* A step from one rendering stage to the next changes the text and the    *)
(* notes, and makes no promise yet.                                        *)
LEMMA RenderingStep ==
  ASSUME PipelineInv, UNCHANGED <<job, run, tee, artifact, verified>>,
         stage \in {"captured", "rendered", "escalated", "compacted"},
         stage' \in {"rendered", "escalated", "compacted", "contracted"},
         text' \in Seq(Unreferred), notes' \in [fallback : BOOLEAN, plan : BOOLEAN],
         notes'.plan => ~job.inv.pass
  PROVE  PipelineInv'
<1>1. text' \in Seq(TextLine)
  BY UnreferredIsText
<1>2. TypeInv'
  BY <1>1 DEF PipelineInv, TypeInv, Stages
<1>3. CaptureInv'
  BY DEF PipelineInv, CaptureInv, Raw, Combine
<1>4. RecoveryInv'
  BY DEF PipelineInv, RecoveryInv, Shown
<1>5. FactsInv'
  BY DEF PipelineInv, FactsInv
<1>6. ContentInv'
  BY DEF ContentInv, Shown
<1> QED
  BY <1>2, <1>3, <1>4, <1>5, <1>6 DEF PipelineInv

(* How many lines of the output a failure shows is a number.               *)
LEMMA EscapeLinesType ==
  ASSUME job \in Jobs
  PROVE  EscapeLines \in Int
BY JobType DEF EscapeLines, CeilDiv

(* What stands for an empty preferred stream are lines of the other.       *)
LEMMA FallbackType ==
  ASSUME job \in Jobs, NEW streams, streams.out \in Seq(Unreferred), streams.err \in Seq(Unreferred)
  PROVE  PreferredStreamFallback(streams) \in Seq(Unreferred)
<1> DEFINE own == IF job.profile.pref = "stdoutOnly" THEN "out" ELSE "err"
           t == streams[Other(own)]
<1>1. t \in Seq(Unreferred)
  BY DEF Other
<1>2. CompactLines(t, job.budget.lines) \in Seq(Unreferred)
  <2>1. job.budget.lines \in Int
    BY JobType
  <2> HIDE DEF t
  <2> QED
    BY <1>1, <2>1, CompactType
<1> QED
  BY <1>2 DEF PreferredStreamFallback

(* The first text is lines without references.                             *)
LEMMA InitialRenderType ==
  ASSUME TypeInv
  PROVE  InitialRender \in Seq(Unreferred)
<1>1. job \in Jobs /\ run.out \in Seq(Unreferred) /\ run.err \in Seq(Unreferred)
  BY DEF TypeInv
<1>2. Raw \in Seq(Unreferred) /\ job.reduced.text \in Seq(Unreferred)
  BY <1>1, RawType, JobType
<1>3. BypassRawContent \in Seq(Unreferred)
  <2> DEFINE kept == {s \in OnlyStream(job.profile.pref) : run[s] # <<>>}
             c == CHOOSE s \in kept : TRUE
  <2>1. \A s \in OnlyStream(job.profile.pref) : s \in {"out", "err"}
    BY DEF OnlyStream, Streams
  <2>2. kept # {} => c \in kept
    OBVIOUS
  <2>3. kept # {} => run[c] \in Seq(Unreferred)
    <3> HIDE DEF c
    <3> QED BY <1>1, <2>1, <2>2
  <2> QED
    BY <1>2, <2>3 DEF BypassRawContent
<1>4. RenderedContent \in Seq(Unreferred)
  BY <1>2, <1>3 DEF RenderedContent
<1>5. PreferredStreamFallback(run) \in Seq(Unreferred)
  BY <1>1, FallbackType
<1> QED
  BY <1>2, <1>4, <1>5 DEF InitialRender

(* A failure that escapes its reducer shows lines of the output.           *)
LEMMA EscapeType ==
  ASSUME job \in Jobs, NEW t \in Seq(Unreferred), NEW raw \in Seq(Unreferred), NEW fallback
  PROVE  FailureEscape(t, raw, fallback) \in Seq(Unreferred)
<1>1. CompactLines(raw, EscapeLines) \in Seq(Unreferred)
  BY EscapeLinesType, CompactType
<1> QED
  BY <1>1 DEF FailureEscape

(* Rendering and escalating keep the invariant.                            *)
LEMMA RenderKeeps ==
  ASSUME PipelineInv, Render
  PROVE  PipelineInv'
<1>1. text' \in Seq(Unreferred)
  BY InitialRenderType DEF PipelineInv, Render
<1>2. notes' \in [fallback : BOOLEAN, plan : BOOLEAN] /\ (notes'.plan => ~job.inv.pass)
  BY DEF PipelineInv, TypeInv, RecoveryInv, Render
<1> QED
  BY <1>1, <1>2, RenderingStep DEF Render

(* As rendering does, so does escalating: what the reducer planned is of a *)
(* run that is not passed through.                                         *)
LEMMA EscalateKeeps ==
  ASSUME PipelineInv, Escalate
  PROVE  PipelineInv'
<1>1. job \in Jobs /\ text \in Seq(Unreferred) /\ Raw \in Seq(Unreferred)
  BY RawType DEF PipelineInv, TypeInv, Escalate, Shown
<1>2. text' \in Seq(Unreferred)
  BY <1>1, EscapeType DEF Escalate
<1>3. notes' \in [fallback : BOOLEAN, plan : BOOLEAN] /\ (notes'.plan => ~job.inv.pass)
  <2>1. FallbackUsed \in BOOLEAN
    BY DEF FallbackUsed
  <2>2. (HasReducer /\ job.reduced.plan) \in BOOLEAN /\ (HasReducer => ~job.inv.pass)
    BY DEF HasReducer
  <2>3. notes' = [fallback |-> FallbackUsed, plan |-> HasReducer /\ job.reduced.plan]
    BY DEF Escalate
  <2> QED
    BY <2>1, <2>2, <2>3
<1> QED
  BY <1>2, <1>3, RenderingStep DEF Escalate

(* The ultra-compact form is lines without references.                     *)
LEMMA CompactKeeps ==
  ASSUME PipelineInv, Compact
  PROVE  PipelineInv'
<1>1. job \in Jobs /\ text \in Seq(Unreferred) /\ Raw \in Seq(Unreferred)
  BY RawType DEF PipelineInv, TypeInv, Compact, Shown
<1>2. (job.cmd.exit # 0) \in BOOLEAN
  OBVIOUS
<1>3. RenderUltraCompact(text, Raw, job.cmd.exit # 0) \in Seq(Unreferred)
  BY <1>1, <1>2, UltraCompactType
<1>4. text' \in Seq(Unreferred)
  BY <1>1, <1>3 DEF Compact, UltraCompactRender
<1>5. notes' \in [fallback : BOOLEAN, plan : BOOLEAN] /\ (notes'.plan => ~job.inv.pass)
  BY DEF PipelineInv, TypeInv, RecoveryInv, Compact
<1> QED
  BY <1>4, <1>5, RenderingStep DEF Compact

(* The contract cuts a text to lines without references.                   *)
LEMMA ContractKeeps ==
  ASSUME PipelineInv, Contract
  PROVE  PipelineInv'
<1>1. job \in Jobs /\ text \in Seq(Unreferred) /\ TrueRawTokens \in Int
  BY RawType DEF PipelineInv, TypeInv, Contract, Shown
<1>2. EnforceCompressionContract(text, TrueRawTokens, job.budget) \in Seq(Unreferred)
  BY <1>1, JobType, ContractType
<1>3. text' \in Seq(Unreferred)
  BY <1>1, <1>2 DEF Contract, ContractRender
<1>4. notes' \in [fallback : BOOLEAN, plan : BOOLEAN] /\ (notes'.plan => ~job.inv.pass)
  <2> DEFINE cut == ContractCut(text, TrueRawTokens)
  <2>1. cut \in BOOLEAN /\ (cut => ~job.inv.pass)
    BY DEF ContractCut
  <2>2. notes' = [notes EXCEPT !.plan = @ \/ cut]
    BY DEF Contract
  <2>3. notes \in [fallback : BOOLEAN, plan : BOOLEAN] /\ (notes.plan => ~job.inv.pass)
    BY DEF PipelineInv, TypeInv, RecoveryInv
  <2> HIDE DEF cut
  <2>4. (notes.plan \/ cut) \in BOOLEAN
    OBVIOUS
  <2>5. notes' = [fallback |-> notes.fallback, plan |-> notes.plan \/ cut]
    BY <2>2, <2>3
  <2> QED
    BY <2>1, <2>3, <2>4, <2>5
<1> QED
  BY <1>3, <1>4, RenderingStep DEF Contract

(* Before the command runs there is nothing to promise.                    *)
LEMMA InitKeeps ==
  ASSUME Init
  PROVE  PipelineInv
<1>1. TypeInv
  BY DEF Init, TypeInv, Stages, Shown
<1>2. CaptureInv
  BY DEF Init, CaptureInv, AlikeGaps, Raw, Combine
<1>3. RecoveryInv /\ FactsInv /\ ContentInv
  BY DEF Init, RecoveryInv, FactsInv, ContentInv, Shown
<1> QED
  BY <1>1, <1>2, <1>3 DEF PipelineInv

(* Running the command captures its lines, or previews of them.            *)
LEMMA RunCommandKeeps ==
  ASSUME PipelineInv, RunCommand
  PROVE  PipelineInv'
<1> DEFINE o == Captured("out")
           e == Captured("err")
<1>1. job \in Jobs /\ "out" \in Streams /\ "err" \in Streams
  BY DEF PipelineInv, TypeInv, Streams
<1>2. /\ o \in Seq(Unreferred) /\ e \in Seq(Unreferred)
      /\ ~Truncated("out") => o = job.cmd.out
      /\ ~Truncated("err") => e = job.cmd.err
      /\ \A k \in DOMAIN o : \E i \in DOMAIN job.cmd.out : Like(o[k], job.cmd.out[i])
      /\ \A k \in DOMAIN e : \E i \in DOMAIN job.cmd.err : Like(e[k], job.cmd.err[i])
  <2> HIDE DEF Like
  <2>1. /\ o \in Seq(Unreferred) /\ (~Truncated("out") => o = job.cmd["out"])
        /\ \A k \in DOMAIN o : \E i \in DOMAIN job.cmd["out"] : Like(o[k], job.cmd["out"][i])
    BY <1>1, CapturedLines
  <2>2. /\ e \in Seq(Unreferred) /\ (~Truncated("err") => e = job.cmd["err"])
        /\ \A k \in DOMAIN e : \E i \in DOMAIN job.cmd["err"] : Like(e[k], job.cmd["err"][i])
    BY <1>1, CapturedLines
  <2> HIDE DEF o, e
  <2> QED
    BY <2>1, <2>2
<1>3. \A n \in Counts : n \in Int
  <2> DEFINE a == Tokens(Whole)
             b == Tokens(o)
             c == Tokens(e)
  <2>1. a \in Nat /\ b \in Nat /\ c \in Nat
    <3>1. Whole \in Seq(TextLine) /\ o \in Seq(TextLine) /\ e \in Seq(TextLine)
      BY <1>1, <1>2, JobType, UnreferredIsText
    <3> QED
      BY <3>1, TokensType
  <2>2. \A n \in Counts : n = a \/ n = b + c
    BY DEF Counts
  <2> HIDE DEF a, b, c
  <2> QED
    BY <2>1, <2>2
<1>4. PICK counted \in Counts :
        run' = [out |-> o, err |-> e, counted |-> counted,
                truncated |-> Truncated("out") \/ Truncated("err"), rewritten |-> Rewrites]
  BY DEF RunCommand
<1>5. run'.out = o /\ run'.err = e /\ run'.counted = counted
      /\ run'.truncated = (Truncated("out") \/ Truncated("err"))
  BY <1>4
<1>6. UNCHANGED <<job, text, notes, artifact, verified>> /\ stage = "start" /\ stage' = "captured"
  BY DEF RunCommand
<1> HIDE DEF o, e
<1>7. TypeInv'
  BY <1>2, <1>3, <1>5, <1>6 DEF PipelineInv, TypeInv, Stages, Shown
<1>8. AlikeGaps(Raw')
  <2>1. Steady(job.cmd.out \o job.cmd.err) /\ job.cmd.out \in Seq(Unreferred)
        /\ job.cmd.err \in Seq(Unreferred)
    BY <1>1, JobType DEF Whole, Combine
  <2>2. Raw' = o \o e
    BY <1>5 DEF Raw, Combine
  <2>3. AlikeGaps(o \o e)
    BY <1>2, <2>1, CombineAlike
  <2> QED
    BY <2>2, <2>3
<1>9. CaptureInv'
  BY <1>2, <1>5, <1>6, <1>8 DEF CaptureInv, AlikeGaps
<1>10. RecoveryInv'
  <2>1. artifact \notin {"tee", "written"}
    BY <1>6 DEF PipelineInv, RecoveryInv, Shown
  <2>2. tee' \in {"none", "kept"}
    BY DEF RunCommand
  <2> QED
    BY <1>6, <2>1, <2>2 DEF PipelineInv, RecoveryInv, Shown
<1>11. FactsInv' /\ ContentInv'
  BY <1>6 DEF PipelineInv, FactsInv, ContentInv, Shown
<1> QED
  BY <1>7, <1>9, <1>10, <1>11 DEF PipelineInv

(* The guard against empty failures shows lines without references, and of *)
(* a failing run with anything in memory, more than gaps.                  *)
LEMMA InformativeType ==
  ASSUME job \in Jobs, NEW t \in Seq(Unreferred), NEW raw \in Seq(Unreferred), AlikeGaps(raw),
         NEW file \in Seq(Unreferred)
  PROVE  LET r == InformativeFailureRender(t, raw, file)
         IN  /\ r \in Seq(Unreferred)
             /\ ~job.inv.pass /\ IsFailureExit /\ ~ContentFree(raw) => ~ContentFree(r)
<1> DEFINE source == IF raw # <<>> THEN raw ELSE file
           r == InformativeFailureRender(t, raw, file)
<1>1. EscapeLines \in Int
  BY EscapeLinesType
<1>2. source \in Seq(Unreferred) /\ CompactLines(source, EscapeLines) \in Seq(Unreferred)
  <2>1. source \in Seq(Unreferred)
    OBVIOUS
  <2> HIDE DEF source
  <2> QED
    BY <1>1, <2>1, CompactType
<1>3. r = IF ~job.inv.pass /\ IsFailureExit /\ ContentFree(t) /\ source # <<>>
          THEN CompactLines(source, EscapeLines) ELSE t
  BY DEF InformativeFailureRender
<1>4. ASSUME ~job.inv.pass, IsFailureExit, ~ContentFree(raw) PROVE ~ContentFree(r)
  <2>1. raw # <<>>
    BY <1>4 DEF ContentFree
  <2>2. source = raw
    BY <2>1
  <2>3. ~ContentFree(CompactLines(raw, EscapeLines))
    BY <1>1, <1>4, CompactContent
  <2> HIDE DEF source, r
  <2> QED
    BY <1>3, <1>4, <2>1, <2>2, <2>3
<1> HIDE DEF source, r
<1>5. r \in Seq(Unreferred)
  BY <1>2, <1>3
<1> QED
  BY <1>4, <1>5 DEF r

(* The guards of the last stage of rendering show the text, the raw output *)
(* or, of a run that did not fail, the raw output compacted.               *)
LEMMA FinalizeKeeps ==
  ASSUME PipelineInv, Finalize
  PROVE  PipelineInv'
<1> DEFINE file == IF tee = "kept" THEN ReadFailureArtifact(Whole) ELSE <<>>
           t1 == InformativeFailureRender(text, Raw, file)
           t2 == TerseRender(t1)
           t3 == SmallRender(t2, Raw, ~run.truncated)
<1>1. /\ job \in Jobs /\ text \in Seq(Unreferred) /\ Raw \in Seq(Unreferred) /\ AlikeGaps(Raw)
      /\ UNCHANGED <<job, run, tee, notes, artifact, verified>>
      /\ stage = "contracted" /\ stage' = "finalized" /\ text' = t3
  BY RawType DEF PipelineInv, TypeInv, CaptureInv, Finalize, Shown
<1>2. file \in Seq(Unreferred)
  <2>1. ReadFailureArtifact(Whole) \in Seq(Unreferred)
    BY <1>1, JobType, ArtifactLimitIsPositive, PreviewLines DEF ReadFailureArtifact
  <2> QED
    BY <2>1
<1> HIDE DEF file
<1>3. t1 \in Seq(Unreferred)
      /\ (~job.inv.pass /\ IsFailureExit /\ ~ContentFree(Raw) => ~ContentFree(t1))
  BY <1>1, <1>2, InformativeType
<1> HIDE DEF t1
<1>4. t2 \in Seq(Unreferred) /\ (IsFailureExit => t2 = t1)
  <2>1. PreferTerseRender(t1, Raw) \in Seq(Unreferred)
    BY <1>1, <1>3, GuardsType
  <2> QED
    BY <1>3, <2>1 DEF TerseRender, IsFailureExit
<1> HIDE DEF t2
<1>5. t3 = t2 \/ t3 = Raw
  BY <1>1, GuardsType DEF SmallRender
<1> HIDE DEF t3
<1>6. text' \in Seq(Unreferred) /\ text' \in Seq(TextLine)
  BY <1>1, <1>4, <1>5, UnreferredIsText
<1>7. ~job.inv.pass /\ IsFailureExit /\ ~ContentFree(Raw) => ~ContentFree(text')
  BY <1>1, <1>3, <1>4, <1>5
<1>8. TypeInv'
  BY <1>1, <1>6 DEF PipelineInv, TypeInv, Stages
<1>9. CaptureInv'
  BY <1>1 DEF PipelineInv, CaptureInv, Raw, Combine
<1>10. RecoveryInv' /\ FactsInv'
  BY <1>1 DEF PipelineInv, RecoveryInv, FactsInv, Shown
<1>11. ContentInv'
  BY <1>1, <1>7 DEF ContentInv, IsFailureExit, Raw, Combine
<1> QED
  BY <1>8, <1>9, <1>10, <1>11 DEF PipelineInv

(* A step to the artifact keeps the text, and keeps the promise of a plan. *)
LEMMA ArtifactStep ==
  ASSUME PipelineInv, UNCHANGED <<job, run, text, notes, verified>>,
         stage = "finalized", stage' = "artifact", artifact' = "tee" => tee' = "kept",
         artifact' = "written" => tee' = "none",
         ShouldPersistRecovery /\ artifact' # "lost" => artifact' \in {"tee", "written"}
  PROVE  PipelineInv'
<1>1. TypeInv'
  BY DEF PipelineInv, TypeInv, Stages, Shown
<1>2. CaptureInv'
  BY DEF PipelineInv, CaptureInv, Raw, Combine
<1>3. RecoveryInv'
  BY DEF PipelineInv, RecoveryInv, Shown, ShouldPersistRecovery, Raw, Combine
<1>4. FactsInv'
  BY DEF PipelineInv, FactsInv
<1>5. ContentInv'
  BY DEF PipelineInv, ContentInv, Shown, IsFailureExit, Raw, Combine
<1> QED
  BY <1>1, <1>2, <1>3, <1>4, <1>5 DEF PipelineInv

(* A capture on disk is retained when there is a plan.                     *)
LEMMA RetainTeeKeeps ==
  ASSUME PipelineInv, RetainTee
  PROVE  PipelineInv'
<1>1. ShouldPersistRecovery => artifact' = "tee"
  BY DEF RetainTee, KeepsTee
<1>2. artifact' # "written" /\ (artifact' = "tee" => tee' = "kept")
  BY DEF RetainTee
<1> QED
  BY <1>1, <1>2, ArtifactStep DEF RetainTee

(* Without one, what is in memory is written.                              *)
LEMMA WriteArtifactKeeps ==
  ASSUME PipelineInv, WriteArtifact
  PROVE  PipelineInv'
<1>1. ShouldPersistRecovery => artifact' \in {"written", "lost"}
  BY DEF WriteArtifact, ShouldPersistRecovery
<1>2. artifact' # "tee" /\ tee' = "none"
  BY DEF WriteArtifact, PipelineInv, RecoveryInv, Shown
<1> QED
  BY <1>1, <1>2, ArtifactStep DEF WriteArtifact

(* The text is assembled: with a plan it refers to the artifact, or is the *)
(* whole output.                                                           *)
LEMMA AssembleKeeps ==
  ASSUME PipelineInv, Assemble
  PROVE  PipelineInv'
<1> DEFINE t == SmallRender(text, Raw, ~run.truncated)
           s == AssembleWithSuffixes(t, DisplayArtifactSuffixes(notes.plan), TrueRawTokens,
                                     job.budget, job.inv.contract)
           d == Assembled(t)
           r == TinyRawOverSuffixed(d)
<1>1. /\ job \in Jobs /\ text \in Seq(Unreferred) /\ Raw \in Seq(Unreferred)
      /\ Raw \in Seq(TextLine) /\ TrueRawTokens \in Int
      /\ UNCHANGED <<job, run, tee, notes, artifact, verified>>
      /\ stage = "artifact" /\ stage' = "assembled" /\ text' = r
  BY RawType DEF PipelineInv, TypeInv, Assemble, Shown
<1>2. t = text \/ t = Raw
  BY <1>1, GuardsType DEF SmallRender
<1> HIDE DEF t
<1>3. t \in Seq(Unreferred) /\ t \in Seq(TextLine)
  BY <1>1, <1>2, UnreferredIsText
<1>4. /\ s \in Seq(TextLine) /\ HasKind(s, "ref")
      /\ ~ContentFree(t) => ~ContentFree(s)
  <2>1. job.budget.tokens \in Nat
    BY <1>1, JobType
  <2> QED
    BY <1>1, <1>3, <2>1, Suffixed
<1>5. d = IF \/ job.inv.pass \/ (job.cmd.exit = 0 /\ ~CaptureIncomplete /\ t = Raw)
             \/ artifact \notin {"tee", "written"} THEN t ELSE s
  BY DEF Assembled
<1> HIDE DEF s, d
<1>6. r = d \/ (r = Raw /\ ~CaptureIncomplete /\ job.cmd.exit = 0)
  BY DEF TinyRawOverSuffixed
<1> HIDE DEF r
<1>7. r \in Seq(TextLine)
  BY <1>1, <1>3, <1>4, <1>5, <1>6
<1>8. ~job.inv.pass /\ IsFailureExit /\ ~ContentFree(Raw) => ~ContentFree(r)
  <2>1. ~job.inv.pass /\ IsFailureExit /\ ~ContentFree(Raw) => ~ContentFree(text)
    BY <1>1 DEF PipelineInv, ContentInv, Shown
  <2>2. ~ContentFree(Raw) /\ ~ContentFree(text) => ~ContentFree(d)
    BY <1>2, <1>4, <1>5
  <2> QED
    BY <1>6, <2>1, <2>2
<1>9. ~CaptureIncomplete => Raw = Whole
  BY <1>1, CompleteIsWhole DEF PipelineInv
<1>10. ASSUME notes.plan, Raw # <<>>, artifact # "lost"
       PROVE  (r = Whole /\ ~CaptureIncomplete) \/ HasKind(r, "ref")
  <2>1. ~job.inv.pass /\ artifact \in {"tee", "written"}
    BY <1>1, <1>10 DEF PipelineInv, RecoveryInv
  <2> QED
    BY <1>4, <1>5, <1>6, <1>9, <2>1
<1>11. TypeInv'
  BY <1>1, <1>7 DEF PipelineInv, TypeInv, Stages, Shown
<1>12. CaptureInv'
  BY <1>1 DEF PipelineInv, CaptureInv, Raw, Combine
<1>13. Raw' = Raw /\ Whole' = Whole /\ (CaptureIncomplete' <=> CaptureIncomplete)
       /\ (IsFailureExit' <=> IsFailureExit)
  BY <1>1 DEF Raw, Whole, Combine, CaptureIncomplete, IsFailureExit
<1>14. RecoveryInv'
  BY <1>1, <1>10, <1>13 DEF PipelineInv, RecoveryInv, Shown
<1>15. FactsInv'
  BY <1>1 DEF PipelineInv, FactsInv
<1>16. ContentInv'
  BY <1>1, <1>8, <1>13 DEF ContentInv
<1> QED
  BY <1>11, <1>12, <1>14, <1>15, <1>16 DEF PipelineInv

(* The verifier adds to a text what it misses; when it does not give up,   *)
(* the text then holds the facts it gives an account of.                   *)
LEMMA VerifiedText ==
  ASSUME job \in Jobs, NEW t \in Seq(TextLine), NEW s \in Seq(Unreferred), NEW failed
  PROVE  LET m == MissingLines(s, t, failed)
             r == Repaired(t, m)
         IN  /\ r \in Seq(TextLine)
             /\ \A kind : HasKind(t, kind) => HasKind(r, kind)
             /\ ~ContentFree(t) => ~ContentFree(r)
             /\ Verdict(m) \in {"held", "repaired"} => Promised(s, failed) \subseteq Keeps(r)
             /\ s = t => r = t
<1> DEFINE m == MissingLines(s, t, failed)
           a == AppendRetentionRepair(t, m, EscapeLines)
           r == Repaired(t, m)
<1>1. m \in Seq(TextLine) /\ (s = t => m = <<>>) /\ EscapeLines \in Int /\ Len(m) \in Nat
  <2>1. m \in Seq(TextLine) /\ (s = t => m = <<>>) /\ EscapeLines \in Int
    BY MissingType, EscapeLinesType
  <2> QED
    BY <2>1
<1>2. Promised(s, failed) \subseteq Keeps(t) \cup Keeps(m)
  BY MissingHolds
<1>3. m = <<>> => Keeps(m) = {}
  BY DEF Keeps
<1> HIDE DEF m
<1>4. /\ a \in Seq(TextLine)
      /\ \A kind : HasKind(t, kind) => HasKind(a, kind)
      /\ ~ContentFree(t) => ~ContentFree(a)
      /\ Keeps(t) \subseteq Keeps(a)
      /\ Len(m) <= EscapeLines => Keeps(m) \subseteq Keeps(a)
  BY <1>1, Repair
<1>5. r = IF m = <<>> THEN t ELSE a
  BY DEF Repaired
<1>6. m # <<>> /\ Verdict(m) \in {"held", "repaired"} => Len(m) <= EscapeLines
  <2>1. m # <<>> /\ Verdict(m) \in {"held", "repaired"} => ~ (Len(m) > EscapeLines)
    BY DEF Verdict
  <2> QED
    BY <1>1, <2>1
<1> HIDE DEF a, r
<1>7. ASSUME Verdict(m) \in {"held", "repaired"} PROVE Promised(s, failed) \subseteq Keeps(r)
  <2>1. CASE m = <<>>
    BY <1>2, <1>3, <1>5, <1>7, <2>1
  <2>2. CASE m # <<>>
    BY <1>2, <1>4, <1>5, <1>6, <1>7, <2>2
  <2> QED
    BY <2>1, <2>2
<1>8. /\ r \in Seq(TextLine) /\ (s = t => r = t)
      /\ \A kind : HasKind(t, kind) => HasKind(r, kind)
      /\ ~ContentFree(t) => ~ContentFree(r)
  BY <1>1, <1>4, <1>5
<1> QED
  BY <1>7, <1>8 DEF m, r

(* What the verifier can read of a run does not change once it is captured. *)
LEMMA PromiseSteady ==
  ASSUME UNCHANGED <<job, run>>
  PROVE  Promised(ReadByVerifier, IsFailureExit)' = Promised(ReadByVerifier, IsFailureExit)
<1>1. Whole' = Whole /\ (CaptureIncomplete' <=> CaptureIncomplete)
      /\ IsFailureExit' = IsFailureExit
  BY DEF Whole, Combine, CaptureIncomplete, IsFailureExit
<1>2. ReadFailureArtifact(Whole)' = ReadFailureArtifact(Whole)
  BY <1>1 DEF ReadFailureArtifact
<1>3. ReadByVerifier' = ReadByVerifier
  BY <1>1, <1>2 DEF ReadByVerifier
<1> QED
  BY <1>1, <1>3

(* A step of the verifier adds to the text, and leaves the whole output as *)
(* it is.                                                                  *)
LEMMA VerifyKeeps ==
  ASSUME PipelineInv, Verify
  PROVE  PipelineInv'
<1>1. /\ job \in Jobs /\ text \in Seq(TextLine) /\ Raw \in Seq(TextLine)
      /\ UNCHANGED <<job, run, tee, notes, artifact>>
      /\ stage = "assembled" /\ stage' = "verified" /\ verified = "no"
  BY RawType DEF PipelineInv, TypeInv, FactsInv, Verify
<1>2. VerifierSource \in Seq(Unreferred)
  <2>1. Whole \in Seq(Unreferred) /\ Raw \in Seq(Unreferred) /\ <<>> \in Seq(Unreferred)
    BY <1>1, JobType, RawType DEF PipelineInv
  <2>2. ArtifactText \in Seq(Unreferred)
    BY <2>1 DEF ArtifactText
  <2>3. ReadFailureArtifact(ArtifactText) \in Seq(Unreferred)
    BY <2>2, ArtifactLimitIsPositive, PreviewLines DEF ReadFailureArtifact
  <2> QED
    BY <2>1, <2>3 DEF VerifierSource
<1>3. ~CaptureIncomplete => Raw = Whole
  BY <1>1, CompleteIsWhole DEF PipelineInv
<1>4. /\ artifact = "tee" \/ ~CaptureIncomplete => VerifierSource = ReadByVerifier
      /\ ~CaptureIncomplete => VerifierSource = Whole
  BY <1>3 DEF VerifierSource, ArtifactText, ReadByVerifier, PipelineInv, RecoveryInv
<1> DEFINE m == VerifierMissing
           r == Repaired(text, m)
           promised == Promised(VerifierSource, IsFailureExit)
<1>5. /\ r \in Seq(TextLine)
      /\ \A kind : HasKind(text, kind) => HasKind(r, kind)
      /\ ~ContentFree(text) => ~ContentFree(r)
      /\ Verdict(m) \in {"held", "repaired"} => promised \subseteq Keeps(r)
      /\ VerifierSource = text => r = text
  BY <1>1, <1>2, VerifiedText DEF VerifierMissing
<1>6. \/ text' = text /\ verified' \in {"no", "skipped"}
      \/ text' = r /\ verified' = Verdict(m)
  BY <1>1 DEF Verify
<1> HIDE DEF m, r
<1>7. /\ text' \in Seq(TextLine)
      /\ \A kind : HasKind(text, kind) => HasKind(text', kind)
      /\ ~ContentFree(text) => ~ContentFree(text')
      /\ VerifierSource = text => text' = text
  BY <1>1, <1>5, <1>6
<1>8. verified' \in {"held", "repaired"} => promised \subseteq Keeps(text')
  BY <1>5, <1>6
<1>9. TypeInv'
  BY <1>1, <1>7 DEF PipelineInv, TypeInv, Stages, Shown
<1>10. CaptureInv'
  BY <1>1 DEF PipelineInv, CaptureInv, Raw, Combine
<1>11. Raw' = Raw /\ Whole' = Whole /\ (CaptureIncomplete' <=> CaptureIncomplete)
       /\ (IsFailureExit' <=> IsFailureExit)
  BY <1>1 DEF Raw, Whole, Combine, CaptureIncomplete, IsFailureExit
<1>15. Promised(ReadByVerifier, IsFailureExit)' = Promised(ReadByVerifier, IsFailureExit)
  BY <1>1, PromiseSteady
<1>12. RecoveryInv'
  BY <1>1, <1>4, <1>7, <1>11 DEF PipelineInv, RecoveryInv, Shown
<1>13. FactsInv'
  <2>1. artifact = "tee" \/ ~CaptureIncomplete =>
          promised = Promised(ReadByVerifier, IsFailureExit)
    BY <1>4
  <2> HIDE DEF promised
  <2> QED
    BY <1>1, <1>8, <1>11, <1>15, <2>1 DEF FactsInv
<1>14. ContentInv'
  BY <1>1, <1>7, <1>11 DEF PipelineInv, ContentInv, Shown
<1> QED
  BY <1>9, <1>10, <1>12, <1>13, <1>14 DEF PipelineInv

(* The last guard shows the text or, of a complete capture, the output.    *)
LEMMA CompleteKeeps ==
  ASSUME PipelineInv, Complete
  PROVE  PipelineInv'
<1>1. /\ job \in Jobs /\ text \in Seq(TextLine) /\ Raw \in Seq(TextLine)
      /\ Raw \in Seq(Unreferred) /\ UNCHANGED <<job, run, notes, artifact, verified>>
      /\ stage = "verified" /\ stage' = "done"
      /\ tee' = IF tee = "kept" /\ artifact # "tee" THEN "removed" ELSE tee
      /\ text' = FinalGuard(text, Raw, ~CaptureIncomplete)
  BY RawType DEF PipelineInv, TypeInv, Complete
<1>2. text' = text \/ (text' = Raw /\ ~CaptureIncomplete)
  BY <1>1, GuardsType DEF FinalGuard
<1>3. ~CaptureIncomplete => Raw = Whole
  BY <1>1, CompleteIsWhole DEF PipelineInv
<1>4. TypeInv'
  BY <1>1, <1>2 DEF PipelineInv, TypeInv, Stages, Shown
<1>5. CaptureInv'
  BY <1>1 DEF PipelineInv, CaptureInv, Raw, Combine
<1>6. Raw' = Raw /\ Whole' = Whole /\ (CaptureIncomplete' <=> CaptureIncomplete)
       /\ (IsFailureExit' <=> IsFailureExit)
  BY <1>1 DEF Raw, Whole, Combine, CaptureIncomplete, IsFailureExit
<1>7. RecoveryInv'
  BY <1>1, <1>2, <1>3, <1>6 DEF PipelineInv, RecoveryInv, Shown
<1>8. FactsInv'
  <2> DEFINE promised == Promised(ReadByVerifier, IsFailureExit)
  <2>1. promised' = promised
    BY <1>1, PromiseSteady
  <2>2. ~CaptureIncomplete => promised \subseteq Keeps(Whole)
    <3>1. Whole \in Seq(Unreferred)
      BY <1>1, JobType
    <3>2. Promised(Whole, IsFailureExit) \subseteq Keeps(Whole)
      BY <3>1, MissingHolds
    <3> QED
      BY <3>2 DEF ReadByVerifier
  <2> HIDE DEF promised
  <2>3. /\ stage \notin {"verified", "done"} => verified = "no"
        /\ verified \in {"held", "repaired"} /\ (artifact = "tee" \/ ~CaptureIncomplete) =>
             promised \subseteq Keeps(text)
    BY DEF PipelineInv, FactsInv, promised
  <2>4. /\ stage' \notin {"verified", "done"} => verified' = "no"
        /\ verified' \in {"held", "repaired"} /\ (artifact' = "tee" \/ ~CaptureIncomplete') =>
             promised' \subseteq Keeps(text')
    BY <1>1, <1>2, <1>3, <1>6, <2>1, <2>2, <2>3
  <2> QED
    BY <2>4 DEF FactsInv, promised
<1>9. ContentInv'
  BY <1>1, <1>2, <1>6 DEF PipelineInv, ContentInv, Shown
<1> QED
  BY <1>4, <1>5, <1>7, <1>8, <1>9 DEF PipelineInv

(* The text of the batch path before the verifier.                         *)
LEMMA BatchText ==
  ASSUME job \in Jobs
  PROVE  /\ BatchRender \in Seq(Unreferred)
         /\ ~job.inv.pass /\ IsFailureExit /\ ~ContentFree(Whole) => ~ContentFree(BatchRender)
<1>1. /\ Whole \in Seq(Unreferred) /\ Whole \in Seq(TextLine) /\ job.reduced.text \in Seq(Unreferred)
      /\ job.cmd.out \in Seq(Unreferred) /\ job.cmd.err \in Seq(Unreferred)
      /\ AlikeGaps(Whole) /\ <<>> \in Seq(Unreferred) /\ job.budget.tokens \in Nat
  BY JobType DEF Steady, AlikeGaps
<1>2. BatchContent \in Seq(Unreferred)
  <2>1. PreferredStreamFallback(job.cmd) \in Seq(Unreferred)
    BY <1>1, FallbackType
  <2> QED
    BY <1>1, <2>1 DEF BatchContent
<1> DEFINE made == IF BatchContent = <<>> THEN Whole ELSE BatchContent
           escaped == FailureEscape(made, Whole, BatchFallback)
           compact == UltraCompactRender(escaped, Whole)
           cut == ContractRender(compact, Tokens(Whole))
           shown == InformativeFailureRender(cut, Whole, <<>>)
<1>3. made \in Seq(Unreferred)
  BY <1>1, <1>2
<1> HIDE DEF made
<1>4. escaped \in Seq(Unreferred)
  BY <1>1, <1>3, EscapeType
<1> HIDE DEF escaped
<1>5. compact \in Seq(Unreferred)
  <2>1. (job.cmd.exit # 0) \in BOOLEAN
    OBVIOUS
  <2>2. RenderUltraCompact(escaped, Whole, job.cmd.exit # 0) \in Seq(Unreferred)
    BY <1>1, <1>4, <2>1, UltraCompactType
  <2> QED
    BY <1>4, <2>2 DEF UltraCompactRender
<1> HIDE DEF compact
<1>6. cut \in Seq(Unreferred)
  <2>1. Tokens(Whole) \in Int
    <3>1. Tokens(Whole) \in Nat
      BY <1>1, TokensType
    <3> QED
      BY <3>1
  <2>2. EnforceCompressionContract(compact, Tokens(Whole), job.budget) \in Seq(Unreferred)
    BY <1>1, <1>5, <2>1, ContractType
  <2> QED
    BY <1>5, <2>2 DEF ContractRender
<1> HIDE DEF cut
<1>7. /\ shown \in Seq(Unreferred)
      /\ ~job.inv.pass /\ IsFailureExit /\ ~ContentFree(Whole) => ~ContentFree(shown)
  BY <1>1, <1>6, InformativeType
<1>8. BatchRender = SmallRender(shown, Whole, TRUE)
  BY DEF BatchRender, made, escaped, compact, cut
<1> HIDE DEF shown
<1>9. BatchRender = shown \/ BatchRender = Whole
  BY <1>1, <1>8, GuardsType DEF SmallRender
<1> QED
  BY <1>1, <1>7, <1>9

(* The batch path has the whole output in memory, and no plan.             *)
LEMMA RenderExecutionKeeps ==
  ASSUME PipelineInv, RenderExecution
  PROVE  PipelineInv'
<1> DEFINE m == MissingLines(Whole, BatchRender, IsFailureExit)
           r == Repaired(BatchRender, m)
           promised == Promised(Whole, IsFailureExit)
<1>1. /\ job \in Jobs /\ UNCHANGED <<job, tee, artifact>>
      /\ stage = "start" /\ stage' = "done"
      /\ notes' = [fallback |-> BatchFallback, plan |-> FALSE]
  BY DEF PipelineInv, TypeInv, RenderExecution
<1>2. /\ Whole \in Seq(Unreferred) /\ Whole \in Seq(TextLine) /\ AlikeGaps(Whole)
      /\ job.cmd.out \in Seq(Unreferred) /\ job.cmd.err \in Seq(Unreferred)
  BY <1>1, JobType DEF Steady, AlikeGaps
<1>3. Tokens(Whole) \in Nat
  BY <1>2, TokensType
<1>4. run'.out = job.cmd.out /\ run'.err = job.cmd.err /\ run'.counted = Tokens(Whole)
      /\ run'.truncated = FALSE
  <2>1. run = [out |-> <<>>, err |-> <<>>, truncated |-> FALSE, counted |-> 0,
               rewritten |-> FALSE]
    BY <1>1 DEF PipelineInv, CaptureInv
  <2>2. run' = [run EXCEPT !.out = job.cmd.out, !.err = job.cmd.err, !.counted = Tokens(Whole)]
    BY DEF RenderExecution
  <2> QED
    BY <2>1, <2>2
<1>5. Raw' = Whole /\ Whole' = Whole /\ ~CaptureIncomplete' /\ (IsFailureExit' <=> IsFailureExit)
  BY <1>1, <1>4 DEF Raw, Whole, Combine, CaptureIncomplete, Streams, IsFailureExit
<1>6. /\ BatchRender \in Seq(TextLine)
      /\ ~job.inv.pass /\ IsFailureExit /\ ~ContentFree(Whole) => ~ContentFree(BatchRender)
  BY <1>1, BatchText, UnreferredIsText
<1>7. /\ r \in Seq(TextLine)
      /\ ~ContentFree(BatchRender) => ~ContentFree(r)
      /\ Verdict(m) \in {"held", "repaired"} => promised \subseteq Keeps(r)
      /\ promised \subseteq Keeps(Whole)
  BY <1>1, <1>2, <1>6, VerifiedText, MissingHolds
<1>8. PICK t : /\ \/ t = BatchRender /\ verified' = "no"
                  \/ t = r /\ verified' = Verdict(m)
               /\ text' = FinalGuard(t, Whole, TRUE)
  BY DEF RenderExecution
<1> HIDE DEF m, r, promised
<1>9. /\ t \in Seq(TextLine)
      /\ ~job.inv.pass /\ IsFailureExit /\ ~ContentFree(Whole) => ~ContentFree(t)
      /\ verified' \in {"held", "repaired"} => promised \subseteq Keeps(t)
  BY <1>6, <1>7, <1>8
<1>10. text' = t \/ text' = Whole
  BY <1>2, <1>8, GuardsType DEF FinalGuard
<1>11. TypeInv'
  <2>1. BatchFallback \in BOOLEAN
    BY DEF BatchFallback
  <2>2. notes' \in [fallback : BOOLEAN, plan : BOOLEAN]
    BY <1>1, <2>1
  <2>3. text' \in Seq(TextLine)
    BY <1>2, <1>9, <1>10
  <2> QED
    BY <1>1, <1>2, <1>3, <1>4, <2>2, <2>3 DEF TypeInv, Stages, Shown
<1>12. CaptureInv'
  BY <1>1, <1>2, <1>4, <1>5 DEF CaptureInv
<1>13. RecoveryInv'
  BY <1>1 DEF PipelineInv, RecoveryInv, Shown
<1>14. FactsInv'
  <2>1. IsFailureExit' = IsFailureExit
    BY <1>1 DEF IsFailureExit
  <2>2. ReadByVerifier' = Whole
    BY <1>5 DEF ReadByVerifier
  <2>3. Promised(ReadByVerifier, IsFailureExit)' = promised
    BY <2>1, <2>2 DEF promised
  <2>4. verified' \in {"held", "repaired"} => promised \subseteq Keeps(text')
    BY <1>7, <1>9, <1>10
  <2> QED
    BY <1>1, <2>3, <2>4 DEF FactsInv
<1>15. ContentInv'
  BY <1>1, <1>5, <1>9, <1>10 DEF ContentInv
<1> QED
  BY <1>11, <1>12, <1>13, <1>14, <1>15 DEF PipelineInv

(* No step breaks the invariant.                                           *)
LEMMA PipelineStep ==
  ASSUME PipelineInv, [Next]_vars
  PROVE  PipelineInv'
<1>1. CASE Next
  BY <1>1, RunCommandKeeps, RenderKeeps, EscalateKeeps, CompactKeeps, ContractKeeps,
     FinalizeKeeps, RetainTeeKeeps, WriteArtifactKeeps, AssembleKeeps, VerifyKeeps,
     CompleteKeeps, RenderExecutionKeeps DEF Next
<1>2. CASE UNCHANGED vars
  <2>1. TypeInv' /\ CaptureInv'
    BY <1>2 DEF vars, PipelineInv, TypeInv, CaptureInv, Raw, Combine
  <2>2. RecoveryInv'
    BY <1>2 DEF vars, PipelineInv, RecoveryInv, Raw, Whole, Combine, CaptureIncomplete
  <2>3. FactsInv'
    <3>1. /\ Promised(ReadByVerifier, IsFailureExit)' = Promised(ReadByVerifier, IsFailureExit)
          /\ CaptureIncomplete' <=> CaptureIncomplete
      BY <1>2, PromiseSteady DEF vars, CaptureIncomplete
    <3> QED
      BY <1>2, <3>1 DEF vars, PipelineInv, FactsInv
  <2>4. ContentInv'
    BY <1>2 DEF vars, PipelineInv, ContentInv, Raw, Combine, IsFailureExit
  <2> QED
    BY <2>1, <2>2, <2>3, <2>4 DEF PipelineInv
<1> QED
  BY <1>1, <1>2

-----------------------------------------------------------------------------
(* The theorems. *)

(* In every state of every run, whatever the command printed and the       *)
(* reducer made of it, the texts are lines, a plan to recover has its      *)
(* artifact and its reference, what the verifier found stays in the text,  *)
(* and a failing run that has anything to say says it.                     *)
THEOREM PipelineInvariant == Spec => []PipelineInv
<1>1. Init => PipelineInv
  BY InitKeeps
<1>2. PipelineInv /\ [Next]_vars => PipelineInv'
  BY PipelineStep
<1> QED
  BY <1>1, <1>2, PTL DEF Spec

(* A failing run of which anything is in memory, but for marks, says       *)
(* something: no chain of reducer, contract, suffix and guards ends in     *)
(* marks and references alone (ensureInformativeFailureRender).            *)
THEOREM FailuresInform == Spec => []FailureIsInformative
<1>1. PipelineInv => FailureIsInformative
  BY DEF PipelineInv, ContentInv, FailureIsInformative, Shown
<1> QED
  BY <1>1, PipelineInvariant, PTL

(* Whatever the verifier could read of the output, all of it or what is    *)
(* read of its capture file, the facts it gives an account of (within the  *)
(* number it looks for and the length of a line it puts back) are named by *)
(* the final text, or the repair section was full (applyRetentionVerifier).*)
THEOREM FactsSurvive == Spec => []CriticalFactsSurvive
<1>1. PipelineInv => CriticalFactsSurvive
  BY DEF PipelineInv, FactsInv, CriticalFactsSurvive
<1> QED
  BY <1>1, PipelineInvariant, PTL

(* What the reducer or the contract left out and planned to recover can be *)
(* recovered: the final text is the whole output, or refers to an artifact *)
(* that holds the whole output, unless the artifact could not be written,  *)
(* or the capture was cut and had no file (ensureStreamingArtifactPath).   *)
THEOREM OmissionsRecover == Spec => []OmissionIsRecoverable
<1>1. ASSUME PipelineInv PROVE OmissionIsRecoverable
  <2> SUFFICES ASSUME stage = "done", notes.plan, Raw # <<>>, artifact # "lost",
                      ~(run.truncated /\ tee = "none"), HasKind(text, "ref")
               PROVE  ArtifactText = Whole
    BY <1>1 DEF PipelineInv, RecoveryInv, OmissionIsRecoverable, Shown
  <2>1. CASE artifact = "tee"
    BY <1>1, <2>1 DEF PipelineInv, RecoveryInv, ArtifactText
  <2>2. CASE artifact = "written"
    <3>1. tee = "none" /\ ~run.truncated
      BY <1>1, <2>2 DEF PipelineInv, RecoveryInv
    <3>2. Raw = Whole
      BY <1>1, <3>1 DEF PipelineInv, CaptureInv, Raw, Whole, Combine
    <3> QED
      BY <2>2, <3>2 DEF ArtifactText
  <2> QED
    BY <1>1, <2>1, <2>2 DEF PipelineInv, RecoveryInv, Shown
<1> QED
  BY <1>1, PipelineInvariant, PTL

=============================================================================

-------------------------------- MODULE Loops --------------------------------
(***************************************************************************)
(* What loops over a sequence come to: the elements they keep, in their    *)
(* order, the sum of the last so many numbers, the place where they stop.  *)
(* They are functions of the number of turns or of the place they are at,  *)
(* so that proofs can follow them turn by turn.                            *)
(***************************************************************************)
EXTENDS Integers, Sequences

(* What is kept after each turn of a loop that keeps only the elements at  *)
(* the positions in I.                                                     *)
Turns(s, I) ==
  LET kept[i \in 0 .. Len(s)] ==
        IF i = 0 THEN <<>>
        ELSE IF i \in I THEN Append(kept[i - 1], s[i]) ELSE kept[i - 1]
  IN kept

KeepAt(s, I) == Turns(s, I)[Len(s)]

(* The sums of a loop that walks back from the last number.                *)
Sums(s) ==
  LET sum[n \in 0 .. Len(s)] == IF n = 0 THEN 0 ELSE sum[n - 1] + s[Len(s) - n + 1]
  IN sum

SumOfLast(s, n) == Sums(s)[n]

(* Where a walk over the positions up to n stops that begins at i: it goes *)
(* on from k to next[k] until it is at one of stops or past n.             *)
WalkEnd(n, stops, next, i) ==
  LET end[k \in 1 .. n + 1] == IF k > n \/ k \in stops THEN k ELSE end[next[k]]
  IN  end[i]
=============================================================================

--------------------------- MODULE GenStage_proofs ---------------------------
(***************************************************************************)
(* Proofs about GenStage, for any stages, subscriptions, options and       *)
(* dispatcher: demand is neither lost nor made up, a source makes no event *)
(* nobody asked for, and events are neither lost nor get out of order.     *)
(***************************************************************************)
EXTENDS GenStage, TLAPS, SequenceTheorems, FiniteSetTheorems, FunctionTheorems,
        WellFoundedInduction

-----------------------------------------------------------------------------
(* Numbers, sequences, recursion *)

(* A set of numbers that is not empty has a least one.                       *)
LEMMA LeastNumber ==
  ASSUME NEW N \in SUBSET Nat, N # {}
  PROVE  \E n \in N : \A m \in N : n <= m
<1> DEFINE R == OpToRel(<, Nat)
<1>1. \E n \in N : \A m \in N : ~ (<<m, n>> \in R)
  BY NatLessThanWellFounded, WFMin
<1>2. \A m, n \in Nat : m < n => <<m, n>> \in R
  BY DEF OpToRel
<1> HIDE DEF R
<1>3. PICK n \in N : \A m \in N : ~ (<<m, n>> \in R)
  BY <1>1
<1>4. \A m \in N : ~ (m < n)
  BY <1>2, <1>3, Zenon
<1>5. \A m \in N : n <= m
  BY <1>4
<1> QED
  BY <1>5

(* A set that holds zero, and the next of each of its numbers below a bound, *)
(* holds all up to there.                                                    *)
LEMMA AllNumbers ==
  ASSUME NEW top \in Nat, NEW P, 0 \in P, \A n \in 1..top : n - 1 \in P => n \in P
  PROVE  0..top \subseteq P
<1> DEFINE Bad == (0..top) \ P
<1> SUFFICES ASSUME Bad # {} PROVE FALSE
  OBVIOUS
<1>1. Bad \in SUBSET Nat
  OBVIOUS
<1> HIDE DEF Bad
<1>2. PICK n \in Bad : \A m \in Bad : n <= m
  BY <1>1, LeastNumber
<1>3. n \in 0..top /\ n \notin P
  BY DEF Bad
<1>4. n \in 1..top /\ n - 1 \in 0..top /\ n - 1 \notin Bad
  BY <1>2, <1>3
<1> QED
  BY <1>3, <1>4 DEF Bad

(* A set of sequences that holds the empty one, and what becomes of each of  *)
(* its elements when an item is appended, holds all.                         *)
LEMMA AllSequences ==
  ASSUME NEW S, NEW P \in SUBSET Seq(S), <<>> \in P,
         \A s \in P, e \in S : Append(s, e) \in P
  PROVE  P = Seq(S)
<1> DEFINE Bad == {Len(s) : s \in Seq(S) \ P}
<1>1. SUFFICES ASSUME Seq(S) \ P # {} PROVE FALSE
  OBVIOUS
<1>2. Bad \in SUBSET Nat /\ Bad # {}
  <2>1. \A s \in Seq(S) : Len(s) \in Nat
    OBVIOUS
  <2>2. PICK s : s \in Seq(S) /\ s \notin P
    BY <1>1
  <2>3. Len(s) \in Bad
    BY <2>2
  <2> QED
    BY <2>1, <2>3
<1>3. \E n \in Bad : \A m \in Bad : n <= m
  <2> HIDE DEF Bad
  <2> QED
    BY <1>2, LeastNumber
<1>4. PICK s \in Seq(S) \ P : \A m \in Bad : Len(s) <= m
  BY <1>3
<1>5. s # <<>>
  OBVIOUS
<1>6. PICK r \in Seq(S), e \in S : s = Append(r, e)
  BY <1>5, SequenceEmptyOrAppend
<1>7. r \notin P
  BY <1>6
<1>8. Len(r) \in Bad /\ Len(r) \in Nat /\ Len(s) \in Nat /\ Len(r) < Len(s)
  BY <1>6, <1>7, AppendProperties
<1> QED
  <2> HIDE DEF Bad
  <2> QED
    BY <1>4, <1>8

(* The recursive functions of GenStage: g starts with a value and goes on as *)
(* F says, which takes the place and the value at the place before.          *)
Follows(g, base, F, V, len) ==
    g[0] = base /\ \A n \in 1..len : g[n - 1] \in V => g[n] = F[n][g[n - 1]]
Goes(F, V)       == F \in [Nat -> [V -> V]]
Agree(F, G, len) == \A n \in 1..len : F[n] = G[n]
Result(x, base, F, V, len) == \E g : Follows(g, base, F, V, len) /\ x = g[len]

(* There is such a function.                                                 *)
LEMMA Recursion ==
  ASSUME NEW V, NEW base \in V, NEW F, Goes(F, V), NEW len \in Nat
  PROVE  \E g : /\ DOMAIN g = 0..len /\ \A n \in 0..len : g[n] \in V
                /\ Follows(g, base, F, V, len)
                /\ g = [n \in 0..len |-> g[n]]
<1> DEFINE Is(g, k) == /\ g \in [0..k -> V]
                       /\ g = [n \in 0..k |-> IF n = 0 THEN base ELSE F[n][g[n - 1]]]
           P == {k \in Nat : \E g : Is(g, k)}
<1>0. F \in [Nat -> [V -> V]]
  BY DEF Goes
<1>1. 0 \in P
  <2> DEFINE g == [n \in 0..0 |-> base]
  <2>1. g = [n \in 0..0 |-> IF n = 0 THEN base ELSE F[n][g[n - 1]]]
    OBVIOUS
  <2> QED
    BY <2>1
<1>2. ASSUME NEW k \in 1..len, k - 1 \in P PROVE k \in P
  <2>1. PICK g : Is(g, k - 1)
    BY <1>2
  <2> DEFINE top == F[k][g[k - 1]]
             h == [n \in 0..k |-> IF n = k THEN top ELSE g[n]]
             hh == [n \in 0..k |-> IF n = 0 THEN base ELSE F[n][h[n - 1]]]
  <2>2. g[k - 1] \in V /\ top \in V /\ k \in Nat
    BY <1>0, <2>1
  <2>3. h \in [0..k -> V]
    BY <2>1, <2>2
  <2>4. ASSUME NEW n \in 0..k PROVE h[n] = hh[n]
    <3>1. CASE n = k
      BY <2>2, <3>1
    <3>2. CASE n # k
      <4>1. n \in 0 .. k - 1 /\ (n # 0 => n - 1 \in 0..k /\ n - 1 # k)
        BY <3>2
      <4>2. g[n] = IF n = 0 THEN base ELSE F[n][g[n - 1]]
        BY <2>1, <4>1
      <4> QED
        BY <3>2, <4>1, <4>2
    <3> QED
      BY <3>1, <3>2
  <2>5. h = hh
    BY <2>4, Zenon
  <2>6. Is(h, k)
    BY <2>3, <2>5
  <2> QED
    BY <2>2, <2>6
<1>3. 0..len \subseteq P
  <2> HIDE DEF P
  <2> QED
    BY <1>1, <1>2, AllNumbers
<1>4. len \in P
  BY <1>3
<1>5. PICK g : Is(g, len)
  BY <1>4
<1>6. Follows(g, base, F, V, len)
  <2>1. ASSUME NEW n \in 1..len PROVE n \in 0..len /\ n # 0
    OBVIOUS
  <2> QED
    BY <1>5, <2>1 DEF Follows
<1> QED
  BY <1>5, <1>6

(* There is only one, as far as it goes.                                     *)
LEMMA OneOnly ==
  ASSUME NEW V, NEW base \in V, NEW F, Goes(F, V), NEW len \in Nat,
         NEW g, Follows(g, base, F, V, len), NEW h, Follows(h, base, F, V, len)
  PROVE  \A n \in 0..len : g[n] \in V /\ g[n] = h[n]
<1> DEFINE P == {n \in 0..len : g[n] \in V /\ g[n] = h[n]}
<1>1. 0 \in P
  BY DEF Follows
<1>2. ASSUME NEW n \in 1..len, n - 1 \in P PROVE n \in P
  <2>1. g[n] = F[n][g[n - 1]] /\ h[n] = F[n][h[n - 1]] /\ g[n - 1] = h[n - 1] /\ g[n - 1] \in V
    BY <1>2 DEF Follows
  <2> QED
    BY <2>1 DEF Goes
<1>3. 0..len \subseteq P
  <2> HIDE DEF P
  <2> QED
    BY <1>1, <1>2, AllNumbers
<1> QED
  BY <1>3

(* One that goes on further agrees with one that does not.                   *)
LEMMA OneMore ==
  ASSUME NEW V, NEW base \in V, NEW F, Goes(F, V), NEW G, Goes(G, V),
         NEW len \in Nat, Agree(F, G, len),
         NEW g, Follows(g, base, F, V, len), NEW h, NEW more, more = len + 1, Follows(h, base, G, V, more)
  PROVE  g[len] \in V /\ h[more] = G[more][g[len]]
<1>0. Follows(h, base, G, V, len + 1)
  OBVIOUS
<1>1. Follows(h, base, F, V, len)
  <2>1. h[0] = base
    BY <1>0 DEF Follows
  <2>2. ASSUME NEW n \in 1..len, h[n - 1] \in V PROVE h[n] = F[n][h[n - 1]]
    <3>1. n \in 1 .. len + 1
      OBVIOUS
    <3> QED
      BY <1>0, <2>2, <3>1 DEF Follows, Agree
  <2> QED
    BY <2>1, <2>2 DEF Follows
<1>2. len \in 0..len /\ len + 1 \in 1 .. len + 1 /\ (len + 1) - 1 = len
  OBVIOUS
<1>3. g[len] \in V /\ g[len] = h[len]
  <2>1. \A n \in 0..len : g[n] \in V /\ g[n] = h[n]
    BY <1>1, OneOnly
  <2> QED
    BY <1>2, <2>1
<1>4. h[(len + 1) - 1] \in V
  BY <1>2, <1>3
<1>5. h[len + 1] = G[len + 1][h[(len + 1) - 1]]
  BY <1>0, <1>2, <1>4 DEF Follows
<1> QED
  BY <1>2, <1>3, <1>5

(* The result for one element more comes from that for the others.           *)
LEMMA NextResult ==
  ASSUME NEW V, NEW base \in V, NEW F, Goes(F, V), NEW G, Goes(G, V),
         NEW len \in Nat, Agree(F, G, len), NEW more, more = len + 1,
         NEW x, Result(x, base, F, V, len), NEW y, Result(y, base, G, V, more)
  PROVE  x \in V /\ y = G[more][x]
<1>1. PICK g : Follows(g, base, F, V, len) /\ x = g[len]
  BY DEF Result
<1>2. PICK h : Follows(h, base, G, V, more) /\ y = h[more]
  BY DEF Result
<1>3. g[len] \in V /\ h[more] = G[more][g[len]]
  BY <1>1, <1>2, OneMore
<1> QED
  BY <1>1, <1>2, <1>3

(* r is q with one element more.                                             *)
Longer(r, q, e, T) == q \in Seq(T) /\ e \in T /\ r = Append(q, e)

(* What that means for its places.                                           *)
LEMMA LongerIs ==
  ASSUME NEW T, NEW q, NEW e, NEW r, Longer(r, q, e, T)
  PROVE  /\ q \in Seq(T) /\ e \in T /\ r \in Seq(T) /\ Len(q) \in Nat /\ Len(r) = Len(q) + 1
         /\ \A n \in DOMAIN q : n \in DOMAIN r /\ r[n] = q[n] /\ n # Len(q) + 1
         /\ Len(q) + 1 \in DOMAIN r /\ r[Len(q) + 1] = e
         /\ \A n \in DOMAIN r : n \in DOMAIN q \/ n = Len(q) + 1
BY AppendProperties DEF Longer

(* A set of sequences that holds the empty one, and with each of its         *)
(* elements every longer one, holds all.                                     *)
LEMMA ByLength ==
  ASSUME NEW T, NEW P, P \subseteq Seq(T), <<>> \in P,
         \A q \in P, e \in T : \A r : Longer(r, q, e, T) => r \in P
  PROVE  P = Seq(T)
<1>1. ASSUME NEW q \in P, NEW e \in T PROVE Append(q, e) \in P
  <2>1. Longer(Append(q, e), q, e, T)
    BY DEF Longer
  <2> QED
    BY <2>1
<1> QED
  BY <1>1, AllSequences

-----------------------------------------------------------------------------
(* Keep *)

KeepStep(q, S, T) ==
    [n \in Nat |-> [v \in Seq(T) |-> IF n \in 1..Len(q) /\ q[n] \in S THEN Append(v, q[n]) ELSE v]]

(* Keep is what its recursion says.                                          *)
LEMMA KeepIs ==
  ASSUME NEW T, NEW q \in Seq(T), NEW S
  PROVE  /\ Goes(KeepStep(q, S, T), Seq(T))
         /\ Result(Keep(q, S), <<>>, KeepStep(q, S, T), Seq(T), Len(q))
<1> DEFINE F == KeepStep(q, S, T)
           Is(k) == k = [n \in 0..Len(q) |->
                           IF n = 0 THEN <<>>
                           ELSE IF q[n] \in S THEN Append(k[n - 1], q[n]) ELSE k[n - 1]]
<1>1. Goes(F, Seq(T))
  <2>1. \A n \in Nat, v \in Seq(T) :
          (IF n \in 1..Len(q) /\ q[n] \in S THEN Append(v, q[n]) ELSE v) \in Seq(T)
    OBVIOUS
  <2> QED
    BY <2>1 DEF KeepStep, Goes
<1>2. Len(q) \in Nat /\ <<>> \in Seq(T)
  OBVIOUS
<1>3. PICK g : /\ DOMAIN g = 0..Len(q) /\ \A n \in 0..Len(q) : g[n] \in Seq(T)
               /\ Follows(g, <<>>, F, Seq(T), Len(q))
               /\ g = [n \in 0..Len(q) |-> g[n]]
  <2> HIDE DEF F
  <2> QED
    BY <1>1, <1>2, Recursion
<1>4. \E k : Is(k)
  <2> DEFINE gg == [n \in 0..Len(q) |->
                      IF n = 0 THEN <<>>
                      ELSE IF q[n] \in S THEN Append(g[n - 1], q[n]) ELSE g[n - 1]]
  <2>1. ASSUME NEW n \in 0..Len(q) PROVE g[n] = gg[n]
    <3>1. CASE n = 0
      BY <1>3, <3>1 DEF Follows
    <3>2. CASE n # 0
      <4>1. n \in 1..Len(q) /\ n - 1 \in 0..Len(q) /\ n \in Nat
        BY <1>2, <3>2
      <4>2. g[n] = F[n][g[n - 1]] /\ g[n - 1] \in Seq(T)
        BY <1>3, <3>2, <4>1 DEF Follows
      <4> QED
        BY <3>2, <4>1, <4>2 DEF KeepStep
    <3> QED
      BY <3>1, <3>2
  <2>2. g = gg
    BY <1>3, <2>1, Zenon
  <2>3. Is(g)
    BY <2>2
  <2> QED
    BY <2>3, Zenon
<1>5. PICK k : k = CHOOSE f : Is(f)
  OBVIOUS
<1>6. Is(k)
  BY <1>4, <1>5, Zenon
<1>7. Keep(q, S) = k[Len(q)]
  BY <1>5, Zenon DEF Keep
<1>8. Follows(k, <<>>, F, Seq(T), Len(q))
  <2>1. k[0] = <<>>
    BY <1>2, <1>6
  <2>2. ASSUME NEW n \in 1..Len(q), k[n - 1] \in Seq(T) PROVE k[n] = F[n][k[n - 1]]
    <3>1. n \in 0..Len(q) /\ n # 0 /\ n \in Nat
      BY <1>2
    <3>2. k[n] = IF q[n] \in S THEN Append(k[n - 1], q[n]) ELSE k[n - 1]
      BY <1>6, <3>1
    <3> QED
      BY <2>2, <3>1, <3>2 DEF KeepStep
  <2> QED
    BY <2>1, <2>2 DEF Follows
<1> QED
  BY <1>1, <1>7, <1>8 DEF Result

(* Of nothing, nothing is kept.                                              *)
LEMMA KeepOfNone ==
  ASSUME NEW S PROVE Keep(<<>>, S) = <<>>
<1>0. PICK T : T = S
  OBVIOUS
<1>1. <<>> \in Seq(T) /\ Len(<<>>) = 0
  OBVIOUS
<1>2. Result(Keep(<<>>, S), <<>>, KeepStep(<<>>, S, T), Seq(T), 0)
  BY <1>1, KeepIs
<1> QED
  BY <1>2 DEF Result, Follows

(* One element more is kept, or not.                                         *)
LEMMA KeepAppend ==
  ASSUME NEW T, NEW q, NEW e, NEW r, Longer(r, q, e, T), NEW S
  PROVE  /\ Keep(q, S) \in Seq(T)
         /\ e \in S => Longer(Keep(r, S), Keep(q, S), e, T)
         /\ e \notin S => Keep(r, S) = Keep(q, S)
<1>1. q \in Seq(T) /\ e \in T /\ r = Append(q, e)
  BY DEF Longer
<1>2. /\ r \in Seq(T) /\ Len(r) = Len(q) + 1 /\ Len(q) \in Nat
      /\ \A n \in 1..Len(q) : r[n] = q[n]
      /\ r[Len(q) + 1] = e
  BY <1>1, AppendProperties
<1>3. PICK F, G : F = KeepStep(q, S, T) /\ G = KeepStep(r, S, T)
  OBVIOUS
<1>4. Goes(F, Seq(T)) /\ Goes(G, Seq(T)) /\ <<>> \in Seq(T)
  <2>1. Goes(F, Seq(T))
    BY <1>1, <1>3, KeepIs
  <2>2. Goes(G, Seq(T))
    BY <1>2, <1>3, KeepIs
  <2> QED
    BY <2>1, <2>2
<1>5. Agree(F, G, Len(q))
  <2>1. \A n \in 1..Len(q) : n \in 1..Len(r) /\ n \in Nat /\ r[n] = q[n]
    BY <1>2
  <2> QED
    BY <1>3, <2>1 DEF KeepStep, Agree
<1>6. PICK x, y : x = Keep(q, S) /\ y = Keep(r, S)
  OBVIOUS
<1>7. Result(x, <<>>, F, Seq(T), Len(q)) /\ Result(y, <<>>, G, Seq(T), Len(r))
  BY <1>1, <1>2, <1>3, <1>6, KeepIs
<1>8. x \in Seq(T) /\ y = G[Len(r)][x]
  <2>1. PICK V, base, len, more : V = Seq(T) /\ base = <<>> /\ len = Len(q) /\ more = Len(r)
    OBVIOUS
  <2>2. /\ base \in V /\ len \in Nat /\ more = len + 1 /\ Goes(F, V) /\ Goes(G, V)
        /\ Agree(F, G, len) /\ Result(x, base, F, V, len) /\ Result(y, base, G, V, more)
    BY <1>2, <1>4, <1>5, <1>7, <2>1
  <2>3. x \in V /\ y = G[more][x]
    BY ONLY <2>2, NextResult
  <2> QED
    BY <2>1, <2>3
<1>9. \A v \in Seq(T) : G[Len(r)][v] = IF e \in S THEN Append(v, e) ELSE v
  <2>1. Len(q) + 1 \in Nat /\ Len(q) + 1 \in 1..Len(r)
    BY <1>2
  <2> QED
    BY <1>2, <1>3, <2>1 DEF KeepStep
<1> QED
  BY <1>1, <1>6, <1>8, <1>9 DEF Longer

-----------------------------------------------------------------------------
(* Sum *)

SumStep(q, w) ==
    [n \in Nat |-> [v \in Nat |-> v + IF n \in 1..Len(q) THEN w[q[n]] ELSE 0]]

(* Sum is what its recursion says.                                           *)
LEMMA SumIs ==
  ASSUME NEW T, NEW q \in Seq(T), NEW w \in [T -> Nat]
  PROVE  /\ Goes(SumStep(q, w), Nat)
         /\ Result(Sum(q, w), 0, SumStep(q, w), Nat, Len(q))
<1> DEFINE F == SumStep(q, w)
           Is(k) == k = [n \in 0..Len(q) |-> IF n = 0 THEN 0 ELSE k[n - 1] + w[q[n]]]
<1>1. Goes(F, Nat)
  <2>1. \A n \in Nat, v \in Nat :
          (v + IF n \in 1..Len(q) THEN w[q[n]] ELSE 0) \in Nat
    OBVIOUS
  <2> QED
    BY <2>1 DEF SumStep, Goes
<1>2. Len(q) \in Nat /\ 0 \in Nat
  OBVIOUS
<1>3. PICK g : /\ DOMAIN g = 0..Len(q) /\ \A n \in 0..Len(q) : g[n] \in Nat
               /\ Follows(g, 0, F, Nat, Len(q))
               /\ g = [n \in 0..Len(q) |-> g[n]]
  <2> HIDE DEF F
  <2> QED
    BY <1>1, <1>2, Recursion
<1>4. \E k : Is(k)
  <2> DEFINE gg == [n \in 0..Len(q) |-> IF n = 0 THEN 0 ELSE g[n - 1] + w[q[n]]]
  <2>1. ASSUME NEW n \in 0..Len(q) PROVE g[n] = gg[n]
    <3>1. CASE n = 0
      BY <1>3, <3>1 DEF Follows
    <3>2. CASE n # 0
      <4>1. n \in 1..Len(q) /\ n - 1 \in 0..Len(q) /\ n \in Nat
        BY <1>2, <3>2
      <4>2. g[n] = F[n][g[n - 1]] /\ g[n - 1] \in Nat
        BY <1>3, <3>2, <4>1 DEF Follows
      <4> QED
        BY <3>2, <4>1, <4>2 DEF SumStep
    <3> QED
      BY <3>1, <3>2
  <2>2. g = gg
    BY <1>3, <2>1, Zenon
  <2>3. Is(g)
    BY <2>2
  <2> QED
    BY <2>3, Zenon
<1>5. PICK k : k = CHOOSE f : Is(f)
  OBVIOUS
<1>6. Is(k)
  BY <1>4, <1>5, Zenon
<1>7. Sum(q, w) = k[Len(q)]
  BY <1>5, Zenon DEF Sum
<1>8. Follows(k, 0, F, Nat, Len(q))
  <2>1. k[0] = 0
    BY <1>2, <1>6
  <2>2. ASSUME NEW n \in 1..Len(q), k[n - 1] \in Nat PROVE k[n] = F[n][k[n - 1]]
    <3>1. n \in 0..Len(q) /\ n # 0 /\ n \in Nat
      BY <1>2
    <3>2. k[n] = k[n - 1] + w[q[n]]
      BY <1>6, <3>1
    <3> QED
      BY <2>2, <3>1, <3>2 DEF SumStep
  <2> QED
    BY <2>1, <2>2 DEF Follows
<1> QED
  BY <1>1, <1>7, <1>8 DEF Result

(* Nothing weighs nothing.                                                   *)
LEMMA SumOfNone ==
  ASSUME NEW T, NEW w \in [T -> Nat] PROVE Sum(<<>>, w) = 0
<1>1. <<>> \in Seq(T) /\ Len(<<>>) = 0
  OBVIOUS
<1>2. Result(Sum(<<>>, w), 0, SumStep(<<>>, w), Nat, 0)
  BY <1>1, SumIs
<1> QED
  BY <1>2 DEF Result, Follows

(* One element more adds its weight.                                         *)
LEMMA SumAppend ==
  ASSUME NEW T, NEW q, NEW e, NEW r, Longer(r, q, e, T), NEW w \in [T -> Nat]
  PROVE  Sum(q, w) \in Nat /\ w[e] \in Nat /\ Sum(r, w) = Sum(q, w) + w[e]
<1>1. q \in Seq(T) /\ e \in T /\ r = Append(q, e)
  BY DEF Longer
<1>2. /\ r \in Seq(T) /\ Len(r) = Len(q) + 1 /\ Len(q) \in Nat
      /\ \A n \in 1..Len(q) : r[n] = q[n]
      /\ r[Len(q) + 1] = e
  BY <1>1, AppendProperties
<1>3. PICK F, G : F = SumStep(q, w) /\ G = SumStep(r, w)
  OBVIOUS
<1>4. Goes(F, Nat) /\ Goes(G, Nat) /\ 0 \in Nat
  BY <1>1, <1>2, <1>3, SumIs
<1>5. Agree(F, G, Len(q))
  <2>1. \A n \in 1..Len(q) : n \in 1..Len(r) /\ n \in Nat /\ r[n] = q[n]
    BY <1>2
  <2> QED
    BY <1>3, <2>1 DEF SumStep, Agree
<1>6. PICK x, y : x = Sum(q, w) /\ y = Sum(r, w)
  OBVIOUS
<1>7. Result(x, 0, F, Nat, Len(q)) /\ Result(y, 0, G, Nat, Len(r))
  BY <1>1, <1>2, <1>3, <1>6, SumIs
<1>8. x \in Nat /\ y = G[Len(r)][x]
  <2>1. PICK V, base, len, more : V = Nat /\ base = 0 /\ len = Len(q) /\ more = Len(r)
    OBVIOUS
  <2>2. /\ base \in V /\ len \in Nat /\ more = len + 1 /\ Goes(F, V) /\ Goes(G, V)
        /\ Agree(F, G, len) /\ Result(x, base, F, V, len) /\ Result(y, base, G, V, more)
    BY <1>2, <1>4, <1>5, <1>7, <2>1
  <2>3. x \in V /\ y = G[more][x]
    BY ONLY <2>2, NextResult
  <2> QED
    BY <2>1, <2>3
<1>9. \A v \in Nat : G[Len(r)][v] = v + w[e]
  <2>1. Len(q) + 1 \in Nat /\ Len(q) + 1 \in 1..Len(r)
    BY <1>2
  <2> QED
    BY <1>2, <1>3, <2>1 DEF SumStep
<1> QED
  BY <1>1, <1>6, <1>8, <1>9

(* A sum is a number.                                                        *)
LEMMA SumIsNat ==
  ASSUME NEW T, NEW w \in [T -> Nat], NEW q \in Seq(T) PROVE Sum(q, w) \in Nat
<1>1. CASE T = {}
  <2>1. q = <<>>
    BY <1>1, EmptySeq
  <2> QED
    BY <2>1, SumOfNone
<1>2. ASSUME NEW e \in T PROVE Sum(q, w) \in Nat
  <2>1. Longer(Append(q, e), q, e, T)
    BY DEF Longer
  <2> QED
    BY <2>1, SumAppend
<1> QED
  BY <1>1, <1>2

(* The sum for a sequence of one.                                            *)
LEMMA SumOfOne ==
  ASSUME NEW T, NEW w \in [T -> Nat], NEW e \in T PROVE Sum(<<e>>, w) = w[e]
<1>1. PICK a : a = <<e>> /\ Longer(a, <<>>, e, T)
  <2>1. PICK a, b : a = <<e>> /\ b = Append(<<>>, e)
    OBVIOUS
  <2>2. a \in Seq(T) /\ Len(a) = 1 /\ a[1] = e
    BY <2>1
  <2>3. b \in Seq(T) /\ Len(b) = 1 /\ b[1] = e
    BY <2>1
  <2>4. a = b
    BY <2>2, <2>3, SeqEqual
  <2> QED
    BY <2>1, <2>4 DEF Longer
<1>2. Sum(a, w) = Sum(<<>>, w) + w[e] /\ Sum(<<>>, w) = 0 /\ w[e] \in Nat
  BY <1>1, SumAppend, SumOfNone
<1> QED
  BY <1>1, <1>2

(* Elements that weigh nothing add nothing.                                  *)
LEMMA SumOfNothing ==
  ASSUME NEW T, NEW w \in [T -> Nat], NEW q \in Seq(T), \A n \in DOMAIN q : w[q[n]] = 0
  PROVE  Sum(q, w) = 0
<1> DEFINE P == {r \in Seq(T) : (\A n \in DOMAIN r : w[r[n]] = 0) => Sum(r, w) = 0}
<1>1. <<>> \in P
  BY SumOfNone
<1>2. ASSUME NEW r \in P, NEW e \in T, NEW a, Longer(a, r, e, T) PROVE a \in P
  <2>1. /\ r \in Seq(T) /\ a \in Seq(T) /\ Len(r) + 1 \in DOMAIN a /\ a[Len(r) + 1] = e
        /\ \A n \in DOMAIN r : n \in DOMAIN a /\ a[n] = r[n] /\ n # Len(r) + 1
        /\ \A n \in DOMAIN a : n \in DOMAIN r \/ n = Len(r) + 1
    BY <1>2, LongerIs
  <2>2. Sum(r, w) \in Nat /\ w[e] \in Nat /\ Sum(a, w) = Sum(r, w) + w[e]
    BY <1>2, SumAppend
  <2>3. ASSUME \A n \in DOMAIN a : w[a[n]] = 0 PROVE Sum(a, w) = 0
    BY <2>1, <2>2, <2>3
  <2> QED
    BY <2>1, <2>3
<1>3. P = Seq(T)
  <2> HIDE DEF P
  <2>1. P \subseteq Seq(T)
    BY DEF P
  <2> QED
    BY <1>1, <1>2, <2>1, ByLength
<1> QED
  BY <1>3

(* Where one element has a weight, the sum is that.                          *)
Alone(q, k, w) == \A n \in DOMAIN q \ {k} : w[q[n]] = 0
LEMMA SumOfSingle ==
  ASSUME NEW T, NEW w \in [T -> Nat], NEW q \in Seq(T), NEW k \in DOMAIN q, Alone(q, k, w)
  PROVE  Sum(q, w) = w[q[k]]
<1> DEFINE P == {r \in Seq(T) : \A m \in DOMAIN r :
                    (\A n \in DOMAIN r \ {m} : w[r[n]] = 0) => Sum(r, w) = w[r[m]]}
<1>1. <<>> \in P
  OBVIOUS
<1>2. ASSUME NEW r \in P, NEW e \in T, NEW a, Longer(a, r, e, T) PROVE a \in P
  <2>1. /\ r \in Seq(T) /\ a \in Seq(T) /\ Len(r) + 1 \in DOMAIN a /\ a[Len(r) + 1] = e
        /\ \A n \in DOMAIN r : n \in DOMAIN a /\ a[n] = r[n] /\ n # Len(r) + 1
        /\ \A n \in DOMAIN a : n \in DOMAIN r \/ n = Len(r) + 1
    BY <1>2, LongerIs
  <2>2. Sum(r, w) \in Nat /\ w[e] \in Nat /\ Sum(a, w) = Sum(r, w) + w[e]
    BY <1>2, SumAppend
  <2>3. ASSUME NEW m \in DOMAIN a, \A n \in DOMAIN a \ {m} : w[a[n]] = 0
        PROVE  Sum(a, w) = w[a[m]]
    <3>1. CASE m = Len(r) + 1
      <4>1. \A n \in DOMAIN r : w[r[n]] = 0
        BY <2>1, <2>3, <3>1
      <4>2. Sum(r, w) = 0
        BY <2>1, <4>1, SumOfNothing
      <4> QED
        BY <2>1, <2>2, <3>1, <4>2
    <3>2. CASE m # Len(r) + 1
      <4>1. m \in DOMAIN r /\ w[e] = 0 /\ \A n \in DOMAIN r \ {m} : w[r[n]] = 0
        BY <2>1, <2>3, <3>2
      <4>2. Sum(r, w) = w[r[m]]
        BY <4>1
      <4> QED
        BY <2>1, <2>2, <4>1, <4>2
    <3> QED
      BY <3>1, <3>2
  <2> QED
    BY <2>1, <2>3
<1>3. P = Seq(T)
  <2> HIDE DEF P
  <2>1. P \subseteq Seq(T)
    BY DEF P
  <2> QED
    BY <1>1, <1>2, <2>1, ByLength
<1> QED
  BY <1>3 DEF Alone

(* What weighs nothing may be left out.                                      *)
LEMMA SumOfKept ==
  ASSUME NEW T, NEW w \in [T -> Nat], NEW q \in Seq(T), NEW S,
         \A n \in DOMAIN q : q[n] \notin S => w[q[n]] = 0
  PROVE  Sum(Keep(q, S), w) = Sum(q, w)
<1> DEFINE P == {r \in Seq(T) : (\A n \in DOMAIN r : r[n] \notin S => w[r[n]] = 0)
                                   => Sum(Keep(r, S), w) = Sum(r, w)}
<1>1. <<>> \in P
  <2>1. <<>> \in Seq(T) /\ Keep(<<>>, S) = <<>>
    BY KeepOfNone
  <2> QED
    BY <2>1
<1>2. ASSUME NEW r \in P, NEW e \in T, NEW a, Longer(a, r, e, T) PROVE a \in P
  <2>1. /\ r \in Seq(T) /\ a \in Seq(T) /\ Len(r) + 1 \in DOMAIN a /\ a[Len(r) + 1] = e
        /\ \A n \in DOMAIN r : n \in DOMAIN a /\ a[n] = r[n] /\ n # Len(r) + 1
        /\ \A n \in DOMAIN a : n \in DOMAIN r \/ n = Len(r) + 1
    BY <1>2, LongerIs
  <2>2. Sum(r, w) \in Nat /\ w[e] \in Nat /\ Sum(a, w) = Sum(r, w) + w[e]
    BY <1>2, SumAppend
  <2>3. /\ e \in S => Longer(Keep(a, S), Keep(r, S), e, T)
        /\ e \notin S => Keep(a, S) = Keep(r, S)
    BY <1>2, KeepAppend
  <2>4. ASSUME \A n \in DOMAIN a : a[n] \notin S => w[a[n]] = 0
        PROVE  Sum(Keep(a, S), w) = Sum(a, w)
    <3>1. Sum(Keep(r, S), w) = Sum(r, w)
      BY <2>1, <2>4
    <3>2. e \notin S => w[e] = 0
      BY <2>1, <2>4
    <3>3. e \in S => Sum(Keep(a, S), w) = Sum(Keep(r, S), w) + w[e]
      BY <2>3, SumAppend
    <3> QED
      BY <2>2, <2>3, <3>1, <3>2, <3>3
  <2> QED
    BY <2>1, <2>4
<1>3. P = Seq(T)
  <2> HIDE DEF P
  <2>1. P \subseteq Seq(T)
    BY DEF P
  <2> QED
    BY <1>1, <1>2, <2>1, ByLength
<1> QED
  BY <1>3

(* The first element and the others.                                         *)
LEMMA SumOfFirst ==
  ASSUME NEW T, NEW w \in [T -> Nat], NEW q \in Seq(T), q # <<>>
  PROVE  /\ Head(q) \in T /\ Tail(q) \in Seq(T)
         /\ Sum(q, w) = w[Head(q)] + Sum(Tail(q), w)
<1> DEFINE P == {r \in Seq(T) : r # <<>> => Sum(r, w) = w[Head(r)] + Sum(Tail(r), w)}
<1>1. <<>> \in P
  OBVIOUS
<1>2. ASSUME NEW r \in P, NEW e \in T, NEW a, Longer(a, r, e, T) PROVE a \in P
  <2>1. /\ r \in Seq(T) /\ a \in Seq(T) /\ Len(r) + 1 \in DOMAIN a /\ a[Len(r) + 1] = e
        /\ \A n \in DOMAIN r : n \in DOMAIN a /\ a[n] = r[n] /\ n # Len(r) + 1
        /\ \A n \in DOMAIN a : n \in DOMAIN r \/ n = Len(r) + 1
    BY <1>2, LongerIs
  <2>2. Sum(r, w) \in Nat /\ w[e] \in Nat /\ Sum(a, w) = Sum(r, w) + w[e]
    BY <1>2, SumAppend
  <2>3. PICK h, t : h = Head(a) /\ t = Tail(a)
    OBVIOUS
  <2>4. CASE r = <<>>
    <3>1. h = e /\ t = <<>>
      BY <1>2, <2>1, <2>3, <2>4, HeadTailAppend DEF Longer
    <3>2. Sum(r, w) = 0 /\ Sum(t, w) = 0
      BY <2>4, <3>1, SumOfNone
    <3>3. Sum(a, w) = w[h] + Sum(t, w)
      BY <2>2, <3>1, <3>2
    <3> QED
      BY <2>1, <2>3, <3>3
  <2>5. CASE r # <<>>
    <3>1. PICK k, u : k = Head(r) /\ u = Tail(r)
      OBVIOUS
    <3>2. k \in T /\ u \in Seq(T)
      BY <2>1, <2>5, <3>1, HeadTailProperties
    <3>3. h = k /\ Longer(t, u, e, T)
      BY <1>2, <2>1, <2>3, <2>5, <3>1, <3>2, HeadTailAppend DEF Longer
    <3>4. Sum(r, w) = w[k] + Sum(u, w)
      BY <2>5, <3>1
    <3>5. Sum(t, w) = Sum(u, w) + w[e] /\ Sum(u, w) \in Nat /\ w[k] \in Nat
      BY <3>2, <3>3, SumAppend
    <3>6. Sum(a, w) = w[h] + Sum(t, w)
      BY <2>2, <3>3, <3>4, <3>5
    <3> QED
      BY <2>1, <2>3, <3>6
  <2> QED
    BY <2>4, <2>5
<1>3. P = Seq(T)
  <2> HIDE DEF P
  <2>1. P \subseteq Seq(T)
    BY DEF P
  <2> QED
    BY <1>1, <1>2, <2>1, ByLength
<1> QED
  BY <1>3, HeadTailProperties

(* One sequence and another.                                                 *)
LEMMA SumOfBoth ==
  ASSUME NEW T, NEW w \in [T -> Nat], NEW p \in Seq(T), NEW q \in Seq(T)
  PROVE  Sum(p \o q, w) = Sum(p, w) + Sum(q, w)
<1> DEFINE P == {r \in Seq(T) : Sum(p \o r, w) = Sum(p, w) + Sum(r, w)}
<1>1. <<>> \in P
  <2>1. p \o <<>> = p /\ <<>> \in Seq(T)
    BY ConcatEmptySeq
  <2>2. Sum(<<>>, w) = 0 /\ Sum(p, w) \in Nat
    BY SumOfNone, SumIsNat
  <2> QED
    BY <2>1, <2>2
<1>2. ASSUME NEW r \in P, NEW e \in T, NEW a, Longer(a, r, e, T) PROVE a \in P
  <2>1. /\ r \in Seq(T) /\ a \in Seq(T) /\ Len(r) + 1 \in DOMAIN a /\ a[Len(r) + 1] = e
        /\ \A n \in DOMAIN r : n \in DOMAIN a /\ a[n] = r[n] /\ n # Len(r) + 1
        /\ \A n \in DOMAIN a : n \in DOMAIN r \/ n = Len(r) + 1
    BY <1>2, LongerIs
  <2>2. Sum(r, w) \in Nat /\ w[e] \in Nat /\ Sum(a, w) = Sum(r, w) + w[e]
    BY <1>2, SumAppend
  <2>3. PICK b, c : b = p \o r /\ c = p \o a
    OBVIOUS
  <2>4. Longer(c, b, e, T)
    BY <1>2, <2>1, <2>3 DEF Longer
  <2>5. Sum(b, w) = Sum(p, w) + Sum(r, w)
    BY <2>3
  <2>6. Sum(c, w) = Sum(b, w) + w[e] /\ Sum(p, w) \in Nat
    <3>1. Sum(c, w) = Sum(b, w) + w[e]
      BY <2>4, SumAppend
    <3> QED
      BY <3>1, SumIsNat
  <2>7. Sum(c, w) = Sum(p, w) + Sum(a, w)
    BY <2>2, <2>5, <2>6
  <2> QED
    BY <2>1, <2>3, <2>7
<1>3. P = Seq(T)
  <2> HIDE DEF P
  <2>1. P \subseteq Seq(T)
    BY DEF P
  <2> QED
    BY <1>1, <1>2, <2>1, ByLength
<1> QED
  BY <1>3

-----------------------------------------------------------------------------
(* EventsFor *)

Brings(e, s) == e.sub = s /\ e.type = "events"
Carries(s)   == [e \in Message |-> IF Brings(e, s) THEN Len(e.events) ELSE 0]
EventsStep(s, q) ==
    [n \in Nat |-> [v \in Seq(Events) |->
                      IF n \in 1..Len(q) /\ Brings(q[n], s) THEN v \o q[n].events ELSE v]]

(* EventsFor is what its recursion says.                                     *)
LEMMA EventsForIs ==
  ASSUME NEW q \in Seq(Message), NEW s \in Subs
  PROVE  /\ Goes(EventsStep(s, q), Seq(Events))
         /\ Result(EventsFor(s, q), <<>>, EventsStep(s, q), Seq(Events), Len(q))
<1> DEFINE F == EventsStep(s, q)
           Is(k) == k = [n \in 0..Len(q) |->
                           IF n = 0 THEN <<>>
                           ELSE IF q[n].sub = s /\ q[n].type = "events" THEN k[n - 1] \o q[n].events
                                                                     ELSE k[n - 1]]
<1>1. Goes(F, Seq(Events))
  <2>1. \A n \in Nat, v \in Seq(Events) :
          (IF n \in 1..Len(q) /\ Brings(q[n], s) THEN v \o q[n].events ELSE v) \in Seq(Events)
    <3>1. \A n \in 1..Len(q) : q[n] \in Message
      OBVIOUS
    <3>2. \A e \in Message : e.events \in Seq(Events)
      BY DEF Message
    <3> QED
      BY <3>1, <3>2
  <2> QED
    BY <2>1 DEF EventsStep, Goes
<1>2. Len(q) \in Nat /\ <<>> \in Seq(Events)
  OBVIOUS
<1>3. PICK g : /\ DOMAIN g = 0..Len(q) /\ \A n \in 0..Len(q) : g[n] \in Seq(Events)
               /\ Follows(g, <<>>, F, Seq(Events), Len(q))
               /\ g = [n \in 0..Len(q) |-> g[n]]
  <2> HIDE DEF F
  <2> QED
    BY <1>1, <1>2, Recursion
<1>4. \E k : Is(k)
  <2> DEFINE gg == [n \in 0..Len(q) |->
                      IF n = 0 THEN <<>>
                      ELSE IF q[n].sub = s /\ q[n].type = "events" THEN g[n - 1] \o q[n].events
                                                                ELSE g[n - 1]]
  <2>1. ASSUME NEW n \in 0..Len(q) PROVE g[n] = gg[n]
    <3>1. CASE n = 0
      BY <1>3, <3>1 DEF Follows
    <3>2. CASE n # 0
      <4>1. n \in 1..Len(q) /\ n - 1 \in 0..Len(q) /\ n \in Nat
        BY <1>2, <3>2
      <4>2. g[n] = F[n][g[n - 1]] /\ g[n - 1] \in Seq(Events)
        BY <1>3, <3>2, <4>1 DEF Follows
      <4> QED
        BY <3>2, <4>1, <4>2 DEF EventsStep, Brings
    <3> QED
      BY <3>1, <3>2
  <2>2. g = gg
    BY <1>3, <2>1, Zenon
  <2>3. Is(g)
    BY <2>2
  <2> QED
    BY <2>3, Zenon
<1>5. PICK k : k = CHOOSE f : Is(f)
  OBVIOUS
<1>6. Is(k)
  BY <1>4, <1>5, Zenon
<1>7. EventsFor(s, q) = k[Len(q)]
  BY <1>5, Zenon DEF EventsFor
<1>8. Follows(k, <<>>, F, Seq(Events), Len(q))
  <2>1. k[0] = <<>>
    BY <1>2, <1>6
  <2>2. ASSUME NEW n \in 1..Len(q), k[n - 1] \in Seq(Events) PROVE k[n] = F[n][k[n - 1]]
    <3>1. n \in 0..Len(q) /\ n # 0 /\ n \in Nat
      BY <1>2
    <3>2. k[n] = IF q[n].sub = s /\ q[n].type = "events" THEN k[n - 1] \o q[n].events
                                                                     ELSE k[n - 1]
      BY <1>6, <3>1
    <3> QED
      BY <2>2, <3>1, <3>2 DEF EventsStep, Brings
  <2> QED
    BY <2>1, <2>2 DEF Follows
<1> QED
  BY <1>1, <1>7, <1>8 DEF Result

(* No messages bring no events.                                              *)
LEMMA EventsForNone ==
  ASSUME NEW s \in Subs PROVE EventsFor(s, <<>>) = <<>>
<1>1. <<>> \in Seq(Message) /\ Len(<<>>) = 0
  OBVIOUS
<1>2. Result(EventsFor(s, <<>>), <<>>, EventsStep(s, <<>>), Seq(Events), 0)
  BY <1>1, EventsForIs
<1> QED
  BY <1>2 DEF Result, Follows

(* One message more brings its events.                                       *)
LEMMA EventsForMore ==
  ASSUME NEW q, NEW e, NEW r, Longer(r, q, e, Message), NEW s \in Subs
  PROVE  /\ EventsFor(s, q) \in Seq(Events)
         /\ EventsFor(s, r) = IF Brings(e, s) THEN EventsFor(s, q) \o e.events ELSE EventsFor(s, q)
<1>1. q \in Seq(Message) /\ e \in Message /\ r = Append(q, e)
  BY DEF Longer
<1>2. /\ r \in Seq(Message) /\ Len(r) = Len(q) + 1 /\ Len(q) \in Nat
      /\ \A n \in 1..Len(q) : r[n] = q[n]
      /\ r[Len(q) + 1] = e
  BY <1>1, AppendProperties
<1>3. PICK F, G : F = EventsStep(s, q) /\ G = EventsStep(s, r)
  OBVIOUS
<1>4. Goes(F, Seq(Events)) /\ Goes(G, Seq(Events)) /\ <<>> \in Seq(Events)
  <2>1. Goes(F, Seq(Events))
    BY <1>1, <1>3, EventsForIs
  <2>2. Goes(G, Seq(Events))
    BY <1>2, <1>3, EventsForIs
  <2> QED
    BY <2>1, <2>2
<1>5. Agree(F, G, Len(q))
  <2>1. \A n \in 1..Len(q) : n \in 1..Len(r) /\ n \in Nat /\ r[n] = q[n]
    BY <1>2
  <2> QED
    BY <1>3, <2>1 DEF EventsStep, Agree
<1>6. PICK x, y : x = EventsFor(s, q) /\ y = EventsFor(s, r)
  OBVIOUS
<1>7. Result(x, <<>>, F, Seq(Events), Len(q)) /\ Result(y, <<>>, G, Seq(Events), Len(r))
  BY <1>1, <1>2, <1>3, <1>6, EventsForIs
<1>8. x \in Seq(Events) /\ y = G[Len(r)][x]
  <2>1. PICK V, base, len, more : V = Seq(Events) /\ base = <<>> /\ len = Len(q) /\ more = Len(r)
    OBVIOUS
  <2>2. /\ base \in V /\ len \in Nat /\ more = len + 1 /\ Goes(F, V) /\ Goes(G, V)
        /\ Agree(F, G, len) /\ Result(x, base, F, V, len) /\ Result(y, base, G, V, more)
    BY <1>2, <1>4, <1>5, <1>7, <2>1
  <2>3. x \in V /\ y = G[more][x]
    BY ONLY <2>2, NextResult
  <2> QED
    BY <2>1, <2>3
<1>9. \A v \in Seq(Events) : G[Len(r)][v] = IF Brings(e, s) THEN v \o e.events ELSE v
  <2>1. Len(q) + 1 \in Nat /\ Len(q) + 1 \in 1..Len(r)
    BY <1>2
  <2> QED
    BY <1>2, <1>3, <2>1 DEF EventsStep
<1> QED
  BY <1>6, <1>8, <1>9

(* There are as many as the messages carry.                                  *)
LEMMA LenOfEvents ==
  ASSUME NEW s \in Subs, NEW q \in Seq(Message)
  PROVE  /\ Carries(s) \in [Message -> Nat]
         /\ EventsFor(s, q) \in Seq(Events) /\ Len(EventsFor(s, q)) = Sum(q, Carries(s))
<1> DEFINE w == Carries(s)
           P == {r \in Seq(Message) : /\ EventsFor(s, r) \in Seq(Events)
                                      /\ Len(EventsFor(s, r)) = Sum(r, w)}
<1>0. w \in [Message -> Nat]
  <2>1. \A e \in Message : Len(e.events) \in Nat
    BY DEF Message
  <2> QED
    BY <2>1 DEF Carries
<1>1. <<>> \in P
  <2>1. EventsFor(s, <<>>) = <<>> /\ Sum(<<>>, w) = 0 /\ <<>> \in Seq(Message)
    <3> HIDE DEF w
    <3> QED
      BY <1>0, EventsForNone, SumOfNone
  <2>2. Len(EventsFor(s, <<>>)) = 0 /\ EventsFor(s, <<>>) \in Seq(Events)
    <3>1. PICK z : z = EventsFor(s, <<>>)
      OBVIOUS
    <3>2. z = <<>>
      BY <2>1, <3>1
    <3>3. Len(z) = 0 /\ z \in Seq(Events)
      BY <3>2
    <3> QED
      BY <3>1, <3>3
  <2> HIDE DEF w
  <2> QED
    BY <2>1, <2>2
<1>2. ASSUME NEW r \in P, NEW e \in Message, NEW a, Longer(a, r, e, Message) PROVE a \in P
  <2>0. r \in Seq(Message) /\ EventsFor(s, r) \in Seq(Events) /\ Len(EventsFor(s, r)) = Sum(r, w)
    OBVIOUS
  <2>1. Sum(r, w) \in Nat /\ w[e] \in Nat /\ Sum(a, w) = Sum(r, w) + w[e] /\ a \in Seq(Message)
    <3> HIDE DEF w, P
    <3> QED
      BY <1>0, <1>2, SumAppend, LongerIs
  <2>2. EventsFor(s, a) = IF Brings(e, s) THEN EventsFor(s, r) \o e.events ELSE EventsFor(s, r)
    BY <1>2, EventsForMore
  <2>3. e.events \in Seq(Events)
    BY DEF Message
  <2>4. w[e] = IF Brings(e, s) THEN Len(e.events) ELSE 0
    BY DEF Carries
  <2> HIDE DEF w
  <2>5. EventsFor(s, a) \in Seq(Events) /\ Len(EventsFor(s, a)) = Sum(a, w)
    <3>1. PICK x, y, z : x = EventsFor(s, r) /\ y = e.events /\ z = x \o y
      OBVIOUS
    <3>2. /\ x \in Seq(Events) /\ y \in Seq(Events) /\ z \in Seq(Events)
          /\ Len(z) = Len(x) + Len(y) /\ Len(x) \in Nat
      BY <2>0, <2>3, <3>1, ConcatProperties
    <3>3. CASE Brings(e, s)
      BY <2>0, <2>1, <2>2, <2>4, <3>1, <3>2, <3>3
    <3>4. CASE ~Brings(e, s)
      BY <2>0, <2>1, <2>2, <2>4, <3>4
    <3> QED
      BY <3>3, <3>4
  <2> QED
    BY <2>1, <2>5
<1>3. P = Seq(Message)
  <2> HIDE DEF P
  <2>1. P \subseteq Seq(Message)
    BY DEF P
  <2> QED
    BY <1>1, <1>2, <2>1, ByLength
<1> QED
  BY <1>0, <1>3

(* What is kept is what is in S, each once where it was there once.          *)
Distinct(q) == \A k, n \in DOMAIN q : q[k] = q[n] => k = n

LEMMA KeptElements ==
  ASSUME NEW T, NEW q \in Seq(T), NEW S
  PROVE  /\ Keep(q, S) \in Seq(T)
         /\ \A n \in DOMAIN Keep(q, S) : Keep(q, S)[n] \in S /\ \E k \in DOMAIN q : q[k] = Keep(q, S)[n]
         /\ \A k \in DOMAIN q : q[k] \in S => \E n \in DOMAIN Keep(q, S) : Keep(q, S)[n] = q[k]
         /\ Distinct(q) => Distinct(Keep(q, S))
<1> DEFINE P == {r \in Seq(T) :
              /\ Keep(r, S) \in Seq(T)
              /\ \A n \in DOMAIN Keep(r, S) : Keep(r, S)[n] \in S /\ \E k \in DOMAIN r : r[k] = Keep(r, S)[n]
              /\ \A k \in DOMAIN r : r[k] \in S => \E n \in DOMAIN Keep(r, S) : Keep(r, S)[n] = r[k]
              /\ Distinct(r) => Distinct(Keep(r, S))}
<1>1. <<>> \in P
  <2>1. <<>> \in Seq(T) /\ Keep(<<>>, S) = <<>> /\ DOMAIN <<>> = {}
    BY KeepOfNone
  <2> QED
    BY <2>1 DEF Distinct
<1>2. ASSUME NEW r \in P, NEW e \in T, NEW a, Longer(a, r, e, T) PROVE a \in P
  <2>1. /\ r \in Seq(T) /\ a \in Seq(T) /\ Len(r) + 1 \in DOMAIN a /\ a[Len(r) + 1] = e
        /\ \A n \in DOMAIN r : n \in DOMAIN a /\ a[n] = r[n] /\ n # Len(r) + 1
        /\ \A n \in DOMAIN a : n \in DOMAIN r \/ n = Len(r) + 1
    BY <1>2, LongerIs
  <2>2. PICK x, y : x = Keep(r, S) /\ y = Keep(a, S)
    OBVIOUS
  <2>3. /\ e \in S => Longer(y, x, e, T)
        /\ e \notin S => y = x
    BY <1>2, <2>2, KeepAppend
  <2>4. /\ x \in Seq(T)
        /\ \A n \in DOMAIN x : x[n] \in S /\ \E k \in DOMAIN r : r[k] = x[n]
        /\ \A k \in DOMAIN r : r[k] \in S => \E n \in DOMAIN x : x[n] = r[k]
        /\ Distinct(r) => Distinct(x)
    BY <2>2
  <2>5. Distinct(a) => Distinct(r)
    BY <2>1 DEF Distinct
  <2> DEFINE Fine == /\ y \in Seq(T)
                     /\ \A n \in DOMAIN y : y[n] \in S /\ \E k \in DOMAIN a : a[k] = y[n]
                     /\ \A k \in DOMAIN a : a[k] \in S => \E n \in DOMAIN y : y[n] = a[k]
                     /\ Distinct(a) => Distinct(y)
  <2>6. CASE e \notin S
    <3>1. y \in Seq(T) /\ \A n \in DOMAIN y : y[n] \in S /\ \E k \in DOMAIN a : a[k] = y[n]
      BY <2>1, <2>3, <2>4, <2>6
    <3>2. \A k \in DOMAIN a : a[k] \in S => \E n \in DOMAIN y : y[n] = a[k]
      BY <2>1, <2>3, <2>4, <2>6
    <3>3. Distinct(a) => Distinct(y)
      BY <2>3, <2>4, <2>5, <2>6
    <3> QED
      BY <2>1, <2>2, <3>1, <3>2, <3>3
  <2>7. CASE e \in S
    <3>1. /\ y \in Seq(T) /\ Len(x) + 1 \in DOMAIN y /\ y[Len(x) + 1] = e
          /\ \A n \in DOMAIN x : n \in DOMAIN y /\ y[n] = x[n] /\ n # Len(x) + 1
          /\ \A n \in DOMAIN y : n \in DOMAIN x \/ n = Len(x) + 1
      BY <2>3, <2>7, LongerIs
    <3>2. \A n \in DOMAIN y : y[n] \in S /\ \E k \in DOMAIN a : a[k] = y[n]
      BY <2>1, <2>4, <2>7, <3>1
    <3>3. \A k \in DOMAIN a : a[k] \in S => \E n \in DOMAIN y : y[n] = a[k]
      BY <2>1, <2>4, <2>7, <3>1
    <3>4. ASSUME Distinct(a) PROVE Distinct(y)
      <4>1. Distinct(x)
        BY <2>4, <2>5, <3>4
      <4>2. \A n \in DOMAIN x : x[n] # e
        BY <2>1, <2>4, <3>4 DEF Distinct
      <4> QED
        BY <3>1, <4>1, <4>2 DEF Distinct
    <3> QED
      BY <2>1, <2>2, <3>1, <3>2, <3>3, <3>4
  <2> QED
    BY <2>6, <2>7
<1>3. P = Seq(T)
  <2> HIDE DEF P
  <2>1. P \subseteq Seq(T)
    BY DEF P
  <2> QED
    BY <1>1, <1>2, <2>1, ByLength
<1> QED
  BY <1>3

-----------------------------------------------------------------------------
(* Places of a list *)

(* Every rank up to the number of places belongs to one place.               *)
LEMMA Ranks ==
  ASSUME NEW S \in SUBSET Nat, IsFiniteSet(S)
  PROVE  /\ Cardinality(S) \in Nat
         /\ \A n \in S : Rank(n, S) \in 1..Cardinality(S)
         /\ \A m, n \in S : Rank(m, S) = Rank(n, S) => m = n
         /\ \A k \in 1..Cardinality(S) : \E n \in S : Rank(n, S) = k
<1> DEFINE Below(n) == {m \in S : m <= n}
           f == [n \in S |-> Rank(n, S)]
<1>1. Cardinality(S) \in Nat
  BY FS_CardinalityType
<1>2. ASSUME NEW n \in S
      PROVE  /\ IsFiniteSet(Below(n)) /\ Rank(n, S) = Cardinality(Below(n))
             /\ Rank(n, S) \in 1..Cardinality(S)
  <2>1. Below(n) \in SUBSET S /\ n \in Below(n)
    OBVIOUS
  <2>2. /\ IsFiniteSet(Below(n)) /\ Cardinality(Below(n)) <= Cardinality(S)
        /\ Cardinality(Below(n)) \in Nat
    <3> HIDE DEF Below
    <3> QED
      BY <2>1, FS_Subset, FS_CardinalityType
  <2>3. Cardinality(Below(n)) # 0
    <3> HIDE DEF Below
    <3> QED
      BY <2>1, <2>2, FS_EmptySet
  <2>4. Rank(n, S) = Cardinality(Below(n))
    BY DEF Rank
  <2> HIDE DEF Below
  <2> QED
    BY <1>1, <2>2, <2>3, <2>4
<1>3. ASSUME NEW m \in S, NEW n \in S, m < n PROVE Rank(m, S) # Rank(n, S)
  <2>1. Below(m) \in SUBSET Below(n) /\ n \in Below(n) /\ n \notin Below(m)
    <3>1. \A j \in S : j \in Nat
      OBVIOUS
    <3>2. \A j \in S : j <= m => j <= n
      BY <1>3, <3>1
    <3>3. n <= n /\ ~(n <= m)
      BY <1>3, <3>1
    <3> QED
      BY <3>2, <3>3
  <2>2. Cardinality(Below(m)) # Cardinality(Below(n))
    <3>1. IsFiniteSet(Below(n)) /\ Below(m) # Below(n)
      BY <1>2, <2>1
    <3> HIDE DEF Below
    <3> QED
      BY <2>1, <3>1, FS_Subset
  <2> QED
    BY <1>2, <2>2
<1>4. \A m, n \in S : Rank(m, S) = Rank(n, S) => m = n
  BY <1>3
<1>5. PICK c : c = Cardinality(S)
  OBVIOUS
<1>6. f \in Injection(S, 1..c)
  <2>1. f \in [S -> 1..c]
    BY <1>2, <1>5
  <2>2. \A m, n \in S : f[m] = f[n] => m = n
    BY <1>4
  <2> HIDE DEF f
  <2> QED
    BY <2>1, <2>2, Fun_IsInj
<1>7. IsFiniteSet(1..c) /\ Cardinality(1..c) = c
  BY <1>1, <1>5, FS_Interval
<1>8. f \in Surjection(S, 1..c)
  <2> HIDE DEF f
  <2> QED
    BY <1>5, <1>6, <1>7, FS_Injection
<1>9. \A k \in 1..c : \E n \in S : f[n] = k
  <2> HIDE DEF f
  <2> QED
    BY <1>8 DEF Surjection
<1> QED
  BY <1>1, <1>2, <1>4, <1>5, <1>9

(* The elements at some of the places of a list.                             *)
LEMMA AtIs ==
  ASSUME NEW T, NEW q \in Seq(T), NEW S \in SUBSET DOMAIN q
  PROVE  /\ IsFiniteSet(S) /\ Cardinality(S) \in Nat
         /\ At(q, S) \in Seq(T) /\ Len(At(q, S)) = Cardinality(S)
<1>1. IsFiniteSet(S) /\ S \in SUBSET Nat
  <2>1. IsFiniteSet(1..Len(q)) /\ S \in SUBSET (1..Len(q)) /\ Len(q) \in Nat
    BY FS_Interval
  <2> QED
    BY <2>1, FS_Subset
<1>2. PICK c : c = Cardinality(S)
  OBVIOUS
<1>3. c \in Nat /\ \A k \in 1..c : \E n \in S : Rank(n, S) = k
  BY <1>1, <1>2, Ranks
<1>4. ASSUME NEW k \in 1..c PROVE q[CHOOSE n \in S : Rank(n, S) = k] \in T
  <2>1. PICK j : j = CHOOSE n \in S : Rank(n, S) = k
    OBVIOUS
  <2>2. j \in S
    BY <1>3, <2>1
  <2> QED
    BY <2>1, <2>2
<1>5. At(q, S) \in [1..c -> T]
  BY <1>2, <1>4 DEF At
<1> QED
  BY <1>1, <1>2, <1>3, <1>5

-----------------------------------------------------------------------------
(* The dispatchers *)

(* The smallest value of a function on a set that is not empty.              *)
LEMMA SmallestIs ==
  ASSUME NEW d \in [Subs -> Nat], NEW S \in SUBSET Subs, NEW s \in S
  PROVE  Smallest(d, S) \in Nat /\ Smallest(d, S) <= d[s]
<1> DEFINE V == {d[t] : t \in S}
<1>1. V \in SUBSET Nat /\ V # {}
  OBVIOUS
<1>2. \E n \in V : \A m \in V : n <= m
  <2> HIDE DEF V
  <2> QED
    BY <1>1, LeastNumber
<1>3. \E n \in V : \A t \in S : n <= d[t]
  BY <1>2
<1>4. PICK n : n = CHOOSE k \in V : \A t \in S : k <= d[t]
  OBVIOUS
<1>5. n \in V /\ \A t \in S : n <= d[t]
  BY <1>3, <1>4
<1>6. Smallest(d, S) = n
  BY <1>4 DEF Smallest
<1> QED
  BY <1>1, <1>5, <1>6

(* No dispatcher gives a subscription more events than it has asked for.     *)
LEMMA Shares ==
  ASSUME GenStageAssumption, kind \in Kinds, NEW x \in Stages, producerSubs[x] \in Seq(Subs),
         NEW d \in [Subs -> Nat], NEW evs \in Seq(Events), NEW s \in Subscribers(x)
  PROVE  /\ s \in Subs /\ Share(x, d, evs, s) \subseteq DOMAIN evs
         /\ IsFiniteSet(Share(x, d, evs, s)) /\ Cardinality(Share(x, d, evs, s)) \in 0..d[s]
<1> DEFINE S == Share(x, d, evs, s)
<1>1. /\ s \in Subs /\ d[s] \in Nat /\ Len(evs) \in Nat /\ DOMAIN evs = 1..Len(evs)
      /\ Subscribers(x) \in SUBSET Subs
  <2>1. \A n \in DOMAIN producerSubs[x] : producerSubs[x][n] \in Subs
    OBVIOUS
  <2>2. Subscribers(x) \in SUBSET Subs
    BY <2>1 DEF Subscribers, ToSet
  <2>3. s \in Subs
    BY <2>2
  <2> QED
    BY <2>2, <2>3
<1>2. CASE kind = "demand"
  <2> DEFINE w == [t \in Subs |-> IF GreedyFirst(x, d, t, s) THEN d[t] ELSE 0]
  <2>1. w \in [Subs -> Nat]
    OBVIOUS
  <2>2. PICK first : first = Sum(producerSubs[x], w)
    OBVIOUS
  <2>3. first \in Nat
    <3> HIDE DEF w
    <3> QED
      BY <2>1, <2>2, SumIsNat
  <2>4. S = {n \in DOMAIN evs : first < n /\ n <= first + d[s]}
    BY <1>2, <2>2 DEF Share, Greedy
  <2> HIDE DEF S
  <2>5. S \subseteq DOMAIN evs /\ S \in SUBSET (first + 1 .. first + d[s])
    BY <1>1, <2>3, <2>4
  <2>6. /\ IsFiniteSet(first + 1 .. first + d[s])
        /\ Cardinality(first + 1 .. first + d[s]) = d[s]
    <3>1. PICK a, b, v : a = first + 1 /\ b = first + v /\ v = d[s]
      OBVIOUS
    <3>2. v \in Nat
      BY <1>1, <3>1
    <3>3. a \in Int /\ b \in Int /\ (a > b => v = 0) /\ b - a + 1 = v
      BY ONLY <2>3, <3>1, <3>2
    <3>4. IsFiniteSet(a..b) /\ Cardinality(a..b) = IF a > b THEN 0 ELSE b - a + 1
      BY <3>3, FS_Interval
    <3>5. IsFiniteSet(a..b) /\ Cardinality(a..b) = v
      BY <3>3, <3>4
    <3> QED
      BY <3>1, <3>5
  <2>7. IsFiniteSet(S) /\ Cardinality(S) \in Nat /\ Cardinality(S) <= d[s]
    <3>1. PICK I : I = first + 1 .. first + d[s]
      OBVIOUS
    <3>2. IsFiniteSet(I) /\ Cardinality(I) = d[s] /\ S \in SUBSET I
      BY <2>5, <2>6, <3>1
    <3>3. IsFiniteSet(S) /\ Cardinality(S) <= Cardinality(I)
      BY <3>2, FS_Subset
    <3>4. Cardinality(S) \in Nat
      BY <3>3, FS_CardinalityType
    <3> QED
      BY <3>2, <3>3, <3>4
  <2> QED
    BY <1>1, <2>5, <2>7 DEF S
<1>3. CASE kind = "broadcast"
  <2>1. PICK least, n : /\ least = Smallest(d, Subscribers(x))
                        /\ n = IF least < Len(evs) THEN least ELSE Len(evs)
    OBVIOUS
  <2>2. least \in Nat /\ least <= d[s]
    BY <1>1, <2>1, SmallestIs
  <2>3. n \in Nat /\ n <= d[s] /\ n <= Len(evs)
    <3>1. CASE least < Len(evs)
      BY <1>1, <2>1, <2>2, <3>1
    <3>2. CASE ~(least < Len(evs))
      <4>1. n = Len(evs) /\ Len(evs) <= least
        BY <1>1, <2>1, <2>2, <3>2
      <4> QED
        BY <1>1, <2>2, <4>1
    <3> QED
      BY <3>1, <3>2
  <2>4. S = 1..n
    BY <1>3, <2>1 DEF Share, Common
  <2>5. IsFiniteSet(1..n) /\ Cardinality(1..n) = n
    BY <2>3, FS_Interval
  <2> HIDE DEF S
  <2>6. S \subseteq DOMAIN evs /\ IsFiniteSet(S) /\ Cardinality(S) \in 0..d[s]
    BY <1>1, <2>3, <2>4, <2>5
  <2> QED
    BY <1>1, <2>6 DEF S
<1>4. CASE kind = "partition"
  <2> DEFINE mine == {n \in DOMAIN evs : Hash[evs[n]] = Partition[s]}
             f == [n \in S |-> Rank(n, mine)]
  <2>1. S = {n \in mine : Rank(n, mine) <= d[s]}
    BY <1>4 DEF Share, Hashed
  <2>2. mine \in SUBSET Nat /\ mine \in SUBSET DOMAIN evs
    BY <1>1
  <2>3. IsFiniteSet(mine)
    <3> HIDE DEF mine
    <3> QED
      BY <2>2, AtIs
  <2>4. /\ \A n \in mine : Rank(n, mine) \in 1..Cardinality(mine)
        /\ \A m, n \in mine : Rank(m, mine) = Rank(n, mine) => m = n
        /\ Cardinality(mine) \in Nat
    <3> HIDE DEF mine
    <3> QED
      BY <2>2, <2>3, Ranks
  <2>5. S \subseteq DOMAIN evs /\ S \in SUBSET mine
    BY <2>1, <2>2
  <2>6. f \in Injection(S, 1..d[s])
    <3> HIDE DEF mine, S
    <3>1. \A n \in S : Rank(n, mine) \in 1..d[s]
      BY <1>1, <2>1, <2>4
    <3>2. f \in [S -> 1..d[s]]
      BY <3>1
    <3>3. \A m, n \in S : f[m] = f[n] => m = n
      BY <2>4, <2>5
    <3> HIDE DEF f
    <3> QED
      BY <3>2, <3>3, Fun_IsInj
  <2>7. IsFiniteSet(1..d[s]) /\ Cardinality(1..d[s]) = d[s]
    BY <1>1, FS_Interval
  <2>8. IsFiniteSet(S) /\ Cardinality(S) <= Cardinality(1..d[s])
    <3> HIDE DEF f, S
    <3> QED
      BY <2>6, <2>7, FS_Injection
  <2>9. Cardinality(S) \in Nat
    BY <2>8, FS_CardinalityType
  <2> HIDE DEF S, mine, f
  <2>10. Cardinality(S) \in 0..d[s]
    BY <1>1, <2>7, <2>8, <2>9
  <2> QED
    BY <1>1, <2>5, <2>8, <2>10 DEF S
<1> QED
  BY <1>2, <1>3, <1>4 DEF GenStageAssumption

(* What dispatching does: every subscription is sent as many events as are   *)
(* taken from its demand.                                                    *)
Gives(x, s) == s \in Subscribers(x)
LEMMA Dispatches ==
  ASSUME GenStageAssumption, kind \in Kinds, NEW x \in Stages, producerSubs[x] \in Seq(Subs),
         Distinct(producerSubs[x]), outbox \in [Stages -> Seq(Message)],
         buffer \in [Stages -> Seq(Events)],
         NEW d \in [Subs -> Nat], NEW buf \in Seq(Events), NEW evs \in Seq(Events),
         Dispatch(x, d, buf, evs)
  PROVE  /\ demand' \in [Subs -> Nat] /\ buffer' \in [Stages -> Seq(Events)]
         /\ outbox' \in [Stages -> Seq(Message)]
         /\ \A y \in Stages \ {x} : outbox'[y] = outbox[y]
         /\ \A n \in DOMAIN outbox'[x] :
               outbox'[x][n].type = "events" /\ Gives(x, outbox'[x][n].sub)
         /\ \A s \in Subs : /\ demand'[s] + Sum(outbox'[x], Carries(s)) = d[s]
                            /\ ~Gives(x, s) => demand'[s] = d[s]
<1>0. PICK subs \in Seq(Subs) : subs = producerSubs[x]
  OBVIOUS
<1>1. \A s \in Subs : s \in Subscribers(x) <=> \E n \in DOMAIN subs : subs[n] = s
  BY <1>0 DEF Subscribers, ToSet
<1>2. ASSUME NEW s \in Subscribers(x)
      PROVE  /\ s \in Subs /\ Share(x, d, evs, s) \in SUBSET DOMAIN evs
             /\ Cardinality(Share(x, d, evs, s)) \in 0..d[s]
             /\ At(evs, Share(x, d, evs, s)) \in Seq(Events)
             /\ Len(At(evs, Share(x, d, evs, s))) = Cardinality(Share(x, d, evs, s))
  <2>1. PICK L : L = Share(x, d, evs, s)
    OBVIOUS
  <2>2. s \in Subs /\ L \in SUBSET DOMAIN evs /\ Cardinality(L) \in 0..d[s]
    BY <2>1, Shares
  <2>3. At(evs, L) \in Seq(Events) /\ Len(At(evs, L)) = Cardinality(L)
    BY <2>2, AtIs
  <2> QED
    BY <2>1, <2>2, <2>3
<1>3. PICK lot : lot = [s \in Subs |-> Cardinality(Share(x, d, evs, s))]
  OBVIOUS
<1>4. \A s \in Subs : /\ d[s] \in Nat
                      /\ s \in Subscribers(x) => lot[s] \in Nat /\ lot[s] <= d[s]
  <2>1. \A s \in Subs : d[s] \in Nat
    OBVIOUS
  <2>2. \A s \in Subs : s \in Subscribers(x) => lot[s] \in 0..d[s]
    BY <1>2, <1>3
  <2> QED
    BY <2>1, <2>2
<1>5. PICK batches : batches = [n \in DOMAIN producerSubs[x] |->
                                  LET s == producerSubs[x][n] IN Batch(s, At(evs, Share(x, d, evs, s)))]
  OBVIOUS
<1>6. DOMAIN batches = DOMAIN subs
  BY <1>0, <1>5
<1>7. ASSUME NEW n \in DOMAIN subs
      PROVE  /\ batches[n] \in Message /\ batches[n].type = "events" /\ batches[n].sub = subs[n]
             /\ Len(batches[n].events) = lot[subs[n]] /\ subs[n] \in Subs /\ Gives(x, subs[n])
  <2>1. PICK s : s = subs[n]
    OBVIOUS
  <2>2. s \in Subs /\ s \in Subscribers(x)
    BY <1>1, <2>1
  <2>3. PICK q \in Seq(Events) : q = At(evs, Share(x, d, evs, s)) /\ Len(q) = lot[s]
    BY <1>2, <1>3, <2>2
  <2>4. batches[n] = [type |-> "events", sub |-> s, count |-> 0, events |-> q]
    BY <1>0, <1>5, <2>1, <2>3 DEF Batch
  <2>5. batches[n] \in Message
    BY <2>2, <2>3, <2>4 DEF Message
  <2> QED
    BY <2>1, <2>2, <2>3, <2>4, <2>5 DEF Gives
<1>8. batches \in Seq(Message)
  <2>1. PICK c \in Nat : DOMAIN subs = 1..c
    OBVIOUS
  <2>2. \A n \in 1..c : batches[n] \in Message
    BY <1>7, <2>1
  <2>3. batches = [n \in 1..c |-> batches[n]]
    BY <1>5, <1>6, <2>1
  <2>4. batches \in [1..c -> Message]
    BY <2>2, <2>3
  <2> QED
    BY <2>1, <2>4
<1>9. PICK S : S = {b \in ToSet(batches) : b.events # <<>>}
  OBVIOUS
<1>10. outbox' = [outbox EXCEPT ![x] = Keep(batches, S)]
  BY <1>5, <1>9 DEF Dispatch
<1>11. /\ Keep(batches, S) \in Seq(Message)
       /\ \A n \in DOMAIN Keep(batches, S) :
             \E k \in DOMAIN batches : batches[k] = Keep(batches, S)[n]
  <2>1. batches \in Seq(Message)
    BY <1>8
  <2> QED
    BY ONLY <2>1, KeptElements
<1>12. /\ outbox' \in [Stages -> Seq(Message)]
       /\ \A y \in Stages \ {x} : outbox'[y] = outbox[y]
       /\ outbox'[x] = Keep(batches, S)
  BY <1>10, <1>11
<1>13. ASSUME NEW n \in DOMAIN outbox'[x]
       PROVE  outbox'[x][n].type = "events" /\ Gives(x, outbox'[x][n].sub)
  <2>1. PICK k \in DOMAIN batches : batches[k] = outbox'[x][n]
    BY <1>11, <1>12
  <2>2. k \in DOMAIN subs
    BY <1>6, <2>1
  <2>3. batches[k].type = "events" /\ Gives(x, batches[k].sub)
    BY <1>7, <2>2
  <2> QED
    BY <2>1, <2>3, Zenon
<1>14. buffer' \in [Stages -> Seq(Events)]
  <2>1. PICK R : R = DOMAIN evs \ UNION {Share(x, d, evs, s) : s \in Subscribers(x)}
    OBVIOUS
  <2>2. R \in SUBSET DOMAIN evs
    BY <2>1
  <2>3. PICK q \in Seq(Events) : q = At(evs, R)
    BY <2>2, AtIs
  <2>4. Leftover(x, d, evs) = q
    BY <2>1, <2>3 DEF Leftover
  <2>5. PICK k \in Seq(Events) : k = buf \o q
    BY ConcatProperties
  <2>6. buffer' = [buffer EXCEPT ![x] = k]
    BY <2>4, <2>5 DEF Dispatch, Kept
  <2> QED
    BY <2>6
<1>15. \A s \in Subs : demand'[s] = IF s \in Subscribers(x) THEN d[s] - lot[s] ELSE d[s]
  BY <1>3 DEF Dispatch, Spent
<1>16. demand' \in [Subs -> Nat]
  <2>1. demand' = [s \in Subs |-> demand'[s]]
    BY DEF Dispatch
  <2>2. ASSUME NEW s \in Subs PROVE demand'[s] \in Nat
    <3>1. CASE s \in Subscribers(x)
      <4>1. PICK a, b : a = d[s] /\ b = lot[s]
        OBVIOUS
      <4>2. a \in Nat /\ b \in Nat /\ b <= a /\ demand'[s] = a - b
        BY <1>4, <1>15, <3>1, <4>1
      <4> QED
        BY <4>2
    <3>2. CASE s \notin Subscribers(x)
      BY <1>4, <1>15, <3>2
    <3> QED
      BY <3>1, <3>2
  <2> QED
    BY <2>1, <2>2
<1>17. ASSUME NEW s \in Subs PROVE demand'[s] + Sum(outbox'[x], Carries(s)) = d[s]
  <2>1. PICK w \in [Message -> Nat] : w = Carries(s)
    <3>1. <<>> \in Seq(Message)
      OBVIOUS
    <3> QED
      BY <3>1, LenOfEvents
  <2>2. \A n \in DOMAIN subs : w[batches[n]] = IF subs[n] = s THEN lot[s] ELSE 0
    BY <1>7, <2>1 DEF Carries, Brings
  <2>3. Sum(outbox'[x], w) = Sum(batches, w)
    <3>1. ASSUME NEW n \in DOMAIN batches, batches[n] \notin S PROVE w[batches[n]] = 0
      <4>1. batches[n] \in ToSet(batches)
        BY DEF ToSet
      <4>2. batches[n].events = <<>>
        BY <1>9, <3>1, <4>1
      <4>3. n \in DOMAIN subs /\ Len(batches[n].events) = 0
        BY <1>6, <4>2
      <4>4. batches[n] \in Message /\ w[batches[n]] \in {0, Len(batches[n].events)}
        BY <1>7, <2>1, <4>3 DEF Carries
      <4> QED
        BY <4>3, <4>4
    <3>2. Sum(Keep(batches, S), w) = Sum(batches, w)
      BY <1>8, <3>1, SumOfKept
    <3> QED
      BY <1>12, <3>2
  <2>4. CASE s \in Subscribers(x)
    <3>1. PICK k \in DOMAIN subs : subs[k] = s
      BY <1>1, <2>4
    <3>2. Alone(batches, k, w)
      <4>1. \A n \in DOMAIN subs \ {k} : subs[n] # s
        BY <1>0, <3>1 DEF Distinct
      <4> QED
        BY <1>6, <2>2, <4>1 DEF Alone
    <3>3. Sum(batches, w) = w[batches[k]]
      <4>1. k \in DOMAIN batches
        BY <1>6
      <4> QED
        BY ONLY <1>8, <3>2, <4>1, w \in [Message -> Nat], SumOfSingle
    <3>4. Sum(batches, w) = lot[s]
      BY <2>2, <3>1, <3>3
    <3>5. PICK a, b : a = d[s] /\ b = lot[s]
      OBVIOUS
    <3>6. demand'[s] = a - b /\ a \in Nat /\ b \in Nat /\ Sum(outbox'[x], w) = b
      BY <1>4, <1>15, <2>3, <2>4, <3>4, <3>5
    <3>7. demand'[s] + Sum(outbox'[x], w) = d[s]
      BY ONLY <3>5, <3>6
    <3> QED
      BY <2>1, <3>7
  <2>5. CASE s \notin Subscribers(x)
    <3>1. \A n \in DOMAIN batches : w[batches[n]] = 0
      BY <1>1, <1>6, <2>2, <2>5
    <3>2. Sum(batches, w) = 0
      BY <1>8, <3>1, SumOfNothing
    <3>3. demand'[s] = d[s] /\ d[s] \in Nat
      BY <1>4, <1>15, <2>5
    <3>4. demand'[s] + Sum(outbox'[x], w) = d[s]
      BY <2>3, <3>2, <3>3
    <3> QED
      BY <2>1, <3>4
  <2> QED
    BY <2>4, <2>5
<1>18. \A s \in Subs : ~Gives(x, s) => demand'[s] = d[s]
  BY <1>15 DEF Gives
<1> QED
  BY <1>12, <1>13, <1>14, <1>16, <1>17, <1>18

-----------------------------------------------------------------------------
(* The invariant *)

(* The message of a stage that handles one, and those it has waiting; those  *)
(* it has still to send; and what the first weigh.                           *)
Busy(x)    == at[x] \in {"handling", "passing", "refilling"}
In(x, m)   == (Busy(x) /\ m = current[x]) \/ \E n \in DOMAIN mailbox[x] : m = mailbox[x][n]
Out(x, m)  == \E n \in DOMAIN outbox[x] : m = outbox[x][n]
Load(x, w) == (IF at[x] = "handling" THEN w[current[x]] ELSE 0) + Sum(mailbox[x], w)

(* A handler sends when it has changed the state of its stage; between the   *)
(* steps of one that passes events on, these are in its hand.                *)
Resting ==
    \A x \in Stages : /\ at[x] = "handling" => outbox[x] = <<>>
                      /\ at[x] \in {"passing", "refilling"} => current[x].type = "events"

(* Messages go between the two stages of their subscription.                 *)
Sender(m)   == IF m.type = "demand" THEN Down[m.sub] ELSE Up[m.sub]
Addressed ==
    \A x \in Stages, m \in Message :
        /\ In(x, m) => m.type = "stop" \/ Receiver(m) = x
        /\ Out(x, m) => m.type \in {"ack", "events", "demand"} /\ Sender(m) = x

(* A producer knows its own subscriptions, each once.                        *)
Subscribed ==
    \A x \in Stages : /\ Distinct(producerSubs[x])
                      /\ \A n \in DOMAIN producerSubs[x] : Up[producerSubs[x][n]] = x

(* A subscription is asked for once, before its producer knows it, and a     *)
(* consumer forgets it before it cancels it.                                 *)
One(s)      == [m \in Message |-> IF m.sub = s /\ m.type = "subscribe" THEN 1 ELSE 0]
Requests(s) == Load(Up[s], One(s))
Known(s)    == s \in Subscribers(Up[s])
Begins ==
    \A s \in Subs : /\ Requests(s) <= 1
                    /\ Requests(s) = 1 => status[s] # "new" /\ ~Known(s)
                    /\ Known(s) => status[s] # "new"
Cancels ==
    \A x \in Stages, m \in Message : In(x, m) /\ m.type = "cancel" => status[m.sub] = "cancelled"

(* Until its producer knows it, nothing has happened to a subscription.      *)
Flows(m) == m.type \in {"ack", "events", "demand"}
Untouched(s) ==
    /\ demand[s] = 0 /\ inFlight[s] = 0
    /\ \A x \in Stages, m \in Message : (In(x, m) \/ Out(x, m)) /\ m.sub = s => ~Flows(m)
Fresh == \A s \in Subs : status[s] \in {"new", "subscribed"} /\ ~Known(s) => Untouched(s)

(* DemandConserved, with the messages where they are.                        *)
Owed(s) == demand[s] + Load(Up[s], Asks(s)) + Sum(outbox[Down[s]], Asks(s))
                     + Load(Down[s], Carries(s)) + Sum(outbox[Up[s]], Carries(s))
Balanced ==
    \A s \in Subs : status[s] = "subscribed" /\ Alive(Up[s]) /\ Alive(Down[s]) => inFlight[s] = Owed(s)

IInv == /\ TypeOK /\ Resting /\ Addressed /\ Subscribed /\ Begins /\ Cancels /\ Fresh /\ Balanced

-----------------------------------------------------------------------------
(* Messages *)

(* The messages of the stages are messages.                                  *)
LEMMA MessagesAre ==
  ASSUME GenStageAssumption
  PROVE  /\ \A t \in {"subscribe", "ack", "cancel", "stop"}, s \in Subs :
               Signal(t, s) \in Message /\ Signal(t, s).type = t /\ Signal(t, s).sub = s
         /\ \A n \in Nat, s \in Subs :
               /\ Demand(s, n) \in Message /\ Demand(s, n).type = "demand"
               /\ Demand(s, n).sub = s /\ Demand(s, n).count = n
         /\ None \in Message /\ None.type = "stop"
<1>1. \A t \in {"subscribe", "ack", "cancel", "stop"}, s \in Subs :
        Signal(t, s) \in Message /\ Signal(t, s).type = t /\ Signal(t, s).sub = s
  BY DEF Signal, Message
<1>2. \A n \in Nat, s \in Subs :
        /\ Demand(s, n) \in Message /\ Demand(s, n).type = "demand"
        /\ Demand(s, n).sub = s /\ Demand(s, n).count = n
  BY DEF Demand, Message
<1>3. PICK s \in Subs : s = CHOOSE t \in Subs : TRUE
  BY DEF GenStageAssumption
<1> QED
  BY <1>1, <1>2, <1>3 DEF None

(* The weights weigh messages.                                               *)
LEMMA Weights ==
  ASSUME NEW s \in Subs
  PROVE  /\ Carries(s) \in [Message -> Nat] /\ Asks(s) \in [Message -> Nat]
         /\ One(s) \in [Message -> Nat]
<1>1. <<>> \in Seq(Message)
  OBVIOUS
<1>2. Carries(s) \in [Message -> Nat]
  BY <1>1, LenOfEvents
<1>3. \A m \in Message : m.count \in Nat
  BY DEF Message
<1> QED
  BY <1>2, <1>3 DEF Asks, One

(* The types of the tasks.                                                   *)
TaskTypes ==
    /\ at \in [Stages -> {"idle", "handling", "flushing", "producing", "passing",
                          "refilling", "stopped"}]
    /\ mailbox \in [Stages -> Seq(Message)]
    /\ \A x \in Stages : Len(mailbox[x]) <= MailboxSize
    /\ current \in [Stages -> Message]

LEMMA LoadIsNat ==
  ASSUME TaskTypes, NEW x \in Stages, NEW w \in [Message -> Nat]
  PROVE  /\ Load(x, w) \in Nat /\ Sum(mailbox[x], w) \in Nat /\ w[current[x]] \in Nat
         /\ at[x] = "handling" => Load(x, w) = w[current[x]] + Sum(mailbox[x], w)
         /\ at[x] # "handling" => Load(x, w) = Sum(mailbox[x], w)
<1>1. mailbox[x] \in Seq(Message) /\ current[x] \in Message
  BY DEF TaskTypes
<1>2. Sum(mailbox[x], w) \in Nat /\ w[current[x]] \in Nat
  BY <1>1, SumIsNat
<1> QED
  BY <1>2 DEF Load

(* What a step may do to the messages of the stages: one that came to y.     *)
Comes(y, m) ==
    /\ TaskTypes'
    /\ \A z \in Stages, k \in Message : In(z, k)' => In(z, k) \/ (z = y /\ k = m)
    /\ \A z \in Stages : Alive(z)' <=> Alive(z)
    /\ \A z \in Stages : at'[z] # at[z] => at'[z] = "handling" /\ outbox[z] = <<>>
    /\ \A z \in Stages : at'[z] \in {"passing", "refilling"} => current'[z] = current[z]

LEMMA DeliverComes ==
  ASSUME GenStageAssumption, TaskTypes, NEW y \in Stages, NEW m \in Message, Deliver(y, m)
  PROVE  /\ Comes(y, m)
         /\ \A z \in Stages : z # y => UNCHANGED <<at[z], mailbox[z], current[z]>>
         /\ \A w \in [Message -> Nat] : Load(y, w)' = Load(y, w) + w[m]
<1> DEFINE places == {"idle", "handling", "flushing", "producing", "passing", "refilling", "stopped"}
<1>1. /\ at \in [Stages -> places] /\ mailbox \in [Stages -> Seq(Message)]
      /\ \A x \in Stages : Len(mailbox[x]) <= MailboxSize
      /\ current \in [Stages -> Message] /\ MailboxSize \in Nat
  BY DEF TaskTypes, GenStageAssumption
<1>2. CASE Parked(y)
  <2>1. /\ at[y] = "idle" /\ mailbox[y] = <<>> /\ outbox[y] = <<>>
        /\ at' = [at EXCEPT ![y] = "handling"] /\ current' = [current EXCEPT ![y] = m]
        /\ mailbox' = mailbox
    BY <1>2 DEF Deliver, Parked, Ready
  <2>2. TaskTypes'
    BY <1>1, <2>1 DEF TaskTypes
  <2>3. /\ at'[y] = "handling" /\ current'[y] = m
        /\ \A z \in Stages : z # y => UNCHANGED <<at[z], mailbox[z], current[z]>>
    BY <1>1, <2>1
  <2>4. ASSUME NEW z \in Stages, NEW k \in Message, In(z, k)'
        PROVE  In(z, k) \/ (z = y /\ k = m)
    BY <2>1, <2>3, <2>4 DEF In, Busy
  <2>5. \A z \in Stages : at'[z] # at[z] => at'[z] = "handling" /\ outbox[z] = <<>>
    BY <2>1, <2>3
  <2>6. \A z \in Stages : at'[z] \in {"passing", "refilling"} => current'[z] = current[z]
    BY <2>3
  <2>7. \A z \in Stages : Alive(z)' <=> Alive(z)
    BY <2>1, <2>3 DEF Alive
  <2>8. ASSUME NEW w \in [Message -> Nat] PROVE Load(y, w)' = Load(y, w) + w[m]
    <3>1. Sum(mailbox[y], w) = 0
      BY <2>1, SumOfNone
    <3>2. w[m] \in Nat
      OBVIOUS
    <3> QED
      BY <2>1, <2>3, <3>1, <3>2 DEF Load
  <2> QED
    BY <2>2, <2>3, <2>4, <2>5, <2>6, <2>7, <2>8 DEF Comes
<1>3. CASE ~Parked(y)
  <2>1. /\ mailbox' = [mailbox EXCEPT ![y] = Append(mailbox[y], m)]
        /\ at' = at /\ current' = current /\ Len(mailbox[y]) < MailboxSize
    BY <1>3 DEF Deliver, Room
  <2>2. PICK q : q = mailbox[y]
    OBVIOUS
  <2>3. PICK r : r = Append(q, m) /\ Longer(r, q, m, Message)
    BY <1>1, <2>2 DEF Longer
  <2>4. /\ q \in Seq(Message) /\ r \in Seq(Message) /\ Len(q) \in Nat /\ Len(r) = Len(q) + 1
        /\ r[Len(q) + 1] = m
        /\ \A n \in DOMAIN q : r[n] = q[n]
        /\ \A n \in DOMAIN r : n \in DOMAIN q \/ n = Len(q) + 1
    BY <2>3, LongerIs
  <2>5. /\ mailbox'[y] = r
        /\ \A z \in Stages : z # y => UNCHANGED <<at[z], mailbox[z], current[z]>>
    BY <1>1, <2>1, <2>2, <2>3
  <2>6. Len(r) <= MailboxSize
    BY <1>1, <2>1, <2>2, <2>4
  <2>7. TaskTypes'
    <3>1. mailbox' \in [Stages -> Seq(Message)]
      BY <1>1, <2>1, <2>2, <2>3, <2>4
    <3>2. \A z \in Stages : Len(mailbox'[z]) <= MailboxSize
      BY <1>1, <2>5, <2>6
    <3> QED
      BY <1>1, <2>1, <3>1, <3>2 DEF TaskTypes
  <2>8. ASSUME NEW z \in Stages, NEW k \in Message, In(z, k)'
        PROVE  In(z, k) \/ (z = y /\ k = m)
    <3>1. CASE z = y
      BY <2>1, <2>2, <2>4, <2>5, <2>8, <3>1 DEF In, Busy
    <3>2. CASE z # y
      BY <2>5, <2>8, <3>2 DEF In, Busy
    <3> QED
      BY <3>1, <3>2
  <2>9. ASSUME NEW w \in [Message -> Nat] PROVE Load(y, w)' = Load(y, w) + w[m]
    <3>1. Sum(r, w) = Sum(q, w) + w[m] /\ Sum(q, w) \in Nat /\ w[m] \in Nat
      BY <2>3, SumAppend
    <3>2. w[current[y]] \in Nat
      BY <1>1
    <3>3. Load(y, w) = (IF at[y] = "handling" THEN w[current[y]] ELSE 0) + Sum(q, w)
      BY <2>2 DEF Load
    <3>4. Load(y, w)' = (IF at[y] = "handling" THEN w[current[y]] ELSE 0) + Sum(r, w)
      BY <2>1, <2>5 DEF Load
    <3>5. PICK a : a = IF at[y] = "handling" THEN w[current[y]] ELSE 0
      OBVIOUS
    <3>6. a \in Nat
      BY <3>2, <3>5
    <3> QED
      BY <3>1, <3>3, <3>4, <3>5, <3>6
  <2>10. \A z \in Stages : Alive(z)' <=> Alive(z)
    BY <2>1 DEF Alive
  <2> QED
    BY <2>1, <2>5, <2>7, <2>8, <2>9, <2>10 DEF Comes
<1> QED
  BY <1>2, <1>3

(* A step that changes the task of one stage: no message comes, and the one  *)
(* in hand may be done.                                                      *)
Turns(x) ==
    /\ TaskTypes'
    /\ \A z \in Stages, k \in Message : In(z, k)' => In(z, k)
    /\ \A z \in Stages : z # x => UNCHANGED <<at[z], mailbox[z], current[z]>>

(* A stage takes its next message.                                          *)
LEMMA ReceiveTurns ==
  ASSUME TaskTypes, NEW x \in Stages, Receive(x)
  PROVE  /\ Turns(x) /\ at'[x] = "handling" /\ outbox[x] = <<>> /\ at[x] = "idle"
         /\ \A w \in [Message -> Nat] : Load(x, w)' = Load(x, w)
<1>1. PICK q \in Seq(Message) : q = mailbox[x] /\ q # <<>>
  BY DEF TaskTypes, Receive
<1>2. PICK h, t : h = Head(q) /\ t = Tail(q)
  OBVIOUS
<1>3. /\ h \in Message /\ t \in Seq(Message) /\ Len(t) <= Len(q) /\ Len(q) \in Nat /\ Len(t) \in Nat
      /\ h = q[1] /\ 1 \in DOMAIN q
      /\ \A n \in DOMAIN t : n + 1 \in DOMAIN q /\ t[n] = q[n + 1]
  BY <1>1, <1>2, HeadTailProperties
<1>4. /\ at[x] = "idle" /\ at' = [at EXCEPT ![x] = "handling"]
      /\ current' = [current EXCEPT ![x] = h] /\ mailbox' = [mailbox EXCEPT ![x] = t]
      /\ outbox[x] = <<>>
  BY <1>1, <1>2 DEF Receive, Ready
<1>5. /\ at'[x] = "handling" /\ current'[x] = h /\ mailbox'[x] = t
      /\ \A z \in Stages : z # x => UNCHANGED <<at[z], mailbox[z], current[z]>>
  BY <1>4 DEF TaskTypes
<1>6. TaskTypes'
  <2>1. mailbox' \in [Stages -> Seq(Message)] /\ current' \in [Stages -> Message]
    BY <1>3, <1>4 DEF TaskTypes
  <2>2. at' \in [Stages -> {"idle", "handling", "flushing", "producing", "passing",
                            "refilling", "stopped"}]
    BY <1>4 DEF TaskTypes
  <2>3. \A z \in Stages : Len(mailbox'[z]) <= MailboxSize
    <3>1. Len(q) <= MailboxSize
      BY <1>1 DEF TaskTypes
    <3>2. Len(t) <= MailboxSize
      BY <1>3, <3>1, GenStageAssumption DEF GenStageAssumption
    <3> QED
      BY <1>5, <3>2 DEF TaskTypes
  <2> QED
    BY <2>1, <2>2, <2>3 DEF TaskTypes
<1>7. ASSUME NEW z \in Stages, NEW k \in Message, In(z, k)' PROVE In(z, k)
  <2>1. CASE z = x
    <3>1. k = h \/ \E n \in DOMAIN t : k = t[n]
      BY <1>5, <1>7, <2>1 DEF In
    <3>2. \E n \in DOMAIN q : k = q[n]
      BY <1>3, <3>1
    <3> QED
      BY <1>1, <2>1, <3>2 DEF In
  <2>2. CASE z # x
    BY <1>5, <1>7, <2>2 DEF In, Busy
  <2> QED
    BY <2>1, <2>2
<1>8. ASSUME NEW w \in [Message -> Nat] PROVE Load(x, w)' = Load(x, w)
  <2>1. Sum(q, w) = w[h] + Sum(t, w)
    BY <1>1, <1>2, SumOfFirst
  <2>2. w[h] \in Nat /\ Sum(t, w) \in Nat
    BY <1>3, SumIsNat
  <2> QED
    BY <1>1, <1>4, <1>5, <2>1, <2>2 DEF Load
<1> QED
  BY <1>4, <1>5, <1>6, <1>7, <1>8 DEF Turns

(* A handler goes on, or ends.                                               *)
LEMMA ContinueTurns ==
  ASSUME GenStageAssumption, TaskTypes, NEW x \in Stages, NEW place, Continue(x, place),
         place \in {"idle", "flushing", "producing", "passing", "refilling"},
         place \in {"passing", "refilling"} => Busy(x)
  PROVE  /\ Turns(x) /\ at'[x] = place
         /\ place # "idle" => current'[x] = current[x]
         /\ at[x] # "handling" => \A w \in [Message -> Nat] : Load(x, w)' = Load(x, w)
         /\ at[x] = "handling" => \A w \in [Message -> Nat] : Load(x, w) = Load(x, w)' + w[current[x]]
<1>1. /\ at' = [at EXCEPT ![x] = place] /\ mailbox' = mailbox
      /\ current' \in {current, [current EXCEPT ![x] = None]}
      /\ place # "idle" => current' = current
  BY DEF Continue
<1>2. /\ at'[x] = place
      /\ \A z \in Stages : z # x => UNCHANGED <<at[z], mailbox[z], current[z]>>
  BY <1>1 DEF TaskTypes
<1>3. TaskTypes'
  <2>1. None \in Message
    BY MessagesAre
  <2>2. current' \in [Stages -> Message]
    BY <1>1, <2>1 DEF TaskTypes
  <2>3. at' \in [Stages -> {"idle", "handling", "flushing", "producing", "passing",
                            "refilling", "stopped"}]
    BY <1>1 DEF TaskTypes
  <2> QED
    BY <1>1, <2>2, <2>3 DEF TaskTypes
<1>4. ASSUME NEW z \in Stages, NEW k \in Message, In(z, k)' PROVE In(z, k)
  <2>1. CASE z = x
    BY <1>1, <1>2, <1>4, <2>1 DEF In, Busy
  <2>2. CASE z # x
    BY <1>2, <1>4, <2>2 DEF In, Busy
  <2> QED
    BY <2>1, <2>2
<1>5. ASSUME NEW w \in [Message -> Nat]
      PROVE  /\ Load(x, w)' = Sum(mailbox[x], w) /\ Sum(mailbox[x], w) \in Nat
             /\ w[current[x]] \in Nat
  <2>1. Sum(mailbox[x], w) \in Nat /\ w[current[x]] \in Nat
    BY LoadIsNat
  <2>2. Load(x, w)' = 0 + Sum(mailbox[x], w)
    BY <1>1, <1>2 DEF Load
  <2> QED
    BY <2>1, <2>2
<1>6. at[x] # "handling" => \A w \in [Message -> Nat] : Load(x, w)' = Load(x, w)
  BY <1>5, LoadIsNat
<1>7. at[x] = "handling" => \A w \in [Message -> Nat] : Load(x, w) = Load(x, w)' + w[current[x]]
  <2>1. ASSUME at[x] = "handling", NEW w \in [Message -> Nat]
        PROVE  Load(x, w) = Load(x, w)' + w[current[x]]
    <3>1. Load(x, w) = w[current[x]] + Sum(mailbox[x], w)
      BY <2>1, LoadIsNat
    <3> QED
      BY <1>5, <3>1
  <2> QED
    BY <2>1
<1> QED
  BY <1>1, <1>2, <1>3, <1>4, <1>6, <1>7 DEF Turns

(* A stage ends with all its messages.                                       *)
LEMMA LeavesTurns ==
  ASSUME GenStageAssumption, TaskTypes, NEW x \in Stages, Leaves(x)
  PROVE  Turns(x) /\ at'[x] = "stopped" /\ \A w \in [Message -> Nat] : Load(x, w)' = 0
<1>1. /\ at' = [at EXCEPT ![x] = "stopped"] /\ mailbox' = [mailbox EXCEPT ![x] = <<>>]
      /\ current' = [current EXCEPT ![x] = None]
  BY DEF Leaves
<1>2. /\ at'[x] = "stopped" /\ mailbox'[x] = <<>>
      /\ \A z \in Stages : z # x => UNCHANGED <<at[z], mailbox[z], current[z]>>
  BY <1>1 DEF TaskTypes
<1>3. TaskTypes'
  <2>1. None \in Message /\ <<>> \in Seq(Message) /\ Len(<<>>) = 0 /\ MailboxSize \in Nat
    BY MessagesAre DEF GenStageAssumption
  <2>2. ASSUME NEW z \in Stages PROVE Len(mailbox'[z]) <= MailboxSize
    <3>1. CASE z = x
      <4>1. PICK e : e = mailbox'[x]
        OBVIOUS
      <4>2. e = <<>> /\ Len(e) = 0
        BY <1>2, <2>1, <4>1
      <4> QED
        BY <2>1, <3>1, <4>1, <4>2
    <3>2. CASE z # x
      BY <1>2, <3>2 DEF TaskTypes
    <3> QED
      BY <3>1, <3>2
  <2> QED
    BY <1>1, <2>1, <2>2 DEF TaskTypes
<1>4. ASSUME NEW z \in Stages, NEW k \in Message, In(z, k)' PROVE In(z, k)
  <2>1. CASE z = x
    BY <1>2, <1>4, <2>1 DEF In, Busy
  <2>2. CASE z # x
    BY <1>2, <1>4, <2>2 DEF In, Busy
  <2> QED
    BY <2>1, <2>2
<1>5. ASSUME NEW w \in [Message -> Nat] PROVE Load(x, w)' = 0
  <2>1. Sum(<<>>, w) = 0
    BY SumOfNone
  <2> QED
    BY <1>2, <2>1 DEF Load
<1> QED
  BY <1>2, <1>3, <1>4, <1>5 DEF Turns

-----------------------------------------------------------------------------
(* The steps *)

(* What the other variables are.                                             *)
StockTypes ==
    /\ kind \in Kinds
    /\ outbox \in [Stages -> Seq(Message)] /\ producerSubs \in [Stages -> Seq(Subs)]
    /\ demand \in [Subs -> Nat] /\ inFlight \in [Subs -> Nat]
    /\ buffer \in [Stages -> Seq(Events)]
    /\ status \in [Subs -> {"new", "subscribed", "cancelling", "cancelled"}]
    /\ made \in 0..MaxEvents /\ got \in [Subs -> Seq(Events)]

LEMMA Types ==
  /\ TypeOK <=> TaskTypes /\ StockTypes
  /\ TypeOK' <=> TaskTypes' /\ StockTypes'
<1>1. TypeOK <=> TaskTypes /\ StockTypes
  BY DEF TypeOK, TaskTypes, StockTypes
<1>2. TypeOK' <=> TaskTypes' /\ StockTypes'
  BY DEF TypeOK, TaskTypes, StockTypes
<1> QED
  BY <1>1, <1>2

(* A message that comes to a stage was sent to it, or is one that users      *)
(* send; one that a handler prepares goes to the other end of a              *)
(* subscription that its producer knows, or that has ended.                  *)
Arrives(z, k) ==
    \/ Receiver(k) = z /\ \E y \in Stages : Out(y, k)
    \/ k.type = "subscribe" /\ Receiver(k) = z
    \/ k.type = "cancel" /\ Receiver(k) = z /\ status'[k.sub] = "cancelled"
    \/ k.type = "stop"
Prepares(z, k) ==
    /\ Flows(k) /\ Sender(k) = z
    /\ Known(k.sub)' \/ status'[k.sub] \notin {"new", "subscribed"}
Came == \A z \in Stages, k \in Message : In(z, k)' => In(z, k) \/ Arrives(z, k)
Went == \A z \in Stages, k \in Message : Out(z, k)' => Out(z, k) \/ Prepares(z, k)
Onward ==
    \A s \in Subs : /\ status[s] # "new" => status'[s] # "new"
                    /\ status[s] = "cancelled" => status'[s] = "cancelled"
                    /\ status'[s] \in {"new", "subscribed"} => status[s] \in {"new", "subscribed"}
Stays ==
    \A s \in Subs : status'[s] \in {"new", "subscribed"} /\ ~Known(s)'
                       => ~Known(s) /\ demand'[s] = demand[s] /\ inFlight'[s] = inFlight[s]

(* What follows for the messages.                                            *)
LEMMA Together ==
  ASSUME IInv, TypeOK', Resting', Subscribed', Begins', Balanced', Came, Went, Onward, Stays
  PROVE  IInv'
<1>1. Addressed'
  <2>1. ASSUME NEW x \in Stages, NEW m \in Message, In(x, m)'
        PROVE  m.type = "stop" \/ Receiver(m) = x
    <3>1. In(x, m) \/ Arrives(x, m)
      BY <2>1 DEF Came
    <3> QED
      BY <3>1 DEF Arrives, IInv, Addressed
  <2>2. ASSUME NEW x \in Stages, NEW m \in Message, Out(x, m)'
        PROVE  m.type \in {"ack", "events", "demand"} /\ Sender(m) = x
    <3>1. Out(x, m) \/ Prepares(x, m)
      BY <2>2 DEF Went
    <3> QED
      BY <3>1 DEF Prepares, Flows, IInv, Addressed
  <2>3. \A x \in Stages, m \in Message :
          /\ In(x, m)' => m.type = "stop" \/ Receiver(m)' = x
          /\ Out(x, m)' => m.type \in {"ack", "events", "demand"} /\ Sender(m)' = x
    BY <2>1, <2>2 DEF Receiver, Sender
  <2> QED
    BY <2>3 DEF Addressed
<1>2. ASSUME NEW m \in Message PROVE m.sub \in Subs
  BY DEF Message
<1>3. Cancels'
  <2>1. ASSUME NEW x \in Stages, NEW m \in Message, In(x, m)', m.type = "cancel"
        PROVE  status'[m.sub] = "cancelled"
    <3>1. In(x, m) \/ Arrives(x, m)
      BY <2>1 DEF Came
    <3>2. CASE In(x, m)
      BY <1>2, <2>1, <3>2 DEF IInv, Cancels, Onward
    <3>3. CASE Arrives(x, m)
      <4>1. ~ \E y \in Stages : Out(y, m)
        BY <2>1 DEF IInv, Addressed
      <4> QED
        BY <2>1, <3>3, <4>1 DEF Arrives
    <3> QED
      BY <3>1, <3>2, <3>3
  <2> QED
    BY <2>1 DEF Cancels
<1>4. ASSUME NEW s \in Subs, status'[s] \in {"new", "subscribed"}, ~Known(s)' PROVE Untouched(s)'
  <2>1. /\ demand'[s] = demand[s] /\ inFlight'[s] = inFlight[s]
        /\ status[s] \in {"new", "subscribed"} /\ ~Known(s)
    BY <1>4 DEF Stays, Onward
  <2>2. Untouched(s)
    BY <2>1 DEF IInv, Fresh
  <2>3. ASSUME NEW x \in Stages, NEW m \in Message, m.sub = s, In(x, m)' PROVE ~Flows(m)
    <3>1. In(x, m) \/ Arrives(x, m)
      BY <2>3 DEF Came
    <3>2. CASE In(x, m)
      BY <2>2, <2>3, <3>2 DEF Untouched
    <3>3. CASE \E y \in Stages : Out(y, m)
      BY <2>2, <2>3, <3>3 DEF Untouched
    <3>4. CASE m.type \in {"subscribe", "cancel", "stop"}
      BY <3>4 DEF Flows
    <3> QED
      BY <3>1, <3>2, <3>3, <3>4 DEF Arrives
  <2>4. ASSUME NEW x \in Stages, NEW m \in Message, m.sub = s, Out(x, m)' PROVE ~Flows(m)
    <3>1. Out(x, m) \/ Prepares(x, m)
      BY <2>4 DEF Went
    <3>2. ~Prepares(x, m)
      BY <1>4, <2>4 DEF Prepares
    <3> QED
      BY <2>2, <2>4, <3>1, <3>2 DEF Untouched
  <2>5. demand'[s] = 0 /\ inFlight'[s] = 0
    BY <2>1, <2>2 DEF Untouched
  <2>6. \A x \in Stages, m \in Message : (In(x, m)' \/ Out(x, m)') /\ m.sub = s => ~Flows(m)'
    BY <2>3, <2>4 DEF Flows
  <2> QED
    BY <2>5, <2>6 DEF Untouched
<1>5. Fresh'
  BY <1>4 DEF Fresh
<1> QED
  BY <1>1, <1>3, <1>5 DEF IInv

(* Weighing the messages.                                                    *)
LEMMA AllNat ==
  ASSUME TypeOK, NEW x \in Stages, NEW w \in [Message -> Nat]
  PROVE  Load(x, w) \in Nat /\ Sum(outbox[x], w) \in Nat
<1>1. TaskTypes /\ outbox[x] \in Seq(Message)
  BY Types DEF StockTypes
<1> QED
  BY <1>1, LoadIsNat, SumIsNat

LEMMA AllNatNext ==
  ASSUME TypeOK', NEW x \in Stages, NEW w \in [Message -> Nat]
  PROVE  Load(x, w)' \in Nat /\ Sum(outbox'[x], w) \in Nat
<1>1. /\ mailbox'[x] \in Seq(Message) /\ current'[x] \in Message /\ outbox'[x] \in Seq(Message)
  BY DEF TypeOK
<1>2. Sum(mailbox'[x], w) \in Nat /\ Sum(outbox'[x], w) \in Nat /\ w[current'[x]] \in Nat
  BY <1>1, SumIsNat
<1> QED
  BY <1>2 DEF Load

LEMMA Weigh ==
  ASSUME NEW s \in Subs, NEW m \in Message
  PROVE  /\ Asks(s)[m] = IF m.sub = s /\ m.type = "demand" THEN m.count ELSE 0
         /\ Carries(s)[m] = IF m.sub = s /\ m.type = "events" THEN Len(m.events) ELSE 0
         /\ One(s)[m] = IF m.sub = s /\ m.type = "subscribe" THEN 1 ELSE 0
         /\ m.sub \in Subs
<1>1. m.sub \in Subs
  BY DEF Message
<1> QED
  BY <1>1 DEF Asks, Carries, Brings, One

(* What a step does to what the messages of the stages weigh.                *)
Same == \A z \in Stages, w \in [Message -> Nat] : Load(z, w)' = Load(z, w)
Gets(y, m) == \A z \in Stages, w \in [Message -> Nat] :
                  /\ z = y => Load(z, w)' = Load(z, w) + w[m]
                  /\ z # y => Load(z, w)' = Load(z, w)
Uses(x, m) == \A z \in Stages, w \in [Message -> Nat] :
                  /\ z = x => Load(z, w) = Load(z, w)' + w[m]
                  /\ z # x => Load(z, w)' = Load(z, w)

LEMMA DeliverGets ==
  ASSUME GenStageAssumption, TaskTypes, NEW y \in Stages, NEW m \in Message, Deliver(y, m)
  PROVE  Gets(y, m)
<1>1. /\ \A z \in Stages : z # y => UNCHANGED <<at[z], mailbox[z], current[z]>>
      /\ \A w \in [Message -> Nat] : Load(y, w)' = Load(y, w) + w[m]
  BY DeliverComes
<1>2. \A z \in Stages, w \in [Message -> Nat] : z # y => Load(z, w)' = Load(z, w)
  BY <1>1 DEF Load
<1> QED
  BY <1>1, <1>2 DEF Gets

LEMMA ReceiveSame ==
  ASSUME GenStageAssumption, TaskTypes, NEW x \in Stages, Receive(x)
  PROVE  Same
<1>1. /\ \A z \in Stages : z # x => UNCHANGED <<at[z], mailbox[z], current[z]>>
      /\ \A w \in [Message -> Nat] : Load(x, w)' = Load(x, w)
  BY ReceiveTurns DEF Turns
<1>2. \A z \in Stages, w \in [Message -> Nat] : z # x => Load(z, w)' = Load(z, w)
  BY <1>1 DEF Load
<1> QED
  BY <1>1, <1>2 DEF Same

LEMMA ContinueUses ==
  ASSUME GenStageAssumption, TaskTypes, NEW x \in Stages, NEW place, Continue(x, place),
         place \in {"idle", "flushing", "producing", "passing", "refilling"},
         place \in {"passing", "refilling"} => Busy(x)
  PROVE  /\ at[x] = "handling" => Uses(x, current[x])
         /\ at[x] # "handling" => Same
<1>1. /\ \A z \in Stages : z # x => UNCHANGED <<at[z], mailbox[z], current[z]>>
      /\ at[x] # "handling" => \A w \in [Message -> Nat] : Load(x, w)' = Load(x, w)
      /\ at[x] = "handling" => \A w \in [Message -> Nat] : Load(x, w) = Load(x, w)' + w[current[x]]
  BY ContinueTurns DEF Turns
<1>2. \A z \in Stages, w \in [Message -> Nat] : z # x => Load(z, w)' = Load(z, w)
  BY <1>1 DEF Load
<1> QED
  BY <1>1, <1>2 DEF Same, Uses

(* The next message of a handler is sent, or lost.                           *)
LEMMA OutboxShrinks ==
  ASSUME StockTypes, NEW x \in Stages, outbox[x] # <<>>, outbox' = [outbox EXCEPT ![x] = Tail(@)]
  PROVE  /\ Head(outbox[x]) \in Message /\ Out(x, Head(outbox[x]))
         /\ outbox' \in [Stages -> Seq(Message)]
         /\ \A z \in Stages : z # x => outbox'[z] = outbox[z]
         /\ \A z \in Stages, k \in Message : Out(z, k)' => Out(z, k)
         /\ \A w \in [Message -> Nat] : Sum(outbox[x], w) = w[Head(outbox[x])] + Sum(outbox'[x], w)
<1>1. PICK q \in Seq(Message) : q = outbox[x] /\ q # <<>>
  BY DEF StockTypes
<1>2. PICK h, t : h = Head(q) /\ t = Tail(q)
  OBVIOUS
<1>3. /\ h \in Message /\ t \in Seq(Message) /\ h = q[1] /\ 1 \in DOMAIN q
      /\ \A n \in DOMAIN t : n + 1 \in DOMAIN q /\ t[n] = q[n + 1]
  BY <1>1, <1>2, HeadTailProperties
<1>4. outbox' = [outbox EXCEPT ![x] = t] /\ outbox \in [Stages -> Seq(Message)]
  BY <1>1, <1>2 DEF StockTypes
<1>5. /\ outbox' \in [Stages -> Seq(Message)] /\ outbox'[x] = t
      /\ \A z \in Stages : z # x => outbox'[z] = outbox[z]
  BY <1>3, <1>4
<1>6. Out(x, h)
  BY <1>1, <1>3 DEF Out
<1>7. ASSUME NEW z \in Stages, NEW k \in Message, Out(z, k)' PROVE Out(z, k)
  <2>1. CASE z = x
    <3>1. \E n \in DOMAIN t : k = t[n]
      BY <1>5, <1>7, <2>1 DEF Out
    <3>2. \E n \in DOMAIN q : k = q[n]
      BY <1>3, <3>1
    <3> QED
      BY <1>1, <2>1, <3>2 DEF Out
  <2>2. CASE z # x
    BY <1>5, <1>7, <2>2 DEF Out
  <2> QED
    BY <2>1, <2>2
<1>8. \A w \in [Message -> Nat] : Sum(q, w) = w[h] + Sum(t, w)
  BY <1>1, <1>2, SumOfFirst
<1> QED
  BY <1>1, <1>2, <1>3, <1>5, <1>6, <1>7, <1>8

(* A handler prepares one message.                                           *)
LEMMA OutboxOne ==
  ASSUME StockTypes, NEW x \in Stages, outbox[x] = <<>>, NEW m \in Message, Sends(x, m)
  PROVE  /\ outbox' \in [Stages -> Seq(Message)] /\ outbox'[x] # <<>>
         /\ \A z \in Stages : z # x => outbox'[z] = outbox[z]
         /\ \A z \in Stages, k \in Message : Out(z, k)' => Out(z, k) \/ (z = x /\ k = m)
         /\ \A w \in [Message -> Nat] : Sum(outbox'[x], w) = w[m] /\ Sum(outbox[x], w) = 0
<1>1. PICK q : q = <<m>>
  OBVIOUS
<1>2. q \in Seq(Message) /\ q # <<>> /\ \A n \in DOMAIN q : q[n] = m
  BY <1>1
<1>3. outbox' = [outbox EXCEPT ![x] = q] /\ outbox \in [Stages -> Seq(Message)]
  BY <1>1 DEF StockTypes, Sends
<1>4. /\ outbox' \in [Stages -> Seq(Message)] /\ outbox'[x] = q
      /\ \A z \in Stages : z # x => outbox'[z] = outbox[z]
  BY <1>2, <1>3
<1>5. ASSUME NEW z \in Stages, NEW k \in Message, Out(z, k)' PROVE Out(z, k) \/ (z = x /\ k = m)
  <2>1. CASE z = x
    BY <1>2, <1>4, <1>5, <2>1 DEF Out
  <2>2. CASE z # x
    BY <1>4, <1>5, <2>2 DEF Out
  <2> QED
    BY <2>1, <2>2
<1>6. \A w \in [Message -> Nat] : Sum(q, w) = w[m]
  BY <1>1, SumOfOne
<1>7. \A w \in [Message -> Nat] : Sum(outbox[x], w) = 0
  BY SumOfNone
<1> QED
  BY <1>2, <1>4, <1>5, <1>6, <1>7

(* Who a producer knows does not change, nor does anyone ask again.          *)
LEMMA NothingBegins ==
  ASSUME GenStageAssumption, IInv, TypeOK', Onward, UNCHANGED producerSubs,
         \A s \in Subs : Requests(s)' <= Requests(s)
  PROVE  Subscribed' /\ Begins' /\ \A s \in Subs : Known(s)' <=> Known(s)
<1>1. \A s \in Subs : Known(s)' <=> Known(s)
  BY DEF Known, Subscribers
<1>2. Subscribed'
  BY DEF IInv, Subscribed
<1>3. ASSUME NEW s \in Subs
      PROVE  /\ Requests(s)' <= 1
             /\ Requests(s)' = 1 => status'[s] # "new" /\ ~Known(s)'
             /\ Known(s)' => status'[s] # "new"
  <2>1. Up[s] \in Stages /\ One(s) \in [Message -> Nat]
    BY Weights DEF GenStageAssumption
  <2>2. Requests(s) \in Nat /\ Requests(s)' \in Nat
    <3>1. TypeOK
      BY DEF IInv
    <3>2. Requests(s) \in Nat
      BY <2>1, <3>1, AllNat DEF Requests
    <3>3. Requests(s)' \in Nat
      BY <2>1, AllNatNext DEF Requests, One
    <3> QED
      BY <3>2, <3>3
  <2>3. /\ Requests(s) <= 1 /\ (Requests(s) = 1 => status[s] # "new" /\ ~Known(s))
        /\ (Known(s) => status[s] # "new")
    BY DEF IInv, Begins
  <2>4. Requests(s)' <= Requests(s)
    OBVIOUS
  <2>5. status[s] # "new" => status'[s] # "new"
    BY DEF Onward
  <2>6. Requests(s)' <= 1 /\ (Requests(s)' = 1 => Requests(s) = 1)
    BY <2>2, <2>3, <2>4
  <2> QED
    BY <1>1, <2>3, <2>5, <2>6
<1> QED
  BY <1>1, <1>2, <1>3 DEF Begins

-----------------------------------------------------------------------------
(* Sending and receiving *)

(* A message moves from one stage to the other.                              *)
LEMMA SendNextKeeps ==
  ASSUME GenStageAssumption, IInv, NEW x \in Stages, SendNext(x)
  PROVE  IInv'
<1>1. PICK m, y : m = Head(outbox[x]) /\ y = Receiver(m)
  OBVIOUS
<1>2. TypeOK /\ TaskTypes /\ StockTypes
  BY Types DEF IInv
<1>3. /\ outbox[x] # <<>> /\ outbox' = [outbox EXCEPT ![x] = Tail(@)] /\ Deliver(y, m)
      /\ UNCHANGED <<kind, producerSubs, demand, buffer, status, inFlight, made, got>>
  BY <1>1 DEF SendNext, upstream, history
<1>4. /\ m \in Message /\ Out(x, m) /\ outbox' \in [Stages -> Seq(Message)]
      /\ \A z \in Stages : z # x => outbox'[z] = outbox[z]
      /\ \A z \in Stages, k \in Message : Out(z, k)' => Out(z, k)
      /\ \A w \in [Message -> Nat] : Sum(outbox[x], w) = w[m] + Sum(outbox'[x], w)
  BY <1>1, <1>2, <1>3, OutboxShrinks
<1>5. m.type \in {"ack", "events", "demand"} /\ Sender(m) = x /\ m.sub \in Subs /\ y \in Stages
  <2>1. m.sub \in Subs
    BY <1>4 DEF Message
  <2>2. y \in Stages
    BY <1>1, <2>1 DEF Receiver, GenStageAssumption
  <2> QED
    BY <1>4, <2>1, <2>2 DEF IInv, Addressed
<1>6. Comes(y, m) /\ Gets(y, m)
  BY <1>2, <1>3, <1>4, <1>5, DeliverComes, DeliverGets
<1>7. TypeOK'
  <2>1. StockTypes'
    BY <1>2, <1>3, <1>4 DEF StockTypes
  <2> QED
    BY <1>6, <2>1, Types DEF Comes
<1>8. Resting'
  <2>1. ASSUME NEW z \in Stages
        PROVE  /\ at'[z] = "handling" => outbox'[z] = <<>>
               /\ at'[z] \in {"passing", "refilling"} => current'[z].type = "events"
    <3>1. /\ at[z] = "handling" => outbox[z] = <<>>
          /\ at[z] \in {"passing", "refilling"} => current[z].type = "events"
      BY DEF IInv, Resting
    <3>2. /\ at'[z] # at[z] => at'[z] = "handling" /\ outbox[z] = <<>>
          /\ at'[z] \in {"passing", "refilling"} => current'[z] = current[z]
      BY <1>6 DEF Comes
    <3>3. outbox[z] = <<>> => outbox'[z] = <<>>
      BY <1>3, <1>4
    <3> QED
      BY <3>1, <3>2, <3>3
  <2> QED
    BY <2>1 DEF Resting
<1>9. Came
  BY <1>1, <1>4, <1>6 DEF Comes, Came, Arrives
<1>10. Went /\ Onward
  BY <1>3, <1>4 DEF Went, Onward
<1>11. ASSUME NEW w \in [Message -> Nat], w[m] = 0, NEW z \in Stages
       PROVE  Load(z, w)' = Load(z, w) /\ Sum(outbox'[z], w) = Sum(outbox[z], w)
  <2>1. /\ Load(z, w) \in Nat /\ Sum(outbox[z], w) \in Nat /\ Sum(outbox'[z], w) \in Nat
    BY <1>2, <1>7, AllNat, AllNatNext
  <2>2. Load(z, w)' = Load(z, w)
    BY <1>6, <1>11, <2>1 DEF Gets
  <2>3. Sum(outbox'[z], w) = Sum(outbox[z], w)
    <3>1. CASE z = x
      <4>1. Sum(outbox[x], w) = 0 + Sum(outbox'[x], w)
        BY <1>4, <1>11
      <4> QED
        BY <2>1, <3>1, <4>1
    <3>2. CASE z # x
      BY <1>4, <3>2
    <3> QED
      BY <3>1, <3>2
  <2> QED
    BY <2>2, <2>3
<1>12. Subscribed' /\ Begins' /\ Stays
  <2>1. ASSUME NEW s \in Subs PROVE Requests(s)' <= Requests(s)
    <3>1. Up[s] \in Stages /\ One(s) \in [Message -> Nat] /\ One(s)[m] = 0
      BY <1>4, <1>5, Weights, Weigh DEF GenStageAssumption
    <3>2. Load(Up[s], One(s))' = Load(Up[s], One(s)) /\ Load(Up[s], One(s)) \in Nat
      BY <1>2, <1>11, <3>1, AllNat
    <3>3. Requests(s)' = Requests(s) /\ Requests(s) \in Nat
      BY <3>2 DEF Requests, One
    <3> QED
      BY <3>3
  <2>2. Subscribed' /\ Begins' /\ \A s \in Subs : Known(s)' <=> Known(s)
    BY <1>3, <1>7, <1>10, <2>1, NothingBegins
  <2> QED
    BY <1>3, <2>2 DEF Stays
<1>13. Balanced'
  <2>1. ASSUME NEW s \in Subs, status'[s] = "subscribed", Alive(Up[s])', Alive(Down[s])'
        PROVE  inFlight'[s] = Owed(s)'
    <3>1. /\ Up[s] \in Stages /\ Down[s] \in Stages
          /\ Asks(s) \in [Message -> Nat] /\ Carries(s) \in [Message -> Nat]
      BY Weights DEF GenStageAssumption
    <3>2. inFlight[s] = Owed(s)
      BY <1>3, <1>6, <2>1, <3>1 DEF Comes, IInv, Balanced
    <3>3. PICK a, c : a = Asks(s) /\ c = Carries(s)
      OBVIOUS
    <3>4. /\ Load(Up[s], a) \in Nat /\ Sum(outbox[Down[s]], a) \in Nat
          /\ Load(Down[s], c) \in Nat /\ Sum(outbox[Up[s]], c) \in Nat /\ demand[s] \in Nat
          /\ Sum(outbox'[Down[s]], a) \in Nat /\ Sum(outbox'[Up[s]], c) \in Nat
          /\ a[m] \in Nat /\ c[m] \in Nat
      <4>1. demand[s] \in Nat
        BY <1>2 DEF StockTypes
      <4> QED
        BY <1>2, <1>4, <1>7, <3>1, <3>3, <4>1, AllNat, AllNatNext
    <3>5. /\ Load(Up[s], a)' + Sum(outbox'[Down[s]], a) = Load(Up[s], a) + Sum(outbox[Down[s]], a)
          /\ Load(Up[s], a)' \in Nat
      <4>1. CASE a[m] = 0
        BY <1>11, <3>1, <3>3, <3>4, <4>1
      <4>2. CASE a[m] # 0
        <5>1. m.sub = s /\ m.type = "demand"
          BY <1>4, <3>3, <4>2, Weigh
        <5>2. y = Up[s] /\ x = Down[s]
          BY <1>1, <1>5, <5>1 DEF Receiver, Sender
        <5>3. Load(Up[s], a)' = Load(Up[s], a) + a[m]
          BY <1>6, <3>1, <3>3, <5>2 DEF Gets
        <5>4. Sum(outbox[Down[s]], a) = a[m] + Sum(outbox'[Down[s]], a)
          BY <1>4, <3>1, <3>3, <5>2
        <5> QED
          BY <3>4, <5>3, <5>4
      <4> QED
        BY <4>1, <4>2
    <3>6. /\ Load(Down[s], c)' + Sum(outbox'[Up[s]], c) = Load(Down[s], c) + Sum(outbox[Up[s]], c)
          /\ Load(Down[s], c)' \in Nat
      <4>1. CASE c[m] = 0
        BY <1>11, <3>1, <3>3, <3>4, <4>1
      <4>2. CASE c[m] # 0
        <5>1. m.sub = s /\ m.type = "events"
          BY <1>4, <3>3, <4>2, Weigh
        <5>2. y = Down[s] /\ x = Up[s]
          BY <1>1, <1>5, <5>1 DEF Receiver, Sender
        <5>3. Load(Down[s], c)' = Load(Down[s], c) + c[m]
          BY <1>6, <3>1, <3>3, <5>2 DEF Gets
        <5>4. Sum(outbox[Up[s]], c) = c[m] + Sum(outbox'[Up[s]], c)
          BY <1>4, <3>1, <3>3, <5>2
        <5> QED
          BY <3>4, <5>3, <5>4
      <4> QED
        BY <4>1, <4>2
    <3>7. Owed(s)' = demand[s] + Load(Up[s], a)' + Sum(outbox'[Down[s]], a)
                               + Load(Down[s], c)' + Sum(outbox'[Up[s]], c)
      BY <1>3, <3>3 DEF Owed, Asks, Carries
    <3>8. Owed(s) = demand[s] + Load(Up[s], a) + Sum(outbox[Down[s]], a)
                              + Load(Down[s], c) + Sum(outbox[Up[s]], c)
      BY <3>3 DEF Owed
    <3>9. Owed(s)' = Owed(s)
      BY <3>4, <3>5, <3>6, <3>7, <3>8
    <3> QED
      BY <1>3, <3>2, <3>9
  <2> QED
    BY <2>1 DEF Balanced
<1> QED
  BY <1>7, <1>8, <1>9, <1>10, <1>12, <1>13, Together

(* What a subscription is owed, when nothing about it changes.               *)
LEMMA OwedKept ==
  ASSUME NEW s \in Subs, UNCHANGED demand[s],
         \A w \in {Asks(s), Carries(s)}, z \in {Up[s], Down[s]} :
            Load(z, w)' = Load(z, w) /\ Sum(outbox'[z], w) = Sum(outbox[z], w)
  PROVE  Owed(s)' = Owed(s)
<1>1. PICK a, c : a = Asks(s) /\ c = Carries(s)
  OBVIOUS
<1>2. Owed(s)' = demand'[s] + Load(Up[s], a)' + Sum(outbox'[Down[s]], a)
                            + Load(Down[s], c)' + Sum(outbox'[Up[s]], c)
  BY <1>1 DEF Owed, Asks, Carries
<1>3. Owed(s) = demand[s] + Load(Up[s], a) + Sum(outbox[Down[s]], a)
                          + Load(Down[s], c) + Sum(outbox[Up[s]], c)
  BY <1>1 DEF Owed
<1> QED
  BY <1>1, <1>2, <1>3

(* Before its producer knows a subscription, nobody owes it anything.        *)
LEMMA NothingOwed ==
  ASSUME GenStageAssumption, IInv, NEW s \in Subs,
         status[s] \in {"new", "subscribed"}, ~Known(s)
  PROVE  inFlight[s] = 0 /\ demand[s] = 0 /\ Owed(s) = 0
<1>1. Untouched(s) /\ TypeOK
  BY DEF IInv, Fresh
<1>2. \A z \in Stages, k \in Message : (In(z, k) \/ Out(z, k)) /\ k.sub = s => ~Flows(k)
  BY <1>1 DEF Untouched
<1>3. PICK a, c : a = Asks(s) /\ c = Carries(s)
  OBVIOUS
<1>4. /\ Up[s] \in Stages /\ Down[s] \in Stages
      /\ a \in [Message -> Nat] /\ c \in [Message -> Nat]
  BY <1>3, Weights DEF GenStageAssumption
<1>5. \A k \in Message : (a[k] # 0 \/ c[k] # 0) => k.sub = s /\ Flows(k)
  BY <1>3, Weigh DEF Flows
<1>6. ASSUME NEW z \in Stages, NEW w \in {a, c} PROVE Load(z, w) = 0 /\ Sum(outbox[z], w) = 0
  <2>1. PICK q, r : q = mailbox[z] /\ r = outbox[z]
    OBVIOUS
  <2>2. q \in Seq(Message) /\ r \in Seq(Message) /\ current[z] \in Message
    BY <1>1, <2>1 DEF TypeOK
  <2>3. (\A n \in DOMAIN q : q[n] \in Message) /\ \A n \in DOMAIN r : r[n] \in Message
    BY <2>2
  <2>4. (\A n \in DOMAIN q : In(z, q[n])) /\ \A n \in DOMAIN r : Out(z, r[n])
    BY <2>1 DEF In, Out
  <2>5. (\A n \in DOMAIN q : w[q[n]] = 0) /\ \A n \in DOMAIN r : w[r[n]] = 0
    BY <1>2, <1>5, <2>3, <2>4
  <2> w \in [Message -> Nat]
    BY <1>4
  <2>6. Sum(q, w) = 0
    <3>1. q \in Seq(Message) /\ \A n \in DOMAIN q : w[q[n]] = 0
      BY <2>2, <2>5
    <3>2. w \in [Message -> Nat]
      OBVIOUS
    <3> QED
      BY ONLY <3>1, <3>2, SumOfNothing
  <2>7. Sum(r, w) = 0
    <3>1. r \in Seq(Message) /\ \A n \in DOMAIN r : w[r[n]] = 0
      BY <2>2, <2>5
    <3>2. w \in [Message -> Nat]
      OBVIOUS
    <3> QED
      BY ONLY <3>1, <3>2, SumOfNothing
  <2>8. at[z] = "handling" => w[current[z]] = 0
    BY <1>2, <1>5, <2>2 DEF In, Busy
  <2> QED
    BY <2>1, <2>6, <2>7, <2>8 DEF Load
<1>7. demand[s] = 0 /\ inFlight[s] = 0
  BY <1>1 DEF Untouched
<1> QED
  BY <1>3, <1>4, <1>6, <1>7 DEF Owed

(* Steps that leave the books of the stages alone.                           *)
LEMMA MessagesOnly ==
  ASSUME GenStageAssumption, IInv, TypeOK', Resting', Came, Went, Onward,
         UNCHANGED <<producerSubs, demand, inFlight>>,
         \A s \in Subs : Requests(s)' <= Requests(s),
         \A s \in Subs : /\ status'[s] = "subscribed" /\ Alive(Up[s])' /\ Alive(Down[s])'
                              => /\ Owed(s)' = Owed(s) /\ Alive(Up[s]) /\ Alive(Down[s])
                                 /\ status[s] = "subscribed"
  PROVE  IInv'
<1>1. Subscribed' /\ Begins' /\ \A s \in Subs : Known(s)' <=> Known(s)
  BY NothingBegins
<1>2. Stays
  BY <1>1 DEF Stays
<1>3. Balanced'
  <2>1. ASSUME NEW s \in Subs, status'[s] = "subscribed", Alive(Up[s])', Alive(Down[s])'
        PROVE  inFlight'[s] = Owed(s)'
    <3>1. inFlight[s] = Owed(s)
      BY <2>1 DEF IInv, Balanced
    <3> QED
      BY <2>1, <3>1
  <2> QED
    BY <2>1 DEF Balanced
<1> QED
  BY <1>1, <1>2, <1>3, Together

(* A message to a stage that has stopped is lost.                            *)
LEMMA SendFailsKeeps ==
  ASSUME GenStageAssumption, IInv, NEW x \in Stages, SendFails(x)
  PROVE  IInv'
<1>1. PICK m, y : m = Head(outbox[x]) /\ y = Receiver(m)
  OBVIOUS
<1>2. TypeOK /\ TaskTypes /\ StockTypes
  BY Types DEF IInv
<1>3. /\ outbox[x] # <<>> /\ outbox' = [outbox EXCEPT ![x] = Tail(@)] /\ ~Alive(y)
      /\ UNCHANGED <<kind, at, mailbox, current, producerSubs, demand, buffer, status, inFlight, made, got>>
  BY <1>1 DEF SendFails, upstream, history
<1>4. /\ m \in Message /\ outbox' \in [Stages -> Seq(Message)]
      /\ \A z \in Stages : z # x => outbox'[z] = outbox[z]
      /\ \A z \in Stages, k \in Message : Out(z, k)' => Out(z, k)
      /\ \A w \in [Message -> Nat] : Sum(outbox[x], w) = w[m] + Sum(outbox'[x], w)
  BY <1>1, <1>2, <1>3, OutboxShrinks
<1>5. TypeOK'
  <2>1. StockTypes' /\ TaskTypes'
    BY <1>2, <1>3, <1>4 DEF StockTypes, TaskTypes
  <2> QED
    BY <2>1, Types
<1>6. Resting'
  <2>1. \A z \in Stages : outbox[z] = <<>> => outbox'[z] = <<>>
    BY <1>3, <1>4
  <2> QED
    BY <1>3, <2>1 DEF IInv, Resting
<1>7. Came /\ Went /\ Onward
  BY <1>3, <1>4 DEF Came, Went, Onward, In, Busy
<1>8. \A z \in Stages, w \in [Message -> Nat] : Load(z, w)' = Load(z, w)
  BY <1>3 DEF Load
<1>9. ASSUME NEW s \in Subs PROVE Requests(s)' <= Requests(s)
  <2>1. Up[s] \in Stages /\ One(s) \in [Message -> Nat]
    BY Weights DEF GenStageAssumption
  <2>2. Load(Up[s], One(s))' = Load(Up[s], One(s)) /\ Load(Up[s], One(s)) \in Nat
    BY <1>2, <1>8, <2>1, AllNat
  <2>3. Requests(s)' = Requests(s) /\ Requests(s) \in Nat
    BY <2>2 DEF Requests, One
  <2> QED
    BY <2>3
<1>10. ASSUME NEW s \in Subs, status'[s] = "subscribed", Alive(Up[s])', Alive(Down[s])'
       PROVE  Owed(s)' = Owed(s) /\ Alive(Up[s]) /\ Alive(Down[s]) /\ status[s] = "subscribed"
  <2>1. status[s] = "subscribed" /\ Alive(Up[s]) /\ Alive(Down[s])
    BY <1>3, <1>10 DEF Alive
  <2>2. /\ Up[s] \in Stages /\ Down[s] \in Stages
        /\ Asks(s) \in [Message -> Nat] /\ Carries(s) \in [Message -> Nat]
    BY Weights DEF GenStageAssumption
  <2>3. Asks(s)[m] = 0 /\ Carries(s)[m] = 0
    <3>1. y # Up[s] /\ y # Down[s]
      BY <1>3, <2>1
    <3>2. ~(m.sub = s /\ m.type \in {"demand", "events"})
      BY <1>1, <3>1 DEF Receiver
    <3> QED
      BY <1>4, <3>2, Weigh
  <2>4. ASSUME NEW w \in {Asks(s), Carries(s)}, NEW z \in {Up[s], Down[s]}
        PROVE  Load(z, w)' = Load(z, w) /\ Sum(outbox'[z], w) = Sum(outbox[z], w)
    <3>1. w \in [Message -> Nat] /\ z \in Stages /\ w[m] = 0
      BY <2>2, <2>3
    <3>2. Sum(outbox'[z], w) \in Nat
      BY <1>5, <3>1, AllNatNext
    <3>3. Sum(outbox'[z], w) = Sum(outbox[z], w)
      <4>1. CASE z = x
        <5>1. Sum(outbox[x], w) = 0 + Sum(outbox'[x], w)
          BY <1>4, <3>1
        <5> QED
          BY <3>2, <4>1, <5>1
      <4>2. CASE z # x
        BY <1>4, <3>1, <4>2
      <4> QED
        BY <4>1, <4>2
    <3> QED
      BY <1>8, <3>1, <3>3
  <2>5. Owed(s)' = Owed(s)
    BY <1>3, <2>4, OwedKept
  <2> QED
    BY <2>1, <2>5
<1> QED
  BY <1>3, <1>5, <1>6, <1>7, <1>9, <1>10, MessagesOnly

(* A stage ends: nothing of its subscriptions is counted any more.           *)
LEMMA LeavesKeeps ==
  ASSUME GenStageAssumption, IInv, NEW x \in Stages, Leaves(x),
         UNCHANGED <<kind, upstream, status, inFlight, history>>
  PROVE  IInv'
<1>1. TypeOK /\ TaskTypes /\ StockTypes
  BY Types DEF IInv
<1>2. UNCHANGED <<kind, producerSubs, demand, buffer, status, inFlight, made, got>>
  BY DEF upstream, history
<1>3. Turns(x) /\ at'[x] = "stopped" /\ \A w \in [Message -> Nat] : Load(x, w)' = 0
  BY <1>1, LeavesTurns
<1>4. /\ TaskTypes'
      /\ \A z \in Stages, k \in Message : In(z, k)' => In(z, k)
      /\ \A z \in Stages : z # x => UNCHANGED <<at[z], mailbox[z], current[z]>>
  BY <1>3 DEF Turns
<1>5. /\ outbox' \in [Stages -> Seq(Message)] /\ outbox'[x] = <<>>
      /\ \A z \in Stages : z # x => outbox'[z] = outbox[z]
  BY <1>1 DEF Leaves, StockTypes
<1>6. TypeOK'
  <2>1. StockTypes'
    BY <1>1, <1>2, <1>5 DEF StockTypes
  <2> QED
    BY <1>4, <2>1, Types
<1>7. Resting'
  BY <1>3, <1>4, <1>5 DEF IInv, Resting
<1>8. Came /\ Went /\ Onward
  <2>1. ASSUME NEW z \in Stages, NEW k \in Message, Out(z, k)' PROVE Out(z, k)
    <3>1. z # x
      BY <1>5, <2>1 DEF Out
    <3> QED
      BY <1>5, <2>1, <3>1 DEF Out
  <2> QED
    BY <1>2, <1>4, <2>1 DEF Came, Went, Onward
<1>9. \A z \in Stages, w \in [Message -> Nat] : z # x => Load(z, w)' = Load(z, w)
  BY <1>4 DEF Load
<1>10. ASSUME NEW s \in Subs PROVE Requests(s)' <= Requests(s)
  <2>1. Up[s] \in Stages /\ One(s) \in [Message -> Nat]
    BY Weights DEF GenStageAssumption
  <2>2. Load(Up[s], One(s))' \in {0, Load(Up[s], One(s))} /\ Load(Up[s], One(s)) \in Nat
    BY <1>1, <1>3, <1>9, <2>1, AllNat
  <2>3. Requests(s)' \in {0, Requests(s)} /\ Requests(s) \in Nat
    BY <2>2 DEF Requests, One
  <2> QED
    BY <2>3
<1>11. ASSUME NEW s \in Subs, status'[s] = "subscribed", Alive(Up[s])', Alive(Down[s])'
       PROVE  Owed(s)' = Owed(s) /\ Alive(Up[s]) /\ Alive(Down[s]) /\ status[s] = "subscribed"
  <2>1. /\ Up[s] \in Stages /\ Down[s] \in Stages
        /\ Asks(s) \in [Message -> Nat] /\ Carries(s) \in [Message -> Nat]
    BY Weights DEF GenStageAssumption
  <2>2. Up[s] # x /\ Down[s] # x
    BY <1>3, <1>11 DEF Alive
  <2>3. status[s] = "subscribed" /\ Alive(Up[s]) /\ Alive(Down[s])
    BY <1>2, <1>4, <1>11, <2>1, <2>2 DEF Alive
  <2>4. \A w \in {Asks(s), Carries(s)}, z \in {Up[s], Down[s]} :
           Load(z, w)' = Load(z, w) /\ Sum(outbox'[z], w) = Sum(outbox[z], w)
    BY <1>5, <1>9, <2>1, <2>2
  <2>5. Owed(s)' = Owed(s)
    BY <1>2, <2>4, OwedKept
  <2> QED
    BY <2>3, <2>5
<1> QED
  BY <1>2, <1>6, <1>7, <1>8, <1>10, <1>11, MessagesOnly

(* A stage takes its next message.                                           *)
LEMMA ReceiveKeeps ==
  ASSUME GenStageAssumption, IInv, NEW x \in Stages, Receive(x)
  PROVE  IInv'
<1>1. TypeOK /\ TaskTypes /\ StockTypes
  BY Types DEF IInv
<1>2. UNCHANGED <<kind, outbox, producerSubs, demand, buffer, status, inFlight, made, got>>
  BY DEF Receive, upstream, history
<1>3. Turns(x) /\ at'[x] = "handling" /\ outbox[x] = <<>> /\ at[x] = "idle" /\ Same
  BY <1>1, ReceiveTurns, ReceiveSame
<1>4. /\ TaskTypes'
      /\ \A z \in Stages, k \in Message : In(z, k)' => In(z, k)
      /\ \A z \in Stages : z # x => UNCHANGED <<at[z], mailbox[z], current[z]>>
  BY <1>3 DEF Turns
<1>5. TypeOK'
  <2>1. StockTypes'
    BY <1>1, <1>2 DEF StockTypes
  <2> QED
    BY <1>4, <2>1, Types
<1>6. Resting'
  BY <1>2, <1>3, <1>4 DEF IInv, Resting
<1>7. Came /\ Went /\ Onward
  BY <1>2, <1>4 DEF Came, Went, Onward, Out
<1>8. ASSUME NEW s \in Subs PROVE Requests(s)' <= Requests(s)
  <2>1. Up[s] \in Stages /\ One(s) \in [Message -> Nat]
    BY Weights DEF GenStageAssumption
  <2>2. Load(Up[s], One(s))' = Load(Up[s], One(s)) /\ Load(Up[s], One(s)) \in Nat
    BY <1>1, <1>3, <2>1, AllNat DEF Same
  <2>3. Requests(s)' = Requests(s) /\ Requests(s) \in Nat
    BY <2>2 DEF Requests, One
  <2> QED
    BY <2>3
<1>9. ASSUME NEW s \in Subs, status'[s] = "subscribed", Alive(Up[s])', Alive(Down[s])'
      PROVE  Owed(s)' = Owed(s) /\ Alive(Up[s]) /\ Alive(Down[s]) /\ status[s] = "subscribed"
  <2>1. /\ Up[s] \in Stages /\ Down[s] \in Stages
        /\ Asks(s) \in [Message -> Nat] /\ Carries(s) \in [Message -> Nat]
    BY Weights DEF GenStageAssumption
  <2>2. status[s] = "subscribed" /\ Alive(Up[s]) /\ Alive(Down[s])
    BY <1>2, <1>3, <1>4, <1>9, <2>1 DEF Alive
  <2>3. \A w \in {Asks(s), Carries(s)}, z \in {Up[s], Down[s]} :
           Load(z, w)' = Load(z, w) /\ Sum(outbox'[z], w) = Sum(outbox[z], w)
    BY <1>2, <1>3, <2>1 DEF Same
  <2>4. Owed(s)' = Owed(s)
    BY <1>2, <2>3, OwedKept
  <2> QED
    BY <2>2, <2>4
<1> QED
  BY <1>2, <1>5, <1>6, <1>7, <1>8, <1>9, MessagesOnly

(* What a message of a user changes: it is on its way, and weighs nothing.   *)
LEMMA UserSends ==
  ASSUME GenStageAssumption, IInv, NEW y \in Stages, NEW m \in Message, Deliver(y, m),
         m.type \in {"subscribe", "cancel", "stop"},
         UNCHANGED <<kind, outbox, upstream, inFlight, history>>,
         status' \in [Subs -> {"new", "subscribed", "cancelling", "cancelled"}]
  PROVE  /\ TypeOK' /\ Resting' /\ Went
         /\ \A z \in Stages, k \in Message : In(z, k)' => In(z, k) \/ (z = y /\ k = m)
         /\ \A s \in Subs : Owed(s)' = Owed(s)
         /\ \A z \in Stages : Alive(z)' <=> Alive(z)
         /\ UNCHANGED <<producerSubs, demand, inFlight>>
<1>1. TypeOK /\ TaskTypes /\ StockTypes
  BY Types DEF IInv
<1>2. UNCHANGED <<kind, outbox, producerSubs, demand, buffer, inFlight, made, got>>
  BY DEF upstream, history
<1>3. Comes(y, m) /\ Gets(y, m)
  BY <1>1, DeliverComes, DeliverGets
<1>4. TypeOK'
  <2>1. StockTypes'
    BY <1>1, <1>2 DEF StockTypes
  <2> QED
    BY <1>3, <2>1, Types DEF Comes
<1>5. Resting'
  <2>1. ASSUME NEW z \in Stages
        PROVE  /\ at'[z] = "handling" => outbox'[z] = <<>>
               /\ at'[z] \in {"passing", "refilling"} => current'[z].type = "events"
    <3>1. /\ at[z] = "handling" => outbox[z] = <<>>
          /\ at[z] \in {"passing", "refilling"} => current[z].type = "events"
      BY DEF IInv, Resting
    <3>2. /\ at'[z] # at[z] => at'[z] = "handling" /\ outbox[z] = <<>>
          /\ at'[z] \in {"passing", "refilling"} => current'[z] = current[z]
      BY <1>3 DEF Comes
    <3> QED
      BY <1>2, <3>1, <3>2
  <2> QED
    BY <2>1 DEF Resting
<1>6. Went
  BY <1>2 DEF Went, Out
<1>7. ASSUME NEW s \in Subs PROVE Owed(s)' = Owed(s)
  <2>1. /\ Up[s] \in Stages /\ Down[s] \in Stages
        /\ Asks(s) \in [Message -> Nat] /\ Carries(s) \in [Message -> Nat]
    BY Weights DEF GenStageAssumption
  <2>2. Asks(s)[m] = 0 /\ Carries(s)[m] = 0
    BY Weigh
  <2>3. ASSUME NEW w \in {Asks(s), Carries(s)}, NEW z \in {Up[s], Down[s]}
        PROVE  Load(z, w)' = Load(z, w)
    <3>1. w \in [Message -> Nat] /\ z \in Stages /\ w[m] = 0
      BY <2>1, <2>2
    <3>2. Load(z, w) \in Nat /\ Load(z, w)' \in {Load(z, w), Load(z, w) + w[m]}
      BY <1>1, <1>3, <3>1, AllNat DEF Gets
    <3> QED
      BY <3>1, <3>2
  <2> QED
    BY <1>2, <2>3, OwedKept
<1> QED
  BY <1>2, <1>3, <1>4, <1>5, <1>6, <1>7 DEF Comes

(* A user asks a stage to stop.                                              *)
LEMMA StopStageKeeps ==
  ASSUME GenStageAssumption, IInv, NEW x \in Stages, StopStage(x)
  PROVE  IInv'
<1>1. PICK m \in Message : m = None /\ m.type = "stop"
  BY MessagesAre
<1>2. /\ Deliver(x, m) /\ UNCHANGED <<kind, outbox, upstream, status, inFlight, history>>
      /\ status \in [Subs -> {"new", "subscribed", "cancelling", "cancelled"}]
  BY <1>1 DEF StopStage, IInv, TypeOK
<1>3. /\ TypeOK' /\ Resting' /\ Went
      /\ \A z \in Stages, k \in Message : In(z, k)' => In(z, k) \/ (z = x /\ k = m)
      /\ \A s \in Subs : Owed(s)' = Owed(s)
      /\ \A z \in Stages : Alive(z)' <=> Alive(z)
      /\ UNCHANGED <<producerSubs, demand, inFlight>>
  BY <1>1, <1>2, UserSends
<1>4. Came /\ Onward
  BY <1>1, <1>2, <1>3 DEF Came, Arrives, Onward
<1>5. ASSUME NEW s \in Subs PROVE Requests(s)' <= Requests(s)
  <2>1. Up[s] \in Stages /\ One(s) \in [Message -> Nat] /\ One(s)[m] = 0
    BY <1>1, Weights, Weigh DEF GenStageAssumption
  <2>2. Gets(x, m) /\ Load(Up[s], One(s)) \in Nat
    BY <1>2, <2>1, DeliverGets, Types, AllNat DEF IInv
  <2>3. Load(Up[s], One(s))' \in {Load(Up[s], One(s)), Load(Up[s], One(s)) + One(s)[m]}
    BY <2>1, <2>2 DEF Gets
  <2>4. Load(Up[s], One(s))' = Load(Up[s], One(s))
    BY <2>1, <2>2, <2>3
  <2>5. Requests(s)' = Requests(s) /\ Requests(s) \in Nat
    BY <2>2, <2>4 DEF Requests, One
  <2> QED
    BY <2>5
<1>6. \A s \in Subs : Up[s] \in Stages /\ Down[s] \in Stages
  BY DEF GenStageAssumption
<1>7. ASSUME NEW s \in Subs, status'[s] = "subscribed", Alive(Up[s])', Alive(Down[s])'
      PROVE  Owed(s)' = Owed(s) /\ Alive(Up[s]) /\ Alive(Down[s]) /\ status[s] = "subscribed"
  BY <1>2, <1>3, <1>6, <1>7
<1> QED
  BY <1>3, <1>4, <1>5, <1>7, MessagesOnly

(* A step that changes no more than the state of the subscriptions.          *)
LEMMA StatusOnly ==
  ASSUME GenStageAssumption, IInv, Onward,
         UNCHANGED <<kind, at, mailbox, current, outbox, producerSubs, demand, inFlight, made, got>>,
         buffer' \in [Stages -> Seq(Events)],
         status' \in [Subs -> {"new", "subscribed", "cancelling", "cancelled"}],
         \A s \in Subs : status'[s] = "subscribed" => status[s] = "subscribed"
  PROVE  IInv'
<1>1. TypeOK /\ TaskTypes /\ StockTypes
  BY Types DEF IInv
<1>2. TypeOK'
  <2>1. TaskTypes' /\ StockTypes'
    BY <1>1 DEF TaskTypes, StockTypes
  <2> QED
    BY <2>1, Types
<1>3. Resting'
  BY DEF IInv, Resting
<1>4. Came /\ Went
  BY DEF Came, Went, In, Out, Busy
<1>5. ASSUME NEW s \in Subs PROVE Requests(s)' <= Requests(s)
  <2>1. Up[s] \in Stages /\ One(s) \in [Message -> Nat]
    BY Weights DEF GenStageAssumption
  <2>2. Requests(s) \in Nat
    BY <1>1, <2>1, AllNat DEF Requests
  <2>3. Requests(s)' = Requests(s)
    BY DEF Requests, One, Load
  <2> QED
    BY <2>2, <2>3
<1>6. ASSUME NEW s \in Subs, status'[s] = "subscribed", Alive(Up[s])', Alive(Down[s])'
      PROVE  Owed(s)' = Owed(s) /\ Alive(Up[s]) /\ Alive(Down[s]) /\ status[s] = "subscribed"
  <2>1. Owed(s)' = Owed(s)
    BY OwedKept DEF Load
  <2> QED
    BY <1>6, <2>1 DEF Alive
<1> QED
  BY <1>2, <1>3, <1>4, <1>5, <1>6, MessagesOnly

(* A consumer forgets a subscription.                                        *)
LEMMA CancelSubscriptionKeeps ==
  ASSUME GenStageAssumption, IInv, NEW s \in Subs, CancelSubscription(s)
  PROVE  IInv'
<1>1. /\ UNCHANGED <<kind, at, mailbox, current, outbox, producerSubs, demand, inFlight, made, got>>
      /\ status[s] = "subscribed" /\ status' = [status EXCEPT ![s] = "cancelling"]
      /\ buffer' = [buffer EXCEPT ![Down[s]] = <<>>]
  BY DEF CancelSubscription, tasks, history
<1>2. /\ buffer \in [Stages -> Seq(Events)]
      /\ status \in [Subs -> {"new", "subscribed", "cancelling", "cancelled"}]
  BY DEF IInv, TypeOK
<1>3. /\ buffer' \in [Stages -> Seq(Events)]
      /\ status' \in [Subs -> {"new", "subscribed", "cancelling", "cancelled"}]
      /\ status'[s] = "cancelling" /\ \A t \in Subs : t # s => status'[t] = status[t]
  <2>1. <<>> \in Seq(Events)
    OBVIOUS
  <2> QED
    BY <1>1, <1>2, <2>1
<1>4. Onward
  BY <1>1, <1>3 DEF Onward
<1>5. \A t \in Subs : status'[t] = "subscribed" => status[t] = "subscribed"
  BY <1>1, <1>3
<1> QED
  BY <1>1, <1>3, <1>4, <1>5, StatusOnly

(* Nothing happens.                                                          *)
LEMMA NothingKeeps ==
  ASSUME GenStageAssumption, IInv, UNCHANGED vars
  PROVE  IInv'
<1>1. UNCHANGED <<kind, at, mailbox, current, outbox, producerSubs, demand, buffer, status,
                  inFlight, made, got>>
  BY DEF vars, tasks, upstream, history
<1>2. Onward
  BY <1>1 DEF Onward
<1>3. /\ buffer' \in [Stages -> Seq(Events)]
      /\ status' \in [Subs -> {"new", "subscribed", "cancelling", "cancelled"}]
  BY <1>1 DEF IInv, TypeOK
<1>4. \A s \in Subs : status'[s] = "subscribed" => status[s] = "subscribed"
  BY <1>1
<1> QED
  BY <1>1, <1>2, <1>3, <1>4, StatusOnly

(* The producer is told.                                                     *)
LEMMA TellCancelledKeeps ==
  ASSUME GenStageAssumption, IInv, NEW s \in Subs, TellCancelled(s)
  PROVE  IInv'
<1>1. /\ UNCHANGED <<kind, outbox, upstream, inFlight, history>>
      /\ status[s] = "cancelling" /\ status' = [status EXCEPT ![s] = "cancelled"]
      /\ status \in [Subs -> {"new", "subscribed", "cancelling", "cancelled"}]
      /\ Up[s] \in Stages
  BY DEF TellCancelled, IInv, TypeOK, GenStageAssumption
<1>2. /\ status' \in [Subs -> {"new", "subscribed", "cancelling", "cancelled"}]
      /\ status'[s] = "cancelled" /\ \A t \in Subs : t # s => status'[t] = status[t]
  BY <1>1
<1>3. Onward
  BY <1>1, <1>2 DEF Onward
<1>4. \A t \in Subs : status'[t] = "subscribed" => status[t] = "subscribed"
  BY <1>1, <1>2
<1>5. CASE Alive(Up[s])
  <2>1. PICK m \in Message : m = Signal("cancel", s) /\ m.type = "cancel" /\ m.sub = s
    BY MessagesAre
  <2>2. Deliver(Up[s], m)
    BY <1>5, <2>1 DEF TellCancelled
  <2>3. /\ TypeOK' /\ Resting' /\ Went
        /\ \A z \in Stages, k \in Message : In(z, k)' => In(z, k) \/ (z = Up[s] /\ k = m)
        /\ \A t \in Subs : Owed(t)' = Owed(t)
        /\ \A z \in Stages : Alive(z)' <=> Alive(z)
        /\ UNCHANGED <<producerSubs, demand, inFlight>>
    BY <1>1, <1>2, <2>1, <2>2, UserSends
  <2>4. Came
    <3>1. Receiver(m) = Up[s]
      BY <2>1 DEF Receiver
    <3> QED
      BY <1>2, <2>1, <2>3, <3>1 DEF Came, Arrives
  <2>5. ASSUME NEW t \in Subs PROVE Requests(t)' <= Requests(t)
    <3>1. Up[t] \in Stages /\ One(t) \in [Message -> Nat] /\ One(t)[m] = 0
      BY <2>1, Weights, Weigh DEF GenStageAssumption
    <3>2. Gets(Up[s], m) /\ Load(Up[t], One(t)) \in Nat
      BY <1>1, <2>2, <3>1, DeliverGets, Types, AllNat DEF IInv
    <3>3. Load(Up[t], One(t))' \in {Load(Up[t], One(t)), Load(Up[t], One(t)) + One(t)[m]}
      BY <1>1, <3>1, <3>2 DEF Gets
    <3>4. Load(Up[t], One(t))' = Load(Up[t], One(t))
      BY <3>1, <3>2, <3>3
    <3>5. Requests(t)' = Requests(t) /\ Requests(t) \in Nat
      BY <3>2, <3>4 DEF Requests, One
    <3> QED
      BY <3>5
  <2>6. \A t \in Subs : Up[t] \in Stages /\ Down[t] \in Stages
    BY DEF GenStageAssumption
  <2>7. ASSUME NEW t \in Subs, status'[t] = "subscribed", Alive(Up[t])', Alive(Down[t])'
        PROVE  Owed(t)' = Owed(t) /\ Alive(Up[t]) /\ Alive(Down[t]) /\ status[t] = "subscribed"
    BY <1>4, <2>3, <2>6, <2>7
  <2> QED
    BY <1>3, <2>3, <2>4, <2>5, <2>7, MessagesOnly
<1>6. CASE ~Alive(Up[s])
  <2>1. UNCHANGED <<kind, at, mailbox, current, outbox, producerSubs, demand, buffer, inFlight, made, got>>
    BY <1>6 DEF TellCancelled, upstream, history
  <2>2. buffer' \in [Stages -> Seq(Events)]
    BY <2>1 DEF IInv, TypeOK
  <2> QED
    BY <1>2, <1>3, <1>4, <2>1, <2>2, StatusOnly
<1> QED
  BY <1>5, <1>6

(* A consumer subscribes.                                                    *)
LEMMA SubscribeToKeeps ==
  ASSUME GenStageAssumption, IInv, NEW s \in Subs, SubscribeTo(s)
  PROVE  IInv'
<1>1. /\ UNCHANGED <<kind, outbox, upstream, inFlight, history>>
      /\ status[s] = "new" /\ status' = [status EXCEPT ![s] = "subscribed"]
      /\ status \in [Subs -> {"new", "subscribed", "cancelling", "cancelled"}]
      /\ Up[s] \in Stages
  BY DEF SubscribeTo, IInv, TypeOK, GenStageAssumption
<1>2. /\ status' \in [Subs -> {"new", "subscribed", "cancelling", "cancelled"}]
      /\ status'[s] = "subscribed" /\ \A t \in Subs : t # s => status'[t] = status[t]
  BY <1>1
<1>3. Onward
  BY <1>1, <1>2 DEF Onward
<1>4. PICK m \in Message : m = Signal("subscribe", s) /\ m.type = "subscribe" /\ m.sub = s
  BY MessagesAre
<1>5. Deliver(Up[s], m)
  BY <1>4 DEF SubscribeTo
<1>6. /\ TypeOK' /\ Resting' /\ Went
      /\ \A z \in Stages, k \in Message : In(z, k)' => In(z, k) \/ (z = Up[s] /\ k = m)
      /\ \A t \in Subs : Owed(t)' = Owed(t)
      /\ \A z \in Stages : Alive(z)' <=> Alive(z)
      /\ UNCHANGED <<producerSubs, demand, inFlight>>
  BY <1>1, <1>2, <1>4, <1>5, UserSends
<1>7. Came
  <2>1. Receiver(m) = Up[s]
    BY <1>4 DEF Receiver
  <2> QED
    BY <1>4, <1>6, <2>1 DEF Came, Arrives
<1>8. \A t \in Subs : Known(t)' <=> Known(t)
  BY <1>6 DEF Known, Subscribers
<1>9. Subscribed' /\ Stays
  BY <1>6, <1>8 DEF IInv, Subscribed, Stays
<1>10. ASSUME NEW t \in Subs
       PROVE  /\ Requests(t)' <= 1
              /\ Requests(t)' = 1 => status'[t] # "new" /\ ~Known(t)'
              /\ Known(t)' => status'[t] # "new"
  <2>1. Up[t] \in Stages /\ One(t) \in [Message -> Nat] /\ One(t)[m] = IF t = s THEN 1 ELSE 0
    <3>1. Up[t] \in Stages
      BY DEF GenStageAssumption
    <3>2. One(t) \in [Message -> Nat]
      BY Weights
    <3>3. One(t)[m] = IF m.sub = t /\ m.type = "subscribe" THEN 1 ELSE 0
      BY Weigh
    <3> QED
      BY <1>4, <3>1, <3>2, <3>3
  <2>2. Gets(Up[s], m) /\ Load(Up[t], One(t)) \in Nat
    BY <1>1, <1>5, <2>1, DeliverGets, Types, AllNat DEF IInv
  <2>3. /\ Requests(t) <= 1 /\ (Requests(t) = 1 => status[t] # "new" /\ ~Known(t))
        /\ (Known(t) => status[t] # "new") /\ Requests(t) = Load(Up[t], One(t))
    BY DEF IInv, Begins, Requests
  <2>4. CASE t = s
    <3>1. Load(Up[t], One(t))' = Load(Up[t], One(t)) + 1
      BY <2>1, <2>2, <2>4 DEF Gets
    <3>2. Load(Up[t], One(t))' = 1 /\ ~Known(t)
      BY <1>1, <2>2, <2>3, <2>4, <3>1
    <3>3. Requests(t)' = 1
      BY <3>2 DEF Requests, One
    <3> QED
      BY <1>2, <1>8, <2>4, <3>2, <3>3
  <2>5. CASE t # s
    <3>1. Load(Up[t], One(t))' \in {Load(Up[t], One(t)), Load(Up[t], One(t)) + One(t)[m]}
      BY <1>1, <2>1, <2>2 DEF Gets
    <3>2. Load(Up[t], One(t))' = Load(Up[t], One(t))
      BY <2>1, <2>2, <2>5, <3>1
    <3>3. Requests(t)' = Requests(t)
      BY <3>2 DEF Requests, One
    <3> QED
      BY <1>2, <1>8, <2>3, <2>5, <3>3
  <2> QED
    BY <2>4, <2>5
<1>11. Begins'
  BY <1>10 DEF Begins
<1>12. Balanced'
  <2>1. ASSUME NEW t \in Subs, status'[t] = "subscribed", Alive(Up[t])', Alive(Down[t])'
        PROVE  inFlight'[t] = Owed(t)'
    <3>1. Up[t] \in Stages /\ Down[t] \in Stages
      BY DEF GenStageAssumption
    <3>2. CASE t = s
      <4>1. status[t] = "new" /\ ~Known(t)
        BY <1>1, <3>2 DEF IInv, Begins
      <4>2. inFlight[t] = 0 /\ Owed(t) = 0
        BY <4>1, NothingOwed
      <4> QED
        BY <1>6, <4>2
    <3>3. CASE t # s
      <4>1. inFlight[t] = Owed(t)
        BY <1>2, <1>6, <2>1, <3>1, <3>3 DEF IInv, Balanced
      <4> QED
        BY <1>6, <4>1
    <3> QED
      BY <3>2, <3>3
  <2> QED
    BY <2>1 DEF Balanced
<1> QED
  BY <1>3, <1>6, <1>7, <1>9, <1>11, <1>12, Together

-----------------------------------------------------------------------------
(* Handlers *)

(* A handler goes on: where its message was weighed, it is done.             *)
LEMMA Handled ==
  ASSUME GenStageAssumption, IInv, NEW x \in Stages, NEW place, Continue(x, place), Alive(x),
         place \in {"idle", "flushing", "producing", "passing", "refilling"},
         place \in {"passing", "refilling"} => Busy(x) /\ current[x].type = "events",
         \A z \in Stages : z # x => outbox'[z] = outbox[z]
  PROVE  /\ TaskTypes' /\ Resting' /\ Came /\ current[x] \in Message
         /\ \A z \in Stages : Alive(z)' <=> Alive(z)
         /\ at[x] = "handling" => Uses(x, current[x])
         /\ at[x] # "handling" => Same
<1>1. TypeOK /\ TaskTypes /\ StockTypes
  BY Types DEF IInv
<1>2. /\ Turns(x) /\ at'[x] = place
      /\ place # "idle" => current'[x] = current[x]
  BY <1>1, ContinueTurns
<1>3. /\ TaskTypes'
      /\ \A z \in Stages, k \in Message : In(z, k)' => In(z, k)
      /\ \A z \in Stages : z # x => UNCHANGED <<at[z], mailbox[z], current[z]>>
  BY <1>2 DEF Turns
<1>4. Resting'
  BY <1>2, <1>3 DEF IInv, Resting
<1>5. Came
  BY <1>3 DEF Came
<1>6. \A z \in Stages : Alive(z)' <=> Alive(z)
  BY <1>2, <1>3 DEF Alive
<1>7. /\ at[x] = "handling" => Uses(x, current[x])
      /\ at[x] # "handling" => Same
  BY <1>1, ContinueUses
<1> QED
  BY <1>1, <1>3, <1>4, <1>5, <1>6, <1>7 DEF TaskTypes

(* A subscription that the message weighs nothing for is owed the same.      *)
LEMMA HandlerOwes ==
  ASSUME GenStageAssumption, IInv, TypeOK', NEW x \in Stages, NEW m \in Message,
         Same \/ Uses(x, m), NEW s \in Subs, UNCHANGED demand[s],
         Same \/ ~(m.sub = s /\ m.type \in {"demand", "events"}),
         \A w \in {Asks(s), Carries(s)}, z \in Stages : Sum(outbox'[z], w) = Sum(outbox[z], w)
  PROVE  Owed(s)' = Owed(s)
<1>1. /\ Up[s] \in Stages /\ Down[s] \in Stages /\ TypeOK
      /\ Asks(s) \in [Message -> Nat] /\ Carries(s) \in [Message -> Nat]
  BY Weights DEF GenStageAssumption, IInv
<1>2. ASSUME NEW w \in {Asks(s), Carries(s)}, NEW z \in {Up[s], Down[s]}
      PROVE  Load(z, w)' = Load(z, w)
  <2>1. w \in [Message -> Nat] /\ z \in Stages
    BY <1>1
  <2>2. Load(z, w) \in Nat /\ Load(z, w)' \in Nat
    BY <1>1, <2>1, AllNat, AllNatNext
  <2>3. CASE Same
    BY <2>1, <2>3 DEF Same
  <2>4. CASE ~Same
    <3>1. w[m] = 0
      BY <2>4, Weigh
    <3>2. \/ Load(z, w)' = Load(z, w)
          \/ Load(z, w) = Load(z, w)' + w[m]
      BY <2>1, <2>4 DEF Uses
    <3> QED
      BY <2>2, <3>1, <3>2
  <2> QED
    BY <2>3, <2>4
<1> QED
  BY <1>1, <1>2, OwedKept

(* Nobody asks again when a handler goes on.                                 *)
LEMMA HandlerAsksNobody ==
  ASSUME GenStageAssumption, IInv, TypeOK', NEW x \in Stages, NEW m \in Message,
         Same \/ Uses(x, m), NEW s \in Subs
  PROVE  Requests(s)' <= Requests(s)
<1>1. /\ Up[s] \in Stages /\ TypeOK /\ One(s) \in [Message -> Nat] /\ One(s)[m] \in Nat
  BY Weights, Weigh DEF GenStageAssumption, IInv
<1>2. Load(Up[s], One(s)) \in Nat /\ Load(Up[s], One(s))' \in Nat
  BY <1>1, AllNat, AllNatNext
<1>3. \/ Load(Up[s], One(s))' = Load(Up[s], One(s))
      \/ Load(Up[s], One(s)) = Load(Up[s], One(s))' + One(s)[m]
  BY <1>1 DEF Same, Uses
<1>4. Load(Up[s], One(s))' <= Load(Up[s], One(s))
  BY <1>1, <1>2, <1>3
<1> QED
  BY <1>4 DEF Requests, One

(* A handler goes on and does nothing else.                                  *)
LEMMA DoneKeeps ==
  ASSUME GenStageAssumption, IInv, NEW x \in Stages, NEW place, Continue(x, place), Alive(x),
         place \in {"idle", "flushing", "producing", "passing", "refilling"},
         place \in {"passing", "refilling"} => Busy(x) /\ current[x].type = "events",
         UNCHANGED <<kind, outbox, producerSubs, demand, buffer, status, inFlight, made, got>>,
         \A s \in Subs : status[s] = "subscribed" /\ at[x] = "handling"
                            => ~(current[x].sub = s /\ current[x].type \in {"demand", "events"})
  PROVE  IInv'
<1>1. PICK m : m = current[x]
  OBVIOUS
<1>2. /\ TaskTypes' /\ Resting' /\ Came /\ m \in Message
      /\ \A z \in Stages : Alive(z)' <=> Alive(z)
      /\ at[x] = "handling" => Uses(x, m)
      /\ at[x] # "handling" => Same
  BY <1>1, Handled
<1>3. TypeOK'
  <2>1. StockTypes'
    BY Types DEF IInv, StockTypes
  <2> QED
    BY <1>2, <2>1, Types
<1>4. Went /\ Onward
  BY DEF Went, Onward, Out
<1>5. ASSUME NEW s \in Subs PROVE Requests(s)' <= Requests(s)
  BY <1>2, <1>3, HandlerAsksNobody
<1>6. ASSUME NEW s \in Subs, status'[s] = "subscribed", Alive(Up[s])', Alive(Down[s])'
      PROVE  Owed(s)' = Owed(s) /\ Alive(Up[s]) /\ Alive(Down[s]) /\ status[s] = "subscribed"
  <2>1. Same \/ ~(m.sub = s /\ m.type \in {"demand", "events"})
    BY <1>1, <1>2, <1>6
  <2>2. Owed(s)' = Owed(s)
    BY <1>2, <1>3, <2>1, HandlerOwes
  <2>3. Up[s] \in Stages /\ Down[s] \in Stages
    BY DEF GenStageAssumption
  <2> QED
    BY <1>2, <1>6, <2>2, <2>3
<1> QED
  BY <1>2, <1>3, <1>4, <1>5, <1>6, MessagesOnly

(* A consumer asks for n events more of a subscription it has heard of.      *)
LEMMA AskKeeps ==
  ASSUME GenStageAssumption, IInv, NEW x \in Stages, Continue(x, "idle"), Alive(x),
         outbox[x] = <<>>, NEW m \in Message, In(x, m), m = current[x],
         m.type = "ack" \/ (m.type = "events" /\ at[x] # "handling"),
         NEW s \in Subs, s = m.sub, NEW n \in Nat, Sends(x, Demand(s, n)),
         inFlight' = [inFlight EXCEPT ![s] = inFlight[s] + n],
         UNCHANGED <<kind, producerSubs, demand, buffer, status, made, got>>
  PROVE  IInv'
<1>1. TypeOK /\ StockTypes /\ Down[s] = x
  BY Types DEF IInv, Addressed, Receiver
<1>2. PICK r \in Message : r = Demand(s, n) /\ r.type = "demand" /\ r.sub = s /\ r.count = n
  BY MessagesAre
<1>3. /\ outbox' \in [Stages -> Seq(Message)]
      /\ \A z \in Stages : z # x => outbox'[z] = outbox[z]
      /\ \A z \in Stages, k \in Message : Out(z, k)' => Out(z, k) \/ (z = x /\ k = r)
      /\ \A w \in [Message -> Nat] : Sum(outbox'[x], w) = w[r] /\ Sum(outbox[x], w) = 0
  BY <1>1, <1>2, OutboxOne
<1>4. /\ TaskTypes' /\ Resting' /\ Came
      /\ \A z \in Stages : Alive(z)' <=> Alive(z)
      /\ Same \/ Uses(x, m)
  BY <1>3, Handled
<1>5. /\ inFlight' \in [Subs -> Nat] /\ inFlight'[s] = inFlight[s] + n /\ inFlight[s] \in Nat
      /\ \A t \in Subs : t # s => inFlight'[t] = inFlight[t]
  <2>1. inFlight \in [Subs -> Nat]
    BY <1>1 DEF StockTypes
  <2>2. inFlight[s] + n \in Nat
    BY <2>1
  <2> QED
    BY <2>1, <2>2
<1>6. TypeOK'
  <2>1. StockTypes'
    BY <1>1, <1>3, <1>5 DEF StockTypes
  <2> QED
    BY <1>4, <2>1, Types
<1>7. Onward
  BY DEF Onward
<1>8. Subscribed' /\ Begins' /\ \A t \in Subs : Known(t)' <=> Known(t)
  <2>1. ASSUME NEW t \in Subs PROVE Requests(t)' <= Requests(t)
    BY <1>4, <1>6, HandlerAsksNobody
  <2> QED
    BY <1>6, <1>7, <2>1, NothingBegins
<1>9. status[s] \in {"new", "subscribed"} => Known(s)
  BY DEF IInv, Fresh, Untouched, Flows
<1>10. Went
  <2>1. Prepares(x, r)
    BY <1>1, <1>2, <1>8, <1>9 DEF Prepares, Flows, Sender
  <2> QED
    BY <1>3, <2>1 DEF Went
<1>11. Stays
  BY <1>5, <1>8, <1>9 DEF Stays
<1>12. Balanced'
  <2>1. ASSUME NEW t \in Subs, status'[t] = "subscribed", Alive(Up[t])', Alive(Down[t])'
        PROVE  inFlight'[t] = Owed(t)'
    <3>1. /\ Up[t] \in Stages /\ Down[t] \in Stages
          /\ Asks(t) \in [Message -> Nat] /\ Carries(t) \in [Message -> Nat]
      BY Weights DEF GenStageAssumption
    <3>2. inFlight[t] = Owed(t)
      BY <1>4, <2>1, <3>1 DEF IInv, Balanced
    <3>3. Same \/ ~(m.sub = t /\ m.type \in {"demand", "events"})
      <4>1. at[x] # "handling" => Same
        BY <1>3, Handled
      <4> QED
        BY <4>1
    <3>4. CASE t # s
      <4>1. Asks(t)[r] = 0 /\ Carries(t)[r] = 0
        BY <1>2, <3>4, Weigh
      <4>2. \A w \in {Asks(t), Carries(t)}, z \in Stages : Sum(outbox'[z], w) = Sum(outbox[z], w)
        BY <1>3, <3>1, <4>1
      <4>3. Owed(t)' = Owed(t)
        BY <1>4, <1>6, <3>3, <4>2, HandlerOwes
      <4> QED
        BY <1>5, <3>2, <3>4, <4>3
    <3>5. CASE t = s
      <4>1. PICK a, c : a = Asks(s) /\ c = Carries(s)
        OBVIOUS
      <4>2. /\ a \in [Message -> Nat] /\ c \in [Message -> Nat] /\ a[r] = n /\ c[r] = 0
            /\ Up[s] \in Stages /\ Down[s] \in Stages
        BY <1>2, <3>1, <3>5, <4>1, Weigh
      <4>3. ASSUME NEW w \in {a, c}, NEW z \in Stages PROVE Load(z, w)' = Load(z, w)
        <5>1. w \in [Message -> Nat] /\ Load(z, w) \in Nat /\ Load(z, w)' \in Nat
          BY <1>1, <1>6, <4>2, AllNat, AllNatNext
        <5>2. CASE Same
          BY <5>1, <5>2 DEF Same
        <5>3. CASE ~Same
          <6>1. w[m] = 0
            BY <3>3, <3>5, <4>1, <5>3, Weigh
          <6>2. \/ Load(z, w)' = Load(z, w)
                \/ Load(z, w) = Load(z, w)' + w[m]
            BY <1>4, <5>1, <5>3 DEF Uses
          <6> QED
            BY <5>1, <6>1, <6>2
        <5> QED
          BY <5>2, <5>3
      <4>4. Sum(outbox'[Down[s]], a) = n /\ Sum(outbox[Down[s]], a) = 0
        BY <1>1, <1>3, <4>2
      <4>5. Sum(outbox'[Up[s]], c) = Sum(outbox[Up[s]], c) /\ Sum(outbox[Up[s]], c) \in Nat
        BY <1>1, <1>3, <4>2, AllNat
      <4>6. Owed(s)' = demand'[s] + Load(Up[s], a)' + Sum(outbox'[Down[s]], a)
                                  + Load(Down[s], c)' + Sum(outbox'[Up[s]], c)
        BY <4>1 DEF Owed, Asks, Carries
      <4>7. Owed(s) = demand[s] + Load(Up[s], a) + Sum(outbox[Down[s]], a)
                                + Load(Down[s], c) + Sum(outbox[Up[s]], c)
        BY <4>1 DEF Owed
      <4>8. /\ Load(Up[s], a)' = Load(Up[s], a) /\ Load(Down[s], c)' = Load(Down[s], c)
            /\ Load(Up[s], a) \in Nat /\ Load(Down[s], c) \in Nat
            /\ demand'[s] = demand[s] /\ demand[s] \in Nat
        <5>1. demand[s] \in Nat
          BY <1>1 DEF StockTypes
        <5> QED
          BY <1>1, <4>2, <4>3, <5>1, AllNat
      <4>9. Owed(s)' = Owed(s) + n
        <5>1. PICK e, f, h, i : /\ e = demand[s] /\ f = Load(Up[s], a)
                                /\ h = Load(Down[s], c) /\ i = Sum(outbox[Up[s]], c)
          OBVIOUS
        <5>2. e \in Nat /\ f \in Nat /\ h \in Nat /\ i \in Nat /\ n \in Nat
          BY <4>5, <4>8, <5>1
        <5>3. Owed(s)' = e + f + n + h + i /\ Owed(s) = e + f + 0 + h + i
          BY <4>4, <4>5, <4>6, <4>7, <4>8, <5>1
        <5>4. e + f + n + h + i = (e + f + 0 + h + i) + n
          BY ONLY <5>2
        <5> QED
          BY <5>3, <5>4
      <4> QED
        BY <1>5, <3>2, <3>5, <4>9
    <3> QED
      BY <3>4, <3>5
  <2> QED
    BY <2>1 DEF Balanced
<1> QED
  BY <1>4, <1>6, <1>7, <1>8, <1>10, <1>11, <1>12, Together

(* A message in hand is one of those of its stage.                           *)
LEMMA InHandOf ==
  ASSUME GenStageAssumption, IInv, NEW x \in Stages, NEW m, m = current[x], Busy(x)
  PROVE  m \in Message /\ In(x, m) /\ m.sub \in Subs /\ (m.type = "stop" \/ Receiver(m) = x)
<1>1. m \in Message /\ In(x, m)
  BY DEF IInv, TypeOK, In
<1>2. m.sub \in Subs
  BY <1>1 DEF Message
<1> QED
  BY <1>1, <1>2 DEF IInv, Addressed

(* The subscription is acknowledged: the consumer asks for its maximum.      *)
LEMMA DoSubscribeAckKeeps ==
  ASSUME GenStageAssumption, IInv, NEW x \in Stages, DoSubscribeAck(x)
  PROVE  IInv'
<1>1. PICK m, s : m = current[x] /\ s = m.sub
  OBVIOUS
<1>2. /\ at[x] = "handling" /\ m.type = "ack" /\ Continue(x, "idle")
      /\ UNCHANGED <<kind, producerSubs, demand, buffer, status, made, got>>
  BY <1>1 DEF DoSubscribeAck, Handling, upstream, history
<1>3. Busy(x) /\ Alive(x) /\ outbox[x] = <<>>
  BY <1>2 DEF Busy, Alive, IInv, Resting
<1>4. m \in Message /\ In(x, m) /\ s \in Subs
  BY <1>1, <1>3, InHandOf
<1>5. CASE status[s] = "subscribed"
  <2>1. MaxDemand[s] \in Nat /\ inFlight \in [Subs -> Nat]
    BY <1>4 DEF GenStageAssumption, IInv, TypeOK
  <2>2. /\ inFlight' = [inFlight EXCEPT ![s] = inFlight[s] + MaxDemand[s]]
        /\ Sends(x, Demand(s, MaxDemand[s]))
    BY <1>1, <1>5 DEF DoSubscribeAck
  <2> QED
    BY <1>1, <1>2, <1>3, <1>4, <2>1, <2>2, AskKeeps
<1>6. CASE status[s] # "subscribed"
  <2>1. UNCHANGED <<inFlight, outbox>>
    BY <1>1, <1>6 DEF DoSubscribeAck
  <2>2. ASSUME NEW t \in Subs
        PROVE  ~(current[x].sub = t /\ current[x].type \in {"demand", "events"})
    BY <1>1, <1>2
  <2> QED
    BY <1>2, <1>3, <2>1, <2>2, DoneKeeps
<1> QED
  BY <1>5, <1>6

(* A consumer asks for more when little is in flight.                        *)
LEMMA RefillKeeps ==
  ASSUME GenStageAssumption, IInv, NEW x \in Stages, Refill(x)
  PROVE  IInv'
<1>1. PICK m, s : m = current[x] /\ s = m.sub
  OBVIOUS
<1>2. /\ at[x] = "refilling" /\ outbox[x] = <<>> /\ Continue(x, "idle")
      /\ UNCHANGED <<kind, producerSubs, demand, buffer, status, made, got>>
  BY DEF Refill, Ready, upstream, history
<1>3. Busy(x) /\ Alive(x) /\ m.type = "events"
  BY <1>1, <1>2 DEF Busy, Alive, IInv, Resting
<1>4. m \in Message /\ In(x, m) /\ s \in Subs
  BY <1>1, <1>3, InHandOf
<1>5. CASE MustRefill(s) /\ inFlight[s] < MaxDemand[s]
  <2>1. PICK n : n = MaxDemand[s] - inFlight[s]
    OBVIOUS
  <2>2. /\ inFlight' = [inFlight EXCEPT ![s] = MaxDemand[s]]
        /\ Sends(x, Demand(s, n))
    BY <1>1, <1>5, <2>1 DEF Refill
  <2>3. MaxDemand[s] \in Nat /\ inFlight[s] \in Nat
    BY <1>4 DEF GenStageAssumption, IInv, TypeOK
  <2>4. n \in Nat /\ MaxDemand[s] = inFlight[s] + n
    BY <1>5, <2>1, <2>3
  <2>5. inFlight' = [inFlight EXCEPT ![s] = inFlight[s] + n]
    BY <2>2, <2>4
  <2> QED
    BY <1>1, <1>2, <1>3, <1>4, <2>2, <2>4, <2>5, AskKeeps
<1>6. CASE ~(MustRefill(s) /\ inFlight[s] < MaxDemand[s])
  <2>1. UNCHANGED <<inFlight, outbox>>
    BY <1>1, <1>6 DEF Refill
  <2> QED
    BY <1>2, <1>3, <2>1, DoneKeeps
<1> QED
  BY <1>5, <1>6

(* handle_demand() is not asked again.                                       *)
LEMMA ProduceEndsKeeps ==
  ASSUME GenStageAssumption, IInv, NEW x \in Stages, ProduceEnds(x)
  PROVE  IInv'
<1>1. /\ at[x] = "producing" /\ Continue(x, "idle")
      /\ UNCHANGED <<kind, outbox, producerSubs, demand, buffer, status, inFlight, made, got>>
  BY DEF ProduceEnds, Ready, upstream, history
<1>2. Alive(x)
  BY <1>1 DEF Alive
<1> QED
  BY <1>1, <1>2, DoneKeeps

(* Events are handled: they are not in flight any more.                      *)
LEMMA DoEventsKeeps ==
  ASSUME GenStageAssumption, IInv, NEW x \in Stages, DoEvents(x)
  PROVE  IInv'
<1>1. PICK m, s, n : m = current[x] /\ s = m.sub /\ n = Len(m.events)
  OBVIOUS
<1>2. /\ at[x] = "handling" /\ m.type = "events"
      /\ UNCHANGED <<kind, outbox, producerSubs, demand, buffer, status, made>>
  BY <1>1 DEF DoEvents, Handling, upstream
<1>3. Busy(x) /\ Alive(x)
  BY <1>2 DEF Busy, Alive
<1>4. m \in Message /\ In(x, m) /\ s \in Subs /\ Down[s] = x /\ n \in Nat /\ m.events \in Seq(Events)
  <2>1. m \in Message /\ In(x, m) /\ s \in Subs /\ Receiver(m) = x
    BY <1>1, <1>2, <1>3, InHandOf
  <2>2. m.events \in Seq(Events)
    BY <2>1 DEF Message
  <2> QED
    BY <1>1, <1>2, <2>1, <2>2 DEF Receiver
<1>5. CASE status[s] # "subscribed"
  <2>1. Continue(x, "idle") /\ UNCHANGED <<inFlight, got>>
    BY <1>1, <1>5 DEF DoEvents
  <2>2. ASSUME NEW t \in Subs, status[t] = "subscribed"
        PROVE  ~(current[x].sub = t /\ current[x].type \in {"demand", "events"})
    BY <1>1, <1>5, <2>2
  <2> QED
    BY <1>2, <1>3, <2>1, <2>2, DoneKeeps
<1>6. CASE status[s] = "subscribed"
  <2>1. /\ Continue(x, "passing")
        /\ inFlight' = [inFlight EXCEPT ![s] = IF @ > n THEN @ - n ELSE 0]
        /\ got' = [got EXCEPT ![s] = @ \o m.events]
    BY <1>1, <1>6 DEF DoEvents
  <2>2. TypeOK /\ StockTypes
    BY Types DEF IInv
  <2>3. /\ TaskTypes' /\ Resting' /\ Came
        /\ \A z \in Stages : Alive(z)' <=> Alive(z)
        /\ Uses(x, m)
    BY <1>1, <1>2, <1>3, <2>1, Handled
  <2>4. /\ inFlight' \in [Subs -> Nat]
        /\ inFlight[s] \in Nat /\ inFlight'[s] = IF inFlight[s] > n THEN inFlight[s] - n ELSE 0
        /\ \A t \in Subs : t # s => inFlight'[t] = inFlight[t]
    <3>1. inFlight \in [Subs -> Nat]
      BY <2>2 DEF StockTypes
    <3>2. PICK k : k = IF inFlight[s] > n THEN inFlight[s] - n ELSE 0
      OBVIOUS
    <3>3. k \in Nat /\ inFlight' = [inFlight EXCEPT ![s] = k]
      BY <1>4, <2>1, <3>1, <3>2
    <3> QED
      BY <1>4, <3>1, <3>2, <3>3
  <2>5. got' \in [Subs -> Seq(Events)]
    <3>1. PICK q \in Seq(Events) : q = got[s]
      BY <1>4, <2>2 DEF StockTypes
    <3>2. PICK r \in Seq(Events) : r = q \o m.events
      BY <1>4, ConcatProperties
    <3>3. got' = [got EXCEPT ![s] = r]
      BY <2>1, <3>1, <3>2
    <3> QED
      BY <2>2, <3>3 DEF StockTypes
  <2>6. TypeOK'
    <3>1. StockTypes'
      BY <1>2, <2>2, <2>4, <2>5 DEF StockTypes
    <3> QED
      BY <2>3, <3>1, Types
  <2>7. Went /\ Onward
    BY <1>2 DEF Went, Onward, Out
  <2>8. Subscribed' /\ Begins' /\ \A t \in Subs : Known(t)' <=> Known(t)
    <3>1. ASSUME NEW t \in Subs PROVE Requests(t)' <= Requests(t)
      BY <1>4, <2>3, <2>6, HandlerAsksNobody
    <3> QED
      BY <1>2, <2>6, <2>7, <3>1, NothingBegins
  <2>9. Known(s)
    BY <1>1, <1>2, <1>4, <1>6 DEF IInv, Fresh, Untouched, Flows
  <2>10. Stays
    BY <1>2, <2>4, <2>8, <2>9 DEF Stays
  <2>11. Balanced'
    <3>1. ASSUME NEW t \in Subs, status'[t] = "subscribed", Alive(Up[t])', Alive(Down[t])'
          PROVE  inFlight'[t] = Owed(t)'
      <4>1. /\ Up[t] \in Stages /\ Down[t] \in Stages
            /\ Asks(t) \in [Message -> Nat] /\ Carries(t) \in [Message -> Nat]
        BY Weights DEF GenStageAssumption
      <4>2. inFlight[t] = Owed(t)
        BY <1>2, <2>3, <3>1, <4>1 DEF IInv, Balanced
      <4>3. CASE t # s
        <5>1. ~(m.sub = t /\ m.type \in {"demand", "events"})
          BY <1>1, <4>3
        <5>2. \A w \in {Asks(t), Carries(t)}, z \in Stages : Sum(outbox'[z], w) = Sum(outbox[z], w)
          BY <1>2
        <5>3. UNCHANGED demand[t]
          BY <1>2
        <5>4. Owed(t)' = Owed(t)
          BY <1>4, <2>3, <2>6, <5>1, <5>2, <5>3, HandlerOwes
        <5> QED
          BY <2>4, <4>2, <4>3, <5>4
      <4>4. CASE t = s
        <5>1. PICK a, c : a = Asks(s) /\ c = Carries(s)
          OBVIOUS
        <5>2. /\ a \in [Message -> Nat] /\ c \in [Message -> Nat] /\ a[m] = 0 /\ c[m] = n
              /\ Up[s] \in Stages /\ Down[s] \in Stages
          BY <1>1, <1>2, <1>4, <4>1, <4>4, <5>1, Weigh
        <5>3. /\ Load(Up[s], a) \in Nat /\ Load(Up[s], a)' \in Nat
              /\ Load(Down[s], c) \in Nat /\ Load(Down[s], c)' \in Nat
              /\ Sum(outbox[Down[s]], a) \in Nat /\ Sum(outbox[Up[s]], c) \in Nat
              /\ demand[s] \in Nat
          <6>1. demand[s] \in Nat
            BY <1>4, <2>2 DEF StockTypes
          <6> QED
            BY <2>2, <2>6, <5>2, <6>1, AllNat, AllNatNext
        <5>4. Load(Up[s], a)' = Load(Up[s], a)
          <6>1. \/ Load(Up[s], a)' = Load(Up[s], a)
                \/ Load(Up[s], a) = Load(Up[s], a)' + a[m]
            BY <2>3, <5>2 DEF Uses
          <6> QED
            BY <5>2, <5>3, <6>1
        <5>5. Load(Down[s], c) = Load(Down[s], c)' + n
          BY <1>4, <2>3, <5>2 DEF Uses
        <5>6. Owed(s)' = demand[s] + Load(Up[s], a)' + Sum(outbox[Down[s]], a)
                                   + Load(Down[s], c)' + Sum(outbox[Up[s]], c)
          BY <1>2, <5>1 DEF Owed, Asks, Carries
        <5>7. Owed(s) = demand[s] + Load(Up[s], a) + Sum(outbox[Down[s]], a)
                                  + Load(Down[s], c) + Sum(outbox[Up[s]], c)
          BY <5>1 DEF Owed
        <5>8. Owed(s) = Owed(s)' + n /\ Owed(s)' \in Nat
          <6>1. PICK b, d, e, f, g : /\ b = demand[s] /\ d = Load(Up[s], a)
                                     /\ e = Sum(outbox[Down[s]], a) /\ f = Sum(outbox[Up[s]], c)
                                     /\ g = Load(Down[s], c)'
            OBVIOUS
          <6>2. b \in Nat /\ d \in Nat /\ e \in Nat /\ f \in Nat /\ g \in Nat
            BY <5>3, <6>1
          <6>3. Owed(s)' = b + d + e + g + f
            BY <5>4, <5>6, <6>1
          <6>4. Owed(s) = b + d + e + (g + n) + f
            BY <5>5, <5>7, <6>1
          <6> QED
            BY <1>4, <6>2, <6>3, <6>4
        <5>9. inFlight'[s] = IF inFlight[s] > n THEN inFlight[s] - n ELSE 0
          BY <2>4
        <5> QED
          BY <1>4, <2>4, <4>2, <4>4, <5>8, <5>9
      <4> QED
        BY <4>3, <4>4
    <3> QED
      BY <3>1 DEF Balanced
  <2> QED
    BY <2>3, <2>6, <2>7, <2>8, <2>10, <2>11, Together
<1> QED
  BY <1>5, <1>6

-----------------------------------------------------------------------------
(* The producer's handlers *)

(* The producer adds the subscription to its list, and acknowledges it.      *)
LEMMA DoSubscribeKeeps ==
  ASSUME GenStageAssumption, IInv, NEW x \in Stages, DoSubscribe(x)
  PROVE  IInv'
<1>1. PICK m, s : m = current[x] /\ s = m.sub
  OBVIOUS
<1>2. /\ at[x] = "handling" /\ m.type = "subscribe" /\ Continue(x, "flushing")
      /\ producerSubs' = [producerSubs EXCEPT ![x] = Append(@, s)]
      /\ demand' = [demand EXCEPT ![s] = 0] /\ Sends(x, Signal("ack", s))
      /\ UNCHANGED <<kind, buffer, status, inFlight, made, got>>
  BY <1>1 DEF DoSubscribe, Handling, history
<1>3. Busy(x) /\ Alive(x) /\ outbox[x] = <<>>
  BY <1>2 DEF Busy, Alive, IInv, Resting
<1>4. m \in Message /\ In(x, m) /\ s \in Subs /\ Up[s] = x
  BY <1>1, <1>2, <1>3, InHandOf DEF Receiver
<1>5. TypeOK /\ StockTypes
  BY Types DEF IInv
<1>6. PICK r \in Message : r = Signal("ack", s) /\ r.type = "ack" /\ r.sub = s
  BY <1>4, MessagesAre
<1>7. /\ outbox' \in [Stages -> Seq(Message)]
      /\ \A z \in Stages : z # x => outbox'[z] = outbox[z]
      /\ \A z \in Stages, k \in Message : Out(z, k)' => Out(z, k) \/ (z = x /\ k = r)
      /\ \A w \in [Message -> Nat] : Sum(outbox'[x], w) = w[r] /\ Sum(outbox[x], w) = 0
  <2>1. Sends(x, r)
    BY <1>2, <1>6
  <2>2. StockTypes /\ x \in Stages /\ r \in Message /\ outbox[x] = <<>>
    BY <1>3, <1>5
  <2> QED
    BY ONLY <2>1, <2>2, OutboxOne
<1>8. /\ TaskTypes' /\ Resting' /\ Came /\ Uses(x, m)
      /\ \A z \in Stages : Alive(z)' <=> Alive(z)
  BY <1>1, <1>2, <1>3, <1>7, Handled
<1>9. PICK p, q : p \in Seq(Subs) /\ p = producerSubs[x] /\ q = Append(p, s) /\ Longer(q, p, s, Subs)
  BY <1>4, <1>5 DEF StockTypes, Longer
<1>10. /\ q \in Seq(Subs) /\ Len(p) \in Nat
       /\ \A n \in DOMAIN p : n \in DOMAIN q /\ q[n] = p[n] /\ n # Len(p) + 1
       /\ Len(p) + 1 \in DOMAIN q /\ q[Len(p) + 1] = s
       /\ \A n \in DOMAIN q : n \in DOMAIN p \/ n = Len(p) + 1
  <2>1. Longer(q, p, s, Subs)
    BY <1>9
  <2> QED
    BY ONLY <2>1, LongerIs
<1>11. /\ producerSubs' \in [Stages -> Seq(Subs)] /\ producerSubs'[x] = q
       /\ \A z \in Stages : z # x => producerSubs'[z] = producerSubs[z]
  <2>1. producerSubs' = [producerSubs EXCEPT ![x] = q] /\ producerSubs \in [Stages -> Seq(Subs)]
    BY <1>2, <1>5, <1>9 DEF StockTypes
  <2> QED
    BY <1>10, <2>1
<1>12. /\ demand' \in [Subs -> Nat] /\ demand'[s] = 0
       /\ \A t \in Subs : t # s => demand'[t] = demand[t]
  BY <1>2, <1>4, <1>5 DEF StockTypes
<1>13. TypeOK'
  <2>1. StockTypes'
    BY <1>2, <1>5, <1>7, <1>11, <1>12 DEF StockTypes
  <2> QED
    BY <1>8, <2>1, Types
<1>14. Onward
  BY <1>2 DEF Onward
<1>15. ASSUME NEW t \in Subs PROVE Known(t)' <=> Known(t) \/ t = s
  <2>1. CASE Up[t] = x
    <3>1. Known(t) <=> \E n \in DOMAIN p : p[n] = t
      BY <1>9, <2>1 DEF Known, Subscribers, ToSet
    <3>2. Known(t)' <=> \E n \in DOMAIN q : q[n] = t
      BY <1>11, <2>1 DEF Known, Subscribers, ToSet
    <3> QED
      BY <1>10, <3>1, <3>2
  <2>2. CASE Up[t] # x
    <3>1. Up[t] \in Stages
      BY DEF GenStageAssumption
    <3>2. Known(t)' <=> Known(t)
      BY <1>11, <2>2, <3>1 DEF Known, Subscribers
    <3> QED
      BY <1>4, <2>2, <3>2
  <2> QED
    BY <2>1, <2>2
<1>16. ASSUME NEW t \in Subs
       PROVE  /\ Requests(t) \in Nat /\ Requests(t)' \in Nat
              /\ Requests(t) = Requests(t)' + (IF t = s THEN 1 ELSE 0)
  <2>1. /\ Up[t] \in Stages /\ One(t) \in [Message -> Nat]
        /\ One(t)[m] = IF t = s THEN 1 ELSE 0
    BY <1>1, <1>2, <1>4, Weights, Weigh DEF GenStageAssumption
  <2>2. Load(Up[t], One(t)) \in Nat /\ Load(Up[t], One(t))' \in Nat
    BY <1>5, <1>13, <2>1, AllNat, AllNatNext
  <2>3. Load(Up[t], One(t)) = Load(Up[t], One(t))' + (IF t = s THEN 1 ELSE 0)
    <3>1. CASE t = s
      <4>1. Load(Up[t], One(t)) = Load(Up[t], One(t))' + One(t)[m]
        BY <1>4, <1>8, <2>1, <3>1 DEF Uses
      <4> QED
        BY <2>1, <3>1, <4>1
    <3>2. CASE t # s
      <4>1. \/ Load(Up[t], One(t)) = Load(Up[t], One(t))' + One(t)[m]
            \/ Load(Up[t], One(t)) = Load(Up[t], One(t))'
        BY <1>8, <2>1 DEF Uses
      <4> QED
        BY <2>1, <2>2, <3>2, <4>1
    <3> QED
      BY <3>1, <3>2
  <2> QED
    BY <2>2, <2>3 DEF Requests, One
<1>17. /\ Requests(s) = 1 /\ Requests(s)' = 0 /\ status[s] # "new" /\ ~Known(s)
  <2>1. /\ Requests(s) <= 1 /\ (Requests(s) = 1 => status[s] # "new" /\ ~Known(s))
    BY <1>4 DEF IInv, Begins
  <2>2. /\ Requests(s) \in Nat /\ Requests(s)' \in Nat /\ Requests(s) = Requests(s)' + 1
    BY <1>4, <1>16
  <2> QED
    BY <2>1, <2>2
<1>18. Subscribed'
  <2>1. \A n \in DOMAIN p : p[n] # s
    BY <1>4, <1>9, <1>17 DEF Known, Subscribers, ToSet
  <2>2. Distinct(p) /\ \A n \in DOMAIN p : Up[p[n]] = x
    BY <1>9 DEF IInv, Subscribed
  <2>3. Distinct(q)
    BY <1>10, <2>1, <2>2 DEF Distinct
  <2>4. \A n \in DOMAIN q : Up[q[n]] = x
    BY <1>4, <1>10, <2>2
  <2>5. ASSUME NEW z \in Stages
        PROVE  /\ Distinct(producerSubs'[z])
               /\ \A n \in DOMAIN producerSubs'[z] : Up[producerSubs'[z][n]] = z
    <3>1. CASE z = x
      BY <1>11, <2>3, <2>4, <3>1
    <3>2. CASE z # x
      BY <1>11, <3>2 DEF IInv, Subscribed
    <3> QED
      BY <3>1, <3>2
  <2> QED
    BY <2>5 DEF Subscribed, Distinct
<1>19. Begins'
  <2>1. ASSUME NEW t \in Subs
        PROVE  /\ Requests(t)' <= 1
               /\ Requests(t)' = 1 => status'[t] # "new" /\ ~Known(t)'
               /\ Known(t)' => status'[t] # "new"
    <3>1. CASE t = s
      BY <1>2, <1>17, <3>1
    <3>2. CASE t # s
      <4>1. Requests(t)' = Requests(t)
        BY <1>16, <3>2
      <4> QED
        BY <1>2, <1>15, <3>2, <4>1 DEF IInv, Begins
    <3> QED
      BY <3>1, <3>2
  <2> QED
    BY <2>1 DEF Begins
<1>20. Went
  <2>1. Prepares(x, r)
    BY <1>4, <1>6, <1>15 DEF Prepares, Flows, Sender
  <2> QED
    BY <1>7, <2>1 DEF Went
<1>21. Stays
  BY <1>2, <1>12, <1>15 DEF Stays
<1>22. Balanced'
  <2>1. ASSUME NEW t \in Subs, status'[t] = "subscribed", Alive(Up[t])', Alive(Down[t])'
        PROVE  inFlight'[t] = Owed(t)'
    <3>1. /\ Up[t] \in Stages /\ Down[t] \in Stages
          /\ Asks(t) \in [Message -> Nat] /\ Carries(t) \in [Message -> Nat]
      BY Weights DEF GenStageAssumption
    <3>2. inFlight[t] = Owed(t)
      BY <1>2, <1>8, <2>1, <3>1 DEF IInv, Balanced
    <3>3. demand'[t] = demand[t]
      <4>1. t = s => demand[s] = 0
        BY <1>2, <1>4, <1>17, <2>1, NothingOwed
      <4> QED
        BY <1>12, <4>1
    <3>4. Asks(t)[r] = 0 /\ Carries(t)[r] = 0
      BY <1>6, Weigh
    <3>5. \A w \in {Asks(t), Carries(t)}, z \in Stages : Sum(outbox'[z], w) = Sum(outbox[z], w)
      BY <1>7, <3>1, <3>4
    <3>6. Owed(t)' = Owed(t)
      <4>1. ~(m.sub = t /\ m.type \in {"demand", "events"})
        BY <1>2
      <4> QED
        BY <1>4, <1>8, <1>13, <3>3, <3>5, <4>1, HandlerOwes
    <3> QED
      BY <1>2, <3>2, <3>6
  <2> QED
    BY <2>1 DEF Balanced
<1> QED
  BY <1>8, <1>13, <1>14, <1>18, <1>19, <1>20, <1>21, <1>22, Together

(* The producer drops a subscription that its consumer has forgotten.        *)
LEMMA DoCancelKeeps ==
  ASSUME GenStageAssumption, IInv, NEW x \in Stages, DoCancel(x)
  PROVE  IInv'
<1>1. PICK m, s : m = current[x] /\ s = m.sub
  OBVIOUS
<1>2. /\ at[x] = "handling" /\ m.type = "cancel" /\ Continue(x, "idle")
      /\ producerSubs' = [producerSubs EXCEPT ![x] = Keep(@, Subs \ {s})]
      /\ demand' = [demand EXCEPT ![s] = 0]
      /\ UNCHANGED <<kind, outbox, buffer, status, inFlight, made, got>>
  BY <1>1 DEF DoCancel, Handling, history
<1>3. Busy(x) /\ Alive(x)
  BY <1>2 DEF Busy, Alive
<1>4. m \in Message /\ In(x, m) /\ s \in Subs /\ Up[s] = x
  BY <1>1, <1>2, <1>3, InHandOf DEF Receiver
<1>5. TypeOK /\ StockTypes /\ status[s] = "cancelled"
  BY <1>1, <1>2, <1>4, Types DEF IInv, Cancels
<1>6. /\ TaskTypes' /\ Resting' /\ Came /\ Uses(x, m)
      /\ \A z \in Stages : Alive(z)' <=> Alive(z)
  BY <1>1, <1>2, <1>3, Handled
<1>7. PICK p, q : p \in Seq(Subs) /\ p = producerSubs[x] /\ q = Keep(p, Subs \ {s})
  BY <1>5 DEF StockTypes
<1>8. /\ q \in Seq(Subs)
      /\ \A n \in DOMAIN q : q[n] \in Subs \ {s} /\ \E k \in DOMAIN p : p[k] = q[n]
      /\ \A k \in DOMAIN p : p[k] \in Subs \ {s} => \E n \in DOMAIN q : q[n] = p[k]
      /\ Distinct(p) => Distinct(q)
  <2>1. PICK S : S = Subs \ {s}
    OBVIOUS
  <2>2. /\ Keep(p, S) \in Seq(Subs)
        /\ \A n \in DOMAIN Keep(p, S) : Keep(p, S)[n] \in S /\ \E k \in DOMAIN p : p[k] = Keep(p, S)[n]
        /\ \A k \in DOMAIN p : p[k] \in S => \E n \in DOMAIN Keep(p, S) : Keep(p, S)[n] = p[k]
        /\ Distinct(p) => Distinct(Keep(p, S))
    <3>1. p \in Seq(Subs)
      BY <1>7
    <3> QED
      BY ONLY <3>1, KeptElements
  <2>3. q = Keep(p, S)
    BY <1>7, <2>1
  <2>4. /\ q \in Seq(Subs)
        /\ \A n \in DOMAIN q : q[n] \in S /\ \E k \in DOMAIN p : p[k] = q[n]
        /\ \A k \in DOMAIN p : p[k] \in S => \E n \in DOMAIN q : q[n] = p[k]
        /\ Distinct(p) => Distinct(q)
    BY ONLY <2>2, <2>3, Zenon
  <2> QED
    BY <2>1, <2>4
<1>9. /\ producerSubs' \in [Stages -> Seq(Subs)] /\ producerSubs'[x] = q
      /\ \A z \in Stages : z # x => producerSubs'[z] = producerSubs[z]
  <2>1. producerSubs' = [producerSubs EXCEPT ![x] = q] /\ producerSubs \in [Stages -> Seq(Subs)]
    BY <1>2, <1>5, <1>7 DEF StockTypes
  <2> QED
    BY <1>8, <2>1
<1>10. /\ demand' \in [Subs -> Nat]
       /\ \A t \in Subs : t # s => demand'[t] = demand[t]
  BY <1>2, <1>4, <1>5 DEF StockTypes
<1>11. TypeOK'
  <2>1. StockTypes'
    BY <1>2, <1>5, <1>9, <1>10 DEF StockTypes
  <2> QED
    BY <1>6, <2>1, Types
<1>12. Onward /\ Went
  BY <1>2 DEF Onward, Went, Out
<1>13. ASSUME NEW t \in Subs PROVE Known(t)' <=> Known(t) /\ t # s
  <2>1. CASE Up[t] = x
    <3>1. Known(t) <=> \E n \in DOMAIN p : p[n] = t
      BY <1>7, <2>1 DEF Known, Subscribers, ToSet
    <3>2. Known(t)' <=> \E n \in DOMAIN q : q[n] = t
      BY <1>9, <2>1 DEF Known, Subscribers, ToSet
    <3>3. Known(t)' => Known(t) /\ t # s
      BY <1>8, <3>1, <3>2
    <3>4. Known(t) /\ t # s => Known(t)'
      BY <1>8, <3>1, <3>2
    <3> QED
      BY <3>3, <3>4
  <2>2. CASE Up[t] # x
    <3>1. Up[t] \in Stages
      BY DEF GenStageAssumption
    <3>2. Known(t)' <=> Known(t)
      BY <1>9, <2>2, <3>1 DEF Known, Subscribers
    <3> QED
      BY <1>4, <2>2, <3>2
  <2> QED
    BY <2>1, <2>2
<1>14. Subscribed'
  <2>1. Distinct(q) /\ \A n \in DOMAIN q : Up[q[n]] = x
    <3>1. Distinct(p) /\ \A n \in DOMAIN p : Up[p[n]] = x
      BY <1>7 DEF IInv, Subscribed
    <3> QED
      BY <1>8, <3>1
  <2>2. ASSUME NEW z \in Stages
        PROVE  /\ Distinct(producerSubs'[z])
               /\ \A n \in DOMAIN producerSubs'[z] : Up[producerSubs'[z][n]] = z
    <3>1. CASE z = x
      BY <1>9, <2>1, <3>1
    <3>2. CASE z # x
      BY <1>9, <3>2 DEF IInv, Subscribed
    <3> QED
      BY <3>1, <3>2
  <2> QED
    BY <2>2 DEF Subscribed, Distinct
<1>15. Begins'
  <2>1. ASSUME NEW t \in Subs
        PROVE  /\ Requests(t)' <= 1
               /\ Requests(t)' = 1 => status'[t] # "new" /\ ~Known(t)'
               /\ Known(t)' => status'[t] # "new"
    <3>1. Up[t] \in Stages /\ One(t) \in [Message -> Nat]
      BY Weights DEF GenStageAssumption
    <3>2. Requests(t) \in Nat
      BY <1>5, <3>1, AllNat DEF Requests
    <3>3. Requests(t)' \in Nat
      BY <1>11, <3>1, AllNatNext DEF Requests, One
    <3>4. Requests(t)' <= Requests(t)
      BY <1>4, <1>6, <1>11, HandlerAsksNobody
    <3>5. /\ Requests(t) <= 1 /\ (Requests(t) = 1 => status[t] # "new" /\ ~Known(t))
          /\ (Known(t) => status[t] # "new")
      BY DEF IInv, Begins
    <3>6. Requests(t)' <= 1 /\ (Requests(t)' = 1 => Requests(t) = 1)
      BY <3>2, <3>3, <3>4, <3>5
    <3> QED
      BY <1>2, <1>13, <3>5, <3>6
  <2> QED
    BY <2>1 DEF Begins
<1>16. Stays
  <2>1. ASSUME NEW t \in Subs, status'[t] \in {"new", "subscribed"}, ~Known(t)'
        PROVE  ~Known(t) /\ demand'[t] = demand[t] /\ inFlight'[t] = inFlight[t]
    <3>1. t # s
      BY <1>2, <1>5, <2>1
    <3> QED
      BY <1>2, <1>10, <1>13, <2>1, <3>1
  <2> QED
    BY <2>1 DEF Stays
<1>17. Balanced'
  <2>1. ASSUME NEW t \in Subs, status'[t] = "subscribed", Alive(Up[t])', Alive(Down[t])'
        PROVE  inFlight'[t] = Owed(t)'
    <3>1. /\ Up[t] \in Stages /\ Down[t] \in Stages
      BY DEF GenStageAssumption
    <3>2. inFlight[t] = Owed(t) /\ t # s
      BY <1>2, <1>5, <1>6, <2>1, <3>1 DEF IInv, Balanced
    <3>3. Owed(t)' = Owed(t)
      <4>1. ~(m.sub = t /\ m.type \in {"demand", "events"})
        BY <1>2
      <4>2. UNCHANGED demand[t]
        BY <1>10, <3>2
      <4>3. \A w \in {Asks(t), Carries(t)}, z \in Stages : Sum(outbox'[z], w) = Sum(outbox[z], w)
        BY <1>2
      <4> QED
        BY <1>4, <1>6, <1>11, <4>1, <4>2, <4>3, HandlerOwes
    <3> QED
      BY <1>2, <3>2, <3>3
  <2> QED
    BY <2>1 DEF Balanced
<1> QED
  BY <1>6, <1>11, <1>12, <1>14, <1>15, <1>16, <1>17, Together

(* The demand d that is dispatched: there is more than before if the message *)
(* in hand asks for it.                                                      *)
WithDemand(x, m, d) ==
    /\ Same \/ (Uses(x, m) /\ m.type = "demand")
    /\ \A s \in Subs : /\ Same \/ m.sub # s => d[s] = demand[s]
                       /\ ~Same /\ m.sub = s => d[s] = demand[s] + m.count /\ Up[s] = x /\ Known(s)

(* A producer dispatches events: what it owes is now on its way.             *)
LEMMA DispatchKeeps ==
  ASSUME GenStageAssumption, IInv, NEW x \in Stages, Alive(x), outbox[x] = <<>>,
         NEW d \in [Subs -> Nat], NEW buf \in Seq(Events), NEW evs \in Seq(Events),
         Dispatch(x, d, buf, evs),
         UNCHANGED <<kind, producerSubs, status, inFlight, got>>, made' \in 0..MaxEvents,
         TaskTypes', Resting', Came, \A z \in Stages : Alive(z)' <=> Alive(z),
         NEW m \in Message, WithDemand(x, m, d)
  PROVE  IInv'
<1>0. /\ Same \/ Uses(x, m)
      /\ ~Same => m.type = "demand"
      /\ \A s \in Subs : /\ Same \/ m.sub # s => d[s] = demand[s]
                         /\ ~Same /\ m.sub = s => d[s] = demand[s] + m.count /\ Up[s] = x /\ Known(s)
  BY DEF WithDemand
<1>1. TypeOK /\ StockTypes /\ producerSubs[x] \in Seq(Subs) /\ Distinct(producerSubs[x])
  BY Types DEF IInv, StockTypes, Subscribed
<1>2. /\ demand' \in [Subs -> Nat] /\ buffer' \in [Stages -> Seq(Events)]
      /\ outbox' \in [Stages -> Seq(Message)]
      /\ \A y \in Stages \ {x} : outbox'[y] = outbox[y]
      /\ \A n \in DOMAIN outbox'[x] :
            outbox'[x][n].type = "events" /\ Gives(x, outbox'[x][n].sub)
      /\ \A s \in Subs : /\ demand'[s] + Sum(outbox'[x], Carries(s)) = d[s]
                         /\ ~Gives(x, s) => demand'[s] = d[s]
  <2>1. outbox \in [Stages -> Seq(Message)] /\ buffer \in [Stages -> Seq(Events)] /\ kind \in Kinds
    BY <1>1 DEF StockTypes
  <2>2. d \in [Subs -> Nat] /\ buf \in Seq(Events) /\ evs \in Seq(Events) /\ x \in Stages
    OBVIOUS
  <2> QED
    BY ONLY <1>1, <2>1, <2>2, GenStageAssumption, Dispatch(x, d, buf, evs), Dispatches
<1>3. TypeOK'
  <2>1. StockTypes'
    BY <1>1, <1>2 DEF StockTypes
  <2> QED
    BY <2>1, Types
<1>4. Onward
  BY DEF Onward
<1>5. Subscribed' /\ Begins' /\ \A s \in Subs : Known(s)' <=> Known(s)
  <2>1. ASSUME NEW s \in Subs PROVE Requests(s)' <= Requests(s)
    BY <1>0, <1>3, HandlerAsksNobody
  <2> QED
    BY <1>3, <1>4, <2>1, NothingBegins
<1>6. ASSUME NEW s, Gives(x, s) PROVE s \in Subs /\ Up[s] = x /\ Known(s)
  <2>1. PICK n \in DOMAIN producerSubs[x] : producerSubs[x][n] = s
    BY <1>6 DEF Gives, Subscribers, ToSet
  <2>2. s \in Subs /\ Up[s] = x
    BY <1>1, <2>1 DEF IInv, Subscribed
  <2> QED
    BY <1>6, <2>2 DEF Gives, Known
<1>7. Went
  <2>1. ASSUME NEW z \in Stages, NEW k \in Message, Out(z, k)' PROVE Out(z, k) \/ Prepares(z, k)
    <3>1. CASE z = x
      <4>1. k.type = "events" /\ Gives(x, k.sub)
        BY <1>2, <2>1, <3>1 DEF Out
      <4>2. k.sub \in Subs /\ Up[k.sub] = x /\ Known(k.sub)'
        BY <1>5, <1>6, <4>1
      <4> QED
        BY <3>1, <4>1, <4>2 DEF Prepares, Flows, Sender
    <3>2. CASE z # x
      BY <1>2, <2>1, <3>2 DEF Out
    <3> QED
      BY <3>1, <3>2
  <2> QED
    BY <2>1 DEF Went
<1>8. Stays
  <2>1. ASSUME NEW s \in Subs, ~Known(s)'
        PROVE  ~Known(s) /\ demand'[s] = demand[s] /\ inFlight'[s] = inFlight[s]
    <3>1. ~Known(s) /\ ~Gives(x, s)
      BY <1>5, <1>6, <2>1
    <3>2. demand'[s] = d[s]
      BY <1>2, <3>1
    <3>3. d[s] = demand[s]
      BY <1>0, <3>1
    <3> QED
      BY <3>1, <3>2, <3>3
  <2> QED
    BY <2>1 DEF Stays
<1>9. Balanced'
  <2>1. ASSUME NEW s \in Subs, status'[s] = "subscribed", Alive(Up[s])', Alive(Down[s])'
        PROVE  inFlight'[s] = Owed(s)'
    <3>1. PICK a, c : a = Asks(s) /\ c = Carries(s)
      OBVIOUS
    <3>2. /\ Up[s] \in Stages /\ Down[s] \in Stages
          /\ a \in [Message -> Nat] /\ c \in [Message -> Nat]
      BY <3>1, Weights DEF GenStageAssumption
    <3>3. inFlight[s] = Owed(s)
      BY <2>1, <3>2 DEF IInv, Balanced
    <3>4. /\ Load(Up[s], a) \in Nat /\ Load(Up[s], a)' \in Nat
          /\ Load(Down[s], c) \in Nat /\ Load(Down[s], c)' \in Nat
          /\ Sum(outbox[Down[s]], a) \in Nat /\ Sum(outbox[Up[s]], c) \in Nat
          /\ Sum(outbox'[Up[s]], c) \in Nat
      BY <1>1, <1>3, <3>2, AllNat, AllNatNext
    <3>5. demand[s] \in Nat /\ demand'[s] \in Nat /\ d[s] \in Nat
      BY <1>1, <1>2 DEF StockTypes
    <3>6. Sum(outbox'[Down[s]], a) = Sum(outbox[Down[s]], a)
      <4>1. CASE Down[s] = x
        <5>1. PICK q : q = outbox'[x]
          OBVIOUS
        <5>2. q \in Seq(Message)
          BY <1>2, <5>1
        <5>3. \A n \in DOMAIN q : q[n] \in Message /\ q[n].type = "events"
          <6>1. \A n \in DOMAIN q : q[n] \in Message
            BY ONLY <5>2
          <6>2. \A n \in DOMAIN q : q[n].type = "events"
            BY <1>2, <5>1
          <6> QED
            BY ONLY <6>1, <6>2
        <5>4. \A n \in DOMAIN q : a[q[n]] = 0
          BY <3>1, <5>3, Weigh
        <5>5. Sum(q, a) = 0
          BY ONLY <3>2, <5>2, <5>4, SumOfNothing
        <5>6. Sum(outbox[x], a) = 0
          BY <3>2, SumOfNone
        <5> QED
          BY <4>1, <5>1, <5>5, <5>6
      <4>2. CASE Down[s] # x
        BY <1>2, <3>2, <4>2
      <4> QED
        BY <4>1, <4>2
    <3>7. demand'[s] + Sum(outbox'[Up[s]], c) = d[s] + Sum(outbox[Up[s]], c)
      <4>1. CASE Up[s] = x
        <5>1. demand'[s] + Sum(outbox'[x], c) = d[s]
          BY <1>2, <3>1
        <5>2. Sum(outbox[x], c) = 0
          BY <3>2, SumOfNone
        <5> QED
          BY <3>5, <4>1, <5>1, <5>2
      <4>2. CASE Up[s] # x
        <5>1. ~Gives(x, s)
          BY <1>6, <4>2
        <5>2. demand'[s] = d[s]
          BY <1>2, <5>1
        <5>3. outbox'[Up[s]] = outbox[Up[s]]
          BY <1>2, <3>2, <4>2
        <5> QED
          BY <5>2, <5>3
      <4> QED
        BY <4>1, <4>2
    <3>8. /\ d[s] + Load(Up[s], a)' = demand[s] + Load(Up[s], a)
          /\ Load(Down[s], c)' = Load(Down[s], c)
      <4>1. CASE Same
        <5>1. Load(Up[s], a)' = Load(Up[s], a) /\ Load(Down[s], c)' = Load(Down[s], c)
          BY <3>2, <4>1 DEF Same
        <5>2. d[s] = demand[s]
          BY <1>0, <4>1
        <5> QED
          BY <5>1, <5>2
      <4>2. CASE ~Same
        <5>1. Uses(x, m) /\ m.type = "demand"
          BY <1>0, <4>2
        <5>2. c[m] = 0 /\ a[m] = IF m.sub = s THEN m.count ELSE 0
          BY <3>1, <5>1, Weigh
        <5>3. Load(Down[s], c)' = Load(Down[s], c)
          <6>1. \/ Load(Down[s], c)' = Load(Down[s], c)
                \/ Load(Down[s], c) = Load(Down[s], c)' + c[m]
            BY <3>2, <5>1 DEF Uses
          <6> QED
            BY <3>4, <5>2, <6>1
        <5>4. CASE m.sub = s
          <6>1. d[s] = demand[s] + m.count /\ Up[s] = x
            BY <1>0, <4>2, <5>4
          <6>2. Load(Up[s], a) = Load(Up[s], a)' + m.count
            BY <3>2, <5>1, <5>2, <5>4, <6>1 DEF Uses
          <6>3. m.count \in Nat
            BY DEF Message
          <6>4. PICK e, f, g : e = demand[s] /\ f = Load(Up[s], a)' /\ g = m.count
            OBVIOUS
          <6>5. d[s] = e + g /\ Load(Up[s], a) = f + g /\ e \in Nat /\ f \in Nat /\ g \in Nat
            BY <3>4, <3>5, <6>1, <6>2, <6>3, <6>4
          <6>6. d[s] + f = e + Load(Up[s], a)
            BY ONLY <6>5
          <6> QED
            BY <5>3, <6>4, <6>6
        <5>5. CASE m.sub # s
          <6>1. d[s] = demand[s]
            BY <1>0, <5>5
          <6>2. \/ Load(Up[s], a)' = Load(Up[s], a)
                \/ Load(Up[s], a) = Load(Up[s], a)' + a[m]
            BY <3>2, <5>1 DEF Uses
          <6>3. Load(Up[s], a)' = Load(Up[s], a)
            BY <3>4, <5>2, <5>5, <6>2
          <6> QED
            BY <5>3, <6>1, <6>3
        <5> QED
          BY <5>4, <5>5
      <4> QED
        BY <4>1, <4>2
    <3>9. Owed(s)' = demand'[s] + Load(Up[s], a)' + Sum(outbox'[Down[s]], a)
                                + Load(Down[s], c)' + Sum(outbox'[Up[s]], c)
      BY <3>1 DEF Owed, Asks, Carries
    <3>10. Owed(s) = demand[s] + Load(Up[s], a) + Sum(outbox[Down[s]], a)
                               + Load(Down[s], c) + Sum(outbox[Up[s]], c)
      BY <3>1 DEF Owed
    <3>11. Owed(s)' = Owed(s)
      <4>1. PICK e, f, g, h, i, j, k, o :
                    /\ e = demand[s] /\ f = demand'[s] /\ g = Load(Up[s], a) /\ h = Load(Up[s], a)'
                    /\ i = Sum(outbox[Down[s]], a) /\ j = Load(Down[s], c)
                    /\ k = Sum(outbox[Up[s]], c) /\ o = Sum(outbox'[Up[s]], c)
        OBVIOUS
      <4>2. PICK n : n = d[s]
        OBVIOUS
      <4>3. /\ e \in Nat /\ f \in Nat /\ g \in Nat /\ h \in Nat /\ i \in Nat /\ j \in Nat
            /\ k \in Nat /\ o \in Nat /\ n \in Nat
        BY <3>4, <3>5, <4>1, <4>2
      <4>4. f + o = n + k /\ n + h = e + g
        BY <3>7, <3>8, <4>1, <4>2
      <4>5. f + h + i + j + o = e + g + i + j + k
        BY ONLY <4>3, <4>4
      <4>6. Owed(s)' = f + h + i + j + o
        BY <3>6, <3>8, <3>9, <4>1
      <4>7. Owed(s) = e + g + i + j + k
        BY <3>10, <4>1
      <4> QED
        BY ONLY <4>5, <4>6, <4>7
    <3> QED
      BY <3>3, <3>11
  <2> QED
    BY <2>1 DEF Balanced
<1> QED
  BY <1>3, <1>4, <1>5, <1>7, <1>8, <1>9, Together

(* The same with the demand there is, where the handler only goes on.        *)
LEMMA DispatchAlone ==
  ASSUME GenStageAssumption, IInv, NEW x \in Stages, Alive(x), outbox[x] = <<>>,
         NEW buf \in Seq(Events), NEW evs \in Seq(Events), Dispatch(x, demand, buf, evs),
         UNCHANGED <<kind, producerSubs, status, inFlight, got>>, made' \in 0..MaxEvents,
         at[x] # "handling", NEW place, Continue(x, place),
         place \in {"idle", "flushing", "producing", "passing", "refilling"},
         place \in {"passing", "refilling"} => Busy(x) /\ current[x].type = "events"
  PROVE  IInv'
<1>1. /\ TypeOK /\ StockTypes /\ demand \in [Subs -> Nat] /\ current[x] \in Message
      /\ producerSubs[x] \in Seq(Subs) /\ Distinct(producerSubs[x])
  BY Types DEF IInv, StockTypes, TypeOK, Subscribed
<1>2. \A z \in Stages : z # x => outbox'[z] = outbox[z]
  BY <1>1 DEF Dispatch, StockTypes
<1>3. TaskTypes' /\ Resting' /\ Came /\ Same /\ \A z \in Stages : Alive(z)' <=> Alive(z)
  BY <1>2, Handled
<1>4. WithDemand(x, current[x], demand)
  BY ONLY <1>3 DEF WithDemand
<1> QED
  BY <1>1, <1>3, <1>4, DispatchKeeps

(* The buffer is offered to a new subscription.                              *)
LEMMA FlushKeeps ==
  ASSUME GenStageAssumption, IInv, NEW x \in Stages, Flush(x)
  PROVE  IInv'
<1>1. /\ at[x] = "flushing" /\ outbox[x] = <<>> /\ Continue(x, "idle")
      /\ Dispatch(x, demand, <<>>, buffer[x])
      /\ UNCHANGED <<kind, producerSubs, status, inFlight, made, got>>
  BY DEF Flush, Ready, history
<1>2. /\ Alive(x) /\ buffer[x] \in Seq(Events) /\ <<>> \in Seq(Events) /\ made' \in 0..MaxEvents
  BY <1>1 DEF Alive, IInv, TypeOK
<1> QED
  BY <1>1, <1>2, DispatchAlone

(* What a stage in the middle was given goes on.                             *)
LEMMA PassOnKeeps ==
  ASSUME GenStageAssumption, IInv, NEW x \in Stages, PassOn(x)
  PROVE  IInv'
<1>1. /\ at[x] = "passing" /\ outbox[x] = <<>> /\ Continue(x, "refilling")
      /\ UNCHANGED <<kind, producerSubs, status, inFlight, made, got>>
  BY DEF PassOn, Ready, history
<1>2. /\ Alive(x) /\ Busy(x) /\ current[x].type = "events"
      /\ buffer[x] \in Seq(Events) /\ made' \in 0..MaxEvents /\ current[x] \in Message
  BY <1>1 DEF Alive, Busy, IInv, TypeOK, Resting
<1>3. current[x].events \in Seq(Events)
  BY <1>2 DEF Message
<1>4. CASE InTheMiddle(x)
  <2>1. Dispatch(x, demand, buffer[x], current[x].events)
    BY <1>4 DEF PassOn
  <2> QED
    BY <1>1, <1>2, <1>3, <2>1, DispatchAlone
<1>5. CASE ~InTheMiddle(x)
  <2>1. UNCHANGED <<demand, buffer, outbox>>
    BY <1>5 DEF PassOn
  <2> QED
    BY <1>1, <1>2, <2>1, DoneKeeps
<1> QED
  BY <1>4, <1>5

(* handle_demand() makes events.                                             *)
LEMMA ProduceKeeps ==
  ASSUME GenStageAssumption, IInv, NEW x \in Stages, Produce(x)
  PROVE  IInv'
<1>1. /\ at[x] = "producing" /\ outbox[x] = <<>>
      /\ UNCHANGED <<kind, at, mailbox, current, producerSubs, status, inFlight, got>>
  BY DEF Produce, Ready
<1>2. PICK n \in 1..MaxBatch : /\ made + n <= MaxEvents /\ made' = made + n
                               /\ Dispatch(x, demand, buffer[x], [k \in 1..n |-> made + k])
  BY DEF Produce
<1>3. /\ TypeOK /\ TaskTypes /\ StockTypes /\ MaxBatch \in Nat /\ MaxEvents \in Nat
  BY Types DEF IInv, GenStageAssumption
<1>4. made \in Nat /\ made' \in 0..MaxEvents /\ n \in Nat
  BY <1>2, <1>3 DEF StockTypes
<1>5. PICK evs : evs = [k \in 1..n |-> made + k]
  OBVIOUS
<1>6. evs \in Seq(Events)
  <2>1. \A k \in 1..n : made + k \in Events
    BY <1>2, <1>3, <1>4 DEF Events
  <2>2. evs \in [1..n -> Events]
    BY <1>5, <2>1
  <2> QED
    BY <1>4, <2>2
<1>7. /\ buffer[x] \in Seq(Events) /\ demand \in [Subs -> Nat] /\ current[x] \in Message
      /\ Dispatch(x, demand, buffer[x], evs) /\ Alive(x)
  BY <1>1, <1>2, <1>3, <1>5 DEF Alive, StockTypes, TaskTypes
<1>8. TaskTypes' /\ Came /\ Same /\ \A z \in Stages : Alive(z)' <=> Alive(z)
  <2>1. TaskTypes'
    BY <1>1, <1>3 DEF TaskTypes
  <2>2. Came
    BY <1>1 DEF Came, In, Busy
  <2>3. Same
    BY <1>1 DEF Same, Load
  <2>4. \A z \in Stages : Alive(z)' <=> Alive(z)
    BY <1>1 DEF Alive
  <2> QED
    BY <2>1, <2>2, <2>3, <2>4
<1>9. Resting'
  <2>1. \A z \in Stages : z # x => outbox'[z] = outbox[z]
    BY <1>3, <1>7 DEF Dispatch, StockTypes
  <2> QED
    BY <1>1, <2>1 DEF IInv, Resting
<1>10. WithDemand(x, current[x], demand)
  BY ONLY <1>8 DEF WithDemand
<1> QED
  BY <1>1, <1>4, <1>6, <1>7, <1>8, <1>9, <1>10, DispatchKeeps

(* A consumer asks for more.                                                 *)
LEMMA DoDemandKeeps ==
  ASSUME GenStageAssumption, IInv, NEW x \in Stages, DoDemand(x)
  PROVE  IInv'
<1>1. PICK m, s : m = current[x] /\ s = m.sub
  OBVIOUS
<1>2. /\ at[x] = "handling" /\ m.type = "demand"
      /\ UNCHANGED <<kind, producerSubs, status, inFlight, made, got>>
  BY <1>1 DEF DoDemand, Handling, history
<1>3. Busy(x) /\ Alive(x) /\ outbox[x] = <<>>
  BY <1>2 DEF Busy, Alive, IInv, Resting
<1>4. m \in Message /\ In(x, m) /\ s \in Subs /\ Up[s] = x /\ m.count \in Nat
  <2>1. m \in Message /\ In(x, m) /\ s \in Subs /\ Receiver(m) = x
    BY <1>1, <1>2, <1>3, InHandOf
  <2>2. m.count \in Nat
    BY <2>1 DEF Message
  <2> QED
    BY <1>1, <1>2, <2>1, <2>2 DEF Receiver
<1>5. CASE s \in Subscribers(x)
  <2>1. PICK d : d = [demand EXCEPT ![s] = demand[s] + m.count]
    OBVIOUS
  <2>2. PICK place \in {"idle", "producing"} :
           Dispatch(x, d, <<>>, buffer[x]) /\ Continue(x, place)
    BY <1>1, <1>5, <2>1 DEF DoDemand
  <2>3. /\ TypeOK /\ StockTypes /\ demand \in [Subs -> Nat] /\ buffer[x] \in Seq(Events)
        /\ <<>> \in Seq(Events) /\ made' \in 0..MaxEvents
    <3>1. TypeOK /\ StockTypes
      BY Types DEF IInv
    <3>2. demand \in [Subs -> Nat] /\ buffer[x] \in Seq(Events)
      BY <3>1 DEF StockTypes
    <3>3. made' \in 0..MaxEvents
      BY <1>2, <3>1 DEF StockTypes
    <3> QED
      BY <3>1, <3>2, <3>3
  <2>4. /\ d \in [Subs -> Nat] /\ d[s] = demand[s] + m.count
        /\ \A t \in Subs : t # s => d[t] = demand[t]
    <3>1. demand[s] + m.count \in Nat
      BY <1>4, <2>3
    <3> QED
      BY <1>4, <2>1, <2>3, <3>1
  <2>5. \A z \in Stages : z # x => outbox'[z] = outbox[z]
    BY <2>2, <2>3 DEF Dispatch, StockTypes
  <2>6. /\ TaskTypes' /\ Resting' /\ Came /\ Uses(x, m)
        /\ \A z \in Stages : Alive(z)' <=> Alive(z)
    BY <1>1, <1>2, <1>3, <2>2, <2>5, Handled
  (* Only a message that asks for nothing weighs nothing.                    *)
  <2>7. ASSUME Same, NEW t \in Subs PROVE d[t] = demand[t]
    <3>1. Asks(s) \in [Message -> Nat] /\ Asks(s)[m] = m.count
      BY <1>1, <1>2, <1>4, Weights, Weigh
    <3>2. m.count = 0
      <4>1. PICK a \in [Message -> Nat] : a = Asks(s)
        BY <3>1
      <4>2. /\ Load(x, a) = Load(x, a)' + a[m] /\ Load(x, a)' = Load(x, a) /\ Load(x, a) \in Nat
        BY <2>3, <2>6, <2>7, AllNat DEF Uses, Same
      <4>3. PICK k : k = Load(x, a)
        OBVIOUS
      <4>4. k = k + m.count /\ k \in Nat
        BY <3>1, <4>1, <4>2, <4>3
      <4> QED
        BY ONLY <1>4, <4>4
    <3> QED
      BY <2>3, <2>4, <3>2
  <2>8. ASSUME NEW t \in Subs
        PROVE  /\ Same \/ m.sub # t => d[t] = demand[t]
               /\ ~Same /\ m.sub = t => d[t] = demand[t] + m.count /\ Up[t] = x /\ Known(t)
    <3>1. Known(s)
      BY <1>4, <1>5 DEF Known
    <3>2. CASE ~Same /\ m.sub = t
      BY <1>1, <1>4, <2>4, <3>1, <3>2
    <3>3. CASE m.sub # t
      BY <1>1, <2>4, <3>3
    <3> QED
      BY <2>7, <3>2, <3>3
  <2>9. WithDemand(x, m, d)
    BY <1>2, <2>6, <2>8 DEF WithDemand
  <2> QED
    BY <1>2, <1>3, <1>4, <2>2, <2>3, <2>4, <2>6, <2>9, DispatchKeeps
<1>6. CASE s \notin Subscribers(x)
  <2>1. Continue(x, "idle") /\ UNCHANGED <<demand, buffer, outbox>>
    BY <1>1, <1>6 DEF DoDemand
  <2>2. status[s] # "subscribed"
    <3>1. ~Known(s)
      BY <1>4, <1>6 DEF Known
    <3> QED
      BY <1>1, <1>2, <1>4, <3>1 DEF IInv, Fresh, Untouched, Flows
  <2>3. ASSUME NEW t \in Subs, status[t] = "subscribed"
        PROVE  ~(current[x].sub = t /\ current[x].type \in {"demand", "events"})
    BY <1>1, <2>2, <2>3
  <2> QED
    BY <1>2, <1>3, <2>1, <2>3, DoneKeeps
<1> QED
  BY <1>5, <1>6

-----------------------------------------------------------------------------
(* The theorems *)

LEMMA InitIInv ==
  ASSUME GenStageAssumption, Init
  PROVE  IInv
<1>1. None \in Message /\ MailboxSize \in Nat /\ MaxEvents \in Nat
  BY MessagesAre DEF GenStageAssumption
<1>2. Len(<<>>) = 0 /\ \A T : <<>> \in Seq(T)
  OBVIOUS
<1>3. \A x \in Stages : at[x] = "idle" /\ mailbox[x] = <<>> /\ outbox[x] = <<>> /\ producerSubs[x] = <<>>
  BY DEF Init
<1>4. TypeOK
  <2>1. \A x \in Stages : Len(mailbox[x]) <= MailboxSize
    <3>1. ASSUME NEW x \in Stages PROVE Len(mailbox[x]) <= MailboxSize
      <4>1. PICK n : n = Len(mailbox[x])
        OBVIOUS
      <4>2. n = 0
        BY <1>2, <1>3, <4>1
      <4> QED
        BY <1>1, <4>1, <4>2
    <3> QED
      BY <3>1
  <2>2. at \in [Stages -> {"idle", "handling", "flushing", "producing", "passing", "refilling", "stopped"}]
    BY DEF Init
  <2>3. made \in 0..MaxEvents
    BY <1>1 DEF Init
  <2> QED
    BY <1>1, <1>2, <2>1, <2>2, <2>3 DEF Init, TypeOK
<1>5. \A x \in Stages, m \in Message : ~In(x, m) /\ ~Out(x, m)
  BY <1>3 DEF In, Out, Busy
<1>6. \A s \in Subs : ~Known(s)
  <2>1. \A s \in Subs : Up[s] \in Stages
    BY DEF GenStageAssumption
  <2> QED
    BY <1>3, <2>1 DEF Known, Subscribers, ToSet
<1>7. \A s \in Subs : Requests(s) = 0
  <2>1. ASSUME NEW s \in Subs PROVE Requests(s) = 0
    <3>1. Up[s] \in Stages /\ One(s) \in [Message -> Nat]
      BY Weights DEF GenStageAssumption
    <3>2. Sum(<<>>, One(s)) = 0
      BY <3>1, SumOfNone
    <3> QED
      BY <1>3, <3>1, <3>2 DEF Requests, Load
  <2> QED
    BY <2>1
<1>8. Resting
  BY <1>3 DEF Resting
<1>9. Addressed /\ Cancels
  BY <1>5 DEF Addressed, Cancels
<1>10. Subscribed
  BY <1>3 DEF Subscribed, Distinct
<1>11. Begins
  BY <1>6, <1>7 DEF Begins
<1>12. Fresh
  BY <1>5 DEF Fresh, Untouched, Init
<1>13. Balanced
  BY DEF Balanced, Init
<1> QED
  BY <1>4, <1>8, <1>9, <1>10, <1>11, <1>12, <1>13 DEF IInv

LEMMA NextIInv ==
  ASSUME GenStageAssumption, IInv, [Next]_vars
  PROVE  IInv'
<1>1. CASE UNCHANGED vars
  BY <1>1, NothingKeeps
<1>2. CASE Quiet
  BY <1>2, NothingKeeps DEF Quiet
<1>3. CASE Users
  <2>1. CASE \E s \in Subs : SubscribeTo(s)
    BY <2>1, SubscribeToKeeps
  <2>2. CASE \E s \in Subs : CancelSubscription(s)
    BY <2>2, CancelSubscriptionKeeps
  <2>3. CASE \E s \in Subs : TellCancelled(s)
    BY <2>3, TellCancelledKeeps
  <2>4. CASE \E x \in Stages : StopStage(x)
    BY <2>4, StopStageKeeps
  <2> QED
    BY <1>3, <2>1, <2>2, <2>3, <2>4 DEF Users
<1>4. ASSUME NEW x \in Stages, Sending(x) PROVE IInv'
  <2>1. CASE SendNext(x)
    BY <2>1, SendNextKeeps
  <2>2. CASE SendFails(x)
    BY <2>2, SendFailsKeeps
  <2>3. CASE AckFails(x)
    BY <2>3, LeavesKeeps DEF AckFails
  <2> QED
    BY <1>4, <2>1, <2>2, <2>3 DEF Sending
<1>5. ASSUME NEW x \in Stages, Step(x) PROVE IInv'
  <2>1. CASE Receive(x)
    BY <2>1, ReceiveKeeps
  <2>2. CASE DoSubscribe(x)
    BY <2>2, DoSubscribeKeeps
  <2>3. CASE Flush(x)
    BY <2>3, FlushKeeps
  <2>4. CASE DoDemand(x)
    BY <2>4, DoDemandKeeps
  <2>5. CASE Produce(x)
    BY <2>5, ProduceKeeps
  <2>6. CASE ProduceEnds(x)
    BY <2>6, ProduceEndsKeeps
  <2>7. CASE DoCancel(x)
    BY <2>7, DoCancelKeeps
  <2>8. CASE DoSubscribeAck(x)
    BY <2>8, DoSubscribeAckKeeps
  <2>9. CASE DoEvents(x)
    BY <2>9, DoEventsKeeps
  <2>10. CASE PassOn(x)
    BY <2>10, PassOnKeeps
  <2>11. CASE Refill(x)
    BY <2>11, RefillKeeps
  <2>12. CASE DoStop(x)
    BY <2>12, LeavesKeeps DEF DoStop
  <2> QED
    BY <1>5, <2>1, <2>2, <2>3, <2>4, <2>5, <2>6, <2>7, <2>8, <2>9, <2>10, <2>11, <2>12 DEF Step
<1> QED
  BY <1>1, <1>2, <1>3, <1>4, <1>5 DEF Next

(* What messages weigh, where they are listed in their order.                *)
LEMMA MessagesWeigh ==
  ASSUME TypeOK, NEW x \in Stages, NEW y \in Stages, NEW w \in [Message -> Nat]
  PROVE  /\ Messages(x, y) \in Seq(Message)
         /\ Sum(Messages(x, y), w) = Load(x, w) + Sum(outbox[y], w)
<1>1. PICK h, b, o : h = InHand(x) /\ b = mailbox[x] /\ o = outbox[y]
  OBVIOUS
<1>2. /\ h \in Seq(Message) /\ b \in Seq(Message) /\ o \in Seq(Message)
  <2>1. current[x] \in Message
    BY DEF TypeOK
  <2>2. <<current[x]>> \in Seq(Message) /\ <<>> \in Seq(Message)
    BY <2>1
  <2>3. h \in Seq(Message)
    BY <1>1, <2>2 DEF InHand
  <2>4. b \in Seq(Message) /\ o \in Seq(Message)
    BY <1>1 DEF TypeOK
  <2> QED
    BY <2>3, <2>4
<1>3. PICK f : f = h \o b
  OBVIOUS
<1>4. f \in Seq(Message) /\ f \o o \in Seq(Message) /\ Messages(x, y) = f \o o
  <2>1. f \in Seq(Message)
    BY <1>2, <1>3, ConcatProperties
  <2>2. f \o o \in Seq(Message)
    BY <1>2, <2>1, ConcatProperties
  <2>3. Messages(x, y) = f \o o
    BY <1>1, <1>3 DEF Messages
  <2> QED
    BY <2>1, <2>2, <2>3
<1>5. Sum(f, w) = Sum(h, w) + Sum(b, w)
  BY <1>2, <1>3, SumOfBoth
<1>6. Sum(f \o o, w) = Sum(f, w) + Sum(o, w)
  BY <1>2, <1>4, SumOfBoth
<1>7. Sum(h, w) = IF at[x] = "handling" THEN w[current[x]] ELSE 0
  <2>1. CASE at[x] = "handling"
    <3>1. h = <<current[x]>> /\ current[x] \in Message
      BY <1>1, <2>1 DEF InHand, TypeOK
    <3>2. Sum(<<current[x]>>, w) = w[current[x]]
      BY <3>1, SumOfOne
    <3> QED
      BY <2>1, <3>1, <3>2
  <2>2. CASE at[x] # "handling"
    <3>1. h = <<>>
      BY <1>1, <2>2 DEF InHand
    <3> QED
      BY <2>2, <3>1, SumOfNone
  <2> QED
    BY <2>1, <2>2
<1>8. Load(x, w) = Sum(h, w) + Sum(b, w)
  BY <1>1, <1>7 DEF Load
<1> QED
  BY <1>1, <1>4, <1>5, <1>6, <1>8

LEMMA IInvConserves ==
  ASSUME GenStageAssumption, IInv
  PROVE  DemandConserved
<1>1. ASSUME NEW s \in Subs, status[s] = "subscribed", Alive(Up[s]), Alive(Down[s])
      PROVE  inFlight[s] = demand[s] + AskedFor(s) + Len(OnTheWay(s))
  <2>1. /\ Up[s] \in Stages /\ Down[s] \in Stages /\ TypeOK
        /\ Asks(s) \in [Message -> Nat] /\ Carries(s) \in [Message -> Nat]
    BY Weights DEF GenStageAssumption, IInv
  <2>2. AskedFor(s) = Load(Up[s], Asks(s)) + Sum(outbox[Down[s]], Asks(s))
    BY <2>1, MessagesWeigh DEF AskedFor
  <2>3. Len(OnTheWay(s)) = Load(Down[s], Carries(s)) + Sum(outbox[Up[s]], Carries(s))
    <3>1. PICK q \in Seq(Message) : /\ q = Messages(Down[s], Up[s])
                                    /\ Sum(q, Carries(s)) = Load(Down[s], Carries(s)) + Sum(outbox[Up[s]], Carries(s))
      BY <2>1, MessagesWeigh
    <3>2. Len(EventsFor(s, q)) = Sum(q, Carries(s))
      BY LenOfEvents
    <3> QED
      BY <3>1, <3>2 DEF OnTheWay
  <2>4. /\ demand[s] \in Nat
        /\ Load(Up[s], Asks(s)) \in Nat /\ Sum(outbox[Down[s]], Asks(s)) \in Nat
        /\ Load(Down[s], Carries(s)) \in Nat /\ Sum(outbox[Up[s]], Carries(s)) \in Nat
    <3>1. demand[s] \in Nat
      BY <2>1 DEF TypeOK
    <3> QED
      BY <2>1, <3>1, AllNat
  <2>5. inFlight[s] = Owed(s)
    BY <1>1 DEF IInv, Balanced
  <2>6. Owed(s) = demand[s] + Load(Up[s], Asks(s)) + Sum(outbox[Down[s]], Asks(s))
                            + Load(Down[s], Carries(s)) + Sum(outbox[Up[s]], Carries(s))
    BY DEF Owed
  <2>7. PICK e, f, g, h, i : /\ e = demand[s]
                             /\ f = Load(Up[s], Asks(s)) /\ g = Sum(outbox[Down[s]], Asks(s))
                             /\ h = Load(Down[s], Carries(s)) /\ i = Sum(outbox[Up[s]], Carries(s))
    OBVIOUS
  <2>8. e \in Nat /\ f \in Nat /\ g \in Nat /\ h \in Nat /\ i \in Nat
    BY <2>4, <2>7
  <2>9. e + f + g + h + i = e + (f + g) + (h + i)
    BY ONLY <2>8
  <2>10. inFlight[s] = e + f + g + h + i /\ AskedFor(s) = f + g /\ Len(OnTheWay(s)) = h + i
    BY <2>2, <2>3, <2>5, <2>6, <2>7
  <2> QED
    BY ONLY <2>7, <2>9, <2>10
<1> QED
  BY <1>1 DEF DemandConserved

(* The variables keep the types of the attributes they stand for; no mailbox *)
(* grows over its size, and the counters of demand never get negative        *)
(* (_dispatch_events, _on_events, _maybe_refill).                            *)
THEOREM TypesKept == Spec => []TypeOK
<1>1. Init => IInv
  BY GenStageAssumption, InitIInv
<1>2. IInv /\ [Next]_vars => IInv'
  BY GenStageAssumption, NextIInv
<1>3. IInv => TypeOK
  BY DEF IInv
<1> QED
  BY <1>1, <1>2, <1>3, PTL DEF Spec

(* Demand is neither lost nor made up, whatever the stages, subscriptions,   *)
(* options and dispatcher: what a consumer counts in in_flight is what its   *)
(* producer's dispatcher has of it in _demand, and what is on its way.       *)
THEOREM DemandKept == Spec => []DemandConserved
<1>1. Init => IInv
  BY GenStageAssumption, InitIInv
<1>2. IInv /\ [Next]_vars => IInv'
  BY GenStageAssumption, NextIInv
<1>3. IInv => DemandConserved
  BY GenStageAssumption, IInvConserves
<1> QED
  BY <1>1, <1>2, <1>3, PTL DEF Spec

-----------------------------------------------------------------------------
(* One sequence behind another *)

Joins(r, p, q, T) == p \in Seq(T) /\ q \in Seq(T) /\ r = p \o q

(* The places of both: those of q come after a.                              *)
Shifted(r, p, q, a) ==
    /\ \A n \in DOMAIN p : n \in DOMAIN r /\ r[n] = p[n] /\ n \in Nat /\ n <= a
    /\ \A n \in DOMAIN q : n \in Nat /\ 0 < n /\ a + n \in DOMAIN r /\ r[a + n] = q[n]
    /\ \A n \in DOMAIN r : n \in DOMAIN p \/ \E k \in DOMAIN q : n = a + k
LEMMA JoinsIs ==
  ASSUME NEW T, NEW p, NEW q, NEW r, Joins(r, p, q, T)
  PROVE  r \in Seq(T) /\ Len(p) \in Nat /\ Shifted(r, p, q, Len(p))
<1>0. p \in Seq(T) /\ q \in Seq(T) /\ r = p \o q
  BY DEF Joins
<1>1. /\ r \in Seq(T) /\ Len(r) = Len(p) + Len(q)
      /\ \A n \in 1..Len(p) : r[n] = p[n]
      /\ \A n \in (Len(p) + 1)..(Len(p) + Len(q)) : r[n] = q[n - Len(p)]
  BY <1>0, ConcatProperties
<1>2. PICK a, b : a = Len(p) /\ b = Len(q)
  OBVIOUS
<1>3. a \in Nat /\ b \in Nat /\ DOMAIN p = 1..a /\ DOMAIN q = 1..b /\ DOMAIN r = 1..(a + b)
  BY <1>0, <1>1, <1>2, LenProperties
<1>4. \A n \in 1..a : n \in DOMAIN r /\ r[n] = p[n]
  BY <1>1, <1>2, <1>3
<1>5. ASSUME NEW n \in 1..b PROVE n \in Nat /\ 0 < n /\ a + n \in DOMAIN r /\ r[a + n] = q[n]
  <2>1. a + n \in (a + 1)..(a + b) /\ (a + n) - a = n
    BY <1>3
  <2> QED
    BY <1>1, <1>2, <1>3, <2>1
<1>6. ASSUME NEW n \in DOMAIN r, n \notin 1..a PROVE \E k \in 1..b : n = a + k
  <2>1. n - a \in 1..b /\ n = a + (n - a)
    BY <1>3, <1>6
  <2> QED
    BY <2>1
<1>7. Shifted(r, p, q, a)
  <2>1. \A n \in 1..a : n \in Nat /\ n <= a
    BY <1>3
  <2> QED
    BY <1>3, <1>4, <1>5, <1>6, <2>1 DEF Shifted
<1> QED
  BY <1>1, <1>2, <1>3, <1>7

LEMMA BothElements ==
  ASSUME NEW T, NEW p \in Seq(T), NEW q \in Seq(T)
  PROVE  ToSet(p \o q) = ToSet(p) \cup ToSet(q)
<1>1. PICK a, r : a = Len(p) /\ r = p \o q /\ Joins(r, p, q, T)
  BY DEF Joins
<1>2. Shifted(r, p, q, a)
  BY <1>1, JoinsIs
<1>3. ToSet(r) = ToSet(p) \cup ToSet(q)
  <2>1. ASSUME NEW e \in ToSet(r) PROVE e \in ToSet(p) \cup ToSet(q)
    <3>1. PICK n \in DOMAIN r : e = r[n]
      BY DEF ToSet
    <3>2. n \in DOMAIN p \/ \E k \in DOMAIN q : n = a + k
      BY <1>2 DEF Shifted
    <3> QED
      BY <1>2, <3>1, <3>2 DEF ToSet, Shifted
  <2>2. ASSUME NEW e \in ToSet(p) PROVE e \in ToSet(r)
    BY <1>2 DEF ToSet, Shifted
  <2>3. ASSUME NEW e \in ToSet(q) PROVE e \in ToSet(r)
    <3>1. PICK n \in DOMAIN q : e = q[n]
      BY DEF ToSet
    <3> QED
      BY <1>2, <3>1 DEF ToSet, Shifted
  <2> QED
    BY <2>1, <2>2, <2>3
<1> QED
  BY <1>1, <1>3

(* A sequence increases when both parts do and one is below the other.       *)
Below(A, B) == \A e \in A, f \in B : e < f
LEMMA BothIncrease ==
  ASSUME NEW T, NEW p \in Seq(T), NEW q \in Seq(T)
  PROVE  Increasing(p \o q) <=> Increasing(p) /\ Increasing(q) /\ Below(ToSet(p), ToSet(q))
<1>1. PICK a, r : a = Len(p) /\ r = p \o q /\ Joins(r, p, q, T)
  BY DEF Joins
<1>0. Shifted(r, p, q, a) /\ a \in Nat
  BY <1>1, JoinsIs
<1>2. /\ a \in Nat
      /\ \A n \in DOMAIN p : n \in DOMAIN r /\ r[n] = p[n] /\ n \in Nat /\ n <= a
      /\ \A n \in DOMAIN q : n \in Nat /\ 0 < n /\ a + n \in DOMAIN r /\ r[a + n] = q[n]
      /\ \A n \in DOMAIN r : n \in DOMAIN p \/ \E k \in DOMAIN q : n = a + k
  BY <1>0 DEF Shifted
<1>3. ASSUME Increasing(r) PROVE Increasing(p) /\ Increasing(q) /\ Below(ToSet(p), ToSet(q))
  <2>1. Increasing(p)
    BY <1>2, <1>3 DEF Increasing
  <2>2. Increasing(q)
    <3>1. ASSUME NEW m \in DOMAIN q, NEW n \in DOMAIN q, m < n PROVE q[m] < q[n]
      <4>1. a + m < a + n
        BY <1>2, <3>1
      <4> QED
        BY <1>2, <1>3, <4>1 DEF Increasing
    <3> QED
      BY <3>1 DEF Increasing
  <2>3. ASSUME NEW e \in ToSet(p), NEW f \in ToSet(q) PROVE e < f
    <3>1. PICK m \in DOMAIN p, n \in DOMAIN q : e = p[m] /\ f = q[n]
      BY DEF ToSet
    <3>2. m < a + n
      BY <1>2
    <3> QED
      BY <1>2, <1>3, <3>1, <3>2 DEF Increasing
  <2> QED
    BY <2>1, <2>2, <2>3 DEF Below
<1>4. ASSUME Increasing(p), Increasing(q), Below(ToSet(p), ToSet(q)) PROVE Increasing(r)
  <2>1. ASSUME NEW m \in DOMAIN r, NEW n \in DOMAIN r, m < n PROVE r[m] < r[n]
    <3>1. CASE m \in DOMAIN p /\ n \in DOMAIN p
      BY <1>2, <1>4, <2>1, <3>1 DEF Increasing
    <3>2. CASE m \in DOMAIN p /\ n \notin DOMAIN p
      <4>1. PICK k \in DOMAIN q : n = a + k
        BY <1>2, <3>2
      <4>2. p[m] \in ToSet(p) /\ q[k] \in ToSet(q)
        BY <3>2 DEF ToSet
      <4> QED
        BY <1>2, <1>4, <3>2, <4>1, <4>2 DEF Below
    <3>3. CASE m \notin DOMAIN p
      <4>1. n \notin DOMAIN p
        <5>1. PICK j \in DOMAIN q : m = a + j
          BY <1>2, <3>3
        <5>2. ~ (n <= a)
          BY <1>2, <2>1, <5>1
        <5> QED
          BY <1>2, <5>2
      <4>2. PICK j \in DOMAIN q, k \in DOMAIN q : m = a + j /\ n = a + k
        BY <1>2, <3>3, <4>1
      <4>3. j < k
        BY <1>2, <2>1, <4>2
      <4> QED
        BY <1>2, <1>4, <4>2, <4>3 DEF Increasing
    <3> QED
      BY <3>1, <3>2, <3>3
  <2> QED
    BY <2>1 DEF Increasing
<1> QED
  BY <1>1, <1>3, <1>4

(* What is left of a sequence when some is dropped.                          *)
Thins(a, b) == ToSet(a) \subseteq ToSet(b) /\ (Increasing(b) => Increasing(a))
LEMMA BothThin ==
  ASSUME NEW T, NEW p \in Seq(T), NEW q \in Seq(T), NEW a \in Seq(T), NEW b \in Seq(T),
         Thins(a, p), Thins(b, q)
  PROVE  Thins(a \o b, p \o q)
<1>1. ToSet(a \o b) = ToSet(a) \cup ToSet(b) /\ ToSet(p \o q) = ToSet(p) \cup ToSet(q)
  BY BothElements
<1>2. /\ Increasing(a \o b) <=> Increasing(a) /\ Increasing(b) /\ Below(ToSet(a), ToSet(b))
      /\ Increasing(p \o q) <=> Increasing(p) /\ Increasing(q) /\ Below(ToSet(p), ToSet(q))
  BY BothIncrease
<1>3. ToSet(a) \subseteq ToSet(p) /\ ToSet(b) \subseteq ToSet(q)
      /\ (Increasing(p) => Increasing(a)) /\ (Increasing(q) => Increasing(b))
  BY DEF Thins
<1>4. Below(ToSet(p), ToSet(q)) => Below(ToSet(a), ToSet(b))
  BY <1>3 DEF Below
<1>5. ToSet(a \o b) \subseteq ToSet(p \o q)
  BY <1>1, <1>3
<1>6. Increasing(p \o q) => Increasing(a \o b)
  BY <1>2, <1>3, <1>4
<1> QED
  BY <1>5, <1>6 DEF Thins

LEMMA SomeThin ==
  ASSUME NEW T, NEW p \in Seq(T), NEW q \in Seq(T)
  PROVE  /\ Thins(<<>>, p) /\ Thins(p, p) /\ Thins(q, p \o q) /\ Thins(p, p \o q)
<1>1. ToSet(<<>>) = {} /\ Increasing(<<>>)
  BY DEF ToSet, Increasing
<1>2. ToSet(p \o q) = ToSet(p) \cup ToSet(q)
  BY BothElements
<1>3. Increasing(p \o q) => Increasing(p) /\ Increasing(q)
  BY BothIncrease
<1> QED
  BY <1>1, <1>2, <1>3 DEF Thins

-----------------------------------------------------------------------------
(* The events of messages *)

Brought(m, s) == IF Brings(m, s) THEN m.events ELSE <<>>
LEMMA BroughtIs ==
  ASSUME NEW m \in Message, NEW s \in Subs PROVE Brought(m, s) \in Seq(Events)
BY DEF Brought, Message

(* Joining sequences of events associates.                                   *)
LEMMA ConcatEvents ==
  \A p, q, r \in Seq(Events) : (p \o q) \o r = p \o (q \o r)
BY ConcatAssociative

LEMMA EventsForAppend ==
  ASSUME NEW q, NEW e, NEW r, Longer(r, q, e, Message), NEW s \in Subs
  PROVE  /\ EventsFor(s, q) \in Seq(Events) /\ Brought(e, s) \in Seq(Events)
         /\ EventsFor(s, r) = EventsFor(s, q) \o Brought(e, s)
<1>1. PICK x, y : x = EventsFor(s, q) /\ y = EventsFor(s, r)
  OBVIOUS
<1>2. x \in Seq(Events) /\ y = IF Brings(e, s) THEN x \o e.events ELSE x
  BY <1>1, EventsForMore
<1>3. x \o <<>> = x
  BY <1>2, ConcatEmptySeq
<1>4. Brought(e, s) \in Seq(Events)
  BY BroughtIs DEF Longer
<1>5. y = x \o Brought(e, s)
  BY <1>2, <1>3 DEF Brought
<1> QED
  BY <1>1, <1>2, <1>4, <1>5

LEMMA EventsForIn ==
  ASSUME NEW q \in Seq(Message), NEW s \in Subs PROVE EventsFor(s, q) \in Seq(Events)
BY LenOfEvents

LEMMA EventsForOne ==
  ASSUME NEW m \in Message, NEW s \in Subs PROVE EventsFor(s, <<m>>) = Brought(m, s)
<1>1. PICK a : a = <<m>> /\ Longer(a, <<>>, m, Message)
  <2>1. PICK a, b : a = <<m>> /\ b = Append(<<>>, m)
    OBVIOUS
  <2>2. a \in Seq(Message) /\ Len(a) = 1 /\ a[1] = m
    BY <2>1
  <2>3. b \in Seq(Message) /\ Len(b) = 1 /\ b[1] = m
    BY <2>1
  <2>4. a = b
    BY <2>2, <2>3, SeqEqual
  <2> QED
    BY <2>1, <2>4 DEF Longer
<1>2. PICK x : x = Brought(m, s) /\ x \in Seq(Events)
  BY BroughtIs
<1>3. EventsFor(s, a) = EventsFor(s, <<>>) \o x
  BY <1>1, <1>2, EventsForAppend
<1>4. EventsFor(s, <<>>) = <<>>
  BY EventsForNone
<1>5. <<>> \o x = x
  BY <1>2, ConcatEmptySeq
<1>6. EventsFor(s, a) = x
  BY <1>3, <1>4, <1>5
<1> QED
  BY <1>1, <1>2, <1>6

LEMMA EventsForBoth ==
  ASSUME NEW p \in Seq(Message), NEW q \in Seq(Message), NEW s \in Subs
  PROVE  EventsFor(s, p \o q) = EventsFor(s, p) \o EventsFor(s, q)
<1> DEFINE P == {r \in Seq(Message) : EventsFor(s, p \o r) = EventsFor(s, p) \o EventsFor(s, r)}
<1>1. <<>> \in P
  <2>1. p \o <<>> = p /\ <<>> \in Seq(Message)
    BY ConcatEmptySeq
  <2>2. EventsFor(s, <<>>) = <<>> /\ EventsFor(s, p) \in Seq(Events)
    BY EventsForNone, EventsForIn
  <2>3. EventsFor(s, p) \o <<>> = EventsFor(s, p)
    BY <2>2, ConcatEmptySeq
  <2> QED
    BY <2>1, <2>2, <2>3
<1>2. ASSUME NEW r \in P, NEW e \in Message, NEW a, Longer(a, r, e, Message) PROVE a \in P
  <2>1. r \in Seq(Message) /\ a \in Seq(Message)
    BY <1>2, LongerIs
  <2>2. PICK b, c : b = p \o r /\ c = p \o a
    OBVIOUS
  <2>3. Longer(c, b, e, Message)
    BY <1>2, <2>1, <2>2 DEF Longer
  <2>4. PICK f, g, h : f = EventsFor(s, p) /\ g = EventsFor(s, r) /\ h = Brought(e, s)
    OBVIOUS
  <2>5. f \in Seq(Events) /\ g \in Seq(Events) /\ h \in Seq(Events)
    BY <1>2, <2>1, <2>4, EventsForIn, BroughtIs
  <2>6. EventsFor(s, b) = f \o g
    BY <2>2, <2>4
  <2>7. EventsFor(s, c) = (f \o g) \o h
    <3>1. EventsFor(s, c) = EventsFor(s, b) \o Brought(e, s)
      BY <2>3, EventsForAppend
    <3> QED
      BY <2>4, <2>6, <3>1, Zenon
  <2>8. EventsFor(s, a) = g \o h
    BY <1>2, <2>4, EventsForAppend
  <2>9. (f \o g) \o h = f \o (g \o h)
    BY ONLY <2>5, ConcatEvents
  <2> QED
    BY <2>1, <2>2, <2>4, <2>7, <2>8, <2>9
<1>3. P = Seq(Message)
  <2> HIDE DEF P
  <2>1. P \subseteq Seq(Message)
    BY DEF P
  <2> QED
    BY <1>1, <1>2, <2>1, ByLength
<1> QED
  BY <1>3

LEMMA EventsForFirst ==
  ASSUME NEW q \in Seq(Message), q # <<>>, NEW s \in Subs
  PROVE  /\ Head(q) \in Message /\ Tail(q) \in Seq(Message)
         /\ EventsFor(s, q) = Brought(Head(q), s) \o EventsFor(s, Tail(q))
<1>1. PICK h, t : h = Head(q) /\ t = Tail(q)
  OBVIOUS
<1>2. h \in Message /\ t \in Seq(Message) /\ q = <<h>> \o t
  <2>1. h \in Message /\ t \in Seq(Message) /\ Len(t) = Len(q) - 1 /\ Len(q) \in Nat /\ q[1] = h
        /\ \A n \in 1..Len(t) : t[n] = q[n + 1]
    BY <1>1, HeadTailProperties
  <2>2. PICK a, r : a = <<h>> /\ r = a \o t
    OBVIOUS
  <2>3. a \in Seq(Message) /\ Len(a) = 1 /\ a[1] = h
    BY <2>1, <2>2
  <2>4. /\ r \in Seq(Message) /\ Len(r) = 1 + Len(t) /\ r[1] = h
        /\ \A n \in 2..(1 + Len(t)) : r[n] = t[n - 1]
    BY <2>1, <2>2, <2>3, ConcatProperties
  <2>8. PICK k : k = Len(t)
    OBVIOUS
  <2>9. k \in Nat /\ Len(q) = k + 1
    BY <2>1, <2>8
  <2>5. ASSUME NEW n \in 1..Len(q) PROVE q[n] = r[n]
    <3>1. CASE n = 1
      BY <2>1, <2>4, <3>1
    <3>2. CASE n # 1
      <4>1. n \in 2..(1 + k) /\ n - 1 \in 1..k /\ (n - 1) + 1 = n
        BY <2>9, <3>2
      <4>2. r[n] = t[n - 1] /\ t[n - 1] = q[(n - 1) + 1]
        BY <2>1, <2>4, <2>8, <4>1
      <4> QED
        BY <4>1, <4>2
    <3> QED
      BY <3>1, <3>2
  <2>6. Len(q) = Len(r)
    BY <2>1, <2>4
  <2>7. q = r
    BY <2>4, <2>5, <2>6, SeqEqual
  <2> QED
    BY <2>1, <2>2, <2>7
<1>3. <<h>> \in Seq(Message) /\ EventsFor(s, <<h>>) = Brought(h, s)
  BY <1>2, EventsForOne
<1>4. PICK a : a = <<h>>
  OBVIOUS
<1>5. EventsFor(s, a \o t) = EventsFor(s, a) \o EventsFor(s, t)
  BY <1>2, <1>3, <1>4, EventsForBoth
<1> QED
  BY <1>1, <1>2, <1>3, <1>4, <1>5

(* Messages that bring nothing.                                              *)
Dumb(q, s) == \A n \in DOMAIN q : Brought(q[n], s) = <<>>
LEMMA EventsForNothing ==
  ASSUME NEW q \in Seq(Message), NEW s \in Subs, Dumb(q, s)
  PROVE  EventsFor(s, q) = <<>>
<1> DEFINE P == {r \in Seq(Message) : Dumb(r, s) => EventsFor(s, r) = <<>>}
<1>1. <<>> \in P
  BY EventsForNone
<1>2. ASSUME NEW r \in P, NEW e \in Message, NEW a, Longer(a, r, e, Message) PROVE a \in P
  <2>1. /\ r \in Seq(Message) /\ a \in Seq(Message) /\ Len(r) + 1 \in DOMAIN a /\ a[Len(r) + 1] = e
        /\ \A n \in DOMAIN r : n \in DOMAIN a /\ a[n] = r[n] /\ n # Len(r) + 1
    BY <1>2, LongerIs
  <2>2. ASSUME Dumb(a, s) PROVE EventsFor(s, a) = <<>>
    <3>1. Dumb(r, s) /\ Brought(e, s) = <<>>
      BY <2>1, <2>2 DEF Dumb
    <3>2. EventsFor(s, r) = <<>>
      BY <3>1
    <3>3. EventsFor(s, a) = <<>> \o <<>>
      BY <1>2, <3>1, <3>2, EventsForAppend
    <3> QED
      BY <3>3, ConcatEmptySeq
  <2> QED
    BY <2>1, <2>2
<1>3. P = Seq(Message)
  <2> HIDE DEF P
  <2>1. P \subseteq Seq(Message)
    BY DEF P
  <2> QED
    BY <1>1, <1>2, <2>1, ByLength
<1> QED
  BY <1>3

(* One message that brings something.                                        *)
Speaks(q, m, s) == \A n \in DOMAIN q \ {m} : Brought(q[n], s) = <<>>
LEMMA EventsForSingle ==
  ASSUME NEW q \in Seq(Message), NEW s \in Subs, NEW k \in DOMAIN q, Speaks(q, k, s)
  PROVE  EventsFor(s, q) = Brought(q[k], s)
<1> DEFINE P == {r \in Seq(Message) : \A m \in DOMAIN r :
                    Speaks(r, m, s) => EventsFor(s, r) = Brought(r[m], s)}
<1>1. <<>> \in P
  OBVIOUS
<1>2. ASSUME NEW r \in P, NEW e \in Message, NEW a, Longer(a, r, e, Message) PROVE a \in P
  <2>1. /\ r \in Seq(Message) /\ a \in Seq(Message) /\ Len(r) + 1 \in DOMAIN a /\ a[Len(r) + 1] = e
        /\ \A n \in DOMAIN r : n \in DOMAIN a /\ a[n] = r[n] /\ n # Len(r) + 1
        /\ \A n \in DOMAIN a : n \in DOMAIN r \/ n = Len(r) + 1
    BY <1>2, LongerIs
  <2>2. PICK f, g : f = EventsFor(s, r) /\ g = Brought(e, s)
    OBVIOUS
  <2>3. f \in Seq(Events) /\ g \in Seq(Events) /\ EventsFor(s, a) = f \o g
    BY <1>2, <2>2, EventsForAppend
  <2>4. f \o <<>> = f /\ <<>> \o g = g
    BY <2>3, ConcatEmptySeq
  <2>5. ASSUME NEW m \in DOMAIN a, Speaks(a, m, s) PROVE EventsFor(s, a) = Brought(a[m], s)
    <3>1. CASE m = Len(r) + 1
      <4>1. Dumb(r, s)
        BY <2>1, <2>5, <3>1 DEF Dumb, Speaks
      <4>2. f = <<>>
        BY <2>1, <2>2, <4>1, EventsForNothing
      <4> QED
        BY <2>1, <2>2, <2>3, <2>4, <3>1, <4>2
    <3>2. CASE m # Len(r) + 1
      <4>1. m \in DOMAIN r /\ g = <<>> /\ Speaks(r, m, s)
        BY <2>1, <2>2, <2>5, <3>2 DEF Speaks
      <4>2. f = Brought(r[m], s)
        BY <2>2, <4>1
      <4> QED
        BY <2>1, <2>3, <2>4, <4>1, <4>2
    <3> QED
      BY <3>1, <3>2
  <2> QED
    BY <2>1, <2>5
<1>3. P = Seq(Message)
  <2> HIDE DEF P
  <2>1. P \subseteq Seq(Message)
    BY DEF P
  <2> QED
    BY <1>1, <1>2, <2>1, ByLength
<1> QED
  BY <1>3

(* What brings nothing may be left out.                                      *)
Spares(q, S, s) == \A n \in DOMAIN q : q[n] \notin S => Brought(q[n], s) = <<>>
LEMMA EventsForKept ==
  ASSUME NEW q \in Seq(Message), NEW s \in Subs, NEW S, Spares(q, S, s)
  PROVE  EventsFor(s, Keep(q, S)) = EventsFor(s, q)
<1> DEFINE P == {r \in Seq(Message) : Spares(r, S, s) => EventsFor(s, Keep(r, S)) = EventsFor(s, r)}
<1>1. <<>> \in P
  <2>1. <<>> \in Seq(Message) /\ Keep(<<>>, S) = <<>>
    BY KeepOfNone
  <2> QED
    BY <2>1
<1>2. ASSUME NEW r \in P, NEW e \in Message, NEW a, Longer(a, r, e, Message) PROVE a \in P
  <2>1. /\ r \in Seq(Message) /\ a \in Seq(Message) /\ Len(r) + 1 \in DOMAIN a /\ a[Len(r) + 1] = e
        /\ \A n \in DOMAIN r : n \in DOMAIN a /\ a[n] = r[n] /\ n # Len(r) + 1
    BY <1>2, LongerIs
  <2>2. PICK f, g : f = EventsFor(s, r) /\ g = Brought(e, s)
    OBVIOUS
  <2>3. f \in Seq(Events) /\ EventsFor(s, a) = f \o g
    BY <1>2, <2>2, EventsForAppend
  <2>6. PICK i, j : i = Keep(a, S) /\ j = Keep(r, S)
    OBVIOUS
  <2>4. /\ e \in S => Longer(i, j, e, Message)
        /\ e \notin S => i = j
    BY <1>2, <2>6, KeepAppend
  <2>5. ASSUME Spares(a, S, s) PROVE EventsFor(s, i) = EventsFor(s, a)
    <3>1. Spares(r, S, s) /\ (e \notin S => g = <<>>)
      BY <2>1, <2>2, <2>5 DEF Spares
    <3>2. EventsFor(s, j) = f
      BY <2>2, <2>6, <3>1
    <3>3. CASE e \in S
      <4>1. EventsFor(s, i) = EventsFor(s, j) \o g
        BY <2>2, <2>4, <3>3, EventsForAppend
      <4> QED
        BY <2>3, <3>2, <4>1
    <3>4. CASE e \notin S
      <4>1. f \o g = f
        BY <2>3, <3>1, <3>4, ConcatEmptySeq
      <4> QED
        BY <2>3, <2>4, <3>2, <3>4, <4>1
    <3> QED
      BY <3>3, <3>4
  <2> QED
    BY <2>1, <2>5, <2>6
<1>3. P = Seq(Message)
  <2> HIDE DEF P
  <2>1. P \subseteq Seq(Message)
    BY DEF P
  <2> QED
    BY <1>1, <1>2, <2>1, ByLength
<1> QED
  BY <1>3

-----------------------------------------------------------------------------
(* More about sums *)

(* Who weighs less, by c somewhere, comes to less, by c.                     *)
Lighter(q, v, w) == \A n \in DOMAIN q : v[q[n]] <= w[q[n]]
LEMMA SumLess ==
  ASSUME NEW T, NEW v \in [T -> Nat], NEW w \in [T -> Nat], NEW q \in Seq(T), Lighter(q, v, w)
  PROVE  /\ Sum(q, v) <= Sum(q, w)
         /\ \A k \in DOMAIN q, c \in Nat : v[q[k]] + c <= w[q[k]] => Sum(q, v) + c <= Sum(q, w)
<1> DEFINE Less(r) == /\ Sum(r, v) <= Sum(r, w)
                      /\ \A k \in DOMAIN r, c \in Nat :
                            v[r[k]] + c <= w[r[k]] => Sum(r, v) + c <= Sum(r, w)
           P == {r \in Seq(T) : Lighter(r, v, w) => Less(r)}
<1>1. <<>> \in P
  <2>1. Sum(<<>>, v) = 0 /\ Sum(<<>>, w) = 0
    BY SumOfNone
  <2> QED
    BY <2>1
<1>2. ASSUME NEW r \in P, NEW e \in T, NEW a, Longer(a, r, e, T) PROVE a \in P
  <2>1. /\ r \in Seq(T) /\ a \in Seq(T) /\ Len(r) + 1 \in DOMAIN a /\ a[Len(r) + 1] = e
        /\ \A n \in DOMAIN r : n \in DOMAIN a /\ a[n] = r[n]
        /\ \A n \in DOMAIN a : n \in DOMAIN r \/ n = Len(r) + 1
    BY <1>2, LongerIs
  <2>2. PICK i, j, y, z : i = Sum(r, v) /\ j = Sum(r, w) /\ y = Sum(a, v) /\ z = Sum(a, w)
    OBVIOUS
  <2>3. PICK f, g : f = v[e] /\ g = w[e]
    OBVIOUS
  <2>4. i \in Nat /\ f \in Nat /\ y = i + f /\ j \in Nat /\ g \in Nat /\ z = j + g
    BY <1>2, <2>2, <2>3, SumAppend
  <2>5. ASSUME Lighter(a, v, w) PROVE Less(a)
    <3>1. Lighter(r, v, w) /\ f <= g
      BY <2>1, <2>3, <2>5 DEF Lighter
    <3>2. Less(r)
      BY <3>1
    <3>3. i <= j
      BY <2>2, <3>2
    <3>4. y <= z
      BY ONLY <2>4, <3>1, <3>3
    <3>5. ASSUME NEW k \in DOMAIN a, NEW c \in Nat, v[a[k]] + c <= w[a[k]] PROVE y + c <= z
      <4>1. CASE k \in DOMAIN r
        <5>1. i + c <= j
          BY <2>1, <2>2, <3>2, <3>5, <4>1
        <5> QED
          BY ONLY <2>4, <3>1, <5>1, c \in Nat
      <4>2. CASE k \notin DOMAIN r
        <5>1. f + c <= g
          BY <2>1, <2>3, <3>5, <4>2
        <5> QED
          BY ONLY <2>4, <3>3, <5>1, c \in Nat
      <4> QED
        BY <4>1, <4>2
    <3> QED
      BY <2>2, <3>4, <3>5
  <2> QED
    BY <2>1, <2>5
<1>3. P = Seq(T)
  <2> HIDE DEF P
  <2>1. P \subseteq Seq(T)
    BY DEF P
  <2> QED
    BY <1>1, <1>2, <2>1, ByLength
<1> QED
  BY <1>3

(* No element weighs more than all.                                          *)
LEMMA SumBounds ==
  ASSUME NEW T, NEW w \in [T -> Nat], NEW q \in Seq(T), NEW k \in DOMAIN q
  PROVE  w[q[k]] <= Sum(q, w)
<1>1. PICK v : v = [t \in T |-> 0]
  OBVIOUS
<1>2. v \in [T -> Nat]
  BY <1>1
<1>3. \A n \in DOMAIN q : q[n] \in T
  OBVIOUS
<1>4. Sum(q, v) = 0
  BY <1>1, <1>2, <1>3, SumOfNothing
<1>5. \A n \in DOMAIN q : w[q[n]] \in Nat /\ v[q[n]] = 0
  BY <1>1, <1>3
<1>6. Lighter(q, v, w)
  BY <1>5 DEF Lighter
<1>7. PICK c \in Nat : c = w[q[k]]
  BY <1>5
<1>8. v[q[k]] + c <= w[q[k]]
  BY <1>5, <1>7
<1>9. Sum(q, v) + c <= Sum(q, w)
  BY <1>2, <1>6, <1>8, SumLess
<1>10. PICK z : z = Sum(q, w)
  OBVIOUS
<1>11. 0 + c <= z
  BY <1>4, <1>9, <1>10
<1>12. c <= z
  BY <1>11
<1> QED
  BY <1>7, <1>10, <1>12

(* Who weighs no more than two together comes to no more than them.          *)
Within(q, w, u, v) == \A n \in DOMAIN q : w[q[n]] <= u[q[n]] + v[q[n]]
LEMMA SumWithin ==
  ASSUME NEW T, NEW u \in [T -> Nat], NEW v \in [T -> Nat], NEW w \in [T -> Nat],
         NEW q \in Seq(T), Within(q, w, u, v)
  PROVE  Sum(q, w) <= Sum(q, u) + Sum(q, v)
<1> DEFINE P == {r \in Seq(T) : Within(r, w, u, v) => Sum(r, w) <= Sum(r, u) + Sum(r, v)}
<1>1. <<>> \in P
  <2>1. Sum(<<>>, u) = 0 /\ Sum(<<>>, v) = 0 /\ Sum(<<>>, w) = 0
    BY SumOfNone
  <2> QED
    BY <2>1
<1>2. ASSUME NEW r \in P, NEW e \in T, NEW a, Longer(a, r, e, T) PROVE a \in P
  <2>1. /\ r \in Seq(T) /\ a \in Seq(T) /\ Len(r) + 1 \in DOMAIN a /\ a[Len(r) + 1] = e
        /\ \A n \in DOMAIN r : n \in DOMAIN a /\ a[n] = r[n]
    BY <1>2, LongerIs
  <2>2. PICK h, i, j, x, y, z : /\ h = Sum(r, u) /\ i = Sum(r, v) /\ j = Sum(r, w)
                                /\ x = Sum(a, u) /\ y = Sum(a, v) /\ z = Sum(a, w)
    OBVIOUS
  <2>3. PICK b, c, d : b = u[e] /\ c = v[e] /\ d = w[e]
    OBVIOUS
  <2>4. h \in Nat /\ b \in Nat /\ x = h + b
    BY <1>2, <2>2, <2>3, SumAppend
  <2>5. i \in Nat /\ c \in Nat /\ y = i + c
    BY <1>2, <2>2, <2>3, SumAppend
  <2>6. j \in Nat /\ d \in Nat /\ z = j + d
    BY <1>2, <2>2, <2>3, SumAppend
  <2>7. ASSUME Within(a, w, u, v) PROVE z <= x + y
    <3>1. Within(r, w, u, v) /\ d <= b + c
      BY <2>1, <2>3, <2>7 DEF Within
    <3>2. j <= h + i
      BY <2>2, <3>1
    <3> QED
      BY ONLY <2>4, <2>5, <2>6, <3>1, <3>2
  <2> QED
    BY <2>1, <2>2, <2>7
<1>3. P = Seq(T)
  <2> HIDE DEF P
  <2>1. P \subseteq Seq(T)
    BY DEF P
  <2> QED
    BY <1>1, <1>2, <2>1, ByLength
<1> QED
  BY <1>3

-----------------------------------------------------------------------------
(* DemandDispatcher *)

Owns(x, d) == producerSubs[x] \in Seq(Subs) /\ Distinct(producerSubs[x]) /\ d \in [Subs -> Nat]
Wants(x, d, s) == [t \in Subs |-> IF GreedyFirst(x, d, t, s) THEN d[t] ELSE 0]
Before(x, d, s) == Sum(producerSubs[x], Wants(x, d, s))

LEMMA SubscribersAre ==
  ASSUME NEW x, NEW d, Owns(x, d)
  PROVE  /\ Subscribers(x) \subseteq Subs
         /\ \A n \in DOMAIN producerSubs[x] : producerSubs[x][n] \in Subscribers(x)
         /\ \A s \in Subscribers(x) :
               /\ PositionIn(x, s) \in DOMAIN producerSubs[x] /\ PositionIn(x, s) \in Nat
               /\ producerSubs[x][PositionIn(x, s)] = s
               /\ PositionIn(x, s) <= Len(producerSubs[x])
               /\ d[s] \in Nat
<1>0. PICK q : q = producerSubs[x]
  OBVIOUS
<1>1. q \in Seq(Subs) /\ d \in [Subs -> Nat] /\ \A n \in DOMAIN q : q[n] \in Subs
  BY <1>0 DEF Owns
<1>2. Subscribers(x) \subseteq Subs /\ \A n \in DOMAIN q : q[n] \in Subscribers(x)
  BY <1>0, <1>1 DEF Subscribers, ToSet
<1>3. ASSUME NEW s \in Subscribers(x)
      PROVE  PositionIn(x, s) \in DOMAIN q /\ q[PositionIn(x, s)] = s
  <2>1. \E n \in DOMAIN q : q[n] = s
    BY <1>0 DEF Subscribers, ToSet
  <2> QED
    BY <1>0, <2>1 DEF PositionIn
<1>4. \A n \in DOMAIN q : n \in Nat /\ n <= Len(q)
  BY <1>1
<1>5. \A s \in Subscribers(x) : d[s] \in Nat
  BY <1>1, <1>2
<1> QED
  BY <1>0, <1>2, <1>3, <1>4, <1>5

(* The subscriptions stand in line.                                          *)
LEMMA InLineAre ==
  ASSUME NEW x, NEW d, Owns(x, d), NEW s \in Subscribers(x), NEW t \in Subscribers(x)
  PROVE  /\ ~GreedyFirst(x, d, s, s)
         /\ s # t => GreedyFirst(x, d, s, t) \/ GreedyFirst(x, d, t, s)
         /\ ~(GreedyFirst(x, d, s, t) /\ GreedyFirst(x, d, t, s))
         /\ \A u \in Subscribers(x) :
               GreedyFirst(x, d, s, t) /\ GreedyFirst(x, d, t, u) => GreedyFirst(x, d, s, u)
<1>1. \A u \in Subscribers(x) : /\ d[u] \in Nat /\ PositionIn(x, u) \in Nat
                                /\ producerSubs[x][PositionIn(x, u)] = u
  BY SubscribersAre
<1>2. s # t => PositionIn(x, s) # PositionIn(x, t)
  BY <1>1
<1> QED
  BY <1>1, <1>2 DEF GreedyFirst

(* Of some subscriptions, one is the first in line, and one the last.        *)
FirstIn(x, d, s, S) == s \in S /\ \A t \in S \ {s} : GreedyFirst(x, d, s, t)
LastIn(x, d, s, S)  == s \in S /\ \A t \in S \ {s} : GreedyFirst(x, d, t, s)
LEMMA LineHasEnds ==
  ASSUME NEW x, NEW d, Owns(x, d), NEW S, S \subseteq Subscribers(x), S # {}
  PROVE  /\ \E s \in S : FirstIn(x, d, s, S)
         /\ \E s \in S : LastIn(x, d, s, S)
<1>1. PICK all, len : all = Sum(producerSubs[x], d) /\ len = Len(producerSubs[x])
  OBVIOUS
<1>2. PICK p : p = [s \in S |-> PositionIn(x, s)]
  OBVIOUS
<1>3. all \in Nat /\ len \in Nat
  BY <1>1, SumIsNat DEF Owns
<1>4. ASSUME NEW s \in S
      PROVE  d[s] \in Nat /\ d[s] <= all /\ p[s] \in Nat /\ p[s] <= len /\ s = producerSubs[x][p[s]]
  <2>1. PICK k : k = PositionIn(x, s)
    OBVIOUS
  <2>2. k \in DOMAIN producerSubs[x] /\ k \in Nat /\ k <= len /\ producerSubs[x][k] = s /\ d[s] \in Nat
    BY <1>1, <2>1, SubscribersAre
  <2>3. d[producerSubs[x][k]] <= all
    BY <1>1, <2>2, SumBounds DEF Owns
  <2> QED
    BY <1>2, <2>1, <2>2, <2>3
<1>5. \A s, t \in S : s # t => p[s] # p[t]
  BY <1>4
<1>6. \A s, t \in S : GreedyFirst(x, d, s, t) <=> (d[s] > d[t] \/ (d[s] = d[t] /\ p[s] < p[t]))
  BY <1>2 DEF GreedyFirst
<1>7. \E s \in S : FirstIn(x, d, s, S)
  <2>1. PICK f : f = [s \in S |-> all - d[s]]
    OBVIOUS
  <2>2. \A s \in S : f[s] \in Nat /\ f[s] + d[s] = all
    BY <1>3, <1>4, <2>1
  <2>3. {f[s] : s \in S} \in SUBSET Nat /\ {f[s] : s \in S} # {}
    BY <2>2
  <2>4. \E n \in {f[s] : s \in S} : \A m \in {f[s] : s \in S} : n <= m
    BY <2>3, LeastNumber
  <2>5. PICK s1 \in S : \A t \in S : f[s1] <= f[t]
    BY <2>4
  <2>6. PICK B : B = {t \in S : d[t] = d[s1]}
    OBVIOUS
  <2>7. {p[s] : s \in B} \in SUBSET Nat /\ {p[s] : s \in B} # {}
    BY <1>4, <2>6
  <2>8. \E n \in {p[s] : s \in B} : \A m \in {p[s] : s \in B} : n <= m
    BY <2>7, LeastNumber
  <2>9. PICK s \in B : \A t \in B : p[s] <= p[t]
    BY <2>8
  <2>10. ASSUME NEW t \in S \ {s} PROVE GreedyFirst(x, d, s, t)
    <3>1. s \in S /\ d[s] = d[s1] /\ f[s1] <= f[t]
      BY <2>5, <2>6, <2>9
    <3>2. d[t] <= d[s]
      BY <1>3, <1>4, <2>2, <3>1
    <3>3. d[t] = d[s] => p[s] < p[t]
      BY <1>4, <1>5, <2>6, <2>9, <3>1
    <3> QED
      BY <1>4, <1>6, <3>1, <3>2, <3>3
  <2> QED
    BY <2>6, <2>9, <2>10 DEF FirstIn
<1>8. \E s \in S : LastIn(x, d, s, S)
  <2>3. {d[s] : s \in S} \in SUBSET Nat /\ {d[s] : s \in S} # {}
    BY <1>4
  <2>4. \E n \in {d[s] : s \in S} : \A m \in {d[s] : s \in S} : n <= m
    BY <2>3, LeastNumber
  <2>5. PICK s1 \in S : \A t \in S : d[s1] <= d[t]
    BY <2>4
  <2>6. PICK B : B = {t \in S : d[t] = d[s1]}
    OBVIOUS
  <2>1. PICK f : f = [s \in S |-> len - p[s]]
    OBVIOUS
  <2>2. \A s \in S : f[s] \in Nat /\ f[s] + p[s] = len
    BY <1>3, <1>4, <2>1
  <2>7. {f[s] : s \in B} \in SUBSET Nat /\ {f[s] : s \in B} # {}
    BY <2>2, <2>6
  <2>8. \E n \in {f[s] : s \in B} : \A m \in {f[s] : s \in B} : n <= m
    BY <2>7, LeastNumber
  <2>9. PICK s \in B : \A t \in B : f[s] <= f[t]
    BY <2>8
  <2>10. ASSUME NEW t \in S \ {s} PROVE GreedyFirst(x, d, t, s)
    <3>1. s \in S /\ d[s] = d[s1] /\ d[s1] <= d[t]
      BY <2>5, <2>6, <2>9
    <3>2. d[t] = d[s] => f[s] <= f[t]
      BY <2>6, <2>9, <3>1
    <3>3. d[t] = d[s] => p[t] < p[s]
      BY <1>3, <1>4, <1>5, <2>2, <3>1, <3>2
    <3> QED
      BY <1>4, <1>6, <3>1, <3>3
  <2> QED
    BY <2>6, <2>9, <2>10 DEF LastIn
<1> QED
  BY <1>7, <1>8

(* Who is ahead of s in the line has got its events before it.               *)
LEMMA BeforeIs ==
  ASSUME NEW x, NEW d, Owns(x, d), NEW s \in Subscribers(x)
  PROVE  /\ Before(x, d, s) \in Nat
         /\ \A t \in Subscribers(x) :
               GreedyFirst(x, d, t, s) => Before(x, d, t) + d[t] <= Before(x, d, s)
<1>1. PICK q, w : q = producerSubs[x] /\ w = Wants(x, d, s)
  OBVIOUS
<1>2. q \in Seq(Subs) /\ d \in [Subs -> Nat] /\ Subscribers(x) \subseteq Subs
      /\ \A n \in DOMAIN q : q[n] \in Subscribers(x)
  BY <1>1, SubscribersAre DEF Owns
<1>3. w \in [Subs -> Nat] /\ \A u \in Subs : w[u] = IF GreedyFirst(x, d, u, s) THEN d[u] ELSE 0
  BY <1>1, <1>2 DEF Wants
<1>4. Before(x, d, s) = Sum(q, w)
  BY <1>1 DEF Before
<1>5. Sum(q, w) \in Nat
  BY <1>2, <1>3, SumIsNat
<1>6. ASSUME NEW t \in Subscribers(x), GreedyFirst(x, d, t, s)
      PROVE  Before(x, d, t) + d[t] <= Sum(q, w)
  <2>1. PICK v : v = Wants(x, d, t)
    OBVIOUS
  <2>2. v \in [Subs -> Nat] /\ \A u \in Subs : v[u] = IF GreedyFirst(x, d, u, t) THEN d[u] ELSE 0
    BY <1>2, <2>1 DEF Wants
  <2>3. Before(x, d, t) = Sum(q, v)
    BY <1>1, <2>1 DEF Before
  <2>4. ASSUME NEW u \in Subscribers(x) PROVE v[u] <= w[u]
    <3>1. u \in Subs /\ d[u] \in Nat
      BY <1>2
    <3>2. GreedyFirst(x, d, u, t) => GreedyFirst(x, d, u, s)
      BY <1>6, InLineAre
    <3> QED
      BY <1>3, <2>2, <3>1, <3>2
  <2>5. Lighter(q, v, w)
    BY <1>2, <2>4 DEF Lighter
  <2>6. PICK k \in DOMAIN q : q[k] = t
    BY <1>1 DEF Subscribers, ToSet
  <2>7. PICK c \in Nat : c = d[t]
    BY <1>2
  <2>8. v[t] = 0 /\ w[t] = c
    BY <1>2, <1>3, <1>6, <2>2, <2>7, InLineAre
  <2>9. v[q[k]] + c <= w[q[k]]
    BY <2>6, <2>7, <2>8
  <2>10. Sum(q, v) + c <= Sum(q, w)
    BY <1>2, <1>3, <2>2, <2>5, <2>9, SumLess
  <2> QED
    BY <2>3, <2>7, <2>10
<1> QED
  BY <1>4, <1>5, <1>6

(* The first in line has nobody before it, and otherwise the last of those   *)
(* ahead is just before it.                                                  *)
InFront(x, d, s) == {t \in Subscribers(x) : GreedyFirst(x, d, t, s)}
LEMMA BeforeFirst ==
  ASSUME NEW x, NEW d, Owns(x, d), NEW s \in Subscribers(x), InFront(x, d, s) = {}
  PROVE  Before(x, d, s) = 0
<1>1. PICK q, w : q = producerSubs[x] /\ w = Wants(x, d, s)
  OBVIOUS
<1>2. q \in Seq(Subs) /\ d \in [Subs -> Nat] /\ Subscribers(x) \subseteq Subs
      /\ \A n \in DOMAIN q : q[n] \in Subscribers(x)
  BY <1>1, SubscribersAre DEF Owns
<1>3. w \in [Subs -> Nat] /\ \A u \in Subs : w[u] = IF GreedyFirst(x, d, u, s) THEN d[u] ELSE 0
  BY <1>1, <1>2 DEF Wants
<1>4. \A n \in DOMAIN q : w[q[n]] = 0
  BY <1>2, <1>3 DEF InFront
<1>5. Sum(q, w) = 0
  BY <1>2, <1>3, <1>4, SumOfNothing
<1> QED
  BY <1>1, <1>5 DEF Before

LEMMA BeforeNext ==
  ASSUME NEW x, NEW d, Owns(x, d), NEW s \in Subscribers(x),
         NEW t, LastIn(x, d, t, InFront(x, d, s))
  PROVE  t \in Subscribers(x) /\ GreedyFirst(x, d, t, s) /\ Before(x, d, s) = Before(x, d, t) + d[t]
<1>1. PICK q, w, v : q = producerSubs[x] /\ w = Wants(x, d, s) /\ v = Wants(x, d, t)
  OBVIOUS
<1>2. q \in Seq(Subs) /\ d \in [Subs -> Nat] /\ Subscribers(x) \subseteq Subs /\ Distinct(q)
      /\ \A n \in DOMAIN q : q[n] \in Subscribers(x)
  BY <1>1, SubscribersAre DEF Owns
<1>3. /\ w \in [Subs -> Nat] /\ \A u \in Subs : w[u] = IF GreedyFirst(x, d, u, s) THEN d[u] ELSE 0
      /\ v \in [Subs -> Nat] /\ \A u \in Subs : v[u] = IF GreedyFirst(x, d, u, t) THEN d[u] ELSE 0
  BY <1>1, <1>2 DEF Wants
<1>4. t \in Subscribers(x) /\ GreedyFirst(x, d, t, s)
      /\ \A u \in InFront(x, d, s) \ {t} : GreedyFirst(x, d, u, t)
  BY DEF LastIn, InFront
<1>5. PICK e : e = [u \in Subs |-> IF u = t THEN d[t] ELSE 0]
  OBVIOUS
<1>6. e \in [Subs -> Nat] /\ \A u \in Subs : e[u] = IF u = t THEN d[t] ELSE 0
  BY <1>2, <1>4, <1>5
<1>7. PICK k \in DOMAIN q : q[k] = t
  BY <1>1, <1>4 DEF Subscribers, ToSet
<1>8. Sum(q, e) = d[t]
  <2>1. \A n \in DOMAIN q \ {k} : q[n] # t
    BY <1>2, <1>7 DEF Distinct
  <2>2. Alone(q, k, e)
    BY <1>2, <1>6, <2>1 DEF Alone
  <2>3. Sum(q, e) = e[q[k]]
    BY <1>2, <1>6, <2>2, SumOfSingle
  <2> QED
    BY <1>2, <1>4, <1>6, <1>7, <2>3
<1>9. ASSUME NEW u \in Subscribers(x) PROVE w[u] <= v[u] + e[u]
  <2>1. u \in Subs /\ d[u] \in Nat
    BY <1>2
  <2>2. CASE u = t
    BY <1>3, <1>6, <2>1, <2>2
  <2>3. CASE u # t
    <3>1. GreedyFirst(x, d, u, s) => GreedyFirst(x, d, u, t)
      BY <1>4, <2>3 DEF InFront
    <3> QED
      BY <1>3, <1>6, <2>1, <3>1
  <2> QED
    BY <2>2, <2>3
<1>10. Within(q, w, v, e)
  BY <1>2, <1>9 DEF Within
<1>11. Sum(q, w) <= Sum(q, v) + Sum(q, e)
  BY <1>2, <1>3, <1>6, <1>10, SumWithin
<1>12. Before(x, d, s) = Sum(q, w) /\ Before(x, d, t) = Sum(q, v)
  BY <1>1 DEF Before
<1>13. PICK a, b, c : a = Before(x, d, s) /\ b = Before(x, d, t) /\ c = d[t]
  OBVIOUS
<1>14. a \in Nat /\ b \in Nat /\ c \in Nat /\ b + c <= a /\ a <= b + c
  BY <1>2, <1>4, <1>8, <1>11, <1>12, <1>13, BeforeIs
<1>15. a = b + c
  BY <1>14
<1> QED
  BY <1>4, <1>13, <1>15

(* What a dispatcher leaves, and whether a subscription can get no more.     *)
Fits(s, e) == kind = "partition" => Hash[e] = Partition[s]
StuckAt(x, s, d) ==
    /\ kind = "demand" => \A t \in Subscribers(x) : d[t] = 0
    /\ kind = "broadcast" => \E t \in Subscribers(x) : d[t] = 0
    /\ kind = "partition" => d[s] = 0
Left(x, d, evs) == DOMAIN evs \ UNION {Share(x, d, evs, s) : s \in Subscribers(x)}
Rest(x, d, evs) == [s \in Subs |-> IF s \in Subscribers(x) THEN Spent(x, d, evs, s) ELSE d[s]]

(* Of what is left, each event comes behind what a subscription gets that    *)
(* could have had it, and which can get no more.                             *)
FairlyShared(x, d, evs, s) ==
    LET S == Share(x, d, evs, s)
    IN  /\ \A n \in Left(x, d, evs) : Fits(s, evs[n]) =>
               (\A m \in S : m < n) /\ StuckAt(x, s, Rest(x, d, evs))
        /\ StuckAt(x, s, d) => S = {}
        /\ kind # "partition" /\ evs # <<>> /\ TotalPending(x) > 0 /\ d = demand
              => 1 \notin Left(x, d, evs)
        /\ \A m \in S : Fits(s, evs[m])
        /\ kind # "broadcast" =>
              \A t \in Subscribers(x) \ {s} : S \cap Share(x, d, evs, t) = {}

(* Where an event is left, all get less than up to there.                    *)
LEMMA GreedyLeaves ==
  ASSUME NEW x, NEW d, Owns(x, d), NEW evs \in Seq(Events), kind = "demand",
         NEW n \in Left(x, d, evs), NEW s \in Subscribers(x)
  PROVE  Before(x, d, s) + d[s] < n
<1>1. n \in DOMAIN evs /\ n \in Nat /\ n > 0
  BY DEF Left
<1>2. ASSUME NEW t \in Subscribers(x)
      PROVE  Before(x, d, t) \in Nat /\ d[t] \in Nat /\ (Before(x, d, t) >= n \/ Before(x, d, t) + d[t] < n)
  <2>1. n \notin Share(x, d, evs, t)
    BY DEF Left
  <2>2. PICK b, c : b = Before(x, d, t) /\ c = d[t]
    OBVIOUS
  <2>3. n \notin {k \in DOMAIN evs : b < k /\ k <= b + c}
    BY <2>1, <2>2 DEF Share, Greedy, Before, Wants
  <2>4. b \in Nat /\ c \in Nat
    BY <2>2, BeforeIs, SubscribersAre
  <2>5. b >= n \/ b + c < n
    BY <1>1, <2>3, <2>4
  <2> QED
    BY <2>2, <2>4, <2>5
<1>3. PICK bad : bad = {t \in Subscribers(x) : Before(x, d, t) >= n}
  OBVIOUS
<1>4. bad = {}
  <2>1. SUFFICES ASSUME bad # {} PROVE FALSE
    OBVIOUS
  <2>2. bad \subseteq Subscribers(x)
    BY <1>3
  <2>3. PICK t \in bad : FirstIn(x, d, t, bad)
    BY <2>1, <2>2, LineHasEnds
  <2>4. t \in Subscribers(x) /\ Before(x, d, t) >= n
    BY <1>3
  <2>5. InFront(x, d, t) # {}
    <3>1. Before(x, d, t) # 0
      BY <1>1, <2>4
    <3> QED
      BY <2>4, <3>1, BeforeFirst
  <2>6. PICK u : LastIn(x, d, u, InFront(x, d, t))
    <3>1. InFront(x, d, t) \subseteq Subscribers(x)
      BY DEF InFront
    <3> QED
      BY <2>5, <3>1, LineHasEnds
  <2>7. u \in Subscribers(x) /\ GreedyFirst(x, d, u, t) /\ Before(x, d, t) = Before(x, d, u) + d[u]
    BY <2>4, <2>6, BeforeNext
  <2>8. u \in bad
    <3>1. ~(Before(x, d, u) + d[u] < n)
      <4>1. PICK a : a = Before(x, d, u) + d[u]
        OBVIOUS
      <4>2. a >= n /\ a \in Nat
        BY <1>2, <2>4, <2>7, <4>1
      <4> QED
        BY <1>1, <4>1, <4>2
    <3> QED
      BY <1>2, <1>3, <2>7, <3>1
  <2>9. u # t
    BY <2>4, <2>7, InLineAre
  <2>10. GreedyFirst(x, d, t, u)
    BY <2>3, <2>8, <2>9 DEF FirstIn
  <2> QED
    BY <2>4, <2>7, <2>10, InLineAre
<1> QED
  BY <1>2, <1>3, <1>4

(* Ranks grow with the places.                                               *)
LEMMA RanksGrow ==
  ASSUME NEW S \in SUBSET Nat, IsFiniteSet(S), NEW m \in S, NEW n \in S
  PROVE  /\ Rank(m, S) \in Nat /\ Rank(n, S) \in Nat
         /\ Rank(m, S) < Rank(n, S) <=> m < n
<1>1. /\ \A k \in S : Rank(k, S) \in 1..Cardinality(S)
      /\ \A j, k \in S : Rank(j, S) = Rank(k, S) => j = k
      /\ Cardinality(S) \in Nat
  BY Ranks
<1>2. ASSUME NEW j \in S, NEW k \in S, j <= k PROVE Rank(j, S) <= Rank(k, S)
  <2>1. PICK A, B : A = {i \in S : i <= j} /\ B = {i \in S : i <= k}
    OBVIOUS
  <2>2. \A i \in S : i \in Nat
    OBVIOUS
  <2>3. A \subseteq B
    <3>1. ASSUME NEW i \in S, i <= j PROVE i <= k
      BY <1>2, <2>2, <3>1
    <3> QED
      BY <2>1, <3>1
  <2>4. IsFiniteSet(B)
    <3>1. B \in SUBSET S
      BY <2>1
    <3> QED
      BY <3>1, FS_Subset
  <2>5. Cardinality(A) <= Cardinality(B)
    <3>1. A \in SUBSET B
      BY <2>3
    <3> QED
      BY <2>4, <3>1, FS_Subset
  <2> QED
    BY <2>1, <2>5 DEF Rank
<1>3. PICK a, b : a = Rank(m, S) /\ b = Rank(n, S)
  OBVIOUS
<1>4. a \in Nat /\ b \in Nat /\ m \in Nat /\ n \in Nat
  BY <1>1, <1>3
<1>5. (m <= n => a <= b) /\ (n <= m => b <= a) /\ (a = b => m = n)
  BY <1>1, <1>2, <1>3
<1>6. a < b <=> m < n
  BY ONLY <1>4, <1>5
<1> QED
  BY <1>3, <1>4, <1>6

(* The DemandDispatcher shares fairly.                                       *)
LEMMA GreedySpent ==
  ASSUME NEW x, NEW d, Owns(x, d), NEW evs \in Seq(Events), kind = "demand",
         NEW n \in Left(x, d, evs), NEW s \in Subscribers(x)
  PROVE  Rest(x, d, evs)[s] = 0 /\ \A m \in Share(x, d, evs, s) : m < n
<1>1. PICK b, c, S : b = Before(x, d, s) /\ c = d[s] /\ S = Share(x, d, evs, s)
  OBVIOUS
<1>2. b \in Nat /\ c \in Nat /\ b + c < n /\ s \in Subs
  BY <1>1, BeforeIs, SubscribersAre, GreedyLeaves
<1>3. S = {k \in DOMAIN evs : b < k /\ k <= b + c}
  BY <1>1 DEF Share, Greedy, Before, Wants
<1>4. PICK len \in Nat : DOMAIN evs = 1..len
  OBVIOUS
<1>5. n \in 1..len
  BY <1>4 DEF Left
<1>6. S = (b + 1)..(b + c)
  <2>1. \A k \in (b + 1)..(b + c) : k \in 1..len /\ b < k /\ k <= b + c
    BY <1>2, <1>5
  <2>2. \A k \in 1..len : b < k /\ k <= b + c => k \in (b + 1)..(b + c)
    BY <1>2
  <2> QED
    BY <1>3, <1>4, <2>1, <2>2
<1>7. Cardinality(S) = c
  <2>1. PICK i, j : i = b + 1 /\ j = b + c
    OBVIOUS
  <2>2. i \in Int /\ j \in Int /\ (i > j => c = 0) /\ j - i + 1 = c
    BY ONLY <1>2, <2>1
  <2>3. Cardinality(i..j) = IF i > j THEN 0 ELSE j - i + 1
    BY <2>2, FS_Interval
  <2> QED
    BY <1>6, <2>1, <2>2, <2>3
<1>8. \A m \in S : m < n
  BY <1>2, <1>5, <1>6
<1>9. Spent(x, d, evs, s) = 0
  <2>1. Spent(x, d, evs, s) = c - c
    BY <1>1, <1>7 DEF Spent
  <2> QED
    BY <1>2, <2>1
<1>10. Rest(x, d, evs)[s] = 0
  BY <1>2, <1>9 DEF Rest
<1> QED
  BY <1>1, <1>8, <1>10

LEMMA GreedyShares ==
  ASSUME NEW x, NEW d, Owns(x, d), NEW evs \in Seq(Events), kind = "demand",
         NEW s \in Subscribers(x)
  PROVE  FairlyShared(x, d, evs, s)
<1>1. ASSUME NEW t \in Subscribers(x)
      PROVE  /\ Before(x, d, t) \in Nat /\ d[t] \in Nat
             /\ Share(x, d, evs, t) =
                   {k \in DOMAIN evs : Before(x, d, t) < k /\ k <= Before(x, d, t) + d[t]}
  <2>1. Share(x, d, evs, t) =
                   {k \in DOMAIN evs : Before(x, d, t) < k /\ k <= Before(x, d, t) + d[t]}
    BY DEF Share, Greedy, Before, Wants
  <2> QED
    BY <2>1, BeforeIs, SubscribersAre
<1>2. \A k \in DOMAIN evs : k \in Nat
  OBVIOUS
<1>3. ASSUME NEW n \in Left(x, d, evs)
      PROVE  (\A m \in Share(x, d, evs, s) : m < n) /\ StuckAt(x, s, Rest(x, d, evs))
  BY <1>3, GreedySpent DEF StuckAt
<1>4. ASSUME StuckAt(x, s, d) PROVE Share(x, d, evs, s) = {}
  <2>1. PICK b, c : b = Before(x, d, s) /\ c = d[s]
    OBVIOUS
  <2>2. c = 0
    BY <1>4, <2>1 DEF StuckAt
  <2>3. \A k \in DOMAIN evs : ~(b < k /\ k <= b + c)
    BY <1>1, <1>2, <2>1, <2>2
  <2> QED
    BY <1>1, <2>1, <2>3
<1>5. ASSUME evs # <<>>, TotalPending(x) > 0, d = demand PROVE 1 \notin Left(x, d, evs)
  <2>1. SUFFICES ASSUME 1 \in Left(x, d, evs) PROVE FALSE
    OBVIOUS
  <2>2. PICK q : q = producerSubs[x]
    OBVIOUS
  <2>3. q \in Seq(Subs) /\ d \in [Subs -> Nat] /\ \A k \in DOMAIN q : q[k] \in Subscribers(x)
    BY <2>2, SubscribersAre DEF Owns
  <2>4. \A t \in Subscribers(x) : d[t] = 0
    <3>1. ASSUME NEW t \in Subscribers(x) PROVE d[t] = 0
      <4>1. PICK b, c : b = Before(x, d, t) /\ c = d[t]
        OBVIOUS
      <4>2. b \in Nat /\ c \in Nat /\ b + c < 1
        BY <1>1, <2>1, <4>1, GreedyLeaves
      <4>3. c = 0
        BY <4>2
      <4> QED
        BY <4>1, <4>3
    <3> QED
      BY <3>1
  <2>5. Sum(q, d) = 0
    BY <2>3, <2>4, SumOfNothing
  <2>6. TotalPending(x) = 0
    BY <1>5, <2>2, <2>5 DEF TotalPending
  <2> QED
    BY <1>5, <2>6
<1>6. \A m \in Share(x, d, evs, s) : Fits(s, evs[m])
  BY DEF Fits
<1>7. ASSUME NEW t \in Subscribers(x) \ {s}
      PROVE  Share(x, d, evs, s) \cap Share(x, d, evs, t) = {}
  <2>1. PICK a, b, c, e : /\ a = Before(x, d, s) /\ b = d[s]
                          /\ c = Before(x, d, t) /\ e = d[t]
    OBVIOUS
  <2>2. a \in Nat /\ b \in Nat /\ c \in Nat /\ e \in Nat
    BY <1>1, <2>1
  <2>3. GreedyFirst(x, d, s, t) \/ GreedyFirst(x, d, t, s)
    BY <1>7, InLineAre
  <2>4. a + b <= c \/ c + e <= a
    BY <2>1, <2>3, BeforeIs
  <2>5. \A k \in DOMAIN evs : ~(a < k /\ k <= a + b /\ c < k /\ k <= c + e)
    BY <1>2, <2>2, <2>4
  <2>6. /\ Share(x, d, evs, s) = {k \in DOMAIN evs : a < k /\ k <= a + b}
        /\ Share(x, d, evs, t) = {k \in DOMAIN evs : c < k /\ k <= c + e}
    BY <1>1, <2>1
  <2> QED
    BY <2>5, <2>6
<1> QED
  BY <1>3, <1>4, <1>5, <1>6, <1>7 DEF FairlyShared

(* The smallest demand is that of a subscription.                            *)
LEMMA SmallestOf ==
  ASSUME NEW d \in [Subs -> Nat], NEW S \in SUBSET Subs, S # {}
  PROVE  \E s \in S : Smallest(d, S) = d[s]
<1>1. PICK V : V = {d[t] : t \in S}
  OBVIOUS
<1>2. V \in SUBSET Nat /\ V # {}
  BY <1>1
<1>3. \E n \in V : \A m \in V : n <= m
  BY <1>2, LeastNumber
<1>4. \E n \in V : \A t \in S : n <= d[t]
  BY <1>1, <1>3
<1>5. Smallest(d, S) = CHOOSE k \in V : \A t \in S : k <= d[t]
  BY <1>1 DEF Smallest
<1>6. Smallest(d, S) \in V
  BY <1>4, <1>5
<1> QED
  BY <1>1, <1>6

(* The BroadcastDispatcher shares fairly.                                    *)
LEMMA CommonShares ==
  ASSUME NEW x, NEW d, Owns(x, d), NEW evs \in Seq(Events), kind = "broadcast",
         NEW s \in Subscribers(x)
  PROVE  FairlyShared(x, d, evs, s)
<1>1. PICK least, n, len : /\ least = Smallest(d, Subscribers(x)) /\ len = Len(evs)
                           /\ n = IF least < len THEN least ELSE len
  OBVIOUS
<1>2. Subscribers(x) \in SUBSET Subs /\ d \in [Subs -> Nat] /\ Subscribers(x) # {}
  BY SubscribersAre DEF Owns
<1>3. least \in Nat /\ len \in Nat /\ DOMAIN evs = 1..len /\ \A t \in Subscribers(x) : least <= d[t]
  BY <1>1, <1>2, SmallestIs
<1>4. n \in Nat /\ n <= len /\ n <= least /\ (n = least \/ n = len)
  BY <1>1, <1>3
<1>5. \A t \in Subscribers(x) : Share(x, d, evs, t) = 1..n
  BY <1>1 DEF Share, Common
<1>6. PICK t0 \in Subscribers(x) : d[t0] = least
  BY <1>1, <1>2, SmallestOf
<1>7. Left(x, d, evs) = (1..len) \ (1..n)
  BY <1>3, <1>5 DEF Left
<1>8. ASSUME NEW m \in Left(x, d, evs)
      PROVE  (\A k \in Share(x, d, evs, s) : k < m) /\ StuckAt(x, s, Rest(x, d, evs))
  <2>1. n < m /\ m <= len /\ m \in Nat
    BY <1>3, <1>4, <1>7, <1>8
  <2>2. n = least
    BY <1>3, <1>4, <2>1
  <2>3. Cardinality(1..n) = n
    BY <1>4, FS_Interval
  <2>4. Spent(x, d, evs, t0) = n - n
    BY <1>5, <1>6, <2>2, <2>3 DEF Spent
  <2>5. Rest(x, d, evs)[t0] = 0
    BY <1>2, <1>4, <1>6, <2>4 DEF Rest
  <2>6. StuckAt(x, s, Rest(x, d, evs))
    BY <2>5 DEF StuckAt
  <2>7. \A k \in 1..n : k < m
    BY <1>4, <2>1
  <2> QED
    BY <1>5, <2>6, <2>7
<1>9. ASSUME StuckAt(x, s, d) PROVE Share(x, d, evs, s) = {}
  <2>1. PICK t \in Subscribers(x) : d[t] = 0
    BY <1>9 DEF StuckAt
  <2>2. n = 0
    BY <1>3, <1>4, <2>1
  <2> QED
    BY <1>5, <2>2
<1>10. ASSUME evs # <<>>, TotalPending(x) > 0, d = demand PROVE 1 \notin Left(x, d, evs)
  <2>1. least > 0
    BY <1>1, <1>10 DEF TotalPending
  <2>2. len > 0
    BY <1>1, <1>3, <1>10
  <2>3. 1 \in 1..n
    BY <1>3, <1>4, <2>1, <2>2
  <2> QED
    BY <1>7, <2>3
<1>11. \A m \in Share(x, d, evs, s) : Fits(s, evs[m])
  BY DEF Fits
<1> QED
  BY <1>8, <1>9, <1>10, <1>11 DEF FairlyShared

(* As many places have a rank up to c as c says.                             *)
LEMMA RanksUpTo ==
  ASSUME NEW S \in SUBSET Nat, IsFiniteSet(S), NEW c \in Nat, c <= Cardinality(S)
  PROVE  Cardinality({n \in S : Rank(n, S) <= c}) = c
<1>1. PICK A, f : A = {n \in S : Rank(n, S) <= c} /\ f = [n \in A |-> Rank(n, S)]
  OBVIOUS
<1>2. /\ Cardinality(S) \in Nat
      /\ \A n \in S : Rank(n, S) \in 1..Cardinality(S)
      /\ \A m, n \in S : Rank(m, S) = Rank(n, S) => m = n
      /\ \A k \in 1..Cardinality(S) : \E n \in S : Rank(n, S) = k
  BY Ranks
<1>3. \A n \in A : n \in S /\ f[n] = Rank(n, S) /\ f[n] \in 1..c
  BY <1>1, <1>2
<1>4. f \in [A -> 1..c]
  <2>1. f = [n \in A |-> f[n]]
    BY <1>1
  <2> QED
    BY <1>3, <2>1
<1>5. \A m, n \in A : f[m] = f[n] => m = n
  BY <1>2, <1>3
<1>6. ASSUME NEW k \in 1..c PROVE \E n \in A : f[n] = k
  <2>1. k \in 1..Cardinality(S) /\ k <= c
    BY <1>2
  <2>2. PICK n \in S : Rank(n, S) = k
    BY <1>2, <2>1
  <2>3. n \in A
    BY <1>1, <2>1, <2>2
  <2> QED
    BY <1>3, <2>2, <2>3
<1>7. f \in Injection(A, 1..c)
  BY <1>4, <1>5, Fun_IsInj
<1>8. f \in Surjection(A, 1..c)
  BY <1>4, <1>6, Fun_IsSurj
<1>9. IsFiniteSet(1..c) /\ Cardinality(1..c) = c
  BY FS_Interval
<1>10. Cardinality(A) = c
  BY <1>7, <1>8, <1>9, FS_Injection
<1> QED
  BY <1>1, <1>10

(* The PartitionDispatcher shares fairly.                                    *)
LEMMA HashedShares ==
  ASSUME GenStageAssumption, Subscribed, NEW x \in Stages, NEW d, Owns(x, d),
         NEW evs \in Seq(Events), kind = "partition", NEW s \in Subscribers(x)
  PROVE  FairlyShared(x, d, evs, s)
<1>1. Subscribers(x) \subseteq Subs /\ d \in [Subs -> Nat] /\ s \in Subs
  BY SubscribersAre DEF Owns
<1>2. \A k \in DOMAIN evs : k \in Nat
  OBVIOUS
<1>3. PICK mine : mine = {n \in DOMAIN evs : Hash[evs[n]] = Partition[s]}
  OBVIOUS
<1>4. PICK c : c = d[s]
  OBVIOUS
<1>5. c \in Nat /\ Share(x, d, evs, s) = {n \in mine : Rank(n, mine) <= c}
  BY <1>1, <1>3, <1>4 DEF Share, Hashed
<1>6. mine \in SUBSET Nat /\ IsFiniteSet(mine)
  <2>1. mine \in SUBSET DOMAIN evs /\ mine \in SUBSET Nat
    BY <1>2, <1>3
  <2> QED
    BY <2>1, AtIs
<1>7. \A n \in mine : Rank(n, mine) \in Nat /\ Rank(n, mine) > 0 /\ Rank(n, mine) <= Cardinality(mine)
  <2>1. Cardinality(mine) \in Nat /\ \A n \in mine : Rank(n, mine) \in 1..Cardinality(mine)
    BY <1>6, Ranks
  <2> QED
    BY <2>1
<1>8. ASSUME NEW n \in Left(x, d, evs), Fits(s, evs[n])
      PROVE  (\A m \in Share(x, d, evs, s) : m < n) /\ StuckAt(x, s, Rest(x, d, evs))
  <2>1. n \in mine /\ n \notin Share(x, d, evs, s)
    BY <1>3, <1>8 DEF Fits, Left
  <2>2. PICK r : r = Rank(n, mine)
    OBVIOUS
  <2>3. r \in Nat /\ c < r /\ r <= Cardinality(mine)
    BY <1>5, <1>7, <2>1, <2>2
  <2>4. ASSUME NEW m \in Share(x, d, evs, s) PROVE m < n
    <3>1. m \in mine /\ Rank(m, mine) <= c
      BY <1>5
    <3>2. Rank(m, mine) < Rank(n, mine)
      BY <1>5, <1>7, <2>2, <2>3, <3>1
    <3> QED
      BY <1>6, <2>1, <3>1, <3>2, RanksGrow
  <2>5. Cardinality(mine) \in Nat /\ c <= Cardinality(mine)
    <3>1. Cardinality(mine) \in Nat
      BY <1>6, Ranks
    <3> QED
      BY <1>5, <2>3, <3>1
  <2>6. Cardinality(Share(x, d, evs, s)) = c
    BY <1>5, <1>6, <2>5, RanksUpTo
  <2>7. Spent(x, d, evs, s) = c - c
    BY <1>4, <2>6 DEF Spent
  <2>8. Rest(x, d, evs)[s] = 0
    BY <1>1, <1>5, <2>7 DEF Rest
  <2> QED
    BY <2>4, <2>8 DEF StuckAt
<1>9. ASSUME StuckAt(x, s, d) PROVE Share(x, d, evs, s) = {}
  <2>1. c = 0
    BY <1>4, <1>9 DEF StuckAt
  <2>2. \A n \in mine : ~(Rank(n, mine) <= c)
    BY <1>7, <2>1
  <2> QED
    BY <1>5, <2>2
<1>10. \A m \in Share(x, d, evs, s) : Fits(s, evs[m])
  BY <1>3, <1>5 DEF Fits
<1>11. ASSUME NEW t \in Subscribers(x) \ {s}
       PROVE  Share(x, d, evs, s) \cap Share(x, d, evs, t) = {}
  <2>1. Share(x, d, evs, t) \subseteq {n \in DOMAIN evs : Hash[evs[n]] = Partition[t]}
    BY DEF Share, Hashed
  <2>2. Up[s] = x /\ Up[t] = x /\ t \in Subs
    <3>1. ASSUME NEW u \in Subscribers(x) PROVE Up[u] = x
      BY DEF Subscribers, ToSet, Subscribed
    <3> QED
      BY <1>1, <3>1
  <2>3. Partition[s] # Partition[t]
    BY <1>1, <1>11, <2>2 DEF GenStageAssumption
  <2>4. Share(x, d, evs, s) \subseteq mine
    BY <1>5
  <2> QED
    BY <1>3, <2>1, <2>3, <2>4
<1> QED
  BY <1>8, <1>9, <1>10, <1>11 DEF FairlyShared

(* So each dispatcher does.                                                  *)
LEMMA AllShareFairly ==
  ASSUME GenStageAssumption, Subscribed, kind \in Kinds, NEW x \in Stages, NEW d, Owns(x, d),
         NEW evs \in Seq(Events), NEW s \in Subscribers(x)
  PROVE  FairlyShared(x, d, evs, s)
<1>1. kind \in {"demand", "broadcast", "partition"}
  BY DEF GenStageAssumption
<1> QED
  BY <1>1, GreedyShares, CommonShares, HashedShares

-----------------------------------------------------------------------------
(* What is in the buffer waits for demand. *)

(* A subscription can get no more while something of it waits.               *)
Holds(x) == \A s \in Subscribers(x), e \in ToSet(buffer[x]) : Fits(s, e) => StuckAt(x, s, demand)

(* While handle_demand is asked, what is buffered waits; and there is less   *)
(* of it than one call makes.                                                *)
Waiting == at[Source] = "producing" => Holds(Source)
Restrained == kind # "partition" => Len(buffer[Source]) < MaxBatch
MInv == Waiting /\ Restrained

LEMMA InitMInv ==
  ASSUME GenStageAssumption, Init
  PROVE  MInv
<1>1. Waiting
  BY DEF Init, Waiting, GenStageAssumption
<1>2. Restrained
  <2>1. buffer[Source] = <<>> /\ MaxBatch \in Nat \ {0}
    BY DEF Init, GenStageAssumption
  <2> QED
    BY <2>1 DEF Restrained
<1> QED
  BY <1>1, <1>2 DEF MInv

(* The places that are left are filled anew.                                 *)
LEMMA LeftoverIs ==
  ASSUME NEW x, NEW d, NEW evs \in Seq(Events)
  PROVE  /\ Left(x, d, evs) \in SUBSET DOMAIN evs
         /\ Leftover(x, d, evs) = At(evs, Left(x, d, evs))
         /\ Leftover(x, d, evs) \in Seq(Events)
         /\ Len(Leftover(x, d, evs)) <= Len(evs)
         /\ 1 \in DOMAIN evs \ Left(x, d, evs) => Len(Leftover(x, d, evs)) < Len(evs)
<1>1. PICK L : L = Left(x, d, evs)
  OBVIOUS
<1>2. L \in SUBSET DOMAIN evs /\ Leftover(x, d, evs) = At(evs, L)
  BY <1>1 DEF Left, Leftover
<1>3. At(evs, L) \in Seq(Events) /\ Len(At(evs, L)) = Cardinality(L) /\ IsFiniteSet(L)
  BY <1>2, AtIs
<1>4. PICK len \in Nat : len = Len(evs) /\ DOMAIN evs = 1..len
  OBVIOUS
<1>5. IsFiniteSet(1..len) /\ Cardinality(1..len) = len
  <2>1. PICK i : i = 1
    OBVIOUS
  <2>2. i \in Int /\ len \in Int /\ (i > len => len = 0) /\ len - i + 1 = len
    BY <1>4, <2>1
  <2>3. IsFiniteSet(i..len) /\ Cardinality(i..len) = IF i > len THEN 0 ELSE len - i + 1
    BY <2>2, FS_Interval
  <2> QED
    BY <2>1, <2>2, <2>3
<1>6. /\ Cardinality(L) <= len
      /\ L # 1..len => Cardinality(L) < len
  BY <1>2, <1>4, <1>5, FS_Subset, FS_CardinalityType
<1>7. 1 \in 1..len /\ 1 \notin L => Cardinality(L) < len
  BY <1>6
<1> QED
  BY <1>1, <1>2, <1>3, <1>4, <1>6, <1>7

(* The elements at some places, which stay in their order.                   *)
LEMMA AtElements ==
  ASSUME NEW T, NEW q \in Seq(T), NEW S \in SUBSET DOMAIN q
  PROVE  /\ ToSet(At(q, S)) = {q[n] : n \in S}
         /\ Increasing(q) => Increasing(At(q, S))
<1>1. IsFiniteSet(S) /\ S \in SUBSET Nat
  <2>1. S \in SUBSET Nat
    OBVIOUS
  <2> QED
    BY <2>1, AtIs
<1>2. PICK c, p : c = Cardinality(S) /\ p = [k \in 1..c |-> CHOOSE n \in S : Rank(n, S) = k]
  OBVIOUS
<1>3. /\ c \in Nat /\ \A n \in S : Rank(n, S) \in 1..c
      /\ \A m, n \in S : Rank(m, S) = Rank(n, S) => m = n
      /\ \A k \in 1..c : \E n \in S : Rank(n, S) = k
  BY <1>1, <1>2, Ranks
<1>4. ASSUME NEW k \in 1..c PROVE p[k] \in S /\ Rank(p[k], S) = k
  BY <1>2, <1>3
<1>5. PICK a : a = At(q, S)
  OBVIOUS
<1>6. DOMAIN a = 1..c /\ \A k \in 1..c : a[k] = q[p[k]]
  BY <1>2, <1>5 DEF At
<1>7. \A n \in S : p[Rank(n, S)] = n
  BY <1>3, <1>4
<1>8. ToSet(a) = {q[n] : n \in S}
  <2>1. ASSUME NEW e \in ToSet(a) PROVE e \in {q[n] : n \in S}
    BY <1>4, <1>6 DEF ToSet
  <2>2. ASSUME NEW n \in S PROVE q[n] \in ToSet(a)
    <3>1. Rank(n, S) \in 1..c /\ a[Rank(n, S)] = q[n]
      BY <1>3, <1>6, <1>7
    <3> QED
      BY <1>6, <3>1 DEF ToSet
  <2> QED
    BY <2>1, <2>2
<1>9. ASSUME Increasing(q) PROVE Increasing(a)
  <2>1. ASSUME NEW j \in 1..c, NEW k \in 1..c, j < k PROVE a[j] < a[k]
    <3>1. p[j] \in S /\ p[k] \in S /\ Rank(p[j], S) < Rank(p[k], S)
      BY <1>4, <2>1
    <3>2. p[j] < p[k]
      BY <1>1, <3>1, RanksGrow
    <3> QED
      BY <1>6, <1>9, <3>1, <3>2 DEF Increasing
  <2> QED
    BY <1>6, <2>1 DEF Increasing
<1> QED
  BY <1>5, <1>8, <1>9

(* What a producer has buffered holds on where nobody's demand grows.        *)
LEMMA HoldsOn ==
  ASSUME NEW y \in Stages, Holds(y), UNCHANGED <<kind, producerSubs[y]>>,
         ToSet(buffer'[y]) \subseteq ToSet(buffer[y]),
         \A s \in Subscribers(y) : demand[s] = 0 => demand'[s] = 0
  PROVE  Holds(y)'
<1>1. Subscribers(y)' = Subscribers(y)
  BY DEF Subscribers
<1>2. ASSUME NEW s \in Subscribers(y), NEW e \in ToSet(buffer'[y]), Fits(s, e)'
      PROVE  StuckAt(y, s, demand)'
  <2>1. e \in ToSet(buffer[y]) /\ Fits(s, e)
    BY <1>2 DEF Fits
  <2>2. StuckAt(y, s, demand)
    BY <2>1 DEF Holds
  <2>3. kind = "demand" => \A t \in Subscribers(y) : demand'[t] = 0
    BY <2>2 DEF StuckAt
  <2>4. kind = "broadcast" => \E t \in Subscribers(y) : demand'[t] = 0
    BY <2>2 DEF StuckAt
  <2>5. kind = "partition" => demand'[s] = 0
    BY <2>2 DEF StuckAt
  <2> QED
    BY <1>1, <2>3, <2>4, <2>5 DEF StuckAt
<1>3. \A s \in Subscribers(y)', e \in ToSet(buffer[y])' : Fits(s, e)' => StuckAt(y, s, demand)'
  BY <1>1, <1>2
<1> QED
  BY <1>3 DEF Holds

(* A producer knows its own subscriptions.                                   *)
LEMMA SubscribersUp ==
  ASSUME IInv, NEW y \in Stages, NEW s \in Subscribers(y)
  PROVE  s \in Subs /\ Up[s] = y
<1>1. PICK q : q = producerSubs[y]
  OBVIOUS
<1>2. q \in Seq(Subs) /\ \A n \in DOMAIN q : Up[q[n]] = y
  BY <1>1 DEF IInv, TypeOK, Subscribed
<1>3. PICK n \in DOMAIN q : s = q[n]
  BY <1>1 DEF Subscribers, ToSet
<1> QED
  BY <1>2, <1>3

(* What dispatching changes.                                                 *)
Scraps(x, d, evs) == {evs[n] : n \in Left(x, d, evs)}
Dispatched(x, d, buf, evs) ==
    /\ Owns(x, d) /\ Subscribers(x) \subseteq Subs
    /\ demand' = Rest(x, d, evs) /\ demand' \in [Subs -> Nat]
    /\ \A s \in Subs : demand'[s] <= d[s]
    /\ \A s \in Subs \ Subscribers(x) : demand'[s] = d[s]
    /\ buffer'[x] = buf \o Leftover(x, d, evs)
    /\ ToSet(buffer'[x]) = ToSet(buf) \cup Scraps(x, d, evs)
    /\ \A y \in Stages \ {x} : buffer'[y] = buffer[y] /\ outbox'[y] = outbox[y]
LEMMA DispatchedIs ==
  ASSUME GenStageAssumption, IInv, NEW x \in Stages, NEW d \in [Subs -> Nat],
         NEW buf \in Seq(Events), NEW evs \in Seq(Events), Dispatch(x, d, buf, evs)
  PROVE  Dispatched(x, d, buf, evs)
<1>1. /\ kind \in Kinds /\ producerSubs[x] \in Seq(Subs) /\ outbox \in [Stages -> Seq(Message)]
      /\ buffer \in [Stages -> Seq(Events)] /\ Distinct(producerSubs[x])
  BY DEF IInv, TypeOK, Subscribed
<1>2. Owns(x, d)
  BY <1>1 DEF Owns
<1>3. demand' = Rest(x, d, evs)
  BY DEF Dispatch, Rest
<1>4. /\ demand' \in [Subs -> Nat] /\ \A y \in Stages \ {x} : outbox'[y] = outbox[y]
      /\ outbox' \in [Stages -> Seq(Message)]
      /\ \A s \in Subs : /\ demand'[s] + Sum(outbox'[x], Carries(s)) = d[s]
                         /\ s \notin Subscribers(x) => demand'[s] = d[s]
  BY <1>1, Dispatches DEF Gives
<1>5. \A s \in Subs : demand'[s] <= d[s]
  <2>1. ASSUME NEW s \in Subs PROVE demand'[s] <= d[s]
    <3>1. Carries(s) \in [Message -> Nat] /\ outbox'[x] \in Seq(Message)
      BY <1>4, LenOfEvents
    <3>2. PICK k : k = Sum(outbox'[x], Carries(s))
      OBVIOUS
    <3>3. k \in Nat /\ demand'[s] + k = d[s] /\ demand'[s] \in Nat /\ d[s] \in Nat
      BY <1>4, <3>1, <3>2, SumIsNat
    <3> QED
      BY <3>3
  <2> QED
    BY <2>1
<1>6. /\ buffer'[x] = buf \o Leftover(x, d, evs)
      /\ \A y \in Stages \ {x} : buffer'[y] = buffer[y]
  BY <1>1 DEF Dispatch, Kept
<1>7. ToSet(buffer'[x]) = ToSet(buf) \cup Scraps(x, d, evs)
  <2>1. PICK L, q : L = Left(x, d, evs) /\ q = Leftover(x, d, evs)
    OBVIOUS
  <2>2. L \in SUBSET DOMAIN evs /\ q = At(evs, L) /\ q \in Seq(Events)
    BY <2>1, LeftoverIs
  <2>3. ToSet(q) = {evs[n] : n \in L}
    <3>0. L \in SUBSET DOMAIN evs
      BY <2>2
    <3>1. ToSet(At(evs, L)) = {evs[n] : n \in L}
      BY ONLY <3>0, evs \in Seq(Events), AtElements
    <3> QED
      BY <2>2, <3>1
  <2>4. ToSet(buf \o q) = ToSet(buf) \cup ToSet(q)
    BY <2>2, BothElements
  <2>5. Scraps(x, d, evs) = {evs[n] : n \in L}
    BY <2>1 DEF Scraps
  <2> QED
    BY <1>6, <2>1, <2>3, <2>4, <2>5
<1>8. Subscribers(x) \subseteq Subs
  BY <1>2, SubscribersAre
<1>9. \A s \in Subs \ Subscribers(x) : demand'[s] = d[s]
  BY <1>4
<1>10. \A y \in Stages \ {x} : buffer'[y] = buffer[y] /\ outbox'[y] = outbox[y]
  BY <1>4, <1>6
<1>11. demand' \in [Subs -> Nat] /\ buffer'[x] = buf \o Leftover(x, d, evs)
  BY <1>4, <1>6
<1> QED
  BY ONLY <1>2, <1>3, <1>5, <1>7, <1>8, <1>9, <1>10, <1>11 DEF Dispatched

(* What was buffered before has to wait.                                     *)
Stands(x, buf, d) == \A s \in Subscribers(x), e \in ToSet(buf) : Fits(s, e) => StuckAt(x, s, d)
LEMMA DispatchHolds ==
  ASSUME GenStageAssumption, IInv, NEW x \in Stages, NEW d \in [Subs -> Nat],
         NEW buf \in Seq(Events), NEW evs \in Seq(Events), Dispatch(x, d, buf, evs),
         UNCHANGED <<kind, producerSubs>>, Stands(x, buf, d)
  PROVE  Holds(x)'
<1>1. /\ Owns(x, d) /\ Subscribers(x) \subseteq Subs
      /\ demand' = Rest(x, d, evs) /\ demand' \in [Subs -> Nat]
      /\ \A s \in Subs : demand'[s] <= d[s]
      /\ ToSet(buffer'[x]) = ToSet(buf) \cup Scraps(x, d, evs)
  BY DispatchedIs DEF Dispatched
<1>2. Subscribers(x)' = Subscribers(x)
  BY DEF Subscribers
<1>3. \A s \in Subscribers(x) : d[s] = 0 => demand'[s] = 0
  <2>1. ASSUME NEW s \in Subscribers(x), d[s] = 0 PROVE demand'[s] = 0
    <3>1. s \in Subs /\ demand'[s] \in Nat /\ demand'[s] <= 0
      BY <1>1, <2>1
    <3> QED
      BY <3>1
  <2> QED
    BY <2>1
<1>4. ASSUME NEW s \in Subscribers(x), StuckAt(x, s, d) PROVE StuckAt(x, s, demand')
  BY <1>3, <1>4 DEF StuckAt
<1>5. ASSUME NEW s \in Subscribers(x), NEW e \in ToSet(buffer'[x]), Fits(s, e)
      PROVE  StuckAt(x, s, demand')
  <2>1. CASE e \in ToSet(buf)
    BY <1>4, <1>5, <2>1 DEF Stands
  <2>2. CASE e \notin ToSet(buf)
    <3>1. PICK n \in Left(x, d, evs) : e = evs[n]
      BY <1>1, <2>2 DEF Scraps
    <3>2. FairlyShared(x, d, evs, s)
      BY <1>1, AllShareFairly DEF IInv, TypeOK
    <3>3. StuckAt(x, s, Rest(x, d, evs))
      BY <1>5, <3>1, <3>2 DEF FairlyShared
    <3> QED
      BY <1>1, <3>3
  <2> QED
    BY <2>1, <2>2
<1>6. ASSUME NEW s \in Subscribers(x), StuckAt(x, s, demand') PROVE StuckAt(x, s, demand)'
  BY <1>2, <1>6 DEF StuckAt
<1>7. \A s \in Subscribers(x)', e \in ToSet(buffer[x])' : Fits(s, e)' => StuckAt(x, s, demand)'
  <2>1. ASSUME NEW s \in Subscribers(x), NEW e \in ToSet(buffer'[x]), Fits(s, e)'
        PROVE  StuckAt(x, s, demand)'
    <3>1. Fits(s, e)
      BY <2>1 DEF Fits
    <3> QED
      BY <1>5, <1>6, <3>1
  <2> QED
    BY <1>2, <2>1
<1> QED
  BY <1>7 DEF Holds

(* With demand left, nothing is in the buffer, unless it is partitioned.     *)
LEMMA PendingEmpty ==
  ASSUME IInv, NEW x \in Stages, Holds(x), kind \in {"demand", "broadcast"}, TotalPending(x) > 0
  PROVE  buffer[x] = <<>>
<1>1. Owns(x, demand) /\ buffer[x] \in Seq(Events)
  BY DEF IInv, TypeOK, Subscribed, Owns
<1>2. PICK q : q = producerSubs[x]
  OBVIOUS
<1>3. /\ q \in Seq(Subs) /\ demand \in [Subs -> Nat] /\ Subscribers(x) \in SUBSET Subs
      /\ \A k \in DOMAIN q : q[k] \in Subscribers(x)
  BY <1>1, <1>2, SubscribersAre DEF Owns
<1>4. ASSUME NEW e \in ToSet(buffer[x]) PROVE FALSE
  <2>1. \A s \in Subscribers(x) : StuckAt(x, s, demand)
    BY <1>4 DEF Holds, Fits
  <2>2. CASE kind = "demand"
    <3>1. \A s \in Subscribers(x) : demand[s] = 0
      BY <2>1, <2>2 DEF StuckAt
    <3>2. \A k \in DOMAIN q : demand[q[k]] = 0
      BY <1>3, <3>1
    <3>3. Sum(q, demand) = 0
      BY <1>3, <3>2, SumOfNothing
    <3>4. TotalPending(x) = 0
      BY <1>2, <2>2, <3>3 DEF TotalPending
    <3> QED
      BY <3>4
  <2>3. CASE kind = "broadcast"
    <3>1. PICK c : c = Smallest(demand, Subscribers(x))
      OBVIOUS
    <3>2. c > 0
      BY <2>3, <3>1 DEF TotalPending
    <3>3. Subscribers(x) # {}
      <4>1. Subscribers(x) = {} => c = 0
        BY <3>1 DEF Smallest
      <4> QED
        BY <3>2, <4>1
    <3>4. PICK t \in Subscribers(x) : demand[t] = 0
      BY <2>1, <2>3, <3>3 DEF StuckAt
    <3>5. c \in Nat /\ c <= demand[t]
      BY <1>3, <3>1, SmallestIs
    <3> QED
      BY <3>2, <3>4, <3>5
  <2> QED
    BY <2>2, <2>3
<1>5. Len(buffer[x]) = 0
  <2>1. SUFFICES ASSUME Len(buffer[x]) # 0 PROVE FALSE
    OBVIOUS
  <2>2. 1 \in DOMAIN buffer[x]
    BY <1>1, <2>1
  <2>3. buffer[x][1] \in ToSet(buffer[x])
    BY <2>2 DEF ToSet
  <2> QED
    BY <1>4, <2>3
<1> QED
  BY <1>1, <1>5

(* Steps that leave the producer's buffer alone.                             *)
Untold == at'[Source] = "producing" =>
             /\ at[Source] = "producing" /\ UNCHANGED producerSubs[Source]
             /\ \A s \in Subscribers(Source) : demand[s] = 0 => demand'[s] = 0
LEMMA CalmWaits ==
  ASSUME GenStageAssumption, MInv, UNCHANGED <<kind, buffer[Source]>>, Untold
  PROVE  MInv'
<1>1. Restrained'
  BY DEF MInv, Restrained
<1>2. ASSUME at'[Source] = "producing" PROVE Holds(Source)'
  <2>1. Holds(Source) /\ UNCHANGED producerSubs[Source]
        /\ \A s \in Subscribers(Source) : demand[s] = 0 => demand'[s] = 0
    BY <1>2 DEF MInv, Waiting, Untold
  <2> QED
    BY <2>1, HoldsOn DEF GenStageAssumption
<1>3. Waiting'
  BY <1>2 DEF Waiting
<1> QED
  BY <1>1, <1>3 DEF MInv

(* Dispatching, by the producer or by another stage.                         *)
LEMMA DispatchWaits ==
  ASSUME GenStageAssumption, IInv, MInv, NEW x \in Stages, NEW d \in [Subs -> Nat],
         NEW buf \in Seq(Events), NEW evs \in Seq(Events), Dispatch(x, d, buf, evs),
         UNCHANGED <<kind, producerSubs>>,
         x = Source => /\ Stands(x, buf, d)
                       /\ kind # "partition" => Len(buf) + Len(Leftover(x, d, evs)) < MaxBatch,
         x # Source => d = demand /\ (at'[Source] = "producing" => at[Source] = "producing")
  PROVE  MInv'
<1>1. CASE x = Source
  <2>1. Holds(x)'
    BY <1>1, DispatchHolds
  <2>2. Waiting'
    BY <1>1, <2>1 DEF Waiting
  <2>3. Restrained'
    <3>1. PICK q \in Seq(Events) : q = Leftover(x, d, evs)
      BY LeftoverIs
    <3>5. Dispatched(x, d, buf, evs)
      BY DispatchedIs
    <3>4. buffer'[x] = buf \o Leftover(x, d, evs)
      BY ONLY <3>5 DEF Dispatched
    <3>2. buffer'[x] = buf \o q
      BY <3>1, <3>4
    <3>3. Len(buf \o q) = Len(buf) + Len(q)
      BY ConcatProperties
    <3> QED
      BY <1>1, <3>1, <3>2, <3>3 DEF Restrained
  <2> QED
    BY <2>2, <2>3 DEF MInv
<1>2. CASE x # Source
  <2>0. Source \in Stages /\ d = demand
    BY <1>2 DEF GenStageAssumption
  <2>5. /\ \A y \in Stages \ {x} : buffer'[y] = buffer[y]
        /\ \A s \in Subs \ Subscribers(x) : demand'[s] = d[s]
    <3>1. Dispatched(x, d, buf, evs)
      BY DispatchedIs
    <3> QED
      BY ONLY <3>1 DEF Dispatched
  <2>1. buffer'[Source] = buffer[Source] /\ \A s \in Subs \ Subscribers(x) : demand'[s] = demand[s]
    BY <1>2, <2>0, <2>5
  <2>2. ASSUME NEW s \in Subscribers(Source) PROVE s \in Subs \ Subscribers(x)
    BY <1>2, <2>0, SubscribersUp
  <2>3. Untold
    BY <1>2, <2>1, <2>2 DEF Untold
  <2> QED
    BY <2>1, <2>3, CalmWaits
<1> QED
  BY <1>1, <1>2

LEMMA FlushWaits ==
  ASSUME GenStageAssumption, IInv, MInv, NEW x \in Stages, Flush(x)
  PROVE  MInv'
<1>0. <<>> \in Seq(Events)
  OBVIOUS
<1>6. /\ buffer[x] \in Seq(Events) /\ demand \in [Subs -> Nat]
      /\ at \in [Stages -> {"idle", "handling", "flushing", "producing", "passing", "refilling", "stopped"}]
  BY DEF IInv, TypeOK
<1>1. /\ buffer[x] \in Seq(Events) /\ demand \in [Subs -> Nat] /\ <<>> \in Seq(Events)
      /\ at \in [Stages -> {"idle", "handling", "flushing", "producing", "passing", "refilling", "stopped"}]
  BY <1>0, <1>6
<1>2. Dispatch(x, demand, <<>>, buffer[x]) /\ UNCHANGED <<kind, producerSubs>> /\ at' = [at EXCEPT ![x] = "idle"]
  BY DEF Flush, Continue
<1>3. Stands(x, <<>>, demand)
  BY DEF Stands, ToSet
<1>4. ASSUME x = Source, kind # "partition"
      PROVE  Len(<<>>) + Len(Leftover(x, demand, buffer[x])) < MaxBatch
  <2>1. PICK a, b : a = Len(Leftover(x, demand, buffer[x])) /\ b = Len(buffer[x])
    OBVIOUS
  <2>2. a \in Nat /\ b \in Nat /\ a <= b /\ b < MaxBatch /\ MaxBatch \in Nat
    BY <1>1, <1>4, <2>1, LeftoverIs DEF MInv, Restrained, GenStageAssumption
  <2>3. Len(<<>>) = 0 /\ 0 + a < MaxBatch
    BY <2>2
  <2> QED
    BY <2>1, <2>3
<1>5. x # Source => (at'[Source] = "producing" => at[Source] = "producing")
  BY <1>1, <1>2 DEF GenStageAssumption
<1> QED
  BY <1>1, <1>2, <1>3, <1>4, <1>5, DispatchWaits

LEMMA DoDemandWaits ==
  ASSUME GenStageAssumption, IInv, MInv, NEW x \in Stages, DoDemand(x)
  PROVE  MInv'
<1>0. <<>> \in Seq(Events)
  OBVIOUS
<1>6. /\ buffer[x] \in Seq(Events) /\ demand \in [Subs -> Nat]
      /\ at \in [Stages -> {"idle", "handling", "flushing", "producing", "passing", "refilling", "stopped"}]
  BY DEF IInv, TypeOK
<1>1. /\ buffer[x] \in Seq(Events) /\ demand \in [Subs -> Nat] /\ <<>> \in Seq(Events)
      /\ at \in [Stages -> {"idle", "handling", "flushing", "producing", "passing", "refilling", "stopped"}]
  BY <1>0, <1>6
<1>2. PICK m, s : m = current[x] /\ s = m.sub
  OBVIOUS
<1>3. m \in Message /\ s \in Subs /\ m.count \in Nat
  BY <1>2 DEF IInv, TypeOK, Message
<1>4. CASE s \in Subscribers(x)
  <2>1. PICK d : d = [demand EXCEPT ![s] = @ + m.count]
    OBVIOUS
  <2>2. d \in [Subs -> Nat]
    BY <1>1, <1>3, <2>1
  <2>3. /\ Dispatch(x, d, <<>>, buffer[x]) /\ UNCHANGED <<kind, producerSubs>>
        /\ at' = [at EXCEPT ![x] = IF x = Source THEN "producing" ELSE "idle"]
    BY <1>2, <1>4, <2>1 DEF DoDemand, Continue
  <2>4. Stands(x, <<>>, d)
    BY DEF Stands, ToSet
  <2>5. ASSUME x = Source, kind # "partition"
        PROVE  Len(<<>>) + Len(Leftover(x, d, buffer[x])) < MaxBatch
    <3>1. PICK a, b : a = Len(Leftover(x, d, buffer[x])) /\ b = Len(buffer[x])
      OBVIOUS
    <3>2. a \in Nat /\ b \in Nat /\ a <= b /\ b < MaxBatch /\ MaxBatch \in Nat
      BY <1>1, <2>5, <3>1, LeftoverIs DEF MInv, Restrained, GenStageAssumption
    <3>3. Len(<<>>) = 0 /\ 0 + a < MaxBatch
      BY <3>2
    <3> QED
      BY <3>1, <3>3
  <2>6. CASE x = Source
    BY <1>1, <2>2, <2>3, <2>4, <2>5, <2>6, DispatchWaits
  <2>7. CASE x # Source
    <3>1. at'[Source] = at[Source]
      BY <1>1, <2>3, <2>7 DEF GenStageAssumption
    <3>5. Source \in Stages
      BY DEF GenStageAssumption
    <3>7. Dispatched(x, d, <<>>, buffer[x])
      BY <1>1, <2>2, <2>3, DispatchedIs
    <3>6. /\ \A y \in Stages \ {x} : buffer'[y] = buffer[y]
          /\ \A t \in Subs \ Subscribers(x) : demand'[t] = d[t]
      BY <3>7 DEF Dispatched
    <3>2. /\ buffer'[Source] = buffer[Source]
          /\ \A t \in Subs \ Subscribers(x) : demand'[t] = d[t]
      BY <2>7, <3>5, <3>6
    <3>3. ASSUME NEW t \in Subscribers(Source) PROVE demand'[t] = demand[t]
      <4>2. t \in Subs /\ t \notin Subscribers(x) /\ t # s
        BY <1>4, <2>7, <3>5, SubscribersUp
      <4> QED
        BY <1>1, <2>1, <3>2, <4>2
    <3>4. Untold
      BY <2>3, <3>1, <3>3 DEF Untold
    <3> QED
      BY <2>3, <3>2, <3>4, CalmWaits
  <2> QED
    BY <2>6, <2>7
<1>5. CASE s \notin Subscribers(x)
  <2>1. /\ UNCHANGED <<kind, producerSubs, demand, buffer>> /\ at' = [at EXCEPT ![x] = "idle"]
    BY <1>2, <1>5 DEF DoDemand, Continue
  <2>2. Untold
    BY <1>1, <2>1 DEF Untold, GenStageAssumption
  <2> QED
    BY <2>1, <2>2, CalmWaits
<1> QED
  BY <1>4, <1>5

LEMMA ProduceWaits ==
  ASSUME GenStageAssumption, IInv, MInv, NEW x \in Stages, Produce(x)
  PROVE  MInv'
<1>1. buffer[x] \in Seq(Events) /\ demand \in [Subs -> Nat] /\ made \in Nat
  BY DEF IInv, TypeOK
<1>2. PICK n \in 1..MaxBatch : /\ made + n <= MaxEvents
                               /\ Dispatch(x, demand, buffer[x], [k \in 1..n |-> made + k])
  BY DEF Produce
<1>3. PICK evs : evs = [k \in 1..n |-> made + k]
  OBVIOUS
<1>4. n \in Nat /\ n > 0 /\ n <= MaxBatch /\ MaxEvents \in Nat
  BY DEF GenStageAssumption
<1>5. evs \in Seq(Events) /\ Len(evs) = n /\ 1 \in DOMAIN evs /\ evs # <<>>
  <2>1. \A k \in 1..n : made + k \in 1..MaxEvents
    BY <1>1, <1>2, <1>4
  <2>2. evs \in [1..n -> Events]
    BY <1>3, <2>1 DEF Events
  <2> QED
    BY <1>4, <2>2
<1>6. x = Source => Holds(x)
  BY DEF Produce, Ready, MInv, Waiting
<1>7. x = Source => Stands(x, buffer[x], demand)
  BY <1>6 DEF Holds, Stands
<1>8. ASSUME x = Source, kind # "partition"
      PROVE  Len(buffer[x]) + Len(Leftover(x, demand, evs)) < MaxBatch
  <2>1. kind \in {"demand", "broadcast"} /\ TotalPending(x) > 0
    BY <1>8 DEF Produce, IInv, TypeOK, GenStageAssumption
  <2>2. Len(buffer[x]) = 0
    BY <1>6, <1>8, <2>1, PendingEmpty
  <2>3. 1 \notin Left(x, demand, evs)
    <3>1. Owns(x, demand)
      BY DEF IInv, TypeOK, Subscribed, Owns
    <3>2. Subscribers(x) # {}
      <4>1. SUFFICES ASSUME Subscribers(x) = {} PROVE FALSE
        OBVIOUS
      <4>2. PICK q : q = producerSubs[x]
        OBVIOUS
      <4>3. q \in Seq(Subs) /\ \A k \in DOMAIN q : demand[q[k]] = 0
        BY <3>1, <4>1, <4>2, SubscribersAre DEF Owns
      <4>4. Sum(q, demand) = 0
        BY <1>1, <4>3, SumOfNothing
      <4>5. Smallest(demand, {}) = 0
        BY DEF Smallest
      <4>6. TotalPending(x) = 0
        BY <4>1, <4>2, <4>4, <4>5 DEF TotalPending
      <4> QED
        BY <2>1, <4>6
    <3>3. PICK s \in Subscribers(x) : FairlyShared(x, demand, evs, s)
      BY <1>5, <3>1, <3>2, AllShareFairly DEF IInv, TypeOK
    <3> QED
      BY <1>5, <2>1, <3>3 DEF FairlyShared
  <2>4. PICK a : a = Len(Leftover(x, demand, evs))
    OBVIOUS
  <2>5. a < n /\ a \in Nat
    BY <1>5, <2>3, <2>4, LeftoverIs
  <2>6. 0 + a < MaxBatch
    BY <1>4, <2>5 DEF GenStageAssumption
  <2> QED
    BY <2>2, <2>4, <2>6
<1>9. UNCHANGED <<kind, at, producerSubs>> /\ Dispatch(x, demand, buffer[x], evs)
  BY <1>2, <1>3 DEF Produce
<1> QED
  BY <1>1, <1>5, <1>7, <1>8, <1>9, DispatchWaits

(* What the other steps leave alone.                                         *)
LEMMA SourceIs ==
  ASSUME GenStageAssumption, IInv
  PROVE  /\ Source \in Stages
         /\ at \in [Stages -> {"idle", "handling", "flushing", "producing", "passing", "refilling", "stopped"}]
         /\ buffer \in [Stages -> Seq(Events)] /\ producerSubs \in [Stages -> Seq(Subs)]
         /\ demand \in [Subs -> Nat]
BY DEF GenStageAssumption, IInv, TypeOK

LEMMA DeliverWaits ==
  ASSUME GenStageAssumption, IInv, MInv, NEW y \in Stages, NEW m, Deliver(y, m),
         UNCHANGED <<kind, upstream>>
  PROVE  MInv'
<1>1. at'[Source] = "producing" => at[Source] = "producing"
  BY SourceIs DEF Deliver
<1>2. Untold
  BY <1>1 DEF Untold, upstream
<1> QED
  BY <1>2, CalmWaits DEF upstream

(* A handler that goes on, and leaves the books of its stage alone.          *)
LEMMA GoesOnWaits ==
  ASSUME GenStageAssumption, IInv, MInv, NEW x \in Stages, NEW place,
         at' = [at EXCEPT ![x] = place], place # "producing", UNCHANGED <<kind, upstream>>
  PROVE  MInv'
<1>1. at'[Source] = "producing" => at[Source] = "producing"
  BY SourceIs
<1>2. Untold
  BY <1>1 DEF Untold, upstream
<1> QED
  BY <1>2, CalmWaits DEF upstream

(* A subscription comes, or goes.                                            *)
LEMMA ListChangeWaits ==
  ASSUME GenStageAssumption, IInv, MInv, NEW x \in Stages, NEW place,
         at' = [at EXCEPT ![x] = place], place # "producing", UNCHANGED <<kind, buffer>>,
         NEW q, producerSubs' = [producerSubs EXCEPT ![x] = q],
         NEW s \in Subs, demand' = [demand EXCEPT ![s] = 0]
  PROVE  MInv'
<1>1. at'[Source] = "producing" => x # Source /\ at[Source] = "producing"
  BY SourceIs
<1>2. x # Source => UNCHANGED producerSubs[Source]
  BY SourceIs
<1>3. \A t \in Subs : demand[t] = 0 => demand'[t] = 0
  BY SourceIs
<1>4. \A t \in Subscribers(Source) : t \in Subs
  BY SourceIs, SubscribersUp
<1>5. Untold
  BY <1>1, <1>2, <1>3, <1>4 DEF Untold
<1> QED
  BY <1>5, CalmWaits

LEMMA PassOnWaits ==
  ASSUME GenStageAssumption, IInv, MInv, NEW x \in Stages, PassOn(x)
  PROVE  MInv'
<1>1. at' = [at EXCEPT ![x] = "refilling"] /\ UNCHANGED <<kind, producerSubs>>
  BY DEF PassOn, Continue
<1>2. CASE InTheMiddle(x)
  <2>1. x # Source /\ Dispatch(x, demand, buffer[x], current[x].events)
    BY <1>2 DEF PassOn, InTheMiddle
  <2>2. buffer[x] \in Seq(Events) /\ demand \in [Subs -> Nat] /\ current[x].events \in Seq(Events)
    BY DEF IInv, TypeOK, Message
  <2>3. at'[Source] = "producing" => at[Source] = "producing"
    BY <1>1, SourceIs
  <2> QED
    BY <1>1, <2>1, <2>2, <2>3, DispatchWaits
<1>3. CASE ~InTheMiddle(x)
  <2>1. UNCHANGED upstream
    BY <1>1, <1>3 DEF PassOn, upstream
  <2> QED
    BY <1>1, <2>1, GoesOnWaits
<1> QED
  BY <1>2, <1>3

LEMMA StepWaits ==
  ASSUME GenStageAssumption, IInv, MInv, NEW x \in Stages, Step(x)
  PROVE  MInv'
<1>1. CASE Receive(x)
  BY <1>1, GoesOnWaits DEF Receive
<1>2. CASE DoSubscribe(x)
  <2>1. PICK s : s = current[x].sub
    OBVIOUS
  <2>2. s \in Subs
    BY <2>1 DEF IInv, TypeOK, Message
  <2>3. /\ at' = [at EXCEPT ![x] = "flushing"] /\ UNCHANGED <<kind, buffer>>
        /\ producerSubs' = [producerSubs EXCEPT ![x] = Append(producerSubs[x], s)]
        /\ demand' = [demand EXCEPT ![s] = 0]
    BY <1>2, <2>1 DEF DoSubscribe, Continue
  <2> QED
    BY <2>2, <2>3, ListChangeWaits
<1>3. CASE Flush(x)
  BY <1>3, FlushWaits
<1>4. CASE DoDemand(x)
  BY <1>4, DoDemandWaits
<1>5. CASE Produce(x)
  BY <1>5, ProduceWaits
<1>6. CASE ProduceEnds(x)
  BY <1>6, GoesOnWaits DEF ProduceEnds, Continue
<1>7. CASE DoCancel(x)
  <2>1. PICK s : s = current[x].sub
    OBVIOUS
  <2>2. s \in Subs
    BY <2>1 DEF IInv, TypeOK, Message
  <2>3. /\ at' = [at EXCEPT ![x] = "idle"] /\ UNCHANGED <<kind, buffer>>
        /\ producerSubs' = [producerSubs EXCEPT ![x] = Keep(producerSubs[x], Subs \ {s})]
        /\ demand' = [demand EXCEPT ![s] = 0]
    BY <1>7, <2>1 DEF DoCancel, Continue
  <2> QED
    BY <2>2, <2>3, ListChangeWaits
<1>8. CASE DoSubscribeAck(x)
  BY <1>8, GoesOnWaits DEF DoSubscribeAck, Continue
<1>9. CASE DoEvents(x)
  <2>1. UNCHANGED <<kind, upstream>>
        /\ (at' = [at EXCEPT ![x] = "passing"] \/ at' = [at EXCEPT ![x] = "idle"])
    BY <1>9 DEF DoEvents, Continue
  <2> QED
    BY <2>1, GoesOnWaits
<1>10. CASE PassOn(x)
  BY <1>10, PassOnWaits
<1>11. CASE Refill(x)
  BY <1>11, GoesOnWaits DEF Refill, Continue
<1>12. CASE DoStop(x)
  BY <1>12, GoesOnWaits DEF DoStop, Leaves
<1> QED
  BY <1>1, <1>2, <1>3, <1>4, <1>5, <1>6, <1>7, <1>8, <1>9, <1>10, <1>11, <1>12 DEF Step

LEMMA OthersWait ==
  ASSUME GenStageAssumption, IInv, MInv,
         Users \/ Quiet \/ UNCHANGED vars \/ \E x \in Stages : Sending(x)
  PROVE  MInv'
<1>1. ASSUME NEW s \in Subs, SubscribeTo(s) PROVE MInv'
  <2>1. Up[s] \in Stages
    BY DEF GenStageAssumption
  <2> QED
    BY <1>1, <2>1, DeliverWaits DEF SubscribeTo
<1>2. ASSUME UNCHANGED <<at, kind, producerSubs, demand, buffer[Source]>> PROVE MInv'
  <2>1. Untold
    BY <1>2 DEF Untold
  <2> QED
    BY <1>2, <2>1, CalmWaits
<1>3. ASSUME NEW s \in Subs, CancelSubscription(s) PROVE MInv'
  <2>1. Down[s] # Source /\ buffer' = [buffer EXCEPT ![Down[s]] = <<>>]
    BY <1>3 DEF CancelSubscription, GenStageAssumption
  <2>2. buffer'[Source] = buffer[Source]
    BY <2>1, SourceIs
  <2> QED
    BY <1>2, <1>3, <2>2 DEF CancelSubscription, tasks
<1>4. ASSUME NEW s \in Subs, TellCancelled(s) PROVE MInv'
  <2>1. Up[s] \in Stages
    BY DEF GenStageAssumption
  <2>2. CASE Alive(Up[s])
    BY <1>4, <2>1, <2>2, DeliverWaits DEF TellCancelled
  <2>3. CASE ~Alive(Up[s])
    BY <1>2, <1>4, <2>3 DEF TellCancelled, upstream
  <2> QED
    BY <2>2, <2>3
<1>5. ASSUME NEW x \in Stages, StopStage(x) PROVE MInv'
  BY <1>5, DeliverWaits DEF StopStage
<1>6. ASSUME UNCHANGED vars PROVE MInv'
  BY <1>2, <1>6 DEF vars, tasks, upstream
<1>7. ASSUME NEW x \in Stages, SendNext(x) PROVE MInv'
  <2>1. PICK m : m = Head(outbox[x])
    OBVIOUS
  <2>2. m \in Message
    <3>1. outbox[x] \in Seq(Message) /\ outbox[x] # <<>>
      BY <1>7 DEF SendNext, IInv, TypeOK
    <3> QED
      BY <2>1, <3>1
  <2>3. Receiver(m) \in Stages
    BY <2>2 DEF Receiver, Message, GenStageAssumption
  <2>4. Deliver(Receiver(m), m) /\ UNCHANGED <<kind, upstream>>
    BY <1>7, <2>1 DEF SendNext
  <2> QED
    BY <2>3, <2>4, DeliverWaits
<1>8. ASSUME NEW x \in Stages, SendFails(x) PROVE MInv'
  BY <1>2, <1>8 DEF SendFails, upstream
<1>9. ASSUME NEW x \in Stages, AckFails(x) PROVE MInv'
  BY <1>9, GoesOnWaits DEF AckFails, Leaves
<1> QED
  BY <1>1, <1>3, <1>4, <1>5, <1>6, <1>7, <1>8, <1>9 DEF Users, Quiet, Sending

LEMMA NextMInv ==
  ASSUME GenStageAssumption, IInv, MInv, [Next]_vars
  PROVE  MInv'
<1>1. CASE Users \/ Quiet \/ UNCHANGED vars \/ \E x \in Stages : Sending(x)
  BY <1>1, OthersWait
<1>2. CASE \E x \in Stages : Step(x)
  BY <1>2, StepWaits
<1> QED
  BY <1>1, <1>2 DEF Next

(* A producer is asked for events only when what it has is gone as far as    *)
(* demand goes (_do_demand): its buffer never holds as many as one call of   *)
(* handle_demand makes, unless a partition nobody reads keeps them.          *)
THEOREM MadeOnlyOnDemand == Spec => []MadeOnDemand
<1>1. Init => IInv /\ MInv
  BY GenStageAssumption, InitIInv, InitMInv
<1>2. IInv /\ MInv /\ [Next]_vars => (IInv /\ MInv)'
  BY GenStageAssumption, NextIInv, NextMInv
<1>3. IInv /\ MInv => MadeOnDemand
  BY DEF MInv, Restrained, MadeOnDemand
<1> QED
  BY <1>1, <1>2, <1>3, PTL DEF Spec

-----------------------------------------------------------------------------
(* The events that wait at a stage *)

Hand(z, s)  == IF at[z] = "handling" THEN Brought(current[z], s) ELSE <<>>
Waits(z, s) == Hand(z, s) \o EventsFor(s, mailbox[z])

LEMMA WaitsAre ==
  ASSUME TaskTypes, NEW z \in Stages, NEW s \in Subs
  PROVE  /\ Hand(z, s) \in Seq(Events) /\ EventsFor(s, mailbox[z]) \in Seq(Events)
         /\ Waits(z, s) \in Seq(Events)
         /\ at[z] # "handling" => Waits(z, s) = EventsFor(s, mailbox[z])
         /\ at[z] = "handling" => Waits(z, s) = Brought(current[z], s) \o EventsFor(s, mailbox[z])
<1>1. current[z] \in Message /\ mailbox[z] \in Seq(Message)
  BY DEF TaskTypes
<1>2. Brought(current[z], s) \in Seq(Events)
  BY <1>1, BroughtIs
<1>3. Hand(z, s) \in Seq(Events)
  BY <1>2 DEF Hand
<1>4. EventsFor(s, mailbox[z]) \in Seq(Events)
  BY <1>1, EventsForIn
<1>5. PICK h, q : h = Hand(z, s) /\ q = EventsFor(s, mailbox[z])
  OBVIOUS
<1>6. h \o q \in Seq(Events) /\ <<>> \o q = q
  BY <1>3, <1>4, <1>5, ConcatProperties, ConcatEmptySeq
<1>7. at[z] # "handling" => h = <<>>
  BY <1>5 DEF Hand
<1>8. at[z] = "handling" => h = Brought(current[z], s)
  BY <1>5 DEF Hand
<1> QED
  BY <1>3, <1>4, <1>5, <1>6, <1>7, <1>8 DEF Waits

LEMMA WaitsNext ==
  ASSUME TaskTypes', NEW z \in Stages, NEW s \in Subs
  PROVE  /\ Waits(z, s)' \in Seq(Events)
         /\ at'[z] # "handling" => Waits(z, s)' = EventsFor(s, mailbox'[z])
         /\ at'[z] = "handling" => Waits(z, s)' = Brought(current'[z], s) \o EventsFor(s, mailbox'[z])
<1>1. current'[z] \in Message /\ mailbox'[z] \in Seq(Message)
  BY DEF TaskTypes
<1>2. Brought(current'[z], s) \in Seq(Events)
  BY <1>1, BroughtIs
<1>4. EventsFor(s, mailbox'[z]) \in Seq(Events)
  BY <1>1, EventsForIn
<1>5. PICK h, q : h = Hand(z, s)' /\ q = EventsFor(s, mailbox'[z])
  OBVIOUS
<1>7. at'[z] # "handling" => h = <<>>
  BY <1>5 DEF Hand
<1>8. at'[z] = "handling" => h = Brought(current'[z], s)
  BY <1>5 DEF Hand, Brought
<1>3. h \in Seq(Events)
  <2>1. <<>> \in Seq(Events)
    OBVIOUS
  <2> QED
    BY <1>2, <1>7, <1>8, <2>1
<1>6. h \o q \in Seq(Events) /\ <<>> \o q = q
  BY <1>3, <1>4, <1>5, ConcatProperties, ConcatEmptySeq
<1>9. Waits(z, s)' = h \o q
  BY <1>5 DEF Waits, EventsFor
<1> QED
  BY <1>5, <1>6, <1>7, <1>8, <1>9

(* What a step does to them.                                                 *)
Stills      == \A z \in Stages, s \in Subs : Waits(z, s)' = Waits(z, s)
Lands(y, m) == \A z \in Stages, s \in Subs :
                  /\ z = y => Waits(z, s)' = Waits(z, s) \o Brought(m, s)
                  /\ z # y => Waits(z, s)' = Waits(z, s)
Takes(x, m) == \A z \in Stages, s \in Subs :
                  /\ z = x => Waits(z, s) = Brought(m, s) \o Waits(z, s)'
                  /\ z # x => Waits(z, s)' = Waits(z, s)

LEMMA SameThere ==
  ASSUME NEW z \in Stages, NEW s \in Subs, UNCHANGED <<at[z], mailbox[z], current[z]>>
  PROVE  Waits(z, s)' = Waits(z, s)
BY DEF Waits, Hand, EventsFor, Brought

LEMMA DeliverLands ==
  ASSUME GenStageAssumption, TaskTypes, TaskTypes', NEW y \in Stages, NEW m \in Message, Deliver(y, m)
  PROVE  Lands(y, m)
<1>1. /\ at \in [Stages -> {"idle", "handling", "flushing", "producing", "passing",
                          "refilling", "stopped"}]
      /\ mailbox \in [Stages -> Seq(Message)] /\ current \in [Stages -> Message]
  BY DEF TaskTypes
<1>2. ASSUME NEW z \in Stages, NEW s \in Subs, z # y PROVE Waits(z, s)' = Waits(z, s)
  <2>1. UNCHANGED <<at[z], mailbox[z], current[z]>>
    BY <1>1, <1>2 DEF Deliver
  <2> QED
    BY <2>1, SameThere
<1>3. ASSUME NEW s \in Subs PROVE Waits(y, s)' = Waits(y, s) \o Brought(m, s)
  <2>1. PICK b : b = Brought(m, s)
    OBVIOUS
  <2>2. b \in Seq(Events)
    BY <2>1, BroughtIs
  <2>3. CASE Parked(y)
    <3>1. at'[y] = "handling" /\ current'[y] = m /\ mailbox'[y] = <<>> /\ at[y] = "idle" /\ mailbox[y] = <<>>
      BY <1>1, <2>3 DEF Deliver, Parked, Ready
    <3>2. PICK e : e = EventsFor(s, mailbox[y]) /\ e = EventsFor(s, mailbox'[y]) /\ e = <<>>
      BY <3>1, EventsForNone
    <3>3. Waits(y, s) = e
      BY <3>1, <3>2, WaitsAre
    <3>4. Waits(y, s)' = b \o e
      BY <2>1, <3>1, <3>2, WaitsNext
    <3>5. b \o <<>> = b /\ <<>> \o b = b
      BY <2>2, ConcatEmptySeq
    <3> QED
      BY <2>1, <3>2, <3>3, <3>4, <3>5
  <2>4. CASE ~Parked(y)
    <3>1. UNCHANGED <<at, current>> /\ mailbox'[y] = Append(mailbox[y], m)
      BY <1>1, <2>4 DEF Deliver
    <3>2. PICK q, r : q = mailbox[y] /\ r = mailbox'[y]
      OBVIOUS
    <3>3. Longer(r, q, m, Message)
      BY <1>1, <3>1, <3>2 DEF Longer
    <3>4. PICK e, f : e = EventsFor(s, q) /\ f = EventsFor(s, r)
      OBVIOUS
    <3>5. e \in Seq(Events) /\ f = e \o b
      <4>1. EventsFor(s, q) \in Seq(Events) /\ EventsFor(s, r) = EventsFor(s, q) \o Brought(m, s)
        BY <3>3, EventsForAppend
      <4> QED
        BY <2>1, <3>4, <4>1
    <3>6. CASE at[y] # "handling"
      <4>1. Waits(y, s) = e /\ Waits(y, s)' = f
        BY <3>1, <3>2, <3>4, <3>6, WaitsAre, WaitsNext
      <4> QED
        BY <2>1, <3>5, <4>1
    <3>7. CASE at[y] = "handling"
      <4>1. PICK h : h = Brought(current[y], s)
        OBVIOUS
      <4>2. h \in Seq(Events)
        BY <1>1, <4>1, BroughtIs
      <4>3. Waits(y, s) = h \o e
        BY <3>2, <3>4, <3>7, <4>1, WaitsAre
      <4>4. Waits(y, s)' = h \o f
        BY <3>1, <3>2, <3>4, <3>7, <4>1, WaitsNext
      <4>5. (h \o e) \o b = h \o (e \o b)
        BY ONLY <2>2, <3>5, <4>2, ConcatEvents
      <4> QED
        BY <2>1, <3>5, <4>3, <4>4, <4>5
    <3> QED
      BY <3>6, <3>7
  <2> QED
    BY <2>3, <2>4
<1> QED
  BY <1>2, <1>3 DEF Lands

LEMMA ReceiveStills ==
  ASSUME GenStageAssumption, TaskTypes, TaskTypes', NEW x \in Stages, Receive(x)
  PROVE  Stills
<1>1. /\ at \in [Stages -> {"idle", "handling", "flushing", "producing", "passing",
                          "refilling", "stopped"}]
      /\ mailbox \in [Stages -> Seq(Message)] /\ current \in [Stages -> Message]
  BY DEF TaskTypes
<1>2. ASSUME NEW z \in Stages, NEW s \in Subs, z # x PROVE Waits(z, s)' = Waits(z, s)
  <2>1. UNCHANGED <<at[z], mailbox[z], current[z]>>
    BY <1>1, <1>2 DEF Receive
  <2> QED
    BY <2>1, SameThere
<1>3. ASSUME NEW s \in Subs PROVE Waits(x, s)' = Waits(x, s)
  <2>1. PICK q, h, t : q = mailbox[x] /\ h = Head(q) /\ t = Tail(q)
    OBVIOUS
  <2>2. at[x] = "idle" /\ q # <<>> /\ at'[x] = "handling" /\ current'[x] = h /\ mailbox'[x] = t
    BY <1>1, <2>1 DEF Receive, Ready
  <2>3. q \in Seq(Message)
    BY <1>1, <2>1
  <2>4. EventsFor(s, q) = Brought(h, s) \o EventsFor(s, t)
    BY <2>1, <2>2, <2>3, EventsForFirst
  <2>5. Waits(x, s) = EventsFor(s, q)
    BY <2>1, <2>2, WaitsAre
  <2>6. Waits(x, s)' = Brought(h, s) \o EventsFor(s, t)
    BY <2>2, WaitsNext
  <2> QED
    BY <2>4, <2>5, <2>6
<1> QED
  BY <1>2, <1>3 DEF Stills

LEMMA ContinueTakes ==
  ASSUME GenStageAssumption, TaskTypes, TaskTypes', NEW x \in Stages, NEW place, Continue(x, place),
         place # "handling"
  PROVE  /\ at[x] = "handling" => Takes(x, current[x])
         /\ at[x] # "handling" => Stills
<1>1. /\ at \in [Stages -> {"idle", "handling", "flushing", "producing", "passing",
                          "refilling", "stopped"}]
      /\ mailbox \in [Stages -> Seq(Message)] /\ current \in [Stages -> Message]
  BY DEF TaskTypes
<1>2. ASSUME NEW z \in Stages, NEW s \in Subs, z # x PROVE Waits(z, s)' = Waits(z, s)
  <2>1. UNCHANGED <<at[z], mailbox[z], current[z]>>
    BY <1>1, <1>2 DEF Continue
  <2> QED
    BY <2>1, SameThere
<1>3. ASSUME NEW s \in Subs
      PROVE  /\ at[x] = "handling" => Waits(x, s) = Brought(current[x], s) \o Waits(x, s)'
             /\ at[x] # "handling" => Waits(x, s)' = Waits(x, s)
  <2>1. PICK e : e = EventsFor(s, mailbox[x])
    OBVIOUS
  <2>2. at'[x] # "handling" /\ mailbox'[x] = mailbox[x]
    BY <1>1 DEF Continue
  <2>3. Waits(x, s)' = e
    BY <2>1, <2>2, WaitsNext
  <2> QED
    BY <2>1, <2>3, WaitsAre
<1> QED
  BY <1>2, <1>3 DEF Takes, Stills

LEMMA LeavesDrops ==
  ASSUME GenStageAssumption, TaskTypes, TaskTypes', NEW x \in Stages, Leaves(x), NEW s \in Subs
  PROVE  /\ Waits(x, s)' = <<>>
         /\ \A z \in Stages : z # x => Waits(z, s)' = Waits(z, s)
<1>1. /\ at \in [Stages -> {"idle", "handling", "flushing", "producing", "passing",
                          "refilling", "stopped"}]
      /\ mailbox \in [Stages -> Seq(Message)] /\ current \in [Stages -> Message]
  BY DEF TaskTypes
<1>2. ASSUME NEW z \in Stages, z # x PROVE Waits(z, s)' = Waits(z, s)
  <2>1. UNCHANGED <<at[z], mailbox[z], current[z]>>
    BY <1>1, <1>2 DEF Leaves
  <2> QED
    BY <2>1, SameThere
<1>3. at'[x] = "stopped" /\ mailbox'[x] = <<>>
  BY <1>1 DEF Leaves
<1>4. EventsFor(s, mailbox'[x]) = <<>>
  BY <1>3, EventsForNone
<1>5. Waits(x, s)' = EventsFor(s, mailbox'[x])
  BY <1>3, WaitsNext
<1> QED
  BY <1>2, <1>4, <1>5

-----------------------------------------------------------------------------
(* Routes *)

Sent(s) == EventsFor(s, outbox[Up[s]])

(* The events of the messages of a route.                                    *)
LEMMA EventsInHand ==
  ASSUME NEW busy \in BOOLEAN, NEW c \in Message, NEW s \in Subs,
         NEW h, h = IF busy THEN <<c>> ELSE <<>>, NEW b, b = IF busy THEN Brought(c, s) ELSE <<>>
  PROVE  h \in Seq(Message) /\ EventsFor(s, h) = b
<1>1. CASE busy
  BY <1>1, EventsForOne
<1>2. CASE ~busy
  <2>1. <<>> \in Seq(Message)
    OBVIOUS
  <2> QED
    BY <1>2, <2>1, EventsForNone
<1> QED
  BY <1>1, <1>2

LEMMA RouteIs ==
  ASSUME GenStageAssumption, TypeOK, NEW s \in Subs
  PROVE  /\ got[s] \in Seq(Events) /\ Waits(Down[s], s) \in Seq(Events) /\ Sent(s) \in Seq(Events)
         /\ Route(s) = got[s] \o (Waits(Down[s], s) \o Sent(s))
         /\ Route(s) \in Seq(Events)
<1>1. PICK x, y : x = Down[s] /\ y = Up[s]
  OBVIOUS
<1>2. /\ x \in Stages /\ y \in Stages
  BY <1>1 DEF GenStageAssumption
<1>3. /\ current[x] \in Message /\ mailbox[x] \in Seq(Message) /\ outbox[y] \in Seq(Message)
      /\ got[s] \in Seq(Events) /\ TaskTypes
  BY <1>2, Types DEF TypeOK
<1>4. Waits(x, s) \in Seq(Events) /\ Sent(s) \in Seq(Events)
  BY <1>1, <1>2, <1>3, WaitsAre, EventsForIn DEF Sent
<1>5. PICK busy \in BOOLEAN : busy = (at[x] = "handling")
  OBVIOUS
<1>6. InHand(x) = IF busy THEN <<current[x]>> ELSE <<>>
  BY <1>5 DEF InHand
<1>7. Hand(x, s) = IF busy THEN Brought(current[x], s) ELSE <<>>
  BY <1>5 DEF Hand
<1>8. PICK h, b, c, q, o : /\ h = InHand(x) /\ b = Hand(x, s) /\ c = current[x]
                           /\ q = mailbox[x] /\ o = outbox[y]
  OBVIOUS
<1>13. c \in Message /\ q \in Seq(Message) /\ o \in Seq(Message)
  BY <1>3, <1>8
<1>14. h = IF busy THEN <<c>> ELSE <<>>
  BY <1>6, <1>8
<1>15. b = IF busy THEN Brought(c, s) ELSE <<>>
  BY <1>7, <1>8
<1>16. h \in Seq(Message) /\ EventsFor(s, h) = b
  BY <1>13, <1>14, <1>15, EventsInHand
<1>17. PICK r : r = h \o q
  OBVIOUS
<1>9. EventsFor(s, r \o o) = (b \o EventsFor(s, q)) \o EventsFor(s, o)
  <2>2. h \in Seq(Message) /\ q \in Seq(Message) /\ o \in Seq(Message)
    BY <1>13, <1>16
  <2>1. EventsFor(s, r \o o) = (EventsFor(s, h) \o EventsFor(s, q)) \o EventsFor(s, o)
    <3>1. r \in Seq(Message)
      BY <1>17, <2>2, ConcatProperties
    <3>2. EventsFor(s, r) = EventsFor(s, h) \o EventsFor(s, q)
      BY <1>17, <2>2, EventsForBoth
    <3>3. EventsFor(s, r \o o) = EventsFor(s, r) \o EventsFor(s, o)
      BY <2>2, <3>1, EventsForBoth
    <3> QED
      BY <3>2, <3>3
  <2> QED
    BY <1>16, <2>1
<1>10. OnTheWay(s) = Waits(x, s) \o Sent(s)
  BY <1>1, <1>8, <1>9, <1>17 DEF OnTheWay, Messages, Waits, Sent
<1>11. PICK g, v, a : g = got[s] /\ v = Waits(x, s) /\ a = Sent(s)
  OBVIOUS
<1>12. g \o (v \o a) \in Seq(Events)
  BY <1>3, <1>4, <1>11, ConcatProperties
<1> QED
  BY <1>1, <1>3, <1>4, <1>10, <1>11, <1>12 DEF Route

LEMMA RouteNext ==
  ASSUME GenStageAssumption, TypeOK', NEW s \in Subs
  PROVE  /\ got'[s] \in Seq(Events) /\ Waits(Down[s], s)' \in Seq(Events) /\ Sent(s)' \in Seq(Events)
         /\ Route(s)' = got'[s] \o (Waits(Down[s], s)' \o Sent(s)')
         /\ Route(s)' \in Seq(Events)
<1>1. PICK x, y : x = Down[s] /\ y = Up[s]
  OBVIOUS
<1>2. /\ x \in Stages /\ y \in Stages
  BY <1>1 DEF GenStageAssumption
<1>3. /\ current'[x] \in Message /\ mailbox'[x] \in Seq(Message) /\ outbox'[y] \in Seq(Message)
      /\ got'[s] \in Seq(Events) /\ TaskTypes'
  BY <1>2 DEF TypeOK, TaskTypes
<1>4. Waits(x, s)' \in Seq(Events) /\ EventsFor(s, outbox'[y]) \in Seq(Events)
  BY <1>2, <1>3, WaitsNext, EventsForIn
<1>5. PICK busy \in BOOLEAN : busy = (at'[x] = "handling")
  OBVIOUS
<1>7. PICK c, q, o : c = current'[x] /\ q = mailbox'[x] /\ o = outbox'[y]
  OBVIOUS
<1>8. PICK h, b : h = (IF busy THEN <<c>> ELSE <<>>) /\ b = (IF busy THEN Brought(c, s) ELSE <<>>)
  OBVIOUS
<1>15. c \in Message /\ q \in Seq(Message) /\ o \in Seq(Message)
  BY <1>3, <1>7
<1>16. h \in Seq(Message) /\ EventsFor(s, h) = b
  BY <1>8, <1>15, EventsInHand
<1>17. PICK r : r = h \o q
  OBVIOUS
<1>9. EventsFor(s, r \o o) = (b \o EventsFor(s, q)) \o EventsFor(s, o)
  <2>2. h \in Seq(Message) /\ q \in Seq(Message) /\ o \in Seq(Message)
    BY <1>15, <1>16
  <2>1. EventsFor(s, r \o o) = (EventsFor(s, h) \o EventsFor(s, q)) \o EventsFor(s, o)
    <3>1. r \in Seq(Message)
      BY <1>17, <2>2, ConcatProperties
    <3>2. EventsFor(s, r) = EventsFor(s, h) \o EventsFor(s, q)
      BY <1>17, <2>2, EventsForBoth
    <3>3. EventsFor(s, r \o o) = EventsFor(s, r) \o EventsFor(s, o)
      BY <2>2, <3>1, EventsForBoth
    <3> QED
      BY <3>2, <3>3
  <2> QED
    BY <1>16, <2>1
<1>10. OnTheWay(s)' = Waits(x, s)' \o Sent(s)'
  <2>1. OnTheWay(s)' = EventsFor(s, (InHand(x)' \o q) \o o)
    BY <1>1, <1>7 DEF OnTheWay, Messages, EventsFor
  <2>2. InHand(x)' = h
    BY <1>5, <1>7, <1>8 DEF InHand
  <2>3. Hand(x, s)' = b
    BY <1>5, <1>7, <1>8 DEF Hand, Brought
  <2>4. Waits(x, s)' = b \o EventsFor(s, q)
    BY <1>7, <2>3 DEF Waits, EventsFor
  <2>5. Sent(s)' = EventsFor(s, o)
    BY <1>1, <1>7 DEF Sent, EventsFor
  <2> QED
    BY <1>9, <1>17, <2>1, <2>2, <2>4, <2>5
<1>13. Sent(s)' \in Seq(Events)
  <2>5. Sent(s)' = EventsFor(s, outbox'[y])
    BY <1>1 DEF Sent, EventsFor
  <2> QED
    BY <1>4, <2>5
<1>11. PICK g, v, a : g = got'[s] /\ v = Waits(x, s)' /\ a = Sent(s)'
  OBVIOUS
<1>12. g \o (v \o a) \in Seq(Events)
  BY <1>3, <1>4, <1>11, <1>13, ConcatProperties
<1>14. Route(s)' = g \o OnTheWay(s)'
  BY <1>11 DEF Route
<1> QED
  BY <1>1, <1>3, <1>4, <1>10, <1>11, <1>12, <1>13, <1>14

(* What a step that adds nothing does to a route: unless something is        *)
(* cancelled or stopped, it stays.                                           *)
Thinner(s) == /\ Thins(Route(s)', Route(s))
              /\ ~Disturbed' => Route(s)' = Route(s)
LEMMA SameRoute ==
  ASSUME GenStageAssumption, TypeOK, TypeOK', NEW s \in Subs, got'[s] = got[s],
         Waits(Down[s], s)' = Waits(Down[s], s), Sent(s)' = Sent(s)
  PROVE  Thinner(s) /\ Route(s)' = Route(s)
<1>1. Route(s)' = Route(s) /\ Route(s) \in Seq(Events)
  BY RouteIs, RouteNext
<1>2. Thins(Route(s), Route(s))
  BY <1>1 DEF Thins
<1> QED
  BY <1>1, <1>2 DEF Thinner

(* Where nothing is dispatched, what a stage has still to send changes as    *)
(* its outbox does.                                                          *)
LEMMA SentSame ==
  ASSUME GenStageAssumption, NEW s \in Subs, outbox'[Up[s]] = outbox[Up[s]]
  PROVE  Sent(s)' = Sent(s)
BY DEF Sent, EventsFor

(* A message that brings nothing to anybody is handled, or sent.             *)
Silent(m) == m.type # "events"
LEMMA SilentIs ==
  ASSUME NEW m, Silent(m), NEW s PROVE Brought(m, s) = <<>>
BY DEF Silent, Brought, Brings

LEMMA SilentTakes ==
  ASSUME GenStageAssumption, TypeOK, TypeOK', NEW m, Silent(m), NEW x \in Stages,
         Stills \/ Takes(x, m) \/ Lands(x, m)
  PROVE  Stills
<1>1. ASSUME NEW z \in Stages, NEW s \in Subs PROVE Waits(z, s)' = Waits(z, s)
  <2>1. PICK v, w : v = Waits(z, s) /\ w = Waits(z, s)'
    OBVIOUS
  <2>2. TaskTypes /\ TaskTypes'
    BY DEF TypeOK, TaskTypes
  <2>3. v \in Seq(Events) /\ w \in Seq(Events)
    BY <2>1, <2>2, WaitsAre, WaitsNext
  <2>4. <<>> \o w = w /\ v \o <<>> = v
    BY <2>3, ConcatEmptySeq
  <2>5. Brought(m, s) = <<>>
    BY SilentIs
  <2> QED
    BY <2>1, <2>4, <2>5 DEF Stills, Takes, Lands
<1> QED
  BY <1>1 DEF Stills


-----------------------------------------------------------------------------
(* What dispatching does to the routes *)

LEMMA BatchesSent ==
  ASSUME GenStageAssumption, IInv, NEW x \in Stages, NEW d \in [Subs -> Nat],
         NEW buf \in Seq(Events), NEW evs \in Seq(Events), Dispatch(x, d, buf, evs), NEW s \in Subs
  PROVE  /\ s \in Subscribers(x) => EventsFor(s, outbox'[x]) = At(evs, Share(x, d, evs, s))
         /\ s \notin Subscribers(x) => EventsFor(s, outbox'[x]) = <<>>
<1>1. PICK q, b : /\ q = producerSubs[x]
                  /\ b = [n \in DOMAIN q |-> Batch(q[n], At(evs, Share(x, d, evs, q[n])))]
  OBVIOUS
<1>2. /\ q \in Seq(Subs) /\ Distinct(q) /\ outbox \in [Stages -> Seq(Message)] /\ kind \in Kinds
      /\ producerSubs[x] \in Seq(Subs)
  BY <1>1 DEF IInv, TypeOK, Subscribed
<1>3. \A t \in Subs : t \in Subscribers(x) <=> \E n \in DOMAIN q : q[n] = t
  BY <1>1 DEF Subscribers, ToSet
<1>4. ASSUME NEW n \in DOMAIN q
      PROVE  /\ b[n] \in Message /\ b[n].type = "events" /\ b[n].sub = q[n]
             /\ b[n].events = At(evs, Share(x, d, evs, q[n]))
  <2>1. q[n] \in Subs /\ q[n] \in Subscribers(x)
    <3>1. PICK t \in Subs : t = q[n]
      BY <1>2
    <3> QED
      BY <1>3, <3>1
  <2>2. Share(x, d, evs, q[n]) \in SUBSET DOMAIN evs
    BY <1>2, <2>1, Shares
  <2>3. PICK a : a = At(evs, Share(x, d, evs, q[n]))
    OBVIOUS
  <2>4. a \in Seq(Events)
    BY <2>2, <2>3, AtIs
  <2>5. b[n] = Batch(q[n], a)
    BY <1>1, <2>3
  <2> QED
    BY <2>1, <2>3, <2>4, <2>5 DEF Batch, Message
<1>5. b \in Seq(Message) /\ DOMAIN b = DOMAIN q
  <2>1. PICK len \in Nat : DOMAIN q = 1..len
    BY <1>2
  <2>2. DOMAIN b = DOMAIN q /\ b = [n \in 1..len |-> b[n]]
    BY <1>1, <2>1
  <2>3. \A n \in 1..len : b[n] \in Message
    BY <1>4, <2>1
  <2>4. b \in [1..len -> Message]
    BY <2>2, <2>3
  <2> QED
    BY <2>1, <2>2, <2>4
<1>6. PICK S : S = {m \in ToSet(b) : m.events # <<>>}
  OBVIOUS
<1>7. outbox'[x] = Keep(b, S)
  BY <1>1, <1>2, <1>6 DEF Dispatch
<1>8. Spares(b, S, s)
  <2>1. ASSUME NEW n \in DOMAIN b, b[n] \notin S PROVE Brought(b[n], s) = <<>>
    <3>1. b[n] \in ToSet(b)
      BY DEF ToSet
    <3>2. b[n].events = <<>>
      BY <1>6, <2>1, <3>1
    <3> QED
      BY <3>2 DEF Brought
  <2> QED
    BY <2>1 DEF Spares
<1>9. EventsFor(s, outbox'[x]) = EventsFor(s, b)
  BY <1>5, <1>7, <1>8, EventsForKept
<1>10. ASSUME s \in Subscribers(x) PROVE EventsFor(s, b) = At(evs, Share(x, d, evs, s))
  <2>1. PICK k \in DOMAIN q : q[k] = s
    BY <1>3, <1>10
  <2>2. Speaks(b, k, s)
    <3>1. ASSUME NEW n \in DOMAIN b \ {k} PROVE Brought(b[n], s) = <<>>
      <4>1. b[n].sub # s
        BY <1>2, <1>4, <1>5, <2>1 DEF Distinct
      <4> QED
        BY <4>1 DEF Brought, Brings
    <3> QED
      BY <3>1 DEF Speaks
  <2>3. EventsFor(s, b) = Brought(b[k], s)
    BY <1>5, <2>2, EventsForSingle
  <2>4. Brought(b[k], s) = b[k].events
    BY <1>4, <2>1 DEF Brought, Brings
  <2> QED
    BY <1>4, <2>1, <2>3, <2>4
<1>11. ASSUME s \notin Subscribers(x) PROVE EventsFor(s, b) = <<>>
  <2>1. ASSUME NEW n \in DOMAIN b PROVE Brought(b[n], s) = <<>>
    <3>1. b[n].sub # s
      BY <1>3, <1>4, <1>5, <1>11
    <3> QED
      BY <3>1 DEF Brought, Brings
  <2>2. Dumb(b, s)
    BY <2>1 DEF Dumb
  <2> QED
    BY <1>5, <2>2, EventsForNothing
<1> QED
  BY <1>9, <1>10, <1>11

(* Routes grow by the shares.                                                *)
Routed(x, d, evs) ==
    \A s \in Subs :
        /\ s \in Subscribers(x) => Route(s)' = Route(s) \o At(evs, Share(x, d, evs, s))
        /\ s \notin Subscribers(x) => Route(s)' = Route(s)
LEMMA DispatchRoutes ==
  ASSUME GenStageAssumption, IInv, TypeOK', NEW x \in Stages, outbox[x] = <<>>,
         NEW d \in [Subs -> Nat], NEW buf \in Seq(Events), NEW evs \in Seq(Events),
         Dispatch(x, d, buf, evs), Stills, got' = got
  PROVE  Routed(x, d, evs)
<1>1. ASSUME NEW s \in Subs
      PROVE  /\ s \in Subscribers(x) => Route(s)' = Route(s) \o At(evs, Share(x, d, evs, s))
             /\ s \notin Subscribers(x) => Route(s)' = Route(s)
  <2>0. Down[s] \in Stages /\ Up[s] \in Stages /\ TypeOK
    BY DEF GenStageAssumption, IInv
  <2>1. PICK g, w, o, n : /\ g = got[s] /\ w = Waits(Down[s], s)
                          /\ o = Sent(s) /\ n = Sent(s)'
    OBVIOUS
  <2>2. /\ g \in Seq(Events) /\ w \in Seq(Events) /\ o \in Seq(Events)
        /\ Route(s) = g \o (w \o o)
    BY <2>0, <2>1, RouteIs
  <2>3. got'[s] = g /\ Waits(Down[s], s)' = w
    BY <2>0, <2>1 DEF Stills
  <2>4. n \in Seq(Events) /\ Route(s)' = g \o (w \o n)
    BY <2>1, <2>3, RouteNext, Zenon
  <2>5. n = EventsFor(s, outbox'[Up[s]]) /\ o = EventsFor(s, outbox[Up[s]])
    BY <2>1, Zenon DEF Sent, EventsFor
  <2>6. Up[s] = x => o = <<>>
    BY <2>5, EventsForNone
  <2>7. CASE s \in Subscribers(x)
    <3>1. Up[s] = x
      BY <2>7, SubscribersUp
    <3>2. n = At(evs, Share(x, d, evs, s))
      <4>1. EventsFor(s, outbox'[x]) = At(evs, Share(x, d, evs, s))
        BY <2>7, BatchesSent
      <4> QED
        BY <2>5, <3>1, <4>1
    <3>3. w \o o = w
      BY <2>2, <2>6, <3>1, ConcatEmptySeq
    <3>4. (g \o w) \o n = g \o (w \o n)
      <4>1. g \in Seq(Events) /\ w \in Seq(Events) /\ n \in Seq(Events)
        BY <2>2, <2>4
      <4> QED
        BY ONLY <4>1, ConcatEvents
    <3> QED
      BY <2>2, <2>4, <2>7, <3>2, <3>3, <3>4
  <2>8. CASE s \notin Subscribers(x)
    <3>1. n = o
      <4>1. CASE Up[s] = x
        BY <2>5, <2>6, <2>8, <4>1, BatchesSent
      <4>2. CASE Up[s] # x
        <5>1. Dispatched(x, d, buf, evs)
          BY DispatchedIs
        <5>2. outbox'[Up[s]] = outbox[Up[s]]
          BY ONLY <2>0, <4>2, <5>1 DEF Dispatched
        <5> QED
          BY <2>5, <5>2
      <4> QED
        BY <4>1, <4>2
    <3> QED
      BY <2>2, <2>4, <2>8, <3>1
  <2> QED
    BY <2>7, <2>8
<1> QED
  BY <1>1 DEF Routed

(* What has come into a route, what is about to, and what is ahead of it.    *)
On(s)             == ToSet(Route(s))
Slice(x, d, evs, s) == {evs[n] : n \in Share(x, d, evs, s)}
Ahead(s, F)       == \A e \in On(s) : Fits(s, e) /\ \A f \in F : Fits(s, f) => e < f
LEMMA RouteGrows ==
  ASSUME GenStageAssumption, IInv, NEW x \in Stages, NEW d, Owns(x, d), NEW evs \in Seq(Events),
         Routed(x, d, evs), NEW s \in Subscribers(x)
  PROVE  /\ On(s)' = On(s) \cup Slice(x, d, evs, s)
         /\ Increasing(Route(s)) /\ Increasing(evs) /\ Below(On(s), Slice(x, d, evs, s))
               => Increasing(Route(s)')
<1>1. PICK S, a, r, n : /\ S = Share(x, d, evs, s) /\ a = At(evs, S) /\ r = Route(s)
                        /\ n = Route(s)'
  OBVIOUS
<1>2. s \in Subs /\ kind \in Kinds /\ TypeOK /\ producerSubs[x] \in Seq(Subs) /\ d \in [Subs -> Nat]
  BY SubscribersUp DEF IInv, TypeOK, Owns
<1>3. S \in SUBSET DOMAIN evs
  BY <1>1, <1>2, Shares
<1>4. r \in Seq(Events)
  BY <1>1, <1>2, RouteIs
<1>5. n = r \o a
  BY <1>1, <1>2 DEF Routed
<1>6. a \in Seq(Events)
  BY <1>1, <1>3, AtIs
<1>7. ToSet(a) = {evs[k] : k \in S} /\ (Increasing(evs) => Increasing(a))
  <2>1. /\ ToSet(At(evs, S)) = {evs[k] : k \in S}
        /\ Increasing(evs) => Increasing(At(evs, S))
    BY ONLY <1>3, evs \in Seq(Events), AtElements
  <2> QED
    BY <1>1, <2>1
<1>8. ToSet(n) = ToSet(r) \cup ToSet(a)
  BY <1>4, <1>5, <1>6, BothElements
<1>9. Increasing(n) <=> Increasing(r) /\ Increasing(a) /\ Below(ToSet(r), ToSet(a))
  BY <1>4, <1>5, <1>6, BothIncrease
<1>10. Slice(x, d, evs, s) = ToSet(a)
  BY <1>1, <1>7 DEF Slice
<1>11. On(s) = ToSet(r) /\ On(s)' = ToSet(n)
  BY <1>1 DEF On, ToSet
<1> QED
  BY <1>1, <1>7, <1>8, <1>9, <1>10, <1>11

(* What a stage dispatches is in order and comes after what it has           *)
(* dispatched.                                                               *)
Feeds(x)  == x = Source \/ InTheMiddle(x)
Away(x)   == UNION {On(s) : s \in Outgoing(x)}
Passed(x) == ToSet(buffer[x]) \cup Away(x)
Flow(x) ==
    /\ Increasing(buffer[x])
    /\ \A s \in Outgoing(x) : Increasing(Route(s)) /\ Ahead(s, ToSet(buffer[x]))
    /\ kind = "demand" => \A s \in Outgoing(x) : \A t \in Outgoing(x) \ {s} : On(s) \cap On(t) = {}
Offered(x, buf, evs) ==
    /\ Increasing(buf \o evs)
    /\ \A s \in Outgoing(x) : Ahead(s, ToSet(buf) \cup ToSet(evs))

LEMMA OfferedAre ==
  ASSUME NEW x, NEW buf \in Seq(Events), NEW evs \in Seq(Events), Offered(x, buf, evs)
  PROVE  /\ Increasing(buf) /\ Increasing(evs) /\ Below(ToSet(buf), ToSet(evs))
         /\ \A m, n \in DOMAIN evs : m \in Nat /\ evs[n] \in Nat /\ (m < n => evs[m] < evs[n])
                                     /\ (evs[m] = evs[n] => m = n)
<1>1. Increasing(buf) /\ Increasing(evs) /\ Below(ToSet(buf), ToSet(evs))
  BY BothIncrease DEF Offered
<1>2. ASSUME NEW m \in DOMAIN evs, NEW n \in DOMAIN evs
      PROVE  m \in Nat /\ n \in Nat /\ evs[m] \in Nat /\ evs[n] \in Nat /\ (m < n => evs[m] < evs[n])
  <2>1. m \in Nat /\ n \in Nat
    OBVIOUS
  <2>2. evs[m] \in Events /\ evs[n] \in Events
    OBVIOUS
  <2>3. Events \subseteq Nat
    BY DEF Events
  <2>4. m < n => evs[m] < evs[n]
    BY <1>1 DEF Increasing
  <2> QED
    BY <2>1, <2>2, <2>3, <2>4
<1>3. ASSUME NEW m \in DOMAIN evs, NEW n \in DOMAIN evs, evs[m] = evs[n] PROVE m = n
  <2>1. /\ m \in Nat /\ n \in Nat /\ evs[m] \in Nat /\ evs[n] \in Nat
        /\ (m < n => evs[m] < evs[n]) /\ (n < m => evs[n] < evs[m])
    BY <1>2
  <2> QED
    BY <1>3, <2>1
<1> QED
  BY <1>1, <1>2, <1>3

(* The order of what goes on along the routes and stays behind.              *)
LEMMA DispatchAhead ==
  ASSUME GenStageAssumption, IInv, NEW x \in Stages, NEW d, Owns(x, d), NEW buf \in Seq(Events),
         NEW evs \in Seq(Events), Routed(x, d, evs), Offered(x, buf, evs), Stands(x, buf, d),
         kind' = kind, NEW s \in Outgoing(x), Increasing(Route(s)),
         ToSet(buffer'[x]) = ToSet(buf) \cup Scraps(x, d, evs)
  PROVE  Increasing(Route(s)') /\ Ahead(s, ToSet(buffer[x]))'
<1>1. /\ \A e \in On(s) : Fits(s, e) /\ \A f \in ToSet(buf) \cup ToSet(evs) : Fits(s, f) => e < f
      /\ \A e : Fits(s, e)' <=> Fits(s, e)
  BY DEF Offered, Ahead, Fits
<1>2. Scraps(x, d, evs) \subseteq ToSet(evs)
  BY LeftoverIs DEF Scraps, ToSet
<1>3. s \in Subs
  BY DEF Outgoing
<1>4. CASE s \notin Subscribers(x)
  <2>1. Route(s)' = Route(s) /\ On(s)' = On(s)
    BY <1>3, <1>4 DEF Routed, On
  <2>2. ASSUME NEW e \in On(s), NEW f \in ToSet(buffer'[x]), Fits(s, f) PROVE e < f
    BY <1>1, <1>2, <2>2
  <2> QED
    BY <1>1, <2>1, <2>2 DEF Ahead
<1>5. CASE s \in Subscribers(x)
  <2>1. FairlyShared(x, d, evs, s)
    BY <1>5, AllShareFairly DEF IInv, TypeOK
  <2>2. PICK S, L : S = Share(x, d, evs, s) /\ L = Left(x, d, evs)
    OBVIOUS
  <2>3. /\ \A n \in L : Fits(s, evs[n]) => \A m \in S : m < n
        /\ StuckAt(x, s, d) => S = {}
        /\ \A m \in S : Fits(s, evs[m])
    BY <2>1, <2>2 DEF FairlyShared
  <2>4. S \subseteq DOMAIN evs /\ L \subseteq DOMAIN evs
    <3>1. S \subseteq DOMAIN evs
      BY <1>5, <2>2, Shares DEF IInv, TypeOK, Owns
    <3>2. L \subseteq DOMAIN evs
      BY <2>2, LeftoverIs
    <3> QED
      BY <3>1, <3>2
  <2>5. Slice(x, d, evs, s) = {evs[n] : n \in S} /\ Scraps(x, d, evs) = {evs[n] : n \in L}
    BY <2>2 DEF Slice, Scraps
  <2>6. \A n \in S : evs[n] \in ToSet(evs)
    BY <2>4 DEF ToSet
  <2>7. Below(On(s), Slice(x, d, evs, s))
    BY <1>1, <2>3, <2>5, <2>6 DEF Below
  <2>8. Increasing(evs) /\ \A m, n \in DOMAIN evs : m < n => evs[m] < evs[n]
    BY OfferedAre
  <2>9. Increasing(Route(s)') /\ On(s)' = On(s) \cup Slice(x, d, evs, s)
    BY <1>5, <2>7, <2>8, RouteGrows
  <2>10. ASSUME NEW e \in On(s)' PROVE Fits(s, e)
    BY <1>1, <2>3, <2>5, <2>9
  <2>11. ASSUME NEW e \in On(s)', NEW f \in ToSet(buffer'[x]), Fits(s, f) PROVE e < f
    <3>1. CASE e \in On(s)
      BY <1>1, <1>2, <2>11, <3>1
    <3>2. CASE e \in Slice(x, d, evs, s)
      <4>1. PICK m \in S : e = evs[m]
        BY <2>5, <3>2
      <4>2. CASE f \in ToSet(buf)
        BY <1>5, <2>3, <2>11, <4>1, <4>2 DEF Stands
      <4>3. CASE f \in Scraps(x, d, evs)
        <5>1. PICK n \in L : f = evs[n]
          BY <2>5, <4>3
        <5> QED
          BY <2>3, <2>4, <2>8, <2>11, <4>1, <5>1
      <4> QED
        BY <4>2, <4>3
    <3> QED
      BY <2>9, <3>1, <3>2
  <2>12. \A e \in On(s)' : Fits(s, e)' /\ \A f \in ToSet(buffer'[x]) : Fits(s, f)' => e < f
    BY <1>1, <2>10, <2>11
  <2> QED
    BY <2>9, <2>12 DEF Ahead
<1> QED
  BY <1>4, <1>5

LEMMA DispatchFlows ==
  ASSUME GenStageAssumption, IInv, NEW x \in Stages, NEW d, NEW buf \in Seq(Events),
         NEW evs \in Seq(Events), Dispatched(x, d, buf, evs), Routed(x, d, evs),
         Offered(x, buf, evs), Stands(x, buf, d), kind' = kind, Flow(x)
  PROVE  Flow(x)'
<1>0. /\ Owns(x, d) /\ buffer'[x] = buf \o Leftover(x, d, evs)
      /\ ToSet(buffer'[x]) = ToSet(buf) \cup Scraps(x, d, evs)
  BY DEF Dispatched
<1>1. /\ Increasing(buf) /\ Increasing(evs) /\ Below(ToSet(buf), ToSet(evs))
      /\ \A m, n \in DOMAIN evs : evs[m] = evs[n] => m = n
  BY OfferedAre
<1>2. Increasing(buffer'[x])
  <2>1. PICK L, q : L = Left(x, d, evs) /\ q = Leftover(x, d, evs)
    OBVIOUS
  <2>2. L \in SUBSET DOMAIN evs /\ q = At(evs, L) /\ q \in Seq(Events)
    BY <2>1, LeftoverIs
  <2>3. ToSet(At(evs, L)) = {evs[n] : n \in L} /\ Increasing(At(evs, L))
    <3>1. L \in SUBSET DOMAIN evs
      BY <2>2
    <3> QED
      BY ONLY <1>1, <3>1, evs \in Seq(Events), AtElements
  <2>4. ToSet(q) \subseteq ToSet(evs)
    <3>1. ToSet(q) = {evs[n] : n \in L}
      BY <2>2, <2>3
    <3>2. ToSet(evs) = {evs[n] : n \in DOMAIN evs}
      BY DEF ToSet
    <3> QED
      BY <2>2, <3>1, <3>2
  <2>5. Below(ToSet(buf), ToSet(q))
    BY <1>1, <2>4 DEF Below
  <2>6. Increasing(buf \o q)
    BY <1>1, <2>2, <2>3, <2>5, BothIncrease
  <2> QED
    BY <1>0, <2>1, <2>6
<1>3. ASSUME NEW s \in Outgoing(x) PROVE Increasing(Route(s)') /\ Ahead(s, ToSet(buffer[x]))'
  <2>1. Increasing(Route(s))
    BY <1>3 DEF Flow
  <2> QED
    BY <1>0, <2>1, DispatchAhead
<1>4. ASSUME kind = "demand", NEW s \in Outgoing(x), NEW t \in Outgoing(x) \ {s}
      PROVE  On(s)' \cap On(t)' = {}
  <2>1. On(s) \cap On(t) = {} /\ s \in Subs /\ t \in Subs
    BY <1>4 DEF Flow, Outgoing
  <2>2. ASSUME NEW r \in Outgoing(x)
        PROVE  /\ r \notin Subscribers(x) => On(r)' = On(r)
               /\ r \in Subscribers(x) => On(r)' = On(r) \cup Slice(x, d, evs, r)
               /\ On(r) \cap ToSet(evs) = {}
               /\ r \in Subscribers(x) => Slice(x, d, evs, r) \subseteq ToSet(evs)
    <3>1. r \in Subs
      BY DEF Outgoing
    <3>2. r \notin Subscribers(x) => On(r)' = On(r)
      BY <3>1 DEF Routed, On
    <3>3. r \in Subscribers(x) => On(r)' = On(r) \cup Slice(x, d, evs, r)
      BY <1>0, RouteGrows
    <3>4. ASSUME NEW e \in On(r), e \in ToSet(evs) PROVE FALSE
      <4>1. e \in Nat
        BY <3>4 DEF ToSet, Events
      <4>2. Fits(r, e)
        BY <1>4 DEF Fits
      <4>3. e < e
        BY <3>4, <4>2 DEF Offered, Ahead
      <4> QED
        BY <4>1, <4>3
    <3>5. ASSUME r \in Subscribers(x) PROVE Slice(x, d, evs, r) \subseteq ToSet(evs)
      <4>1. Share(x, d, evs, r) \subseteq DOMAIN evs
        BY <1>0, <3>5, Shares DEF IInv, TypeOK, Owns
      <4> QED
        BY <4>1 DEF Slice, ToSet
    <3> QED
      BY <3>2, <3>3, <3>4, <3>5
  <2>3. ASSUME s \in Subscribers(x), t \in Subscribers(x)
        PROVE  Slice(x, d, evs, s) \cap Slice(x, d, evs, t) = {}
    <3>1. FairlyShared(x, d, evs, s)
      BY <1>0, <2>3, AllShareFairly DEF IInv, TypeOK
    <3>2. t \in Subscribers(x) \ {s}
      BY <2>3
    <3>3. Share(x, d, evs, s) \cap Share(x, d, evs, t) = {}
      BY <1>4, <3>1, <3>2 DEF FairlyShared
    <3>4. Share(x, d, evs, s) \subseteq DOMAIN evs /\ Share(x, d, evs, t) \subseteq DOMAIN evs
      BY <1>0, <2>3, Shares DEF IInv, TypeOK, Owns
    <3> QED
      BY <1>1, <3>3, <3>4 DEF Slice
  <2>4. s \in Outgoing(x) /\ t \in Outgoing(x)
    OBVIOUS
  <2>5. CASE s \in Subscribers(x) /\ t \in Subscribers(x)
    BY <2>1, <2>2, <2>3, <2>4, <2>5
  <2>6. CASE s \notin Subscribers(x) /\ t \in Subscribers(x)
    BY <2>1, <2>2, <2>4, <2>6
  <2>7. CASE s \in Subscribers(x) /\ t \notin Subscribers(x)
    BY <2>1, <2>2, <2>4, <2>7
  <2>8. CASE s \notin Subscribers(x) /\ t \notin Subscribers(x)
    BY <2>1, <2>2, <2>4, <2>8
  <2> QED
    BY <2>5, <2>6, <2>7, <2>8
<1>5. Outgoing(x)' = Outgoing(x)
  BY DEF Outgoing
<1> QED
  BY <1>2, <1>3, <1>4, <1>5 DEF Flow

(* Nothing of it is lost.                                                    *)
LEMMA DispatchPasses ==
  ASSUME GenStageAssumption, IInv, NEW x \in Stages, NEW d, NEW buf \in Seq(Events),
         NEW evs \in Seq(Events), Dispatched(x, d, buf, evs), Routed(x, d, evs)
  PROVE  Passed(x)' = Away(x) \cup ToSet(buf) \cup ToSet(evs)
<1>0. /\ Owns(x, d) /\ ToSet(buffer'[x]) = ToSet(buf) \cup Scraps(x, d, evs)
  BY DEF Dispatched
<1>1. Outgoing(x)' = Outgoing(x)
  BY DEF Outgoing
<1>2. ASSUME NEW s \in Outgoing(x)
      PROVE  /\ s \notin Subscribers(x) => On(s)' = On(s)
             /\ s \in Subscribers(x) => On(s)' = On(s) \cup Slice(x, d, evs, s)
  BY <1>0, RouteGrows DEF Outgoing, Routed, On
<1>3. ASSUME NEW s \in Subscribers(x)
      PROVE  s \in Outgoing(x) /\ Share(x, d, evs, s) \subseteq DOMAIN evs
             /\ Slice(x, d, evs, s) \subseteq ToSet(evs)
  <2>1. s \in Outgoing(x)
    BY SubscribersUp DEF Outgoing
  <2>2. Share(x, d, evs, s) \subseteq DOMAIN evs
    BY <1>0, Shares DEF IInv, TypeOK, Owns
  <2> QED
    BY <2>1, <2>2 DEF Slice, ToSet
<1>4. Left(x, d, evs) = DOMAIN evs \ UNION {Share(x, d, evs, s) : s \in Subscribers(x)}
  BY DEF Left
<1>5. Passed(x)' = ToSet(buffer'[x]) \cup UNION {On(s)' : s \in Outgoing(x)}
  BY <1>1 DEF Passed, Away, On, ToSet
<1>6. ASSUME NEW e \in Passed(x)' PROVE e \in Away(x) \cup ToSet(buf) \cup ToSet(evs)
  <2>1. Scraps(x, d, evs) \subseteq ToSet(evs)
    BY <1>4 DEF Scraps, ToSet
  <2>2. CASE e \in ToSet(buffer'[x])
    BY <1>0, <2>1, <2>2
  <2>3. ASSUME NEW s \in Outgoing(x), e \in On(s)' PROVE e \in Away(x) \cup ToSet(evs)
    <3>1. e \in On(s) \/ (s \in Subscribers(x) /\ e \in Slice(x, d, evs, s))
      BY <1>2, <2>3
    <3>2. CASE e \in On(s)
      BY <3>2 DEF Away
    <3>3. CASE s \in Subscribers(x) /\ e \in Slice(x, d, evs, s)
      BY <1>3, <3>3
    <3> QED
      BY <3>1, <3>2, <3>3
  <2> QED
    BY <1>5, <1>6, <2>2, <2>3
<1>7. ASSUME NEW e \in Away(x) PROVE e \in Passed(x)'
  <2>1. PICK s \in Outgoing(x) : e \in On(s)
    BY DEF Away
  <2>2. e \in On(s)'
    BY <1>2, <2>1
  <2> QED
    BY <1>5, <2>2
<1>8. ASSUME NEW e \in ToSet(evs) PROVE e \in Passed(x)'
  <2>1. PICK n \in DOMAIN evs : e = evs[n]
    BY DEF ToSet
  <2>2. CASE n \in Left(x, d, evs)
    <3>1. e \in Scraps(x, d, evs)
      BY <2>1, <2>2 DEF Scraps
    <3> QED
      BY <1>0, <1>5, <3>1
  <2>3. CASE n \notin Left(x, d, evs)
    <3>1. PICK s \in Subscribers(x) : n \in Share(x, d, evs, s)
      BY <1>4, <2>3
    <3>2. e \in Slice(x, d, evs, s)
      BY <2>1, <3>1 DEF Slice
    <3>3. s \in Outgoing(x) /\ e \in On(s)'
      BY <1>2, <1>3, <3>2
    <3> QED
      BY <1>5, <3>3
  <2> QED
    BY <2>2, <2>3
<1>9. ToSet(buf) \subseteq Passed(x)'
  BY <1>0, <1>5
<1> QED
  BY <1>6, <1>7, <1>8, <1>9

-----------------------------------------------------------------------------
(* What every stage that feeds others keeps *)

Level(x) ==
    /\ Passed(x) \subseteq Accepted(x)
    /\ ~Disturbed => Passed(x) = Accepted(x)
InPassing(x) ==
    InTheMiddle(x) /\ at[x] = "passing" =>
        /\ Increasing(current[x].events)
        /\ ToSet(current[x].events) \subseteq ToSet(got[current[x].sub])
        /\ Below(Passed(x), ToSet(current[x].events))
Sound(x) == Flow(x) /\ Level(x) /\ InPassing(x) /\ (InTheMiddle(x) => Holds(x))
AllSound == \A x \in Stages : Feeds(x) => Sound(x)
Placed   == \A x \in Stages : at[x] = "producing" => x = Source
InLine   == \A x \in Stages : ~Overtakes(x)

(* What is over stays so.                                                    *)
Gone(s) == status[s] \in {"cancelling", "cancelled"}
Settled ==
    /\ kind' = kind
    /\ \A s \in Subs : Gone(s) => Gone(s)'
    /\ \A x \in Stages : ~Alive(x) => ~Alive(x)'
    /\ \A x \in Stages : at'[x] = "producing" => at[x] = "producing" \/ x = Source
LEMMA SettledMeans ==
  ASSUME Settled
  PROVE  /\ Disturbed => Disturbed'
         /\ InLine' => InLine
         /\ Placed => Placed'
<1>1. Disturbed => Disturbed'
  BY DEF Settled, Disturbed, Gone
<1>2. ASSUME NEW x \in Stages, Overtakes(x) PROVE Overtakes(x)'
  <2>1. PICK s \in Outgoing(x) : Gone(s)
    BY <1>2 DEF Overtakes, Gone
  <2>2. Gone(s)' /\ s \in Outgoing(x)'
    BY <2>1 DEF Settled, Outgoing
  <2> QED
    BY <1>2, <2>2 DEF Overtakes, Settled, Gone, InTheMiddle
<1>3. InLine' => InLine
  BY <1>2 DEF InLine
<1>4. Placed => Placed'
  BY DEF Settled, Placed
<1> QED
  BY <1>1, <1>3, <1>4

LEMMA MovesSettle ==
  ASSUME GenStageAssumption, IInv, NEW x \in Stages, NEW place, at' = [at EXCEPT ![x] = place],
         at[x] # "stopped", place = "producing" => x = Source, kind' = kind,
         \A s \in Subs : Gone(s) => Gone(s)'
  PROVE  Settled
<1>1. \A y \in Stages : at'[y] = IF y = x THEN place ELSE at[y]
  BY SourceIs
<1> QED
  BY <1>1 DEF Settled, Alive
LEMMA DeliverSettles ==
  ASSUME GenStageAssumption, IInv, NEW y \in Stages, NEW m, Deliver(y, m), kind' = kind,
         \A s \in Subs : Gone(s) => Gone(s)'
  PROVE  Settled
<1>1. CASE Parked(y)
  <2>1. at' = [at EXCEPT ![y] = "handling"] /\ at[y] # "stopped"
    BY <1>1 DEF Deliver, Parked, Ready
  <2> QED
    BY <2>1, MovesSettle
<1>2. CASE ~Parked(y)
  BY <1>2 DEF Deliver, Settled, Alive
<1> QED
  BY <1>1, <1>2

LEMMA StepSettles ==
  ASSUME GenStageAssumption, IInv, NEW x \in Stages, Step(x)
  PROVE  Settled
<1>1. UNCHANGED status => \A s \in Subs : Gone(s) => Gone(s)'
  BY DEF Gone
<1>2. CASE Receive(x)
  BY <1>1, <1>2, MovesSettle DEF Receive, Ready
<1>3. CASE DoSubscribe(x)
  BY <1>1, <1>3, MovesSettle DEF DoSubscribe, Handling, Continue
<1>4. CASE Flush(x)
  BY <1>1, <1>4, MovesSettle DEF Flush, Ready, Continue
<1>5. CASE DoDemand(x)
  <2>1. \/ at' = [at EXCEPT ![x] = "idle"]
        \/ at' = [at EXCEPT ![x] = "producing"] /\ x = Source
    BY <1>5 DEF DoDemand, Continue
  <2>2. at[x] # "stopped" /\ UNCHANGED <<kind, status>>
    BY <1>5 DEF DoDemand, Handling
  <2>3. CASE at' = [at EXCEPT ![x] = "idle"]
    BY <1>1, <2>2, <2>3, MovesSettle
  <2>4. CASE at' = [at EXCEPT ![x] = "producing"] /\ x = Source
    BY <1>1, <2>2, <2>4, MovesSettle
  <2> QED
    BY <2>1, <2>3, <2>4
<1>6. CASE Produce(x)
  BY <1>1, <1>6 DEF Produce, Settled, Alive
<1>7. CASE ProduceEnds(x)
  BY <1>1, <1>7, MovesSettle DEF ProduceEnds, Ready, Continue
<1>8. CASE DoCancel(x)
  BY <1>1, <1>8, MovesSettle DEF DoCancel, Handling, Continue
<1>9. CASE DoSubscribeAck(x)
  BY <1>1, <1>9, MovesSettle DEF DoSubscribeAck, Handling, Continue
<1>10. CASE DoEvents(x)
  <2>1. \/ at' = [at EXCEPT ![x] = "idle"]
        \/ at' = [at EXCEPT ![x] = "passing"]
    BY <1>10 DEF DoEvents, Continue
  <2>2. at[x] # "stopped" /\ UNCHANGED <<kind, status>>
    BY <1>10 DEF DoEvents, Handling
  <2>3. CASE at' = [at EXCEPT ![x] = "idle"]
    BY <1>1, <2>2, <2>3, MovesSettle
  <2>4. CASE at' = [at EXCEPT ![x] = "passing"]
    BY <1>1, <2>2, <2>4, MovesSettle
  <2> QED
    BY <2>1, <2>3, <2>4
<1>11. CASE PassOn(x)
  BY <1>1, <1>11, MovesSettle DEF PassOn, Ready, Continue
<1>12. CASE Refill(x)
  BY <1>1, <1>12, MovesSettle DEF Refill, Ready, Continue
<1>13. CASE DoStop(x)
  BY <1>1, <1>13, MovesSettle DEF DoStop, Handling, Leaves
<1> QED
  BY <1>2, <1>3, <1>4, <1>5, <1>6, <1>7, <1>8, <1>9, <1>10, <1>11, <1>12, <1>13 DEF Step

LEMMA NextSettles ==
  ASSUME GenStageAssumption, IInv, [Next]_vars
  PROVE  Settled
<1>0. UNCHANGED status => \A s \in Subs : Gone(s) => Gone(s)'
  BY DEF Gone
<1>8. status \in [Subs -> {"new", "subscribed", "cancelling", "cancelled"}]
      /\ \A s \in Subs : Up[s] \in Stages /\ Down[s] \in Stages
  BY DEF IInv, TypeOK, GenStageAssumption
<1>1. ASSUME NEW s \in Subs, SubscribeTo(s) PROVE Settled
  <2>1. \A t \in Subs : Gone(t) => Gone(t)'
    BY <1>1, <1>8 DEF SubscribeTo, Gone
  <2> QED
    BY <1>1, <1>8, <2>1, DeliverSettles DEF SubscribeTo
<1>2. ASSUME UNCHANGED at, kind' = kind, \A s \in Subs : Gone(s) => Gone(s)' PROVE Settled
  BY <1>2 DEF Settled, Alive
<1>3. ASSUME NEW s \in Subs, CancelSubscription(s) PROVE Settled
  <2>1. \A t \in Subs : Gone(t) => Gone(t)'
    BY <1>3, <1>8 DEF CancelSubscription, Gone
  <2> QED
    BY <1>2, <1>3, <2>1 DEF CancelSubscription, tasks
<1>4. ASSUME NEW s \in Subs, TellCancelled(s) PROVE Settled
  <2>1. \A t \in Subs : Gone(t) => Gone(t)'
    BY <1>4, <1>8 DEF TellCancelled, Gone
  <2>2. CASE Alive(Up[s])
    BY <1>4, <1>8, <2>1, <2>2, DeliverSettles DEF TellCancelled
  <2>3. CASE ~Alive(Up[s])
    BY <1>2, <1>4, <2>1, <2>3 DEF TellCancelled
  <2> QED
    BY <2>2, <2>3
<1>5. ASSUME NEW x \in Stages, StopStage(x) PROVE Settled
  BY <1>0, <1>5, DeliverSettles DEF StopStage
<1>6. ASSUME UNCHANGED vars PROVE Settled
  BY <1>0, <1>2, <1>6 DEF vars, tasks
<1>7. ASSUME NEW x \in Stages, Sending(x) PROVE Settled
  <2>1. CASE SendNext(x)
    <3>1. PICK m : m = Head(outbox[x])
      OBVIOUS
    <3>4. outbox[x] \in Seq(Message) /\ outbox[x] # <<>>
      BY <2>1 DEF SendNext, IInv, TypeOK
    <3>2. m \in Message
      BY <3>1, <3>4
    <3>3. Receiver(m) \in Stages
      BY <3>2 DEF Receiver, Message, GenStageAssumption
    <3> QED
      BY <1>0, <2>1, <3>1, <3>3, DeliverSettles DEF SendNext
  <2>2. CASE SendFails(x)
    BY <1>0, <1>2, <2>2 DEF SendFails
  <2>3. CASE AckFails(x)
    <3>1. \A y \in Stages : at'[y] = IF y = x THEN "stopped" ELSE at[y]
      BY <2>3, SourceIs DEF AckFails, Leaves
    <3> QED
      BY <1>0, <2>3, <3>1 DEF AckFails, Settled, Alive
  <2> QED
    BY <1>7, <2>1, <2>2, <2>3 DEF Sending
<1>9. ASSUME NEW x \in Stages, Step(x) PROVE Settled
  BY <1>9, StepSettles
<1> QED
  BY <1>1, <1>3, <1>4, <1>5, <1>6, <1>7, <1>9 DEF Next, Users, Quiet

(* A stage at which nothing is dispatched.                                   *)
Rests(y) ==
    /\ \A s \in Outgoing(y) : Thinner(s)
    /\ buffer'[y] = buffer[y] \/ (buffer'[y] = <<>> /\ Disturbed')
    /\ Accepted(y) \subseteq Accepted(y)' /\ (~Disturbed' => Accepted(y)' = Accepted(y))
    /\ InTheMiddle(y) => Holds(y)'
LEMMA RestsKeeps ==
  ASSUME kind' = kind, Disturbed => Disturbed', NEW y \in Stages, Sound(y), Rests(y)
  PROVE  /\ Flow(y)' /\ Level(y)' /\ (InTheMiddle(y) => Holds(y))'
         /\ Passed(y)' \subseteq Passed(y)
<1>1. Outgoing(y)' = Outgoing(y) /\ \A s, e : Fits(s, e)' <=> Fits(s, e)
  BY DEF Outgoing, Fits
<1>2. ToSet(<<>>) = {} /\ Increasing(<<>>)
  BY DEF ToSet, Increasing
<1>3. Increasing(buffer'[y]) /\ ToSet(buffer'[y]) \subseteq ToSet(buffer[y])
  BY <1>2 DEF Sound, Flow, Rests
<1>4. ASSUME NEW s \in Outgoing(y)
      PROVE  /\ On(s)' \subseteq On(s) /\ Increasing(Route(s)')
             /\ ~Disturbed' => On(s)' = On(s)
  BY DEF Rests, Thinner, Thins, On, Sound, Flow
<1>5. ASSUME NEW s \in Outgoing(y) PROVE Ahead(s, ToSet(buffer[y]))'
  <2>1. \A e \in On(s) : Fits(s, e) /\ \A f \in ToSet(buffer[y]) : Fits(s, f) => e < f
    BY DEF Sound, Flow, Ahead
  <2>2. \A e \in On(s)' : Fits(s, e)' /\ \A f \in ToSet(buffer'[y]) : Fits(s, f)' => e < f
    BY <1>1, <1>3, <1>4, <2>1
  <2> QED
    BY <2>2 DEF Ahead
<1>6. Flow(y)'
  <2>1. kind = "demand" => \A s \in Outgoing(y) : \A t \in Outgoing(y) \ {s} : On(s) \cap On(t) = {}
    BY DEF Sound, Flow
  <2>2. kind = "demand" => \A s \in Outgoing(y) : \A t \in Outgoing(y) \ {s} : On(s)' \cap On(t)' = {}
    BY <1>4, <2>1
  <2>3. \A s \in Outgoing(y) : Increasing(Route(s)') /\ Ahead(s, ToSet(buffer[y]))'
    BY <1>4, <1>5
  <2> QED
    BY <1>1, <1>3, <2>2, <2>3 DEF Flow
<1>7. Passed(y)' = ToSet(buffer'[y]) \cup UNION {On(s)' : s \in Outgoing(y)}
  BY <1>1 DEF Passed, Away, On, ToSet
<1>8. Passed(y)' \subseteq Passed(y)
  <2>1. UNION {On(s)' : s \in Outgoing(y)} \subseteq Away(y)
    BY <1>4 DEF Away
  <2> QED
    BY <1>3, <1>7, <2>1 DEF Passed
<1>9. ASSUME ~Disturbed' PROVE Passed(y)' = Passed(y)
  <2>1. ToSet(buffer'[y]) = ToSet(buffer[y])
    BY <1>9 DEF Rests
  <2>2. UNION {On(s)' : s \in Outgoing(y)} = Away(y)
    BY <1>4, <1>9 DEF Away
  <2> QED
    BY <1>7, <2>1, <2>2 DEF Passed
<1>10. Level(y)'
  <2>1. Passed(y) \subseteq Accepted(y) /\ (~Disturbed => Passed(y) = Accepted(y))
    BY DEF Sound, Level
  <2>2. Accepted(y) \subseteq Accepted(y)' /\ (~Disturbed' => Accepted(y)' = Accepted(y))
    BY DEF Rests
  <2>3. Passed(y)' \subseteq Accepted(y)'
    BY <1>8, <2>1, <2>2
  <2>4. ~Disturbed' => Passed(y)' = Accepted(y)'
    BY <1>9, <2>1, <2>2
  <2> QED
    BY <2>3, <2>4 DEF Level
<1>11. (InTheMiddle(y) => Holds(y))'
  BY DEF Rests, InTheMiddle
<1> QED
  BY <1>6, <1>8, <1>10, <1>11

LEMMA RestsSound ==
  ASSUME kind' = kind, Disturbed => Disturbed', NEW y \in Stages, Sound(y), Rests(y),
         InTheMiddle(y) /\ at'[y] = "passing" =>
            /\ at[y] = "passing" /\ current'[y] = current[y]
            /\ got'[current[y].sub] = got[current[y].sub]
  PROVE  Sound(y)'
<1>1. /\ Flow(y)' /\ Level(y)' /\ (InTheMiddle(y) => Holds(y))'
      /\ Passed(y)' \subseteq Passed(y)
  BY RestsKeeps
<1>2. ASSUME InTheMiddle(y), at'[y] = "passing"
      PROVE  /\ Increasing(current'[y].events)
             /\ ToSet(current'[y].events) \subseteq ToSet(got'[current'[y].sub])
             /\ Below(Passed(y)', ToSet(current'[y].events))
  <2>1. at[y] = "passing" /\ current'[y] = current[y] /\ got'[current[y].sub] = got[current[y].sub]
    BY <1>2
  <2>2. /\ Increasing(current[y].events)
        /\ ToSet(current[y].events) \subseteq ToSet(got[current[y].sub])
        /\ Below(Passed(y), ToSet(current[y].events))
    BY <1>2, <2>1 DEF Sound, InPassing
  <2>3. Below(Passed(y)', ToSet(current[y].events))
    BY <1>1, <2>2 DEF Below
  <2> QED
    BY <2>1, <2>2, <2>3
<1>3. InPassing(y)'
  BY <1>2 DEF InPassing, InTheMiddle, Increasing, Below, ToSet
<1> QED
  BY <1>1, <1>3 DEF Sound

(* Where no events are handled, what has been accepted stays.                *)
LEMMA AcceptedIs ==
  ASSUME NEW y \in Stages
  PROVE  /\ y # Source => Accepted(y) = Handed(y) \ InWork(y)
         /\ y # Source => Accepted(y)' = Handed(y)' \ InWork(y)'
         /\ y = Source => Accepted(y) = 1..made /\ Accepted(y)' = 1..made'
         /\ \A e : e \in Handed(y) <=> \E s \in Subs : Down[s] = y /\ e \in ToSet(got[s])
         /\ \A e : e \in Handed(y)' <=> \E s \in Subs : Down[s] = y /\ e \in ToSet(got'[s])
<1>1. y # Source => Accepted(y) = Handed(y) \ InWork(y)
  BY DEF Accepted
<1>2. y # Source => Accepted(y)' = Handed(y)' \ InWork(y)'
  BY DEF Accepted
<1>3. y = Source => Accepted(y) = 1..made /\ Accepted(y)' = 1..made'
  BY DEF Accepted
<1>4. \A e : e \in Handed(y) <=> \E s \in Subs : Down[s] = y /\ e \in ToSet(got[s])
  BY DEF Handed
<1>5. \A e : e \in Handed(y)' <=> \E s \in Subs : Down[s] = y /\ e \in ToSet(got'[s])
  BY DEF Handed, ToSet
<1> QED
  BY <1>1, <1>2, <1>3, <1>4, <1>5

Keeps(y) == /\ at'[y] = "passing" => at[y] = "passing" /\ current'[y] = current[y]
            /\ at[y] = "passing" => at'[y] = "passing" \/ Disturbed'
LEMMA AcceptedStays ==
  ASSUME NEW y \in Stages, got' = got, y = Source => made' = made, Keeps(y)
  PROVE  Accepted(y) \subseteq Accepted(y)' /\ (~Disturbed' => Accepted(y)' = Accepted(y))
<1>1. CASE y = Source
  BY <1>1, AcceptedIs
<1>2. CASE y # Source
  <2>1. Accepted(y) = Handed(y) \ InWork(y) /\ Accepted(y)' = Handed(y)' \ InWork(y)'
    BY <1>2, AcceptedIs
  <2>2. \A e : e \in Handed(y)' <=> e \in Handed(y)
    BY AcceptedIs
  <2>3. InWork(y)' \subseteq InWork(y) /\ (~Disturbed' => InWork(y)' = InWork(y))
    <3>1. InWork(y)' = IF at'[y] = "passing" THEN ToSet(current'[y].events) ELSE {}
      BY DEF InWork, ToSet
    <3> QED
      BY <3>1 DEF InWork, Keeps
  <2> QED
    BY <2>1, <2>2, <2>3
<1> QED
  BY <1>1, <1>2

Calm(y) == /\ Keeps(y)
           /\ buffer'[y] = buffer[y] \/ (buffer'[y] = <<>> /\ Disturbed')
           /\ InTheMiddle(y) => Holds(y)'
LEMMA CalmSound ==
  ASSUME Settled, AllSound, UNCHANGED <<made, got>>, \A s \in Subs : Thinner(s),
         \A y \in Stages : Feeds(y) => Calm(y)
  PROVE  AllSound'
<1>1. ASSUME NEW y \in Stages, Feeds(y) PROVE Sound(y)'
  <2>1. Calm(y) /\ Sound(y)
    BY <1>1 DEF AllSound
  <2>2. \A s \in Outgoing(y) : Thinner(s)
    BY DEF Outgoing
  <2>3. Accepted(y) \subseteq Accepted(y)' /\ (~Disturbed' => Accepted(y)' = Accepted(y))
    BY <2>1, AcceptedStays DEF Calm
  <2>4. Rests(y)
    BY <2>1, <2>2, <2>3 DEF Rests, Calm
  <2>5. at'[y] = "passing" => at[y] = "passing" /\ current'[y] = current[y]
    BY <2>1 DEF Calm, Keeps
  <2> QED
    BY <2>1, <2>4, <2>5, RestsSound, SettledMeans DEF Settled
<1> QED
  BY <1>1 DEF AllSound, Feeds, InTheMiddle

LEMMA TasksSound ==
  ASSUME GenStageAssumption, IInv, Settled, AllSound, UNCHANGED <<upstream, made, got>>,
         \A s \in Subs : Thinner(s), \A y \in Stages : Feeds(y) => Keeps(y)
  PROVE  AllSound'
<1>1. ASSUME NEW y \in Stages, Feeds(y) PROVE Calm(y)
  <2>1. InTheMiddle(y) => Holds(y)
    BY <1>1 DEF AllSound, Sound
  <2>2. InTheMiddle(y) => Holds(y)'
    BY <2>1, HoldsOn DEF Settled, upstream
  <2> QED
    BY <1>1, <2>2 DEF Calm, upstream
<1> QED
  BY <1>1, CalmSound

-----------------------------------------------------------------------------
(* Steps that dispatch nothing *)

LEMMA StillThin ==
  ASSUME GenStageAssumption, IInv, TypeOK', got' = got, Stills, \A s \in Subs : Sent(s)' = Sent(s)
  PROVE  \A s \in Subs : Thinner(s)
<1>1. ASSUME NEW s \in Subs PROVE Thinner(s)
  <2>1. Down[s] \in Stages /\ TypeOK
    BY DEF GenStageAssumption, IInv
  <2>2. Waits(Down[s], s)' = Waits(Down[s], s)
    BY <2>1 DEF Stills
  <2> QED
    BY <2>1, <2>2, SameRoute
<1> QED
  BY <1>1

LEMMA SentStill ==
  ASSUME GenStageAssumption, UNCHANGED outbox
  PROVE  \A s \in Subs : Sent(s)' = Sent(s)
BY SentSame DEF GenStageAssumption

LEMMA SentSilent ==
  ASSUME GenStageAssumption, TypeOK, NEW x \in Stages, outbox[x] = <<>>, NEW m \in Message,
         Silent(m), Sends(x, m)
  PROVE  \A s \in Subs : Sent(s)' = Sent(s)
<1>1. ASSUME NEW s \in Subs PROVE Sent(s)' = Sent(s)
  <2>0. Up[s] \in Stages /\ outbox \in [Stages -> Seq(Message)]
    BY DEF GenStageAssumption, TypeOK
  <2>1. CASE Up[s] = x
    <3>1. outbox'[Up[s]] = <<m>>
      BY <2>0, <2>1 DEF Sends
    <3>2. PICK n : n = <<m>>
      OBVIOUS
    <3>3. EventsFor(s, n) = <<>>
      BY <3>2, EventsForOne, SilentIs
    <3>4. EventsFor(s, <<>>) = <<>>
      BY EventsForNone
    <3>5. Sent(s)' = EventsFor(s, outbox'[Up[s]]) /\ Sent(s) = EventsFor(s, outbox[Up[s]])
      BY DEF Sent, EventsFor
    <3> QED
      BY <2>1, <3>1, <3>2, <3>3, <3>4, <3>5
  <2>2. CASE Up[s] # x
    <3>1. outbox'[Up[s]] = outbox[Up[s]]
      BY <2>0, <2>2 DEF Sends
    <3> QED
      BY <3>1, SentSame
  <2> QED
    BY <2>1, <2>2
<1> QED
  BY <1>1

LEMMA DeliverStills ==
  ASSUME GenStageAssumption, TypeOK, TypeOK', NEW y \in Stages, NEW m \in Message, Silent(m),
         Deliver(y, m)
  PROVE  Stills
<1>1. TaskTypes /\ TaskTypes'
  BY DEF TypeOK, TaskTypes
<1>2. Lands(y, m)
  BY <1>1, DeliverLands
<1> QED
  BY <1>2, SilentTakes

LEMMA ContinueStills ==
  ASSUME GenStageAssumption, TypeOK, TypeOK', NEW x \in Stages, NEW place, Continue(x, place),
         place # "handling", at[x] = "handling" => Silent(current[x])
  PROVE  Stills
<1>1. TaskTypes /\ TaskTypes'
  BY DEF TypeOK, TaskTypes
<1>2. CASE at[x] = "handling"
  <2>1. Takes(x, current[x])
    BY <1>1, <1>2, ContinueTakes
  <2> QED
    BY <1>2, <2>1, SilentTakes
<1>3. CASE at[x] # "handling"
  BY <1>1, <1>3, ContinueTakes
<1> QED
  BY <1>2, <1>3

(* When things are lost, something has been cancelled or stopped.            *)
LEMMA ThinRoute ==
  ASSUME GenStageAssumption, IInv, TypeOK', NEW s \in Subs, got'[s] = got[s],
         Thins(Waits(Down[s], s)', Waits(Down[s], s)), Thins(Sent(s)', Sent(s)), Disturbed'
  PROVE  Thinner(s)
<1>1. PICK g, w, o, v, n : /\ g = got[s] /\ w = Waits(Down[s], s) /\ o = Sent(s)
                           /\ v = Waits(Down[s], s)' /\ n = Sent(s)'
  OBVIOUS
<1>2. TypeOK
  BY DEF IInv
<1>3. /\ g \in Seq(Events) /\ w \in Seq(Events) /\ o \in Seq(Events) /\ Route(s) = g \o (w \o o)
  BY <1>1, <1>2, RouteIs
<1>4. /\ v \in Seq(Events) /\ n \in Seq(Events) /\ Route(s)' = g \o (v \o n)
  BY <1>1, RouteNext
<1>5. Thins(v \o n, w \o o)
  BY <1>1, <1>3, <1>4, BothThin
<1>6. PICK a, b : a = v \o n /\ b = w \o o
  OBVIOUS
<1>7. a \in Seq(Events) /\ b \in Seq(Events) /\ Thins(g, g)
  BY <1>3, <1>4, <1>6, ConcatProperties DEF Thins
<1>8. Thins(g \o a, g \o b)
  BY <1>3, <1>5, <1>6, <1>7, BothThin
<1> QED
  BY <1>3, <1>4, <1>6, <1>8 DEF Thinner

LEMMA TakesThin ==
  ASSUME GenStageAssumption, TypeOK, TypeOK', NEW x \in Stages, NEW m \in Message, Takes(x, m),
         NEW z \in Stages, NEW s \in Subs
  PROVE  Thins(Waits(z, s)', Waits(z, s))
<1>1. TaskTypes /\ TaskTypes'
  BY DEF TypeOK, TaskTypes
<1>2. PICK w, v, b : w = Waits(z, s) /\ v = Waits(z, s)' /\ b = Brought(m, s)
  OBVIOUS
<1>3. w \in Seq(Events) /\ v \in Seq(Events) /\ b \in Seq(Events)
  BY <1>1, <1>2, WaitsAre, WaitsNext, BroughtIs
<1>4. w = b \o v \/ w = v
  BY <1>2 DEF Takes
<1>5. Thins(v, b \o v) /\ Thins(v, v)
  BY <1>3, SomeThin
<1> QED
  BY <1>2, <1>4, <1>5

(* Where a task gets and goes does not touch what is passed on.              *)
LEMMA DeliverKeepsPassing ==
  ASSUME IInv, NEW y \in Stages, NEW m, Deliver(y, m)
  PROVE  \A z \in Stages : Keeps(z)
<1>1. at \in [Stages -> {"idle", "handling", "flushing", "producing", "passing", "refilling", "stopped"}]
      /\ current \in [Stages -> Message]
  BY DEF IInv, TypeOK
<1>2. CASE Parked(y)
  <2>1. ASSUME NEW z \in Stages PROVE Keeps(z)
    <3>1. at[y] = "idle"
      BY <1>2 DEF Parked, Ready
    <3>2. at'[z] = (IF z = y THEN "handling" ELSE at[z]) /\ (z # y => current'[z] = current[z])
      BY <1>1, <1>2 DEF Deliver
    <3> QED
      BY <3>1, <3>2 DEF Keeps
  <2> QED
    BY <2>1
<1>3. CASE ~Parked(y)
  BY <1>3 DEF Deliver, Keeps
<1> QED
  BY <1>2, <1>3

LEMMA ContinueKeepsPassing ==
  ASSUME IInv, NEW x \in Stages, NEW place, Continue(x, place), NEW z \in Stages,
         z = x => place # "passing" /\ at[x] # "passing"
  PROVE  Keeps(z)
<1>1. at \in [Stages -> {"idle", "handling", "flushing", "producing", "passing", "refilling", "stopped"}]
      /\ current \in [Stages -> Message]
  BY DEF IInv, TypeOK
<1>2. at'[z] = (IF z = x THEN place ELSE at[z]) /\ (z # x => current'[z] = current[z])
  BY <1>1 DEF Continue
<1> QED
  BY <1>2 DEF Keeps

(* A message that brings no events comes.                                    *)
LEMMA DeliverSound ==
  ASSUME GenStageAssumption, IInv, IInv', Settled, AllSound, NEW y \in Stages, NEW m \in Message,
         Silent(m), Deliver(y, m), UNCHANGED <<upstream, outbox, history>>
  PROVE  AllSound'
<1>1. TypeOK /\ TypeOK' /\ got' = got /\ made' = made /\ UNCHANGED outbox
  BY DEF IInv, history
<1>2. Stills
  BY <1>1, DeliverStills
<1>3. \A s \in Subs : Sent(s)' = Sent(s)
  BY <1>1, SentStill
<1>4. \A s \in Subs : Thinner(s)
  BY <1>1, <1>2, <1>3, StillThin
<1>5. \A z \in Stages : Keeps(z)
  BY DeliverKeepsPassing
<1> QED
  BY <1>1, <1>4, <1>5, TasksSound

(* A handler goes on that dispatches nothing and has no events in hand.      *)
LEMMA ContinueSound ==
  ASSUME GenStageAssumption, IInv, IInv', Settled, AllSound, NEW x \in Stages, NEW place,
         Continue(x, place), place \notin {"handling", "passing"},
         at[x] = "handling" => Silent(current[x]), Feeds(x) => at[x] # "passing",
         \A s \in Subs : Sent(s)' = Sent(s), UNCHANGED <<upstream, history>>
  PROVE  AllSound'
<1>1. TypeOK /\ TypeOK' /\ got' = got /\ made' = made
  BY DEF IInv, history
<1>2. Stills
  BY <1>1, ContinueStills
<1>4. \A s \in Subs : Thinner(s)
  BY <1>1, <1>2, StillThin
<1>5. \A z \in Stages : Feeds(z) => Keeps(z)
  BY ContinueKeepsPassing
<1> QED
  BY <1>1, <1>4, <1>5, TasksSound

(* A stage ends.                                                             *)
LEMMA LeavesSound ==
  ASSUME GenStageAssumption, IInv, IInv', Settled, AllSound, NEW x \in Stages, Leaves(x),
         UNCHANGED <<upstream, history>>
  PROVE  AllSound'
<1>1. TypeOK /\ TypeOK' /\ got' = got /\ made' = made
  BY DEF IInv, history
<1>2. /\ at \in [Stages -> {"idle", "handling", "flushing", "producing", "passing", "refilling", "stopped"}]
      /\ current \in [Stages -> Message] /\ outbox \in [Stages -> Seq(Message)]
  BY <1>1 DEF TypeOK
<1>3. /\ at' = [at EXCEPT ![x] = "stopped"] /\ current' = [current EXCEPT ![x] = None]
      /\ outbox' = [outbox EXCEPT ![x] = <<>>]
  BY DEF Leaves
<1>4. Disturbed'
  BY <1>2, <1>3 DEF Disturbed, Alive
<1>5. \A z \in Stages : Keeps(z)
  BY <1>2, <1>3, <1>4 DEF Keeps
<1>6. ASSUME NEW s \in Subs PROVE Thinner(s)
  <2>1. TaskTypes /\ TaskTypes' /\ Down[s] \in Stages /\ Up[s] \in Stages
    BY <1>1 DEF TypeOK, TaskTypes, GenStageAssumption
  <2>2. PICK w, v, o, n : /\ w = Waits(Down[s], s) /\ o = Sent(s)
                          /\ v = Waits(Down[s], s)' /\ n = Sent(s)'
    OBVIOUS
  <2>3. w \in Seq(Events) /\ v \in Seq(Events) /\ o \in Seq(Events)
    BY <1>1, <2>1, <2>2, RouteIs, WaitsNext
  <2>4. v = <<>> \/ v = w
    BY <2>1, <2>2, LeavesDrops
  <2>5. n = <<>> \/ n = o
    <3>1. n = EventsFor(s, outbox'[Up[s]]) /\ o = EventsFor(s, outbox[Up[s]])
      BY <2>2, Zenon DEF Sent, EventsFor
    <3>2. outbox'[Up[s]] = <<>> \/ outbox'[Up[s]] = outbox[Up[s]]
      BY <1>2, <1>3, <2>1
    <3>3. CASE outbox'[Up[s]] = <<>>
      BY <3>1, <3>3, EventsForNone, Zenon
    <3>4. CASE outbox'[Up[s]] = outbox[Up[s]]
      BY <3>1, <3>4, Zenon
    <3> QED
      BY <3>2, <3>3, <3>4
  <2>6. Thins(<<>>, w) /\ Thins(w, w) /\ Thins(<<>>, o) /\ Thins(o, o)
    BY <2>3, SomeThin
  <2>7. Thins(v, w) /\ Thins(n, o)
    BY <2>4, <2>5, <2>6
  <2> QED
    BY <1>1, <1>4, <2>2, <2>7, ThinRoute
<1> QED
  BY <1>1, <1>5, <1>6, TasksSound

(* A message is sent, or is lost because its receiver has stopped.           *)
LEMMA SendNextSound ==
  ASSUME GenStageAssumption, IInv, IInv', Settled, AllSound, NEW x \in Stages, SendNext(x)
  PROVE  AllSound'
<1>1. TypeOK /\ TypeOK' /\ TaskTypes /\ TaskTypes' /\ StockTypes
  BY Types DEF IInv
<1>2. PICK m : m = Head(outbox[x])
  OBVIOUS
<1>3. /\ outbox[x] # <<>> /\ outbox' = [outbox EXCEPT ![x] = Tail(@)] /\ Deliver(Receiver(m), m)
      /\ UNCHANGED <<upstream, made, got>>
  BY <1>2 DEF SendNext, history
<1>4. /\ m \in Message /\ Out(x, m) /\ outbox[x] \in Seq(Message)
      /\ \A z \in Stages : z # x => outbox'[z] = outbox[z]
      /\ outbox'[x] = Tail(outbox[x])
  BY <1>1, <1>2, <1>3, OutboxShrinks DEF StockTypes
<1>5. Sender(m) = x /\ m.type \in {"ack", "events", "demand"}
  BY <1>4 DEF IInv, Addressed
<1>6. Receiver(m) \in Stages
  BY <1>4 DEF Receiver, Message, GenStageAssumption
<1>7. Lands(Receiver(m), m)
  BY <1>1, <1>3, <1>4, <1>6, DeliverLands
<1>8. ASSUME NEW s \in Subs PROVE Thinner(s)
  <2>1. PICK w, v, o, n, b : /\ w = Waits(Down[s], s) /\ o = Sent(s) /\ b = Brought(m, s)
                             /\ v = Waits(Down[s], s)' /\ n = Sent(s)'
    OBVIOUS
  <2>2. /\ w \in Seq(Events) /\ o \in Seq(Events) /\ v \in Seq(Events) /\ n \in Seq(Events)
        /\ b \in Seq(Events) /\ Down[s] \in Stages /\ Up[s] \in Stages
    BY <1>1, <1>4, <2>1, RouteIs, RouteNext, BroughtIs DEF GenStageAssumption
  <2>3. o = EventsFor(s, outbox[Up[s]]) /\ n = EventsFor(s, outbox'[Up[s]])
    BY <2>1, Zenon DEF Sent, EventsFor
  <2>4. Up[s] = x => o = b \o n
    <3>1. EventsFor(s, outbox[x]) = Brought(Head(outbox[x]), s) \o EventsFor(s, Tail(outbox[x]))
      BY <1>3, <1>4, EventsForFirst
    <3> QED
      BY <1>2, <1>4, <2>1, <2>3, <3>1
  <2>5. Up[s] # x => o = n
    BY <1>4, <2>2, <2>3
  <2>6. /\ Down[s] = Receiver(m) => v = w \o b
        /\ Down[s] # Receiver(m) => v = w
    BY <1>7, <2>1, <2>2 DEF Lands
  <2>7. CASE Brings(m, s)
    <3>1. Up[s] = x /\ Down[s] = Receiver(m)
      BY <1>5, <2>7 DEF Brings, Sender, Receiver
    <3>2. (w \o b) \o n = w \o (b \o n)
      <4>1. w \in Seq(Events) /\ b \in Seq(Events) /\ n \in Seq(Events)
        BY <2>2
      <4> QED
        BY ONLY <4>1, ConcatEvents
    <3>3. PICK g : g = got[s]
      OBVIOUS
    <3>4. Route(s) = g \o (w \o o)
      BY <1>1, <2>1, <3>3, RouteIs
    <3>5. Route(s)' = g \o (v \o n)
      BY <1>1, <1>3, <2>1, <3>3, RouteNext
    <3>6. Route(s)' = Route(s)
      BY <2>4, <2>6, <3>1, <3>2, <3>4, <3>5
    <3> QED
      BY <3>6 DEF Thinner, Thins
  <2>8. CASE ~Brings(m, s)
    <3>1. b = <<>>
      BY <2>1, <2>8 DEF Brought
    <3>2. w \o <<>> = w /\ <<>> \o n = n
      BY <2>2, ConcatEmptySeq
    <3>3. v = w /\ n = o
      BY <2>4, <2>5, <2>6, <3>1, <3>2
    <3> QED
      BY <1>1, <1>3, <2>1, <3>3, SameRoute
  <2> QED
    BY <2>7, <2>8
<1>9. \A z \in Stages : Keeps(z)
  BY <1>3, <1>6, DeliverKeepsPassing
<1> QED
  BY <1>3, <1>8, <1>9, TasksSound

LEMMA SendFailsSound ==
  ASSUME GenStageAssumption, IInv, IInv', Settled, AllSound, NEW x \in Stages, SendFails(x)
  PROVE  AllSound'
<1>1. TypeOK /\ TypeOK' /\ TaskTypes /\ TaskTypes' /\ StockTypes
  BY Types DEF IInv
<1>2. PICK m : m = Head(outbox[x])
  OBVIOUS
<1>3. /\ outbox[x] # <<>> /\ outbox' = [outbox EXCEPT ![x] = Tail(@)] /\ ~Alive(Receiver(m))
      /\ UNCHANGED <<upstream, made, got, at, mailbox, current>>
  BY <1>2 DEF SendFails, history
<1>4. /\ m \in Message /\ outbox[x] \in Seq(Message)
      /\ \A z \in Stages : z # x => outbox'[z] = outbox[z]
      /\ outbox'[x] = Tail(outbox[x])
  BY <1>1, <1>2, <1>3, OutboxShrinks DEF StockTypes
<1>5. Receiver(m) \in Stages
  BY <1>4 DEF Receiver, Message, GenStageAssumption
<1>6. Disturbed'
  BY <1>3, <1>5 DEF Disturbed, Alive
<1>7. ASSUME NEW s \in Subs PROVE Thinner(s)
  <2>1. Down[s] \in Stages /\ Up[s] \in Stages
    BY DEF GenStageAssumption
  <2>2. Waits(Down[s], s)' = Waits(Down[s], s)
    BY <1>3, <2>1, SameThere
  <2>3. PICK w, o, n, b : w = Waits(Down[s], s) /\ o = Sent(s) /\ n = Sent(s)' /\ b = Brought(m, s)
    OBVIOUS
  <2>4. w \in Seq(Events) /\ o \in Seq(Events) /\ n \in Seq(Events) /\ b \in Seq(Events)
    BY <1>1, <1>4, <2>3, RouteIs, RouteNext, BroughtIs
  <2>5. o = EventsFor(s, outbox[Up[s]]) /\ n = EventsFor(s, outbox'[Up[s]])
    BY <2>3, Zenon DEF Sent, EventsFor
  <2>6. Up[s] = x => o = b \o n
    <3>1. EventsFor(s, outbox[x]) = Brought(Head(outbox[x]), s) \o EventsFor(s, Tail(outbox[x]))
      BY <1>3, <1>4, EventsForFirst
    <3> QED
      BY <1>2, <1>4, <2>3, <2>5, <3>1
  <2>7. Up[s] # x => o = n
    BY <1>4, <2>1, <2>5
  <2>8. Thins(n, b \o n) /\ Thins(n, n) /\ Thins(w, w)
    BY <2>4, SomeThin
  <2>9. Thins(n, o)
    BY <2>6, <2>7, <2>8
  <2> QED
    BY <1>1, <1>3, <1>6, <2>2, <2>3, <2>8, <2>9, ThinRoute
<1>8. \A z \in Stages : Keeps(z)
  BY <1>3 DEF Keeps
<1> QED
  BY <1>3, <1>7, <1>8, TasksSound

(* A subscription comes, or goes.                                            *)
LEMMA HoldsWithNew ==
  ASSUME GenStageAssumption, IInv, NEW x \in Stages, Holds(x), NEW s \in Subs, DoSubscribe(x),
         s = current[x].sub
  PROVE  Holds(x)'
<1>1. /\ producerSubs'[x] = Append(producerSubs[x], s) /\ demand' = [demand EXCEPT ![s] = 0]
      /\ buffer' = buffer /\ kind' = kind
  BY SourceIs DEF DoSubscribe
<1>2. PICK q, r : q = producerSubs[x] /\ r = producerSubs'[x]
  OBVIOUS
<1>3. Longer(r, q, s, Subs)
  BY <1>1, <1>2, SourceIs DEF Longer
<1>4. Subscribers(x)' = Subscribers(x) \cup {s}
  <2>1. /\ \A n \in DOMAIN q : n \in DOMAIN r /\ r[n] = q[n]
        /\ Len(q) + 1 \in DOMAIN r /\ r[Len(q) + 1] = s
        /\ \A n \in DOMAIN r : n \in DOMAIN q \/ n = Len(q) + 1
    BY <1>3, LongerIs
  <2>2. Subscribers(x)' = {r[n] : n \in DOMAIN r} /\ Subscribers(x) = {q[n] : n \in DOMAIN q}
    BY <1>2 DEF Subscribers, ToSet
  <2>3. ASSUME NEW t \in Subscribers(x)' PROVE t \in Subscribers(x) \cup {s}
    <3>1. PICK n \in DOMAIN r : t = r[n]
      BY <2>2
    <3>2. CASE n \in DOMAIN q
      BY <2>1, <2>2, <3>1, <3>2
    <3>3. CASE n \notin DOMAIN q
      BY <2>1, <3>1, <3>3
    <3> QED
      BY <3>2, <3>3
  <2>4. ASSUME NEW t \in Subscribers(x) PROVE t \in Subscribers(x)'
    BY <2>1, <2>2
  <2>5. s \in Subscribers(x)'
    BY <2>1, <2>2
  <2> QED
    BY <2>3, <2>4, <2>5
<1>5. \A t \in Subs : demand'[t] = IF t = s THEN 0 ELSE demand[t]
  BY <1>1, SourceIs
<1>6. ASSUME NEW t \in Subscribers(x) \cup {s}, NEW e \in ToSet(buffer[x]), Fits(t, e)
      PROVE  StuckAt(x, t, demand)'
  <2>1. \A r1 \in Subscribers(x) : r1 \in Subs
    BY SubscribersUp
  <2>2. ASSUME kind = "demand" PROVE \A r1 \in Subscribers(x) \cup {s} : demand'[r1] = 0
    <3>1. \A r1 \in Subscribers(x) : Fits(r1, e)
      BY <2>2 DEF Fits
    <3>2. \A r1 \in Subscribers(x) : StuckAt(x, r1, demand)
      BY <3>1 DEF Holds
    <3>3. \A r1 \in Subscribers(x) : demand[r1] = 0
      BY <2>2, <3>2 DEF StuckAt
    <3> QED
      BY <1>5, <2>1, <3>3
  <2>3. kind = "broadcast" => \E r1 \in Subscribers(x) \cup {s} : demand'[r1] = 0
    BY <1>5
  <2>4. ASSUME kind = "partition" PROVE demand'[t] = 0
    <3>1. CASE t = s
      BY <1>5, <3>1
    <3>2. CASE t # s
      <4>1. t \in Subscribers(x)
        BY <3>2
      <4>2. StuckAt(x, t, demand)
        BY <1>6, <4>1 DEF Holds
      <4>3. demand[t] = 0
        BY <2>4, <4>2 DEF StuckAt
      <4> QED
        BY <1>5, <2>1, <3>2, <4>1, <4>3
    <3> QED
      BY <3>1, <3>2
  <2> QED
    BY <1>1, <1>4, <2>2, <2>3, <2>4 DEF StuckAt
<1>7. \A t \in Subscribers(x)', e \in ToSet(buffer[x])' : Fits(t, e)' => StuckAt(x, t, demand)'
  <2>1. \A t, e : Fits(t, e)' <=> Fits(t, e)
    BY <1>1 DEF Fits
  <2> QED
    BY <1>1, <1>4, <1>6, <2>1
<1> QED
  BY <1>7 DEF Holds

LEMMA HoldsWithout ==
  ASSUME NEW y \in Stages, Holds(y), kind' = kind, kind # "broadcast", buffer' = buffer,
         Subscribers(y)' \subseteq Subscribers(y),
         \A s \in Subscribers(y) : demand[s] = 0 => demand'[s] = 0
  PROVE  Holds(y)'
<1>1. ASSUME NEW s \in Subscribers(y)', NEW e \in ToSet(buffer[y]), Fits(s, e)
      PROVE  StuckAt(y, s, demand)'
  <2>1. StuckAt(y, s, demand)
    BY <1>1 DEF Holds
  <2>2. kind = "demand" => \A t \in Subscribers(y)' : demand'[t] = 0
    BY <2>1 DEF StuckAt
  <2>3. kind = "partition" => demand'[s] = 0
    BY <1>1, <2>1 DEF StuckAt
  <2> QED
    BY <2>2, <2>3 DEF StuckAt
<1>2. \A s \in Subscribers(y)', e \in ToSet(buffer[y])' : Fits(s, e)' => StuckAt(y, s, demand)'
  BY <1>1 DEF Fits
<1> QED
  BY <1>2 DEF Holds

LEMMA ListSound ==
  ASSUME GenStageAssumption, IInv, IInv', Settled, AllSound, NEW x \in Stages, NEW place,
         Continue(x, place), place \in {"idle", "flushing"}, at[x] = "handling", Silent(current[x]),
         \A s \in Subs : Sent(s)' = Sent(s), UNCHANGED <<buffer, history>>,
         \A y \in Stages : InTheMiddle(y) => Holds(y)'
  PROVE  AllSound'
<1>1. TypeOK /\ TypeOK' /\ got' = got /\ made' = made
  BY DEF IInv, history
<1>2. Stills
  BY <1>1, ContinueStills
<1>3. \A s \in Subs : Thinner(s)
  BY <1>1, <1>2, StillThin
<1>4. \A y \in Stages : Calm(y)
  BY ContinueKeepsPassing DEF Calm
<1> QED
  BY <1>1, <1>3, <1>4, CalmSound

LEMMA DoSubscribeSound ==
  ASSUME GenStageAssumption, IInv, IInv', Settled, AllSound, NEW x \in Stages, DoSubscribe(x)
  PROVE  AllSound'
<1>1. PICK s : s = current[x].sub
  OBVIOUS
<1>2. s \in Subs /\ outbox[x] = <<>> /\ TypeOK
  BY <1>1 DEF DoSubscribe, Handling, IInv, TypeOK, Message, Resting
<1>3. Signal("ack", s) \in Message /\ Silent(Signal("ack", s))
  BY <1>2, MessagesAre DEF Silent
<1>4. \A t \in Subs : Sent(t)' = Sent(t)
  BY <1>1, <1>2, <1>3, SentSilent DEF DoSubscribe
<1>5. ASSUME NEW y \in Stages, InTheMiddle(y) PROVE Holds(y)'
  <2>1. Holds(y)
    BY <1>5 DEF AllSound, Feeds, Sound
  <2>2. CASE y = x
    BY <1>1, <1>2, <2>1, <2>2, HoldsWithNew
  <2>3. CASE y # x
    <3>1. \A t \in Subs : demand[t] = 0 => demand'[t] = 0
      BY <1>1, SourceIs DEF DoSubscribe
    <3>2. \A t \in Subscribers(y) : demand[t] = 0 => demand'[t] = 0
      BY <3>1, SubscribersUp
    <3>3. UNCHANGED <<kind, producerSubs[y], buffer>>
      BY <2>3, SourceIs DEF DoSubscribe
    <3> QED
      BY <2>1, <3>2, <3>3, HoldsOn
  <2> QED
    BY <2>2, <2>3
<1>6. Continue(x, "flushing") /\ at[x] = "handling" /\ Silent(current[x]) /\ UNCHANGED <<buffer, history>>
  BY DEF DoSubscribe, Handling, Silent
<1> QED
  BY <1>4, <1>5, <1>6, ListSound

LEMMA DoCancelSound ==
  ASSUME GenStageAssumption, IInv, IInv', Settled, InLine, AllSound, NEW x \in Stages, DoCancel(x)
  PROVE  AllSound'
<1>1. PICK s : s = current[x].sub
  OBVIOUS
<1>2. s \in Subs /\ current[x].type = "cancel" /\ at[x] = "handling" /\ outbox' = outbox
  BY <1>1 DEF DoCancel, Handling, IInv, TypeOK, Message
<1>3. current[x] \in Message /\ In(x, current[x]) /\ Up[s] = x /\ status[s] = "cancelled"
  <2>1. current[x] \in Message /\ In(x, current[x]) /\ Receiver(current[x]) = x
    BY <1>2, InHandOf DEF Busy
  <2>2. status[s] = "cancelled"
    BY <1>1, <1>2, <2>1 DEF IInv, Cancels
  <2> QED
    BY <1>1, <1>2, <2>1, <2>2 DEF Receiver
<1>4. \A t \in Subs : Sent(t)' = Sent(t)
  BY <1>2, SentStill
<1>5. \A t \in Subs : demand[t] = 0 => demand'[t] = 0
  BY <1>1, SourceIs DEF DoCancel
<1>6. ASSUME NEW y \in Stages, InTheMiddle(y) PROVE Holds(y)'
  <2>1. Holds(y)
    BY <1>6 DEF AllSound, Feeds, Sound
  <2>2. \A t \in Subscribers(y) : demand[t] = 0 => demand'[t] = 0
    BY <1>5, SubscribersUp
  <2>3. CASE y = x
    <3>1. kind # "broadcast"
      <4>1. s \in Outgoing(x)
        BY <1>2, <1>3 DEF Outgoing
      <4> QED
        BY <1>3, <1>6, <2>3, <4>1 DEF InLine, Overtakes
    <3>2. producerSubs[x] \in Seq(Subs) /\ producerSubs'[x] = Keep(producerSubs[x], Subs \ {s})
      BY <1>1, SourceIs DEF DoCancel
    <3>3. Subscribers(x)' \subseteq Subscribers(x)
      BY <3>2, KeptElements DEF Subscribers, ToSet
    <3> QED
      BY <2>1, <2>2, <2>3, <3>1, <3>3, HoldsWithout DEF DoCancel
  <2>4. CASE y # x
    <3>1. UNCHANGED <<kind, producerSubs[y], buffer>>
      BY <2>4, SourceIs DEF DoCancel
    <3> QED
      BY <2>1, <2>2, <3>1, HoldsOn
  <2> QED
    BY <2>3, <2>4
<1>7. Continue(x, "idle") /\ at[x] = "handling" /\ Silent(current[x]) /\ UNCHANGED <<buffer, history>>
  BY <1>2 DEF DoCancel, Handling, Silent
<1> QED
  BY <1>4, <1>6, <1>7, ListSound

LEMMA CancelSubscriptionSound ==
  ASSUME GenStageAssumption, IInv, IInv', Settled, AllSound, NEW s \in Subs, CancelSubscription(s)
  PROVE  AllSound'
<1>1. /\ UNCHANGED <<kind, at, mailbox, current, outbox, producerSubs, demand, made, got>>
      /\ status' = [status EXCEPT ![s] = "cancelling"] /\ buffer' = [buffer EXCEPT ![Down[s]] = <<>>]
  BY DEF CancelSubscription, tasks, history
<1>2. TypeOK /\ TypeOK'
  BY DEF IInv
<1>3. Disturbed'
  BY <1>1, <1>2 DEF TypeOK, Disturbed
<1>4. Stills
  BY <1>1, SameThere DEF Stills
<1>5. \A t \in Subs : Thinner(t)
  BY <1>1, <1>2, <1>4, SentStill, StillThin
<1>6. ASSUME NEW y \in Stages, Feeds(y) PROVE Calm(y)
  <2>1. Keeps(y)
    BY <1>1 DEF Keeps
  <2>2. buffer'[y] = buffer[y] \/ buffer'[y] = <<>>
    BY <1>1, SourceIs
  <2>3. ToSet(buffer'[y]) \subseteq ToSet(buffer[y])
    BY <2>2 DEF ToSet
  <2>4. InTheMiddle(y) => Holds(y)
    BY <1>6 DEF AllSound, Sound
  <2>5. InTheMiddle(y) => Holds(y)'
    BY <1>1, <2>3, <2>4, HoldsOn
  <2> QED
    BY <1>3, <2>1, <2>2, <2>5 DEF Calm
<1> QED
  BY <1>1, <1>5, <1>6, CalmSound

-----------------------------------------------------------------------------
(* Events are handled *)

LEMMA EventsInHand1 ==
  ASSUME GenStageAssumption, IInv, NEW x \in Stages, Busy(x), NEW m, m = current[x],
         m.type = "events"
  PROVE  /\ m \in Message /\ m.sub \in Subs /\ Down[m.sub] = x
         /\ status[m.sub] = "subscribed" \/ Gone(m.sub)
<1>1. m \in Message /\ In(x, m) /\ m.sub \in Subs /\ Receiver(m) = x
  BY InHandOf
<1>2. Down[m.sub] = x
  BY <1>1 DEF Receiver
<1>3. status[m.sub] # "new"
  <2>1. SUFFICES ASSUME status[m.sub] = "new" PROVE FALSE
    OBVIOUS
  <2>2. ~Known(m.sub)
    BY <1>1, <2>1 DEF IInv, Begins
  <2>3. Untouched(m.sub)
    BY <1>1, <2>1, <2>2 DEF IInv, Fresh
  <2> QED
    BY <1>1, <2>3 DEF Untouched, Flows
<1>4. status[m.sub] \in {"new", "subscribed", "cancelling", "cancelled"}
  BY <1>1 DEF IInv, TypeOK
<1> QED
  BY <1>1, <1>2, <1>3, <1>4 DEF Gone

(* They come from a subscription that is cancelled.                          *)
LEMMA DoEventsDrops ==
  ASSUME GenStageAssumption, IInv, IInv', Settled, AllSound, NEW x \in Stages, DoEvents(x),
         status[current[x].sub] # "subscribed"
  PROVE  AllSound'
<1>1. PICK m : m = current[x]
  OBVIOUS
<1>2. /\ at[x] = "handling" /\ m.type = "events" /\ Continue(x, "idle")
      /\ UNCHANGED <<upstream, outbox, made, got, status>> /\ status[m.sub] # "subscribed"
  BY <1>1 DEF DoEvents, Handling
<1>3. TypeOK /\ TypeOK' /\ TaskTypes /\ TaskTypes'
  BY Types DEF IInv
<1>4. m \in Message /\ m.sub \in Subs /\ Gone(m.sub)
  BY <1>1, <1>2, EventsInHand1 DEF Busy
<1>5. Disturbed'
  BY <1>2, <1>4 DEF Disturbed, Gone
<1>6. Takes(x, m)
  BY <1>1, <1>2, <1>3, ContinueTakes
<1>7. ASSUME NEW t \in Subs PROVE Thinner(t)
  <2>1. Down[t] \in Stages
    BY DEF GenStageAssumption
  <2>2. Thins(Waits(Down[t], t)', Waits(Down[t], t))
    BY <1>3, <1>4, <1>6, <2>1, TakesThin
  <2>3. Sent(t)' = Sent(t)
    BY <1>2, SentStill
  <2>4. Thins(Sent(t)', Sent(t))
    BY <2>3 DEF Thins
  <2> QED
    BY <1>2, <1>3, <1>5, <2>2, <2>4, ThinRoute
<1>8. \A z \in Stages : Keeps(z)
  BY <1>2, ContinueKeepsPassing
<1> QED
  BY <1>2, <1>7, <1>8, TasksSound

(* They are handled, which leaves all routes as they are.                    *)
LEMMA DoEventsRoutes ==
  ASSUME GenStageAssumption, IInv, IInv', NEW x \in Stages, NEW m \in Message, Brings(m, m.sub),
         NEW s \in Subs, s = m.sub, Down[s] = x, Takes(x, m), UNCHANGED outbox,
         got' = [got EXCEPT ![s] = @ \o m.events]
  PROVE  /\ \A t \in Subs : Thinner(t)
         /\ Increasing(Route(s)) => /\ Increasing(m.events)
                                    /\ Below(ToSet(got[s]), ToSet(m.events))
         /\ ToSet(got'[s]) = ToSet(got[s]) \cup ToSet(m.events)
<1>1. TypeOK /\ TypeOK'
  BY DEF IInv
<1>2. got \in [Subs -> Seq(Events)] /\ m.events \in Seq(Events)
  BY <1>1 DEF TypeOK, Message
<1>3. PICK g, b, w, v, o : /\ g = got[s] /\ b = m.events /\ o = Sent(s)
                           /\ w = Waits(x, s) /\ v = Waits(x, s)'
  OBVIOUS
<1>4. /\ g \in Seq(Events) /\ b \in Seq(Events) /\ o \in Seq(Events) /\ w \in Seq(Events)
      /\ Route(s) = g \o (w \o o)
  BY <1>1, <1>2, <1>3, RouteIs
<1>5. got'[s] = g \o b
  BY <1>2, <1>3
<1>6. Sent(s)' = o
  BY <1>3, SentStill
<1>7. v \in Seq(Events) /\ Route(s)' = (g \o b) \o (v \o o)
  BY <1>1, <1>3, <1>5, <1>6, RouteNext
<1>8. w = b \o v
  <2>1. Brought(m, s) = b
    BY <1>3 DEF Brought
  <2> QED
    BY <1>3, <2>1 DEF Takes
<1>9. PICK r : r = v \o o
  OBVIOUS
<1>10. r \in Seq(Events)
  BY <1>4, <1>7, <1>9, ConcatProperties
<1>11. (b \o v) \o o = b \o r
  <2>1. b \in Seq(Events) /\ v \in Seq(Events) /\ o \in Seq(Events)
    BY <1>4, <1>7
  <2>2. (b \o v) \o o = b \o (v \o o)
    BY ONLY <2>1, ConcatEvents
  <2> QED
    BY <1>9, <2>2
<1>12. (g \o b) \o r = g \o (b \o r)
  <2>1. g \in Seq(Events) /\ b \in Seq(Events) /\ r \in Seq(Events)
    BY <1>4, <1>10
  <2> QED
    BY ONLY <2>1, ConcatEvents
<1>13. PICK c : c = b \o r
  OBVIOUS
<1>14. Route(s) = g \o c /\ Route(s)' = g \o c
  BY <1>4, <1>7, <1>8, <1>9, <1>11, <1>12, <1>13
<1>15. ASSUME NEW t \in Subs PROVE Thinner(t)
  <2>1. CASE t = s
    BY <1>14, <2>1 DEF Thinner, Thins
  <2>2. CASE t # s
    <3>1. Brought(m, t) = <<>>
      BY <2>2 DEF Brought, Brings
    <3>2. PICK p, q : p = Waits(Down[t], t) /\ q = Waits(Down[t], t)'
      OBVIOUS
    <3>3. p \in Seq(Events) /\ q \in Seq(Events) /\ Down[t] \in Stages
      BY <1>1, <3>2, RouteIs, RouteNext DEF GenStageAssumption
    <3>4. p = <<>> \o q \/ q = p
      BY <3>1, <3>2, <3>3 DEF Takes
    <3>5. q = p
      BY <3>3, <3>4, ConcatEmptySeq
    <3>6. got'[t] = got[t]
      BY <1>2, <2>2
    <3>7. Sent(t)' = Sent(t)
      BY SentStill
    <3> QED
      BY <1>1, <3>2, <3>5, <3>6, <3>7, SameRoute
  <2> QED
    BY <2>1, <2>2
<1>16. ASSUME Increasing(Route(s)) PROVE Increasing(b) /\ Below(ToSet(g), ToSet(b))
  <2>1. c \in Seq(Events)
    BY <1>4, <1>10, <1>13, ConcatProperties
  <2>2. Increasing(g \o c)
    BY <1>14, <1>16
  <2>3. Increasing(c) /\ Below(ToSet(g), ToSet(c))
    BY <1>4, <2>1, <2>2, BothIncrease
  <2>4. Increasing(b) /\ ToSet(c) = ToSet(b) \cup ToSet(r)
    BY <1>4, <1>10, <1>13, <2>3, BothIncrease, BothElements
  <2> QED
    BY <2>3, <2>4 DEF Below
<1>17. ToSet(got'[s]) = ToSet(g) \cup ToSet(b)
  <2>1. g \in Seq(Events) /\ b \in Seq(Events)
    BY <1>4
  <2>2. ToSet(g \o b) = ToSet(g) \cup ToSet(b)
    BY ONLY <2>1, BothElements
  <2> QED
    BY <1>5, <2>2
<1> QED
  BY <1>3, <1>15, <1>16, <1>17

Handles(x, m, s) ==
    /\ m = current[x] /\ m \in Message /\ m.type = "events" /\ s = m.sub /\ s \in Subs /\ Down[s] = x
    /\ at' = [at EXCEPT ![x] = "passing"] /\ at[x] = "handling" /\ current' = current
    /\ got' = [got EXCEPT ![s] = @ \o m.events] /\ got \in [Subs -> Seq(Events)]
    /\ UNCHANGED <<kind, upstream, status, made, outbox>>
LEMMA HandlesIs ==
  ASSUME GenStageAssumption, IInv, IInv', NEW x \in Stages, DoEvents(x), NEW m, m = current[x],
         NEW s, s = m.sub, status[s] = "subscribed"
  PROVE  Handles(x, m, s) /\ Takes(x, m)
<1>1. /\ at[x] = "handling" /\ m.type = "events" /\ Continue(x, "passing")
      /\ got' = [got EXCEPT ![s] = @ \o m.events]
      /\ UNCHANGED <<kind, upstream, status, made, outbox>>
  BY DEF DoEvents, Handling
<1>2. m \in Message /\ s \in Subs /\ Down[s] = x
  BY <1>1, EventsInHand1 DEF Busy
<1>3. at' = [at EXCEPT ![x] = "passing"] /\ current' = current
  BY <1>1 DEF Continue
<1>4. got \in [Subs -> Seq(Events)] /\ TaskTypes /\ TaskTypes'
  BY Types DEF IInv, TypeOK
<1>5. Takes(x, m)
  BY <1>1, <1>4, ContinueTakes
<1> QED
  BY <1>1, <1>2, <1>3, <1>4, <1>5 DEF Handles

(* Stages that do not handle them stay as they are.                          *)
LEMMA HandledElsewhere ==
  ASSUME GenStageAssumption, IInv, Settled, NEW x \in Stages, NEW m, NEW s, Handles(x, m, s),
         \A t \in Subs : Thinner(t), NEW y \in Stages, y # x, Sound(y)
  PROVE  Sound(y)'
<1>1. at'[y] = at[y] /\ current'[y] = current[y] /\ \A t \in Subs : t # s => got'[t] = got[t]
  BY SourceIs DEF Handles
<1>2. Accepted(y)' = Accepted(y)
  <2>1. CASE y = Source
    BY <2>1, AcceptedIs DEF Handles
  <2>2. CASE y # Source
    <3>1. \A t \in Subs : Down[t] = y => got'[t] = got[t]
      BY <1>1 DEF Handles
    <3>2. \A e : e \in Handed(y)' <=> e \in Handed(y)
      BY <3>1, AcceptedIs
    <3>3. InWork(y)' = InWork(y)
      BY <1>1 DEF InWork, ToSet
    <3>4. Accepted(y) = Handed(y) \ InWork(y) /\ Accepted(y)' = Handed(y)' \ InWork(y)'
      BY <2>2, AcceptedIs
    <3> QED
      BY <3>2, <3>3, <3>4
  <2> QED
    BY <2>1, <2>2
<1>3. InTheMiddle(y) => Holds(y)'
  BY HoldsOn DEF Sound, Handles, upstream
<1>4. \A t \in Outgoing(y) : Thinner(t)
  BY DEF Outgoing
<1>5. Rests(y)
  BY <1>2, <1>3, <1>4 DEF Rests, Handles, upstream
<1>6. ASSUME at'[y] = "passing" PROVE at[y] = "passing" /\ got'[current[y].sub] = got[current[y].sub]
  <2>1. at[y] = "passing"
    BY <1>1, <1>6
  <2>2. current[y].type = "events" /\ Busy(y)
    BY <2>1 DEF IInv, Resting, Busy
  <2>3. current[y].sub \in Subs /\ Down[current[y].sub] = y
    BY <2>2, EventsInHand1
  <2> QED
    BY <1>1, <2>1, <2>3 DEF Handles
<1> QED
  BY <1>1, <1>5, <1>6, SettledMeans, RestsSound DEF Settled

(* The stage that handles them has them in hand: it has not passed them on.  *)
LEMMA HandledHere ==
  ASSUME GenStageAssumption, Straight, IInv, Settled, NEW x \in Stages, NEW m, NEW s,
         Handles(x, m, s), \A t \in Subs : Thinner(t), Sound(x), InTheMiddle(x),
         Increasing(m.events), Below(ToSet(got[s]), ToSet(m.events)),
         ToSet(got'[s]) = ToSet(got[s]) \cup ToSet(m.events)
  PROVE  Sound(x)'
<1>1. at'[x] = "passing" /\ at[x] = "handling" /\ current'[x] = m /\ m = current[x] /\ x # Source
  BY SourceIs DEF Handles, InTheMiddle
<1>2. \A t \in Subs : Down[t] = x <=> t = s
  BY DEF Straight, Handles
<1>3. Handed(x) = ToSet(got[s]) /\ Handed(x)' = ToSet(got'[s])
  <2>1. s \in Subs
    BY DEF Handles
  <2>2. /\ \A e : e \in Handed(x) <=> \E t \in Subs : Down[t] = x /\ e \in ToSet(got[t])
        /\ \A e : e \in Handed(x)' <=> \E t \in Subs : Down[t] = x /\ e \in ToSet(got'[t])
    BY AcceptedIs
  <2>3. /\ \A e : e \in Handed(x) <=> e \in ToSet(got[s])
        /\ \A e : e \in Handed(x)' <=> e \in ToSet(got'[s])
    BY <1>2, <2>1, <2>2
  <2>4. Handed(x) = ToSet(got[s])
    BY <2>3
  <2>5. Handed(x)' = ToSet(got'[s])
    BY <2>3
  <2> QED
    BY <2>4, <2>5
<1>4. InWork(x) = {} /\ InWork(x)' = ToSet(m.events)
  BY <1>1 DEF InWork, ToSet
<1>5. ASSUME NEW e \in ToSet(got[s]) PROVE e \notin ToSet(m.events)
  <2>1. got[s] \in Seq(Events)
    BY DEF Handles
  <2>2. e \in Nat
    BY <2>1 DEF ToSet, Events
  <2>3. ~(e < e)
    BY <2>2
  <2> QED
    BY <2>3 DEF Below
<1>6. Accepted(x) = Handed(x) \ InWork(x) /\ Accepted(x)' = Handed(x)' \ InWork(x)'
  BY <1>1, AcceptedIs
<1>7. Accepted(x) = ToSet(got[s])
  BY <1>3, <1>4, <1>6
<1>8. Accepted(x)' = ToSet(got[s])
  BY <1>3, <1>4, <1>5, <1>6
<1>9. Holds(x)'
  BY HoldsOn DEF Sound, Handles, upstream
<1>10. \A t \in Outgoing(x) : Thinner(t)
  BY DEF Outgoing
<1>11. Rests(x)
  BY <1>7, <1>8, <1>9, <1>10 DEF Rests, Handles, upstream
<1>12. /\ Flow(x)' /\ Level(x)' /\ (InTheMiddle(x) => Holds(x))'
       /\ Passed(x)' \subseteq Passed(x)
  BY <1>11, SettledMeans, RestsKeeps DEF Settled
<1>13. Passed(x) \subseteq ToSet(got[s])
  BY <1>7 DEF Sound, Level
<1>14. Below(Passed(x)', ToSet(m.events))
  BY <1>12, <1>13 DEF Below
<1>15. ToSet(m.events) \subseteq ToSet(got'[s]) /\ s = m.sub
  BY DEF Handles
<1>16. /\ Increasing(current'[x].events)
       /\ ToSet(current'[x].events) \subseteq ToSet(got'[current'[x].sub])
       /\ Below(Passed(x)', ToSet(current'[x].events))
  BY <1>1, <1>14, <1>15
<1>17. InPassing(x)'
  BY <1>16 DEF InPassing, InTheMiddle, Increasing, Below, ToSet
<1> QED
  BY <1>12, <1>17 DEF Sound

LEMMA DoEventsSound ==
  ASSUME GenStageAssumption, Straight, IInv, IInv', Settled, AllSound, NEW x \in Stages, DoEvents(x)
  PROVE  AllSound'
<1>1. PICK m, s : m = current[x] /\ s = m.sub
  OBVIOUS
<1>2. CASE status[s] # "subscribed"
  BY <1>1, <1>2, DoEventsDrops
<1>3. CASE status[s] = "subscribed"
  <2>1. Handles(x, m, s) /\ Takes(x, m)
    BY <1>1, <1>3, HandlesIs
  <2>2. m \in Message /\ Brings(m, m.sub) /\ s \in Subs /\ s = m.sub /\ Down[s] = x
        /\ UNCHANGED outbox /\ got' = [got EXCEPT ![s] = @ \o m.events]
    BY <2>1 DEF Handles, Brings
  <2>3. /\ \A t \in Subs : Thinner(t)
        /\ Increasing(Route(s)) => /\ Increasing(m.events)
                                   /\ Below(ToSet(got[s]), ToSet(m.events))
        /\ ToSet(got'[s]) = ToSet(got[s]) \cup ToSet(m.events)
    BY <2>1, <2>2, DoEventsRoutes
  <2>4. Increasing(Route(s))
    <3>1. Up[s] \in Stages /\ Feeds(Up[s]) /\ s \in Outgoing(Up[s])
      BY <2>2 DEF Feeds, InTheMiddle, Outgoing, GenStageAssumption
    <3> QED
      BY <3>1 DEF AllSound, Sound, Flow
  <2>5. ASSUME NEW y \in Stages, Feeds(y) PROVE Sound(y)'
    <3>1. Sound(y)
      BY <2>5 DEF AllSound
    <3>2. CASE y # x
      BY <2>1, <2>3, <3>1, <3>2, HandledElsewhere
    <3>3. CASE y = x
      <4>1. InTheMiddle(x)
        BY <2>2, <2>5, <3>3 DEF Feeds, GenStageAssumption
      <4> QED
        BY <2>1, <2>3, <2>4, <3>1, <3>3, <4>1, HandledHere
    <3> QED
      BY <3>2, <3>3
  <2> QED
    BY <2>5 DEF AllSound, Feeds, InTheMiddle
<1> QED
  BY <1>2, <1>3

-----------------------------------------------------------------------------
(* Steps that dispatch *)

LEMMA DispatchSound ==
  ASSUME GenStageAssumption, IInv, IInv', Settled, AllSound, NEW x \in Stages, outbox[x] = <<>>,
         NEW d \in [Subs -> Nat], NEW buf \in Seq(Events), NEW evs \in Seq(Events),
         Dispatch(x, d, buf, evs), UNCHANGED <<kind, producerSubs, got>>, Stills,
         \A z \in Stages \ {x} : Keeps(z), at'[x] # "passing", x # Source => made' = made,
         \A s \in Subs \ Subscribers(x) : demand[s] = 0 => d[s] = 0,
         Feeds(x) => /\ Offered(x, buf, evs) /\ Stands(x, buf, d)
                     /\ Away(x) \cup ToSet(buf) \cup ToSet(evs) \subseteq Accepted(x)'
                     /\ ~Disturbed' => Away(x) \cup ToSet(buf) \cup ToSet(evs) = Accepted(x)'
  PROVE  AllSound'
<1>1. TypeOK' /\ Dispatched(x, d, buf, evs)
  BY DispatchedIs DEF IInv
<1>2. Routed(x, d, evs)
  BY <1>1, DispatchRoutes
<1>3. kind' = kind /\ (Disturbed => Disturbed')
  BY SettledMeans
<1>4. ASSUME NEW y \in Stages \ {x}, Feeds(y) PROVE Sound(y)'
  <2>1. Sound(y) /\ Keeps(y)
    BY <1>4 DEF AllSound
  <2>2. \A s \in Subs : Up[s] = y => s \notin Subscribers(x)
    BY SubscribersUp
  <2>3. \A s \in Outgoing(y) : Thinner(s)
    BY <1>2, <2>2 DEF Outgoing, Routed, Thinner, Thins
  <2>4. buffer'[y] = buffer[y] /\ \A s \in Subs \ Subscribers(x) : demand'[s] = d[s]
    BY <1>1 DEF Dispatched
  <2>5. Accepted(y) \subseteq Accepted(y)' /\ (~Disturbed' => Accepted(y)' = Accepted(y))
    <3>1. y = Source => made' = made
      BY <1>4
    <3> QED
      BY <2>1, <3>1, AcceptedStays
  <2>6. InTheMiddle(y) => Holds(y)'
    <3>1. ASSUME NEW t \in Subscribers(y) PROVE demand[t] = 0 => demand'[t] = 0
      <4>1. t \in Subs \ Subscribers(x)
        BY <2>2, SubscribersUp
      <4> QED
        BY <2>4, <4>1
    <3>2. InTheMiddle(y) => Holds(y)
      BY <2>1 DEF Sound
    <3> QED
      BY <2>4, <3>1, <3>2, HoldsOn
  <2>7. Rests(y)
    BY <2>3, <2>4, <2>5, <2>6 DEF Rests
  <2>8. at'[y] = "passing" => at[y] = "passing" /\ current'[y] = current[y]
    BY <2>1 DEF Keeps
  <2> QED
    BY <1>3, <2>1, <2>7, <2>8, RestsSound
<1>5. ASSUME Feeds(x) PROVE Sound(x)'
  <2>1. Offered(x, buf, evs) /\ Stands(x, buf, d) /\ Flow(x)
    BY <1>5 DEF AllSound, Sound
  <2>2. Flow(x)'
    BY <1>1, <1>2, <1>3, <2>1, DispatchFlows
  <2>3. Passed(x)' = Away(x) \cup ToSet(buf) \cup ToSet(evs)
    BY <1>1, <1>2, DispatchPasses
  <2>4. Level(x)'
    BY <1>5, <2>3 DEF Level
  <2>5. Holds(x)'
    BY <2>1, DispatchHolds
  <2>6. InPassing(x)'
    BY DEF InPassing
  <2> QED
    BY <2>2, <2>4, <2>5, <2>6 DEF Sound
<1>6. ASSUME NEW y \in Stages, Feeds(y) PROVE Sound(y)'
  BY <1>4, <1>5, <1>6
<1> QED
  BY <1>6 DEF AllSound, Feeds, InTheMiddle

(* Events that come after all that a stage has may be offered behind them.   *)
LEMMA OfferedAfter ==
  ASSUME IInv, NEW x \in Stages, Flow(x), NEW evs \in Seq(Events), Increasing(evs),
         Below(Passed(x), ToSet(evs))
  PROVE  Offered(x, buffer[x], evs)
<1>1. PICK b : b = buffer[x]
  OBVIOUS
<1>2. b \in Seq(Events) /\ Increasing(b) /\ ToSet(b) \subseteq Passed(x)
  BY <1>1 DEF IInv, TypeOK, Flow, Passed
<1>3. Below(ToSet(b), ToSet(evs))
  BY <1>2 DEF Below
<1>4. Increasing(b \o evs)
  <2>1. b \in Seq(Events) /\ evs \in Seq(Events)
    BY <1>2
  <2>2. Increasing(b \o evs) <=> Increasing(b) /\ Increasing(evs) /\ Below(ToSet(b), ToSet(evs))
    BY ONLY <2>1, BothIncrease
  <2> QED
    BY <1>2, <1>3, <2>2
<1>5. ASSUME NEW s \in Outgoing(x) PROVE Ahead(s, ToSet(b) \cup ToSet(evs))
  <2>1. Ahead(s, ToSet(b))
    BY <1>1 DEF Flow
  <2>2. On(s) \subseteq Passed(x)
    BY DEF Passed, Away
  <2>3. Below(On(s), ToSet(evs))
    BY <2>2 DEF Below
  <2> QED
    BY <2>1, <2>3 DEF Ahead, Below
<1> QED
  BY <1>1, <1>4, <1>5 DEF Offered

(* What is in the buffer is offered again.                                   *)
LEMMA ReoffersSound ==
  ASSUME GenStageAssumption, IInv, IInv', Settled, AllSound, NEW x \in Stages, outbox[x] = <<>>,
         NEW d \in [Subs -> Nat], Dispatch(x, d, <<>>, buffer[x]),
         UNCHANGED <<kind, producerSubs, made, got>>, Stills, \A z \in Stages : Keeps(z),
         at'[x] # "passing", \A s \in Subs \ Subscribers(x) : demand[s] = 0 => d[s] = 0
  PROVE  AllSound'
<1>1. <<>> \in Seq(Events)
  OBVIOUS
<1>2. PICK b : b = buffer[x]
  OBVIOUS
<1>3. b \in Seq(Events) /\ ToSet(<<>>) = {} /\ <<>> \o b = b
  BY <1>2, ConcatEmptySeq DEF IInv, TypeOK, ToSet
<1>4. ASSUME Feeds(x)
      PROVE  /\ Offered(x, <<>>, b) /\ Stands(x, <<>>, d)
             /\ Away(x) \cup ToSet(<<>>) \cup ToSet(b) \subseteq Accepted(x)'
             /\ ~Disturbed' => Away(x) \cup ToSet(<<>>) \cup ToSet(b) = Accepted(x)'
  <2>1. Flow(x) /\ Level(x)
    BY <1>4 DEF AllSound, Sound
  <2>2. \A s \in Outgoing(x) : Ahead(s, ToSet(<<>>) \cup ToSet(b))
    <3>1. PICK F : F = ToSet(buffer[x])
      OBVIOUS
    <3>2. \A s \in Outgoing(x) : Ahead(s, F)
      BY <2>1, <3>1 DEF Flow
    <3>3. ToSet(<<>>) \cup ToSet(b) = F
      BY <1>2, <1>3, <3>1
    <3> QED
      BY ONLY <3>2, <3>3
  <2>3. Offered(x, <<>>, b)
    BY <1>2, <1>3, <2>1, <2>2 DEF Offered, Flow
  <2>4. Stands(x, <<>>, d)
    BY <1>3 DEF Stands
  <2>5. Away(x) \cup ToSet(<<>>) \cup ToSet(b) = Passed(x)
    BY <1>2, <1>3 DEF Passed
  <2>6. Keeps(x)
    OBVIOUS
  <2>7. Accepted(x) \subseteq Accepted(x)' /\ (~Disturbed' => Accepted(x)' = Accepted(x))
    BY <2>6, AcceptedStays
  <2>8. Disturbed => Disturbed'
    BY SettledMeans
  <2> QED
    BY <2>1, <2>3, <2>4, <2>5, <2>7, <2>8 DEF Level
<1>5. Dispatch(x, d, <<>>, b)
  BY <1>2
<1> QED
  BY <1>1, <1>3, <1>4, <1>5, DispatchSound

LEMMA FlushSound ==
  ASSUME GenStageAssumption, IInv, IInv', Settled, AllSound, NEW x \in Stages, Flush(x)
  PROVE  AllSound'
<1>1. /\ at[x] = "flushing" /\ outbox[x] = <<>> /\ Dispatch(x, demand, <<>>, buffer[x])
      /\ Continue(x, "idle") /\ UNCHANGED <<kind, producerSubs, made, got>>
  BY DEF Flush, Ready, history
<1>2. TypeOK /\ TypeOK' /\ demand \in [Subs -> Nat]
  BY DEF IInv, TypeOK
<1>3. Stills
  BY <1>1, <1>2, ContinueStills
<1>4. ASSUME NEW z \in Stages PROVE Keeps(z)
  <2>1. at[x] # "passing" /\ "idle" # "passing"
    BY <1>1
  <2> QED
    BY <1>1, <2>1, ContinueKeepsPassing
<1>5. at'[x] # "passing"
  BY <1>1, SourceIs DEF Continue
<1> QED
  BY <1>1, <1>2, <1>3, <1>4, <1>5, ReoffersSound

LEMMA DoDemandSound ==
  ASSUME GenStageAssumption, IInv, IInv', Settled, AllSound, NEW x \in Stages, DoDemand(x)
  PROVE  AllSound'
<1>1. PICK m, s : m = current[x] /\ s = m.sub
  OBVIOUS
<1>2. /\ m \in Message /\ s \in Subs /\ m.count \in Nat /\ TypeOK /\ TypeOK' /\ demand \in [Subs -> Nat]
      /\ m.type = "demand" /\ at[x] = "handling" /\ outbox[x] = <<>>
  BY <1>1 DEF IInv, TypeOK, Message, DoDemand, Handling, Resting
<1>3. Silent(current[x])
  BY <1>1, <1>2 DEF Silent
<1>4. CASE s \in Subscribers(x)
  <2>1. PICK d : d = [demand EXCEPT ![s] = @ + m.count]
    OBVIOUS
  <2>2. d \in [Subs -> Nat] /\ \A t \in Subs \ Subscribers(x) : demand[t] = 0 => d[t] = 0
    BY <1>2, <1>4, <2>1
  <2>3. PICK place : /\ Dispatch(x, d, <<>>, buffer[x]) /\ Continue(x, place)
                     /\ place \in {"idle", "producing"}
                     /\ UNCHANGED <<kind, producerSubs, made, got>>
    BY <1>1, <1>4, <2>1 DEF DoDemand, history
  <2>4. Stills
    BY <1>2, <1>3, <2>3, ContinueStills
  <2>5. \A z \in Stages : Keeps(z)
    BY <1>2, <2>3, ContinueKeepsPassing
  <2>6. at'[x] # "passing"
    BY <2>3, SourceIs DEF Continue
  <2> QED
    BY <1>2, <2>2, <2>3, <2>4, <2>5, <2>6, ReoffersSound
<1>5. CASE s \notin Subscribers(x)
  <2>1. Continue(x, "idle") /\ UNCHANGED <<outbox, upstream, history>>
    BY <1>1, <1>5 DEF DoDemand, upstream
  <2>2. \A t \in Subs : Sent(t)' = Sent(t)
    BY <2>1, SentStill
  <2> QED
    BY <1>2, <1>3, <2>1, <2>2, ContinueSound
<1> QED
  BY <1>4, <1>5

(* The source makes events.                                                  *)
Numbered(evs, a, n) == evs = [k \in 1..n |-> a + k]
LEMMA NewEvents ==
  ASSUME NEW made0 \in Nat, NEW n \in Nat, made0 + n <= MaxEvents, MaxEvents \in Nat,
         NEW evs, Numbered(evs, made0, n)
  PROVE  /\ evs \in Seq(Events) /\ Increasing(evs)
         /\ \A e : e \in ToSet(evs) <=> e \in (made0 + 1)..(made0 + n)
<1>1. \A k \in 1..n : made0 + k \in 1..MaxEvents
  OBVIOUS
<1>2. evs \in [1..n -> Events]
  BY <1>1 DEF Events, Numbered
<1>3. evs \in Seq(Events) /\ DOMAIN evs = 1..n /\ \A k \in 1..n : evs[k] = made0 + k
  BY <1>2 DEF Numbered
<1>4. Increasing(evs)
  BY <1>3 DEF Increasing
<1>5. ASSUME NEW e \in ToSet(evs) PROVE e \in (made0 + 1)..(made0 + n)
  <2>1. PICK k \in 1..n : e = evs[k]
    BY <1>3 DEF ToSet
  <2> QED
    BY <1>3, <2>1
<1>6. ASSUME NEW e \in (made0 + 1)..(made0 + n) PROVE e \in ToSet(evs)
  <2>1. PICK k : k = e - made0
    OBVIOUS
  <2>2. k \in 1..n /\ made0 + k = e
    BY <2>1
  <2>3. evs[k] = e /\ k \in DOMAIN evs
    BY <1>3, <2>2
  <2> QED
    BY <2>3 DEF ToSet
<1>7. \A e : e \in ToSet(evs) <=> e \in (made0 + 1)..(made0 + n)
  BY <1>5, <1>6
<1> QED
  BY <1>3, <1>4, <1>7

LEMMA ProduceSound ==
  ASSUME GenStageAssumption, IInv, IInv', MInv, Placed, Settled, AllSound, NEW x \in Stages,
         Produce(x)
  PROVE  AllSound'
<1>1. x = Source /\ at[x] = "producing" /\ outbox[x] = <<>>
  BY DEF Produce, Ready, Placed
<1>2. made \in Nat /\ demand \in [Subs -> Nat] /\ buffer[x] \in Seq(Events) /\ MaxEvents \in Nat
      /\ MaxBatch \in Nat
  BY DEF IInv, TypeOK, GenStageAssumption
<1>3. PICK n \in 1..MaxBatch : /\ made + n <= MaxEvents /\ made' = made + n
                               /\ Dispatch(x, demand, buffer[x], [k \in 1..n |-> made + k])
  BY DEF Produce
<1>4. PICK evs : evs = [k \in 1..n |-> made + k]
  OBVIOUS
<1>5. n \in Nat /\ Numbered(evs, made, n)
  BY <1>2, <1>4 DEF Numbered
<1>6. /\ evs \in Seq(Events) /\ Increasing(evs)
      /\ \A e : e \in ToSet(evs) <=> e \in (made + 1)..(made + n)
  <2>1. PICK a : a = made
    OBVIOUS
  <2>2. a \in Nat /\ n \in Nat /\ a + n <= MaxEvents /\ MaxEvents \in Nat /\ Numbered(evs, a, n)
    BY <1>2, <1>3, <1>5, <2>1
  <2>3. evs \in Seq(Events) /\ Increasing(evs)
    BY ONLY <2>2, NewEvents
  <2>4. \A e : e \in ToSet(evs) <=> e \in (a + 1)..(a + n)
    BY ONLY <2>2, NewEvents
  <2> QED
    BY <2>1, <2>3, <2>4
<1>7. Flow(x) /\ Level(x)
  BY <1>1 DEF AllSound, Feeds, Sound
<1>8. Accepted(x) = 1..made /\ Accepted(x)' = 1..made'
  BY <1>1, AcceptedIs
<1>9. Passed(x) \subseteq 1..made /\ (~Disturbed => Passed(x) = 1..made)
  BY <1>7, <1>8 DEF Level
<1>10. Below(Passed(x), ToSet(evs))
  <2>1. ASSUME NEW e \in Passed(x), NEW f \in ToSet(evs) PROVE e < f
    <3>1. e \in 1..made /\ f \in (made + 1)..(made + n)
      BY <1>6, <1>9
    <3> QED
      BY <1>2, <1>5, <3>1
  <2> QED
    BY <2>1 DEF Below
<1>11. Offered(x, buffer[x], evs)
  BY <1>6, <1>7, <1>10, OfferedAfter
<1>12. Stands(x, buffer[x], demand)
  BY <1>1 DEF MInv, Waiting, Holds, Stands
<1>13. 1..made' = (1..made) \cup ToSet(evs)
  <2>1. 1..made' = (1..made) \cup ((made + 1)..(made + n))
    BY <1>2, <1>3, <1>5
  <2>2. ToSet(evs) = (made + 1)..(made + n)
    BY <1>6
  <2> QED
    BY <2>1, <2>2
<1>14. Disturbed => Disturbed'
  BY SettledMeans
<1>15. Away(x) \cup ToSet(buffer[x]) \cup ToSet(evs) = Passed(x) \cup ToSet(evs)
  BY DEF Passed
<1>16. /\ Away(x) \cup ToSet(buffer[x]) \cup ToSet(evs) \subseteq Accepted(x)'
       /\ ~Disturbed' => Away(x) \cup ToSet(buffer[x]) \cup ToSet(evs) = Accepted(x)'
  BY <1>8, <1>9, <1>13, <1>14, <1>15
<1>17. UNCHANGED <<kind, at, mailbox, current, producerSubs, got>>
  BY DEF Produce
<1>18. Stills
  BY <1>17, SameThere DEF Stills
<1>19. at'[x] # "passing" /\ \A z \in Stages : Keeps(z)
  BY <1>1, <1>17 DEF Keeps
<1>20. Dispatch(x, demand, buffer[x], evs)
  BY <1>3, <1>4
<1> QED
  BY <1>1, <1>2, <1>6, <1>11, <1>12, <1>16, <1>17, <1>18, <1>19, <1>20, DispatchSound

(* A stage in the middle passes on what it has handled.                      *)
LEMMA PassOnMiddle ==
  ASSUME GenStageAssumption, IInv, IInv', Settled, AllSound, NEW x \in Stages, PassOn(x),
         InTheMiddle(x)
  PROVE  AllSound'
<1>1. PICK m, evs : m = current[x] /\ evs = m.events
  OBVIOUS
<1>2. /\ at[x] = "passing" /\ outbox[x] = <<>> /\ Dispatch(x, demand, buffer[x], evs)
      /\ Continue(x, "refilling") /\ UNCHANGED <<kind, producerSubs, made, got>> /\ x # Source
  BY <1>1 DEF PassOn, Ready, history, InTheMiddle
<1>3. /\ TypeOK /\ TypeOK' /\ demand \in [Subs -> Nat] /\ buffer[x] \in Seq(Events)
      /\ m \in Message /\ evs \in Seq(Events) /\ m.type = "events"
  BY <1>1, <1>2 DEF IInv, TypeOK, Message, Resting
<1>4. m.sub \in Subs /\ Down[m.sub] = x
  BY <1>1, <1>2, <1>3, EventsInHand1 DEF Busy
<1>5. Flow(x) /\ Level(x) /\ InPassing(x) /\ Holds(x)
  BY DEF AllSound, Feeds, Sound
<1>6. Increasing(evs) /\ ToSet(evs) \subseteq ToSet(got[m.sub]) /\ Below(Passed(x), ToSet(evs))
  BY <1>1, <1>2, <1>5 DEF InPassing
<1>7. Offered(x, buffer[x], evs)
  BY <1>3, <1>5, <1>6, OfferedAfter
<1>8. Stands(x, buffer[x], demand)
  BY <1>5 DEF Holds, Stands
<1>9. at'[x] = "refilling"
  BY <1>2, SourceIs DEF Continue
<1>10. InWork(x) = ToSet(evs) /\ InWork(x)' = {}
  <2>1. InWork(x) = ToSet(evs)
    BY <1>1, <1>2 DEF InWork
  <2>2. InWork(x)' = {}
    BY <1>9 DEF InWork
  <2> QED
    BY <2>1, <2>2
<1>11. /\ Accepted(x) = Handed(x) \ InWork(x) /\ Accepted(x)' = Handed(x)' \ InWork(x)'
       /\ \A e : e \in Handed(x) <=> \E s \in Subs : Down[s] = x /\ e \in ToSet(got[s])
       /\ \A e : e \in Handed(x)' <=> \E s \in Subs : Down[s] = x /\ e \in ToSet(got'[s])
  BY <1>2, AcceptedIs
<1>12. ToSet(evs) \subseteq Handed(x)
  BY <1>4, <1>6, <1>11
<1>13. Handed(x)' = Handed(x)
  <2>1. \A e : e \in Handed(x)' <=> e \in Handed(x)
    BY <1>2, <1>11
  <2> QED
    BY <2>1
<1>14. Accepted(x)' = Handed(x) /\ Accepted(x) = Handed(x) \ ToSet(evs)
  BY <1>10, <1>11, <1>13
<1>15. Disturbed => Disturbed'
  BY SettledMeans
<1>16. Away(x) \cup ToSet(buffer[x]) \cup ToSet(evs) = Passed(x) \cup ToSet(evs)
  BY DEF Passed
<1>17. /\ Away(x) \cup ToSet(buffer[x]) \cup ToSet(evs) \subseteq Accepted(x)'
       /\ ~Disturbed' => Away(x) \cup ToSet(buffer[x]) \cup ToSet(evs) = Accepted(x)'
  <2>1. Passed(x) \subseteq Accepted(x) /\ (~Disturbed => Passed(x) = Accepted(x))
    BY <1>5 DEF Level
  <2> QED
    BY <1>12, <1>14, <1>15, <1>16, <2>1
<1>18. Stills
  BY <1>2, <1>3, ContinueStills
<1>19. ASSUME NEW z \in Stages \ {x} PROVE Keeps(z)
  BY <1>2, ContinueKeepsPassing
<1> QED
  BY <1>2, <1>3, <1>7, <1>8, <1>9, <1>17, <1>18, <1>19, DispatchSound

LEMMA PassOnSound ==
  ASSUME GenStageAssumption, IInv, IInv', Settled, AllSound, NEW x \in Stages, PassOn(x)
  PROVE  AllSound'
<1>1. CASE InTheMiddle(x)
  BY <1>1, PassOnMiddle
<1>2. CASE ~InTheMiddle(x)
  <2>1. /\ Continue(x, "refilling") /\ at[x] = "passing" /\ UNCHANGED <<outbox, upstream, history>>
    BY <1>2 DEF PassOn, Ready, upstream
  <2>2. x # Source
    <3>1. current[x].type = "events" /\ Busy(x)
      BY <2>1 DEF IInv, Resting, Busy
    <3>2. current[x].sub \in Subs /\ Down[current[x].sub] = x
      BY <3>1, EventsInHand1
    <3> QED
      BY <3>2 DEF GenStageAssumption
  <2>3. ~Feeds(x)
    BY <1>2, <2>2 DEF Feeds
  <2>4. \A t \in Subs : Sent(t)' = Sent(t)
    BY <2>1, SentStill
  <2> QED
    BY <2>1, <2>3, <2>4, ContinueSound
<1> QED
  BY <1>1, <1>2

-----------------------------------------------------------------------------
(* All steps *)

LEMMA StepSound ==
  ASSUME GenStageAssumption, Straight, IInv, IInv', MInv, Placed, InLine, Settled, AllSound,
         NEW x \in Stages, Step(x)
  PROVE  AllSound'
<1>0. TypeOK /\ TypeOK' /\ current[x] \in Message /\ current[x].sub \in Subs
  BY DEF IInv, TypeOK, Message
<1>1. CASE Receive(x)
  <2>1. UNCHANGED <<outbox, upstream, made, got>> /\ at[x] = "idle" /\ TaskTypes /\ TaskTypes'
    BY <1>0, <1>1, Types DEF Receive, Ready, history
  <2>2. Stills
    BY <1>1, <2>1, ReceiveStills
  <2>3. \A s \in Subs : Thinner(s)
    BY <1>0, <2>1, <2>2, SentStill, StillThin
  <2>4. \A z \in Stages : Keeps(z)
    <3>1. /\ at \in [Stages -> {"idle", "handling", "flushing", "producing", "passing", "refilling", "stopped"}]
          /\ current \in [Stages -> Message]
      BY <1>0 DEF TypeOK
    <3>2. \A z \in Stages : /\ at'[z] = IF z = x THEN "handling" ELSE at[z]
                            /\ z # x => current'[z] = current[z]
      BY <1>1, <3>1 DEF Receive
    <3> QED
      BY <2>1, <3>2 DEF Keeps
  <2> QED
    BY <2>1, <2>3, <2>4, TasksSound
<1>2. CASE DoSubscribe(x)
  BY <1>2, DoSubscribeSound
<1>3. CASE Flush(x)
  BY <1>3, FlushSound
<1>4. CASE DoDemand(x)
  BY <1>4, DoDemandSound
<1>5. CASE Produce(x)
  BY <1>5, ProduceSound
<1>6. CASE ProduceEnds(x)
  <2>1. Continue(x, "idle") /\ at[x] = "producing" /\ UNCHANGED <<outbox, upstream, history>>
    BY <1>6 DEF ProduceEnds, Ready
  <2>2. \A s \in Subs : Sent(s)' = Sent(s)
    BY <2>1, SentStill
  <2> QED
    BY <2>1, <2>2, ContinueSound
<1>7. CASE DoCancel(x)
  BY <1>7, DoCancelSound
<1>8. CASE DoSubscribeAck(x)
  <2>1. /\ Continue(x, "idle") /\ at[x] = "handling" /\ Silent(current[x])
        /\ UNCHANGED <<upstream, history>> /\ outbox[x] = <<>>
    BY <1>8 DEF DoSubscribeAck, Handling, Silent, IInv, Resting
  <2>2. CASE UNCHANGED outbox
    <3>1. \A s \in Subs : Sent(s)' = Sent(s)
      BY <2>2, SentStill
    <3> QED
      BY <2>1, <3>1, ContinueSound
  <2>3. CASE ~UNCHANGED outbox
    <3>1. PICK s, n : s = current[x].sub /\ n = MaxDemand[s]
      OBVIOUS
    <3>2. Sends(x, Demand(s, n)) /\ s \in Subs /\ n \in Nat
      BY <1>0, <1>8, <2>3, <3>1 DEF DoSubscribeAck, GenStageAssumption
    <3>3. Demand(s, n) \in Message /\ Silent(Demand(s, n))
      BY <3>2, MessagesAre DEF Silent
    <3>4. \A t \in Subs : Sent(t)' = Sent(t)
      BY <1>0, <2>1, <3>2, <3>3, SentSilent
    <3> QED
      BY <2>1, <3>4, ContinueSound
  <2> QED
    BY <2>2, <2>3
<1>9. CASE DoEvents(x)
  BY <1>9, DoEventsSound
<1>10. CASE PassOn(x)
  BY <1>10, PassOnSound
<1>11. CASE Refill(x)
  <2>1. /\ Continue(x, "idle") /\ at[x] = "refilling" /\ UNCHANGED <<upstream, history>>
        /\ outbox[x] = <<>>
    BY <1>11 DEF Refill, Ready
  <2>2. CASE UNCHANGED outbox
    <3>1. \A s \in Subs : Sent(s)' = Sent(s)
      BY <2>2, SentStill
    <3> QED
      BY <2>1, <3>1, ContinueSound
  <2>3. CASE ~UNCHANGED outbox
    <3>1. PICK s, n : s = current[x].sub /\ n = MaxDemand[s] - inFlight[s]
      OBVIOUS
    <3>2. Sends(x, Demand(s, n)) /\ s \in Subs /\ inFlight[s] < MaxDemand[s]
      BY <1>0, <1>11, <2>3, <3>1 DEF Refill
    <3>3. n \in Nat
      <4>1. inFlight[s] \in Nat /\ MaxDemand[s] \in Nat
        BY <1>0, <3>2 DEF TypeOK, GenStageAssumption
      <4> QED
        BY <3>1, <3>2, <4>1
    <3>4. Demand(s, n) \in Message /\ Silent(Demand(s, n))
      BY <3>2, <3>3, MessagesAre DEF Silent
    <3>5. \A t \in Subs : Sent(t)' = Sent(t)
      BY <1>0, <2>1, <3>2, <3>4, SentSilent
    <3> QED
      BY <2>1, <3>5, ContinueSound
  <2> QED
    BY <2>2, <2>3
<1>12. CASE DoStop(x)
  BY <1>12, LeavesSound DEF DoStop
<1> QED
  BY <1>1, <1>2, <1>3, <1>4, <1>5, <1>6, <1>7, <1>8, <1>9, <1>10, <1>11, <1>12 DEF Step

LEMMA OthersSound ==
  ASSUME GenStageAssumption, IInv, IInv', Settled, AllSound,
         Users \/ Quiet \/ UNCHANGED vars \/ \E x \in Stages : Sending(x)
  PROVE  AllSound'
<1>0. TypeOK /\ TypeOK'
  BY DEF IInv
<1>1. ASSUME NEW s \in Subs, SubscribeTo(s) PROVE AllSound'
  <2>1. Up[s] \in Stages /\ Signal("subscribe", s) \in Message /\ Silent(Signal("subscribe", s))
    BY MessagesAre DEF GenStageAssumption, Silent
  <2>2. Deliver(Up[s], Signal("subscribe", s)) /\ UNCHANGED <<upstream, outbox, history>>
    BY <1>1 DEF SubscribeTo
  <2> QED
    BY <2>1, <2>2, DeliverSound
<1>2. ASSUME NEW s \in Subs, CancelSubscription(s) PROVE AllSound'
  BY <1>2, CancelSubscriptionSound
<1>3. ASSUME UNCHANGED <<at, mailbox, current, outbox, upstream, history>> PROVE AllSound'
  <2>1. Stills
    BY <1>3, SameThere DEF Stills
  <2>2. \A s \in Subs : Thinner(s)
    BY <1>0, <1>3, <2>1, SentStill, StillThin DEF history
  <2>3. \A z \in Stages : Keeps(z)
    BY <1>3 DEF Keeps
  <2> QED
    BY <1>3, <2>2, <2>3, TasksSound DEF history
<1>4. ASSUME NEW s \in Subs, TellCancelled(s) PROVE AllSound'
  <2>1. CASE Alive(Up[s])
    <3>1. Up[s] \in Stages /\ Signal("cancel", s) \in Message /\ Silent(Signal("cancel", s))
      BY MessagesAre DEF GenStageAssumption, Silent
    <3>2. Deliver(Up[s], Signal("cancel", s)) /\ UNCHANGED <<upstream, outbox, history>>
      BY <1>4, <2>1 DEF TellCancelled
    <3> QED
      BY <3>1, <3>2, DeliverSound
  <2>2. CASE ~Alive(Up[s])
    BY <1>3, <1>4, <2>2 DEF TellCancelled
  <2> QED
    BY <2>1, <2>2
<1>5. ASSUME NEW x \in Stages, StopStage(x) PROVE AllSound'
  <2>1. None \in Message /\ Silent(None)
    BY MessagesAre DEF Silent
  <2>2. Deliver(x, None) /\ UNCHANGED <<upstream, outbox, history>>
    BY <1>5 DEF StopStage
  <2> QED
    BY <2>1, <2>2, DeliverSound
<1>6. UNCHANGED vars => AllSound'
  BY <1>3 DEF vars, tasks
<1>7. ASSUME NEW x \in Stages, Sending(x) PROVE AllSound'
  <2>1. CASE AckFails(x)
    BY <2>1, LeavesSound DEF AckFails
  <2> QED
    BY <1>7, <2>1, SendNextSound, SendFailsSound DEF Sending
<1> QED
  BY <1>1, <1>2, <1>4, <1>5, <1>6, <1>7 DEF Users, Quiet

LEMMA InitSound ==
  ASSUME GenStageAssumption, Init
  PROVE  AllSound /\ Placed
<1>1. IInv /\ TypeOK
  BY InitIInv DEF IInv
<1>2. /\ at = [z \in Stages |-> "idle"] /\ mailbox = [z \in Stages |-> <<>>]
      /\ outbox = [z \in Stages |-> <<>>] /\ producerSubs = [z \in Stages |-> <<>>]
      /\ buffer = [z \in Stages |-> <<>>] /\ made = 0 /\ got = [t \in Subs |-> <<>>]
  BY DEF Init
<1>3. <<>> \o <<>> = <<>> /\ ToSet(<<>>) = {} /\ Increasing(<<>>)
  BY DEF ToSet, Increasing
<1>4. ASSUME NEW s \in Subs PROVE Route(s) = <<>>
  <2>1. Down[s] \in Stages /\ Up[s] \in Stages
    BY DEF GenStageAssumption
  <2>2. got[s] = <<>> /\ mailbox[Down[s]] = <<>> /\ outbox[Up[s]] = <<>> /\ at[Down[s]] = "idle"
    BY <1>2, <2>1
  <2>3. EventsFor(s, <<>>) = <<>>
    BY EventsForNone
  <2>4. Sent(s) = <<>> /\ Waits(Down[s], s) = <<>> \o <<>>
    BY <2>2, <2>3 DEF Sent, Waits, Hand
  <2>5. Route(s) = got[s] \o (Waits(Down[s], s) \o Sent(s))
    BY <1>1, RouteIs
  <2> QED
    BY <1>3, <2>2, <2>4, <2>5
<1>5. ASSUME NEW x \in Stages, Feeds(x) PROVE Sound(x)
  <2>1. buffer[x] = <<>> /\ ToSet(buffer[x]) = {} /\ at[x] = "idle"
    BY <1>2, <1>3
  <2>2. ASSUME NEW s \in Outgoing(x)
        PROVE  Increasing(Route(s)) /\ On(s) = {} /\ Ahead(s, ToSet(buffer[x]))
    <3>1. Route(s) = <<>>
      BY <1>4 DEF Outgoing
    <3>2. On(s) = {}
      BY <1>3, <3>1 DEF On
    <3> QED
      BY <1>3, <3>1, <3>2 DEF Ahead
  <2>3. Flow(x)
    <3>1. Increasing(buffer[x])
      BY <1>3, <2>1
    <3>2. \A s \in Outgoing(x) : \A t \in Outgoing(x) \ {s} : On(s) \cap On(t) = {}
      BY <2>2
    <3> QED
      BY <2>2, <3>1, <3>2 DEF Flow
  <2>4. Passed(x) = {}
    BY <2>1, <2>2 DEF Passed, Away
  <2>5. Accepted(x) = {}
    <3>1. CASE x = Source
      <4>1. 1..made = {}
        BY <1>2
      <4> QED
        BY <3>1, <4>1, AcceptedIs
    <3>2. CASE x # Source
      <4>1. \A s \in Subs : ToSet(got[s]) = {}
        BY <1>2, <1>3
      <4>2. Handed(x) = {}
        <5>1. \A e : e \in Handed(x) <=> \E s \in Subs : Down[s] = x /\ e \in ToSet(got[s])
          BY AcceptedIs
        <5>2. \A e : e \notin Handed(x)
          BY <4>1, <5>1
        <5> QED
          BY <5>2
      <4> QED
        BY <3>2, <4>2, AcceptedIs
    <3> QED
      BY <3>1, <3>2
  <2>6. Level(x)
    BY <2>4, <2>5 DEF Level
  <2>7. Holds(x)
    BY <2>1 DEF Holds
  <2>8. InPassing(x)
    BY <2>1 DEF InPassing
  <2> QED
    BY <2>3, <2>6, <2>7, <2>8 DEF Sound
<1>6. AllSound
  BY <1>5 DEF AllSound
<1>7. Placed
  BY <1>2 DEF Placed
<1> QED
  BY <1>6, <1>7

(* The inductive invariant.                                                  *)
OInv == IInv /\ MInv /\ Placed /\ (InLine => AllSound)

LEMMA InitOInv ==
  ASSUME GenStageAssumption, Init PROVE OInv
BY InitIInv, InitMInv, InitSound DEF OInv

LEMMA NextOInv ==
  ASSUME GenStageAssumption, Straight, OInv, [Next]_vars PROVE OInv'
<1>1. IInv /\ MInv /\ Placed
  BY DEF OInv
<1>2. IInv'
  BY <1>1, NextIInv
<1>3. MInv'
  BY <1>1, NextMInv
<1>4. Settled
  BY <1>1, NextSettles
<1>5. Placed'
  BY <1>1, <1>4, SettledMeans
<1>6. ASSUME InLine' PROVE AllSound'
  <2>1. InLine /\ AllSound
    BY <1>4, <1>6, SettledMeans DEF OInv
  <2>2. ASSUME NEW x \in Stages, Step(x) PROVE AllSound'
    BY <1>1, <1>2, <1>4, <2>1, <2>2, StepSound
  <2>3. ASSUME Users \/ Quiet \/ UNCHANGED vars \/ \E x \in Stages : Sending(x) PROVE AllSound'
    BY <1>1, <1>2, <1>4, <2>1, <2>3, OthersSound
  <2> QED
    BY <2>2, <2>3 DEF Next
<1> QED
  BY <1>2, <1>3, <1>5, <1>6 DEF OInv

LEMMA OInvOrders ==
  ASSUME GenStageAssumption, OInv PROVE InOrder
<1>1. ASSUME InLine, NEW s \in Subs PROVE Increasing(Route(s))
  <2>1. Up[s] \in Stages /\ Feeds(Up[s]) /\ s \in Outgoing(Up[s])
    BY DEF Feeds, InTheMiddle, Outgoing, GenStageAssumption
  <2>2. Flow(Up[s])
    BY <1>1, <2>1 DEF OInv, AllSound, Sound
  <2> QED
    BY <2>1, <2>2 DEF Flow
<1> QED
  BY <1>1 DEF InOrder, InLine

LEMMA OInvAccounts ==
  ASSUME GenStageAssumption, OInv PROVE EventsAccounted
<1>1. ~Disturbed => InLine
  BY DEF Disturbed, InLine, Overtakes, Outgoing
<1>2. kind # "broadcast" => InLine
  BY DEF InLine, Overtakes
<1>3. ASSUME NEW x \in Stages, Feeds(x), ~Disturbed
      PROVE  Accepted(x) = ToSet(buffer[x]) \cup UNION {ToSet(Route(s)) : s \in Outgoing(x)}
  <2>1. Level(x)
    BY <1>1, <1>3 DEF OInv, AllSound, Sound
  <2>2. Accepted(x) = Passed(x)
    BY <1>3, <2>1 DEF Level
  <2> QED
    BY <2>2 DEF Passed, Away, On
<1>4. ASSUME NEW x \in Stages, Feeds(x), kind # "broadcast", NEW s \in Outgoing(x)
      PROVE  /\ On(s) \cap ToSet(buffer[x]) = {}
             /\ \A t \in Outgoing(x) \ {s} : On(s) \cap On(t) = {}
  <2>1. Flow(x)
    BY <1>2, <1>4 DEF OInv, AllSound, Sound
  <2>2. ASSUME NEW e \in On(s), e \in ToSet(buffer[x]) PROVE FALSE
    <3>1. Ahead(s, ToSet(buffer[x]))
      BY <2>1 DEF Flow
    <3>2. e < e
      BY <2>2, <3>1 DEF Ahead
    <3>3. buffer[x] \in Seq(Events)
      BY DEF OInv, IInv, TypeOK
    <3>4. e \in Nat
      BY <2>2, <3>3 DEF ToSet, Events
    <3> QED
      BY <3>2, <3>4
  <2>3. ASSUME NEW t \in Outgoing(x) \ {s}, NEW e \in On(s), e \in On(t) PROVE FALSE
    <3>1. kind = "demand" \/ kind = "partition"
      BY <1>4 DEF OInv, IInv, TypeOK, GenStageAssumption
    <3>2. CASE kind = "demand"
      BY <2>1, <2>3, <3>2 DEF Flow
    <3>3. CASE kind = "partition"
      <4>1. Ahead(s, ToSet(buffer[x])) /\ Ahead(t, ToSet(buffer[x]))
        BY <2>1 DEF Flow
      <4>2. Hash[e] = Partition[s] /\ Hash[e] = Partition[t]
        BY <2>3, <3>3, <4>1 DEF Ahead, Fits
      <4> QED
        BY <2>3, <4>2 DEF Outgoing, GenStageAssumption
    <3> QED
      BY <3>1, <3>2, <3>3
  <2> QED
    BY <2>2, <2>3
<1> QED
  BY <1>3, <1>4 DEF EventsAccounted, Feeds, On

(* Where each stage in the middle has one producer, a subscription brings    *)
(* its events in the order they were made, none twice, whatever the stages   *)
(* buffer on the way (_dispatch_events, _on_events), unless a stage in the   *)
(* middle broadcasts and one of its subscribers goes away.                   *)
THEOREM OrderKept ==
  ASSUME Straight
  PROVE  Spec => []InOrder
<1>1. Init => OInv
  BY GenStageAssumption, InitOInv
<1>2. OInv /\ [Next]_vars => OInv'
  BY Straight, GenStageAssumption, NextOInv
<1>3. OInv => InOrder
  BY GenStageAssumption, OInvOrders
<1> QED
  BY <1>1, <1>2, <1>3, PTL DEF Spec

(* There too, no event is lost or passed on twice: as long as nothing is     *)
(* cancelled or stopped, what a stage has to pass on is in _output_buffer or *)
(* on its way, and on that of one subscription only unless it broadcasts.    *)
THEOREM NoneLost ==
  ASSUME Straight
  PROVE  Spec => []EventsAccounted
<1>1. Init => OInv
  BY GenStageAssumption, InitOInv
<1>2. OInv /\ [Next]_vars => OInv'
  BY Straight, GenStageAssumption, NextOInv
<1>3. OInv => EventsAccounted
  BY GenStageAssumption, OInvAccounts
<1> QED
  BY <1>1, <1>2, <1>3, PTL DEF Spec
=============================================================================

--------------------------- MODULE FatTreeProofs ---------------------------
(* The tree of directories is intact, whatever the calls and wherever a power cut
   falls, for every number of names and clusters, every size of a cluster and
   every bound. *)
EXTENDS FatTree, SectorCacheProofs, FiniteSetTheorems, WellFoundedInduction

-----------------------------------------------------------------------------
(* Induction, about sets (as in ShellProofs). *)

(* Every set of natural numbers that is not empty has a least element. *)
LEMMA LeastNat ==
  ASSUME NEW T \in SUBSET Nat, T # {}
  PROVE  \E m \in T : \A k \in T : m <= k
<1> DEFINE less == OpToRel(<, Nat)
<1>1. IsWellFoundedOn(less, Nat)
  BY NatLessThanWellFounded
<1>2. \E m \in T : \A k \in T : <<k, m>> \notin less
  <2> HIDE DEF less
  <2> QED BY <1>1, WFMin
<1>3. \A k, m \in Nat : k < m => <<k, m>> \in less
  BY DEF OpToRel
<1> HIDE DEF less
<1>4. PICK m \in T : \A k \in T : <<k, m>> \notin less
  BY <1>2
<1>5. \A k \in T : ~(k < m)
  BY <1>3, <1>4
<1> QED BY <1>5

(* What holds of 0 and of the successor of each number that it holds of, holds of
   every number. *)
LEMMA Induction ==
  ASSUME NEW T, 0 \in T, \A n \in Nat : n \in T => n + 1 \in T
  PROVE  Nat \subseteq T
<1> SUFFICES ASSUME Nat \ T # {} PROVE FALSE
  OBVIOUS
<1>1. PICK m \in Nat \ T : \A k \in Nat \ T : m <= k
  BY LeastNat
<1>2. m - 1 \in Nat
  BY <1>1
<1>3. m - 1 \in T
  BY <1>1, <1>2
<1> QED BY <1>1, <1>2, <1>3

(* A recursive function over 0 .. n, as a loop computes it, exists. *)
Steps(n, S) == [1 .. n -> [S -> S]]
Computes(f, n, first, step) == f[0] = first /\ \A k \in 1 .. n : f[k] = step[k][f[k - 1]]

LEMMA Recursion ==
  ASSUME NEW n \in Nat, NEW S, NEW first \in S, NEW step \in Steps(n, S)
  PROVE  \E f \in [0 .. n -> S] : Computes(f, n, first, step)
<1> USE DEF Computes, Steps
<1> DEFINE T == {m \in Nat : m <= n => \E f \in [0 .. m -> S] : Computes(f, m, first, step)}
<1>1. 0 \in T
  <2> DEFINE f == [k \in 0 .. 0 |-> first]
  <2>1. f \in [0 .. 0 -> S] /\ Computes(f, 0, first, step)
    OBVIOUS
  <2> QED BY <2>1
<1>2. ASSUME NEW m \in Nat, m \in T PROVE m + 1 \in T
  <2> SUFFICES ASSUME m + 1 <= n PROVE \E f \in [0 .. (m + 1) -> S] : Computes(f, m + 1, first, step)
    OBVIOUS
  <2>1. PICK f \in [0 .. m -> S] : Computes(f, m, first, step)
    BY <1>2
  <2> DEFINE g == [k \in 0 .. (m + 1) |-> IF k = m + 1 THEN step[m + 1][f[m]] ELSE f[k]]
  <2>2. step[m + 1][f[m]] \in S
    BY <2>1
  <2>3. g \in [0 .. (m + 1) -> S]
    BY <2>1, <2>2
  <2>4. \A k \in 1 .. (m + 1) : g[k] = step[k][g[k - 1]]
    <3> TAKE k \in 1 .. (m + 1)
    <3>1. CASE k = m + 1
      BY <3>1
    <3>2. CASE k \in 1 .. m
      BY <2>1, <3>2
    <3> QED BY <3>1, <3>2
  <2>5. g[0] = first
    BY <2>1
  <2> QED BY <2>3, <2>4, <2>5
<1>3. n \in T
  <2> HIDE DEF T
  <2> QED BY <1>1, <1>2, Induction
<1> QED BY <1>3

-----------------------------------------------------------------------------
(* Chains. *)

Ring == Cardinality(Clusters)

LEMMA RingNat == Ring \in Nat /\ Clusters \subseteq ClustOrNone
BY TreeAssumption, FS_CardinalityType DEF Ring, ClustOrNone

(* One step of followed. *)
Further(d, G, c) == IF d[fat(c)] \notin Clusters THEN <<c>> ELSE <<c>> \o G[d[fat(c)]]

(* followed is its recursion. *)
Follows(d, F) ==
  /\ \A c \in ClustOrNone : F[0][c] = <<c>> /\ chain(d, c) = F[Ring][c]
  /\ \A k \in 1 .. Ring : \A c \in ClustOrNone : F[k][c] = Further(d, F[k - 1], c)

LEMMA Following ==
  ASSUME NEW d
  PROVE  \E F : Follows(d, F)
<1> DEFINE S == [ClustOrNone -> Seq(ClustOrNone)]
           one == [c \in ClustOrNone |-> <<c>>]
           step == [k \in 1 .. Ring |-> [G \in S |-> [c \in ClustOrNone |-> Further(d, G, c)]]]
           rec(w) == w = [x \in (0 .. Ring) \X ClustOrNone |->
                            IF x[1] = 0 \/ d[fat(x[2])] \notin Clusters THEN <<x[2]>>
                            ELSE <<x[2]>> \o w[<<x[1] - 1, d[fat(x[2])]>>]]
           W == CHOOSE w : rec(w)
<1>1. one \in S
  OBVIOUS
<1>2. \A G \in S : \A c \in ClustOrNone : Further(d, G, c) \in Seq(ClustOrNone)
  BY RingNat DEF Further
<1>3. step \in Steps(Ring, S)
  BY <1>2 DEF Steps
<1>4. PICK F \in [0 .. Ring -> S] : Computes(F, Ring, one, step)
  <2> HIDE DEF one, step, S
  <2> QED BY <1>1, <1>3, RingNat, Recursion
<1>5. \A c \in ClustOrNone : F[0][c] = <<c>>
  BY <1>4 DEF Computes
<1>6. \A k \in 1 .. Ring, c \in ClustOrNone : F[k][c] = Further(d, F[k - 1], c)
  <2> TAKE k \in 1 .. Ring, c \in ClustOrNone
  <2>1. F[k - 1] \in S
    BY <1>4, RingNat
  <2>2. F[k] = step[k][F[k - 1]]
    BY <1>4 DEF Computes
  <2> QED BY <2>1, <2>2
<1> DEFINE f == [x \in (0 .. Ring) \X ClustOrNone |-> F[x[1]][x[2]]]
<1>7. rec(f)
  <2>1. ASSUME NEW x \in (0 .. Ring) \X ClustOrNone
        PROVE  F[x[1]][x[2]] = IF x[1] = 0 \/ d[fat(x[2])] \notin Clusters THEN <<x[2]>>
                               ELSE <<x[2]>> \o f[<<x[1] - 1, d[fat(x[2])]>>]
    <3>1. PICK k \in 0 .. Ring, c \in ClustOrNone : x = <<k, c>>
      OBVIOUS
    <3>2. CASE k = 0
      BY <1>5, <3>1, <3>2
    <3>3. CASE k # 0
      <4>1. k \in 1 .. Ring /\ k - 1 \in 0 .. Ring
        BY <3>3, RingNat
      <4>2. d[fat(c)] \in Clusters => f[<<k - 1, d[fat(c)]>>] = F[k - 1][d[fat(c)]]
        BY <4>1, RingNat
      <4> QED BY <1>6, <3>1, <3>3, <4>1, <4>2 DEF Further
    <3> QED BY <3>2, <3>3
  <2> QED BY <2>1
<1>8. rec(W)
  BY <1>7
<1>9. followed(d) = W
  BY DEF followed, Ring
<1> HIDE DEF W
<1>10. \A c \in ClustOrNone : W[<<0, c>>] = <<c>>
  <2> TAKE c \in ClustOrNone
  <2>1. <<0, c>> \in (0 .. Ring) \X ClustOrNone
    BY RingNat
  <2> QED BY <1>8, <2>1
<1>11. \A k \in 1 .. Ring, c \in ClustOrNone :
         W[<<k, c>>] = IF d[fat(c)] \notin Clusters THEN <<c>> ELSE <<c>> \o W[<<k - 1, d[fat(c)]>>]
  <2> TAKE k \in 1 .. Ring, c \in ClustOrNone
  <2>1. <<k, c>> \in (0 .. Ring) \X ClustOrNone /\ k # 0
    BY RingNat
  <2> QED BY <1>8, <2>1
<1>12. \A k \in 0 .. Ring : \A c \in ClustOrNone : W[<<k, c>>] = F[k][c]
  <2> DEFINE T == {k \in Nat : k <= Ring => \A c \in ClustOrNone : W[<<k, c>>] = F[k][c]}
  <2>1. 0 \in T
    BY <1>5, <1>10
  <2>2. ASSUME NEW k \in Nat, k \in T PROVE k + 1 \in T
    <3> SUFFICES ASSUME k + 1 <= Ring, NEW c \in ClustOrNone PROVE W[<<k + 1, c>>] = F[k + 1][c]
      OBVIOUS
    <3>1. k + 1 \in 1 .. Ring /\ (k + 1) - 1 = k /\ k <= Ring
      BY RingNat
    <3>2. \A e \in ClustOrNone : W[<<k, e>>] = F[k][e]
      BY <2>2, <3>1
    <3>3. W[<<k + 1, c>>] = IF d[fat(c)] \notin Clusters THEN <<c>> ELSE <<c>> \o W[<<k, d[fat(c)]>>]
      BY <1>11, <3>1
    <3>4. F[k + 1][c] = Further(d, F[k], c)
      BY <1>6, <3>1
    <3> QED BY <3>2, <3>3, <3>4, RingNat DEF Further
  <2>3. Nat \subseteq T
    <3> HIDE DEF T
    <3> QED BY <2>1, <2>2, Induction
  <2> TAKE k \in 0 .. Ring
  <2>4. k \in T /\ k <= Ring
    <3> HIDE DEF T
    <3> QED BY <2>3, RingNat
  <2> QED BY <2>4
<1>13. \A c \in ClustOrNone : chain(d, c) = F[Ring][c]
  BY <1>9, <1>12, RingNat DEF chain, Ring
<1>14. Follows(d, F)
  BY <1>5, <1>6, <1>13 DEF Follows
<1> QED BY <1>14

(* What a chain is: each cluster leads to the next, the last one to none. *)
Linked(d, q) ==
  /\ q \in Seq(ClustOrNone) /\ Len(q) > 0
  /\ \A i \in 1 .. (Len(q) - 1) : q[i + 1] \in Clusters /\ d[fat(q[i])] = q[i + 1]
  /\ d[fat(q[Len(q)])] \notin Clusters

Once(q) == \A i, j \in 1 .. Len(q) : q[i] = q[j] => i = j

(* No more clusters than there are, if none is there twice. *)
LEMMA Pigeons ==
  ASSUME NEW q \in Seq(Clusters), Once(q)
  PROVE  Len(q) \in Nat /\ Len(q) <= Ring
<1>1. Len(q) \in Nat /\ q \in [1 .. Len(q) -> Clusters]
  OBVIOUS
<1>2. q \in Injection(1 .. Len(q), Clusters)
  BY <1>1 DEF Once, Injection, IsInjective
<1>3. IsFiniteSet(Clusters) /\ Cardinality(1 .. Len(q)) = Len(q)
  <2>1. Cardinality(1 .. Len(q)) = IF 1 > Len(q) THEN 0 ELSE Len(q) - 1 + 1
    BY <1>1, FS_Interval
  <2> QED BY <1>1, <2>1, TreeAssumption
<1>4. Cardinality(1 .. Len(q)) <= Cardinality(Clusters)
  BY <1>2, <1>3, FS_Injection
<1> QED BY <1>1, <1>3, <1>4 DEF Ring

LEMMA LinkedType ==
  ASSUME NEW d, NEW q, Linked(d, q)
  PROVE  /\ q \in Seq(ClustOrNone) /\ Len(q) \in Nat /\ Len(q) >= 1 /\ q[1] \in ClustOrNone
         /\ Len(q) = 1 => q = <<q[1]>> /\ d[fat(q[1])] \notin Clusters
         /\ Len(q) = 1 \/ Len(q) > 1
         /\ Len(q) <= 1 => Len(q) = 1
<1>1. q \in Seq(ClustOrNone) /\ Len(q) \in Nat /\ Len(q) > 0
  BY DEF Linked
<1>2. Len(q) = 1 => q = <<q[1]>> /\ d[fat(q[1])] \notin Clusters
  BY <1>1 DEF Linked
<1>3. \A n \in Nat : n > 0 => n >= 1 /\ (n = 1 \/ n > 1) /\ (n <= 1 => n = 1)
  OBVIOUS
<1>4. q[1] \in ClustOrNone
  BY <1>1
<1> QED BY <1>1, <1>2, <1>3, <1>4

(* The first of a chain, and the others. *)
LEMMA LinkedTail ==
  ASSUME NEW d, NEW q, Linked(d, q), Len(q) > 1
  PROVE  \E t : /\ Linked(d, t) /\ Len(t) = Len(q) - 1
                /\ t[1] = d[fat(q[1])] /\ t[1] \in Clusters
                /\ q = <<q[1]>> \o t
<1>1. /\ q \in Seq(ClustOrNone) /\ Len(q) \in Nat /\ Len(q) > 1 /\ q # <<>>
      /\ Tail(q) \in Seq(ClustOrNone) /\ Len(Tail(q)) = Len(q) - 1
      /\ \A i \in 1 .. (Len(q) - 1) : Tail(q)[i] = q[i + 1]
  BY DEF Linked
<1>2. \A i \in 1 .. (Len(Tail(q)) - 1) :
        Tail(q)[i + 1] \in Clusters /\ d[fat(Tail(q)[i])] = Tail(q)[i + 1]
  <2> TAKE i \in 1 .. (Len(Tail(q)) - 1)
  <2>1. i \in 1 .. (Len(q) - 1) /\ i + 1 \in 1 .. (Len(q) - 1)
    BY <1>1
  <2>2. Tail(q)[i] = q[i + 1] /\ Tail(q)[i + 1] = q[(i + 1) + 1]
    BY <1>1, <2>1
  <2> QED BY <2>1, <2>2 DEF Linked
<1>3. Tail(q)[Len(Tail(q))] = q[Len(q)]
  BY <1>1
<1>4. 1 \in 1 .. (Len(q) - 1)
  BY <1>1
<1>5. Tail(q)[1] = q[2] /\ d[fat(q[1])] = q[2] /\ q[2] \in Clusters
  BY <1>1, <1>4 DEF Linked
<1>6. q = <<q[1]>> \o Tail(q)
  BY <1>1
<1>7. Linked(d, Tail(q))
  <2>1. d[fat(Tail(q)[Len(Tail(q))])] \notin Clusters
    BY <1>3 DEF Linked
  <2> QED BY <1>1, <1>2, <2>1 DEF Linked
<1> QED BY <1>1, <1>5, <1>6, <1>7

(* A chain that is not too long is what the driver follows. *)
LEMMA ChainIs ==
  ASSUME NEW d, NEW q, Linked(d, q), Len(q) <= Ring + 1
  PROVE  chain(d, q[1]) = q
<1>0. PICK F : Follows(d, F)
  BY Following
<1>1. /\ \A c \in ClustOrNone : F[0][c] = <<c>> /\ chain(d, c) = F[Ring][c]
      /\ \A k \in 1 .. Ring : \A c \in ClustOrNone : F[k][c] = Further(d, F[k - 1], c)
  BY <1>0 DEF Follows
<1> DEFINE T == {k \in Nat : k <= Ring =>
                   \A s \in Seq(ClustOrNone) : Linked(d, s) /\ Len(s) <= k + 1 => F[k][s[1]] = s}
<1>2. \A s \in Seq(ClustOrNone) : Linked(d, s) /\ Len(s) = 1 =>
        s = <<s[1]>> /\ s[1] \in ClustOrNone /\ d[fat(s[1])] \notin Clusters
  <2> TAKE s \in Seq(ClustOrNone)
  <2> HAVE Linked(d, s) /\ Len(s) = 1
  <2> QED BY LinkedType
<1>3. 0 \in T
  <2> SUFFICES ASSUME NEW s \in Seq(ClustOrNone), Linked(d, s), Len(s) <= 1 PROVE F[0][s[1]] = s
    OBVIOUS
  <2>1. Len(s) = 1
    BY LinkedType, Zenon
  <2> QED BY <1>1, <1>2, <2>1
<1>4. ASSUME NEW k \in Nat, k \in T PROVE k + 1 \in T
  <2> SUFFICES ASSUME k + 1 <= Ring, NEW s \in Seq(ClustOrNone), Linked(d, s), Len(s) <= (k + 1) + 1
               PROVE  F[k + 1][s[1]] = s
    OBVIOUS
  <2>1. k + 1 \in 1 .. Ring /\ (k + 1) - 1 = k /\ k <= Ring /\ s[1] \in ClustOrNone /\ Len(s) \in Nat /\ Len(s) >= 1
    BY RingNat, LinkedType
  <2>2. F[k + 1][s[1]] = Further(d, F[k], s[1])
    BY <1>1, <2>1
  <2>3. CASE Len(s) = 1
    BY <1>2, <2>2, <2>3 DEF Further
  <2>4. CASE Len(s) > 1
    <3>1. PICK t : /\ Linked(d, t) /\ Len(t) = Len(s) - 1
                   /\ t[1] = d[fat(s[1])] /\ t[1] \in Clusters
                   /\ s = <<s[1]>> \o t
      BY <2>4, LinkedTail
    <3>2. t \in Seq(ClustOrNone) /\ Len(t) <= k + 1
      BY <2>1, <3>1, LinkedType
    <3>3. F[k][t[1]] = t
      BY <1>4, <2>1, <3>1, <3>2
    <3> QED BY <2>2, <3>1, <3>3 DEF Further
  <2>5. Len(s) = 1 \/ Len(s) > 1
    BY LinkedType, Zenon
  <2> QED BY <2>3, <2>4, <2>5
<1>5. Ring \in T
  <2> HIDE DEF T
  <2> QED BY <1>3, <1>4, Induction, RingNat
<1>6. q \in Seq(ClustOrNone) /\ q[1] \in ClustOrNone
  BY LinkedType
<1> QED BY <1>1, <1>5, <1>6, RingNat

(* A chain with its clusters, none of them twice. *)
Proper(d, c) ==
  LET q == chain(d, c) IN q \in Seq(Clusters) /\ Linked(d, q) /\ Once(q) /\ q[1] = c

LEMMA ProperIs ==
  ASSUME NEW d, NEW q \in Seq(Clusters), Linked(d, q), Once(q)
  PROVE  chain(d, q[1]) = q /\ Proper(d, q[1])
<1>1. Len(q) <= Ring + 1
  BY Pigeons, RingNat
<1>2. chain(d, q[1]) = q
  BY <1>1, ChainIs
<1> QED BY <1>2 DEF Proper

(* A chain of a cluster alone, and of none. *)
LEMMA ChainOfOne ==
  ASSUME NEW d, NEW c \in ClustOrNone, d[fat(c)] \notin Clusters
  PROVE  /\ chain(d, c) = <<c>> /\ members(d, c) = {c}
         /\ c \in Clusters => Proper(d, c)
<1>1. Linked(d, <<c>>) /\ Len(<<c>>) = 1 /\ <<c>>[1] = c
  BY DEF Linked
<1>2. chain(d, c) = <<c>>
  <2>1. Linked(d, <<c>>) /\ Len(<<c>>) <= Ring + 1
    BY <1>1, RingNat
  <2>2. chain(d, <<c>>[1]) = <<c>>
    BY <2>1, ChainIs, Zenon
  <2> QED BY <1>1, <2>2
<1>3. members(d, c) = {c}
  BY <1>2 DEF members, Range
<1>4. Once(<<c>>)
  BY DEF Once
<1> QED BY <1>1, <1>2, <1>3, <1>4 DEF Proper

(* Chains depend on the entries of their clusters alone. *)
LEMMA ChainSame ==
  ASSUME NEW d, NEW e, NEW c, Proper(d, c), \A x \in members(d, c) : e[fat(x)] = d[fat(x)]
  PROVE  chain(e, c) = chain(d, c) /\ Proper(e, c) /\ members(e, c) = members(d, c)
<1> DEFINE q == chain(d, c)
<1>1. q \in Seq(Clusters) /\ Linked(d, q) /\ Once(q) /\ q[1] = c /\ Len(q) \in Nat /\ Len(q) > 0
  BY DEF Proper, Linked
<1>2. \A i \in 1 .. Len(q) : e[fat(q[i])] = d[fat(q[i])]
  BY <1>1 DEF members, Range
<1> HIDE DEF q
<1>3. Linked(e, q)
  BY <1>1, <1>2 DEF Linked
<1>4. chain(e, c) = q /\ Proper(e, c)
  BY <1>1, <1>3, ProperIs
<1> QED BY <1>4 DEF q, members

(* A chain that is made longer by a cluster. *)
LongerBy(d, e, c, n) ==
  /\ n \in Clusters \ members(d, c)
  /\ e[fat(chain(d, c)[Len(chain(d, c))])] = n /\ e[fat(n)] \notin Clusters
  /\ \A x \in members(d, c) : x # chain(d, c)[Len(chain(d, c))] => e[fat(x)] = d[fat(x)]

LEMMA ChainLonger ==
  ASSUME NEW d, NEW e, NEW c, Proper(d, c), NEW n, LongerBy(d, e, c, n)
  PROVE  /\ chain(e, c) = Append(chain(d, c), n) /\ Proper(e, c)
         /\ members(e, c) = members(d, c) \cup {n}
<1> DEFINE q == chain(d, c)
           r == Append(q, n)
           L == Len(q)
<1>0. n \in Clusters /\ n \notin members(d, c) /\ e[fat(n)] \notin Clusters
  BY DEF LongerBy
<1>1. /\ q \in Seq(Clusters) /\ Linked(d, q) /\ Once(q) /\ q[1] = c /\ L \in Nat /\ L > 0
      /\ members(d, c) = {q[i] : i \in 1 .. L}
  BY DEF Proper, Linked, members, Range
<1>2. /\ e[fat(q[L])] = n /\ \A i \in 1 .. L : q[i] # q[L] => e[fat(q[i])] = d[fat(q[i])]
      /\ \A i \in 1 .. L : q[i] # n
  BY <1>0, <1>1 DEF LongerBy
<1> HIDE DEF q
<1>3. /\ r \in Seq(Clusters) /\ Len(r) = L + 1 /\ r[L + 1] = n
      /\ \A i \in 1 .. L : r[i] = q[i]
  BY <1>0, <1>1
<1>4. Once(r)
  <2> SUFFICES ASSUME NEW i \in 1 .. (L + 1), NEW j \in 1 .. (L + 1), r[i] = r[j] PROVE i = j
    BY <1>3 DEF Once
  <2>1. CASE i \in 1 .. L /\ j \in 1 .. L
    BY <1>1, <1>3, <2>1 DEF Once
  <2>2. CASE i = L + 1 \/ j = L + 1
    BY <1>1, <1>2, <1>3, <2>2
  <2> QED BY <1>1, <2>1, <2>2
<1>5. Linked(e, r)
  <2>1. \A i \in 1 .. L : r[i + 1] \in Clusters /\ e[fat(r[i])] = r[i + 1]
    <3> TAKE i \in 1 .. L
    <3>1. CASE i = L
      BY <1>0, <1>1, <1>2, <1>3, <3>1
    <3>2. CASE i # L
      <4>1. i \in 1 .. (L - 1) /\ i + 1 \in 1 .. L /\ q[i] # q[L]
        BY <1>1, <3>2 DEF Once
      <4> QED BY <1>1, <1>2, <1>3, <4>1 DEF Linked
    <3> QED BY <3>1, <3>2
  <2>2. r \in Seq(ClustOrNone) /\ (L + 1) - 1 = L
    BY <1>1, <1>3 DEF ClustOrNone
  <2> QED BY <1>0, <1>1, <1>3, <2>1, <2>2 DEF Linked
<1>6. r[1] = c
  BY <1>1, <1>3
<1>7. chain(e, c) = r /\ Proper(e, c)
  BY <1>3, <1>4, <1>5, <1>6, ProperIs
<1>8. {r[i] : i \in 1 .. (L + 1)} = {q[i] : i \in 1 .. L} \cup {n}
  <2>1. \A i \in 1 .. (L + 1) : i \in 1 .. L \/ i = L + 1
    BY <1>1
  <2>2. \A i \in 1 .. L : i \in 1 .. (L + 1)
    BY <1>1
  <2>3. L + 1 \in 1 .. (L + 1)
    BY <1>1
  <2> QED BY <1>3, <2>1, <2>2, <2>3
<1> QED BY <1>1, <1>3, <1>7, <1>8 DEF q, members, Range

-----------------------------------------------------------------------------
(* Numbers. *)

(* Products of natural numbers. *)
LEMMA Products ==
  ASSUME NEW a \in Nat, NEW b \in Nat, NEW k \in Nat
  PROVE  /\ a * k \in Nat /\ (a + b) * k = a * k + b * k
         /\ a <= b => a * k <= b * k
         /\ a < b => (a + 1) * k <= b * k
         /\ (a + 1) * k = a * k + k
<1>1. a * k \in Nat /\ (a + b) * k = a * k + b * k /\ (a + 1) * k = a * k + k
  OBVIOUS
<1>2. ASSUME NEW x \in Nat, NEW y \in Nat, x <= y PROVE x * k <= y * k
  <2>1. PICK d \in Nat : y = x + d
    BY <1>2
  <2>2. d * k \in Nat /\ x * k \in Nat /\ (x + d) * k = x * k + d * k
    OBVIOUS
  <2>3. y * k = x * k + d * k
    BY <2>1, <2>2
  <2> QED BY <2>2, <2>3
<1>3. a < b => a + 1 \in Nat /\ a + 1 <= b
  OBVIOUS
<1> QED BY <1>1, <1>2, <1>3

(* Quotient and remainder. *)
LEMMA Division ==
  ASSUME NEW a \in Nat, NEW k \in Nat \ {0}
  PROVE  /\ a \div k \in Nat /\ a % k \in 0 .. (k - 1)
         /\ a = (a \div k) * k + (a % k)
<1>1. a \in Int /\ k \in Int /\ k > 0
  OBVIOUS
<1>2. a = k * (a \div k) + (a % k) /\ 0 <= a % k /\ a % k < k /\ a \div k \in Int /\ a % k \in Int
  BY <1>1
<1>3. a \div k >= 0
  BY <1>1
<1> QED BY <1>1, <1>2, <1>3

(* They are determined by that. *)
LEMMA DivisionUnique ==
  ASSUME NEW a \in Nat, NEW k \in Nat \ {0}, NEW q \in Nat, NEW m \in 0 .. (k - 1),
         a = q * k + m
  PROVE  a \div k = q /\ a % k = m
<1> DEFINE p == a \div k
           r == a % k
<1>1. p \in Nat /\ r \in 0 .. (k - 1) /\ a = p * k + r
  BY Division
<1> HIDE DEF p, r
<1>2. ~(p < q)
  <2>1. p < q => (p + 1) * k <= q * k /\ (p + 1) * k = p * k + k
    BY <1>1, Products
  <2>2. p * k \in Nat /\ q * k \in Nat
    BY <1>1, Products
  <2> QED BY <1>1, <2>1, <2>2
<1>3. ~(q < p)
  <2>1. q < p => (q + 1) * k <= p * k /\ (q + 1) * k = q * k + k
    BY <1>1, Products
  <2>2. p * k \in Nat /\ q * k \in Nat
    BY <1>1, Products
  <2> QED BY <1>1, <2>1, <2>2
<1>4. p = q
  BY <1>1, <1>2, <1>3
<1>5. r = m
  <2>1. q * k \in Nat
    BY Products
  <2> QED BY <1>1, <1>4, <2>1
<1> QED BY <1>4, <1>5 DEF p, r

(* A number is below c * k if its quotient is below c. *)
LEMMA QuotientBelow ==
  ASSUME NEW a \in Nat, NEW k \in Nat \ {0}, NEW c \in Nat
  PROVE  a \div k < c <=> a < c * k
<1> DEFINE p == a \div k
           r == a % k
<1>1. p \in Nat /\ r \in 0 .. (k - 1) /\ a = p * k + r
  BY Division
<1> HIDE DEF p, r
<1>2. p * k \in Nat /\ c * k \in Nat /\ (p + 1) * k = p * k + k
  BY <1>1, Products
<1>3. p < c => (p + 1) * k <= c * k
  BY <1>1, Products
<1>4. c <= p => c * k <= p * k
  BY <1>1, Products
<1>5. p < c <=> a < c * k
  BY <1>1, <1>2, <1>3, <1>4
<1> QED BY <1>5 DEF p

-----------------------------------------------------------------------------
(* The slots of a chain. *)

Room(q) == Len(q) * PerClust

(* The slot at a position, and the position of a slot. *)
LEMMA SlotAt ==
  ASSUME NEW q \in Seq(Clusters), NEW k \in 1 .. Room(q)
  PROVE  \E i \in 1 .. Len(q), j \in Indices :
           k = (i - 1) * PerClust + j + 1 /\ slots_of(q)[k] = slot(q[i], j)
<1> DEFINE p == (k - 1) \div PerClust
           m == (k - 1) % PerClust
<1>0. PerClust \in Nat \ {0} /\ Len(q) \in Nat
  BY TreeAssumption
<1>1. Room(q) \in Nat
  BY <1>0, Products DEF Room
<1>2. k - 1 \in Nat /\ k - 1 < Room(q)
  BY <1>1
<1>3. p \in Nat /\ m \in 0 .. (PerClust - 1) /\ k - 1 = p * PerClust + m
  BY <1>0, <1>2, Division
<1>4. p < Len(q)
  BY <1>0, <1>2, QuotientBelow DEF Room
<1>5. slots_of(q)[k] = slot(q[p + 1], m)
  BY DEF slots_of, Room
<1> HIDE DEF p, m
<1>6. p + 1 \in 1 .. Len(q) /\ (p + 1) - 1 = p /\ p * PerClust \in Nat
  BY <1>0, <1>3, <1>4, Products
<1>7. k = ((p + 1) - 1) * PerClust + m + 1
  BY <1>1, <1>3, <1>6
<1> QED BY <1>3, <1>5, <1>6, <1>7 DEF Indices

LEMMA PositionOf ==
  ASSUME NEW q \in Seq(Clusters), NEW i \in 1 .. Len(q), NEW j \in Indices
  PROVE  /\ (i - 1) * PerClust + j + 1 \in 1 .. Room(q)
         /\ slots_of(q)[(i - 1) * PerClust + j + 1] = slot(q[i], j)
<1> DEFINE a == (i - 1) * PerClust + j
<1>0. PerClust \in Nat \ {0} /\ Len(q) \in Nat /\ i - 1 \in Nat /\ j \in 0 .. (PerClust - 1)
  BY TreeAssumption DEF Indices
<1>1. Room(q) \in Nat /\ (i - 1) * PerClust \in Nat /\ a \in Nat
  BY <1>0, Products DEF Room
<1>2. a \div PerClust = i - 1 /\ a % PerClust = j
  BY <1>0, <1>1, DivisionUnique
<1>3. a < Room(q)
  BY <1>0, <1>1, <1>2, QuotientBelow DEF Room
<1> HIDE DEF a
<1>4. a + 1 \in 1 .. Room(q) /\ (a + 1) - 1 = a /\ (i - 1) + 1 = i
  BY <1>0, <1>1, <1>3
<1>5. slots_of(q)[a + 1] = slot(q[((a + 1) - 1) \div PerClust + 1], ((a + 1) - 1) % PerClust)
  BY <1>4 DEF slots_of, Room
<1>6. slots_of(q)[a + 1] = slot(q[i], j)
  BY <1>2, <1>4, <1>5
<1> QED BY <1>4, <1>6 DEF a

LEMMA SlotsType ==
  ASSUME NEW q \in Seq(Clusters), Len(q) > 0
  PROVE  /\ slots_of(q) \in [1 .. Room(q) -> Slots] /\ slots_of(q) \in Seq(Slots)
         /\ DOMAIN slots_of(q) = 1 .. Room(q) /\ Len(slots_of(q)) = Room(q)
         /\ Room(q) \in Nat /\ Room(q) >= PerClust
         /\ \A k \in 1 .. Room(q) : slots_of(q)[k] \in Slots
<1>0. PerClust \in Nat \ {0} /\ Len(q) \in Nat
  BY TreeAssumption
<1>1. Room(q) \in Nat
  BY <1>0, Products DEF Room
<1>2. Room(q) >= PerClust
  BY <1>0, Products DEF Room
<1>3. \A k \in 1 .. Room(q) : slots_of(q)[k] \in Slots
  <2> TAKE k \in 1 .. Room(q)
  <2>1. PICK i \in 1 .. Len(q), j \in Indices : slots_of(q)[k] = slot(q[i], j)
    BY SlotAt
  <2> QED BY <2>1 DEF Slots
<1>4. slots_of(q) \in [1 .. Room(q) -> Slots]
  <2>1. slots_of(q) = [k \in 1 .. Room(q) |-> slots_of(q)[k]]
    BY DEF slots_of, Room
  <2> QED BY <1>3, <2>1
<1> HIDE DEF Room
<1>5. slots_of(q) \in Seq(Slots) /\ Len(slots_of(q)) = Room(q)
  BY <1>1, <1>4
<1> QED BY <1>1, <1>2, <1>3, <1>4, <1>5

(* No slot is there twice. *)
LEMMA SlotsOnce ==
  ASSUME NEW q \in Seq(Clusters), Once(q), NEW k \in 1 .. Room(q), NEW l \in 1 .. Room(q),
         slots_of(q)[k] = slots_of(q)[l]
  PROVE  k = l
<1>1. PICK i \in 1 .. Len(q), j \in Indices :
        k = (i - 1) * PerClust + j + 1 /\ slots_of(q)[k] = slot(q[i], j)
  BY SlotAt
<1>2. PICK m \in 1 .. Len(q), n \in Indices :
        l = (m - 1) * PerClust + n + 1 /\ slots_of(q)[l] = slot(q[m], n)
  BY SlotAt
<1>3. q[i] = q[m] /\ j = n
  BY <1>1, <1>2 DEF slot
<1>4. i = m
  BY <1>3 DEF Once
<1> QED BY <1>1, <1>2, <1>3, <1>4

(* The first slots, and the last. *)
LEMMA FirstSlots ==
  ASSUME NEW q \in Seq(Clusters), Len(q) > 0, NEW j \in Indices
  PROVE  j + 1 \in 1 .. Room(q) /\ slots_of(q)[j + 1] = slot(q[1], j)
<1>1. 1 \in 1 .. Len(q) /\ PerClust \in Nat /\ j \in Nat
  BY TreeAssumption DEF Indices
<1>2. (1 - 1) * PerClust + j + 1 = j + 1
  BY <1>1
<1> QED BY <1>1, <1>2, PositionOf

LEMMA LastSlot ==
  ASSUME NEW q \in Seq(Clusters), Len(q) > 0
  PROVE  Room(q) \in 1 .. Room(q) /\ slots_of(q)[Room(q)] = slot(q[Len(q)], PerClust - 1)
<1>1. Len(q) \in 1 .. Len(q) /\ PerClust \in Nat \ {0} /\ PerClust - 1 \in Indices /\ Len(q) - 1 \in Nat
  BY TreeAssumption DEF Indices
<1>2. ((Len(q) - 1) + 1) * PerClust = (Len(q) - 1) * PerClust + PerClust /\ (Len(q) - 1) * PerClust \in Nat
  BY <1>1, Products
<1>3. (Len(q) - 1) + 1 = Len(q)
  BY <1>1
<1>4. (Len(q) - 1) * PerClust + (PerClust - 1) + 1 = Room(q)
  BY <1>1, <1>2, <1>3 DEF Room
<1> QED BY <1>1, <1>4, PositionOf

(* One more cluster has its slots behind the others. *)
LEMMA SlotsLonger ==
  ASSUME NEW q \in Seq(Clusters), Len(q) > 0, NEW n \in Clusters \ Range(q)
  PROVE  /\ Append(q, n) \in Seq(Clusters) /\ Room(Append(q, n)) = Room(q) + PerClust
         /\ \A k \in 1 .. Room(q) : slots_of(Append(q, n))[k] = slots_of(q)[k] /\ slots_of(q)[k][2] # n
         /\ slots_of(Append(q, n))[Room(q) + 1] = slot(n, 0)
<1> DEFINE r == Append(q, n)
<1>1. /\ r \in Seq(Clusters) /\ Len(r) = Len(q) + 1 /\ r[Len(q) + 1] = n /\ Len(q) \in Nat
      /\ \A i \in 1 .. Len(q) : r[i] = q[i] /\ q[i] # n
  BY DEF Range
<1> HIDE DEF r
<1>2. PerClust \in Nat \ {0} /\ 0 \in Indices
  BY TreeAssumption DEF Indices
<1>3. Room(r) = Room(q) + PerClust /\ Room(q) \in Nat
  BY <1>1, <1>2, Products DEF Room
<1>4. ASSUME NEW k \in 1 .. Room(q)
      PROVE  slots_of(r)[k] = slots_of(q)[k] /\ slots_of(q)[k][2] # n
  <2>1. PICK i \in 1 .. Len(q), j \in Indices :
          k = (i - 1) * PerClust + j + 1 /\ slots_of(q)[k] = slot(q[i], j)
    BY SlotAt
  <2>2. i \in 1 .. Len(r)
    BY <1>1
  <2>3. slots_of(r)[(i - 1) * PerClust + j + 1] = slot(r[i], j)
    BY <1>1, <2>2, PositionOf
  <2>4. r[i] = q[i] /\ q[i] # n
    BY <1>1
  <2>5. slot(q[i], j)[2] = q[i]
    BY DEF slot
  <2> QED BY <2>1, <2>3, <2>4, <2>5
<1>5. slots_of(r)[Room(q) + 1] = slot(n, 0)
  <2>1. Len(q) + 1 \in 1 .. Len(r)
    BY <1>1
  <2>2. slots_of(r)[((Len(q) + 1) - 1) * PerClust + 0 + 1] = slot(r[Len(q) + 1], 0)
    BY <1>1, <1>2, <2>1, PositionOf
  <2>3. ((Len(q) + 1) - 1) * PerClust + 0 + 1 = Room(q) + 1
    <3>1. (Len(q) + 1) - 1 = Len(q)
      BY <1>1
    <3> QED BY <1>3, <3>1 DEF Room
  <2> QED BY <1>1, <2>2, <2>3
<1> QED BY <1>1, <1>3, <1>4, <1>5 DEF r

-----------------------------------------------------------------------------
(* Cells and what they hold. *)

FatValue == Clusters \cup {CLUST_FREE, CLUST_LAST}
Store ==
  {d \in [TreeCells -> FatValue \cup SlotValue] :
     /\ \A c \in ClustOrNone : d[fat(c)] \in FatValue
     /\ \A s \in Slots : d[s] \in SlotValue
     /\ d[fat(NoClust)] \notin Clusters}

LEMMA CellKinds ==
  /\ \A c \in ClustOrNone : fat(c) \in TreeCells /\ fat(c) \in FatCells /\ fat(c) \notin Slots
  /\ \A c \in Clusters, i \in Indices : slot(c, i) \in Slots /\ slot(c, i) \in TreeCells
  /\ \A s \in Slots : s \in TreeCells /\ s \notin FatCells
  /\ \A s \in Slots : s[2] \in Clusters /\ s[3] \in Indices /\ s = slot(s[2], s[3])
  /\ \A c, e : fat(c) = fat(e) => c = e
  /\ \A c, e, i, j : slot(c, i) = slot(e, j) => c = e /\ i = j
  /\ \A c, i : slot(c, i)[2] = c /\ slot(c, i)[3] = i
  /\ \A c, e, i : fat(c) # slot(e, i)
<1>1. \A c, e, i : fat(c) # slot(e, i)
  <2> TAKE c, e, i
  <2>1. fat(c)[1] = "fat" /\ slot(e, i)[1] = "slot"
    BY DEF fat, slot
  <2> QED BY <2>1
<1>2. \A c, e : fat(c) = fat(e) => c = e
  <2> TAKE c, e
  <2>1. fat(c)[2] = c /\ fat(e)[2] = e
    BY DEF fat
  <2> QED BY <2>1
<1>3. \A c, i : slot(c, i)[2] = c /\ slot(c, i)[3] = i
  BY DEF slot
<1>4. \A c, e, i, j : slot(c, i) = slot(e, j) => c = e /\ i = j
  <2> TAKE c, e, i, j
  <2>1. slot(c, i)[2] = c /\ slot(c, i)[3] = i /\ slot(e, j)[2] = e /\ slot(e, j)[3] = j
    BY <1>3
  <2> QED BY <2>1
<1> HIDE DEF slot, fat
<1>5. \A s \in Slots : s[2] \in Clusters /\ s[3] \in Indices /\ s = slot(s[2], s[3])
  BY <1>3 DEF Slots
<1>6. \A s \in Slots : s \notin FatCells
  BY <1>1 DEF Slots, FatCells
<1>7. \A c \in ClustOrNone : fat(c) \in TreeCells /\ fat(c) \in FatCells /\ fat(c) \notin Slots
  BY <1>1 DEF Slots, FatCells, TreeCells
<1>8. \A c \in Clusters, i \in Indices : slot(c, i) \in Slots /\ slot(c, i) \in TreeCells
  BY DEF Slots, TreeCells
<1>9. \A s \in Slots : s \in TreeCells
  BY DEF TreeCells
<1> QED BY <1>1, <1>2, <1>3, <1>4, <1>5, <1>6, <1>7, <1>8, <1>9

LEMMA ValueKinds ==
  /\ \A v \in SlotValue : is_entry(v) =>
       v \in Entries /\ v[1] \in Kinds /\ v[2] \in Names /\ v[3] \in ClustOrNone
  /\ ~is_entry(Free) /\ ~is_entry(Last) /\ ~is_entry(Junk)
  /\ \A c : ~is_entry(dot(c)) /\ ~is_entry(dotdot(c)) /\ ~is_free(dot(c)) /\ ~is_free(dotdot(c))
  /\ \A v : is_entry(v) => ~is_free(v) /\ v # Junk /\ v[1] \notin {"dot", "dotdot"}
  /\ Free # Last /\ Junk # Free /\ Junk # Last
  /\ {Free, Last, Junk} \subseteq SlotValue /\ Entries \subseteq SlotValue
  /\ \A c : dot(c)[1] = "dot" /\ dotdot(c)[1] = "dotdot" /\ dot(c) # Junk /\ dotdot(c) # Junk
<1>1. Free[1] = "free" /\ Last[1] = "last" /\ Junk[1] = "junk"
  BY DEF Free, Last, Junk
<1>2. \A c : dot(c)[1] = "dot" /\ dotdot(c)[1] = "dotdot"
  BY DEF dot, dotdot
<1>3. \A v \in Entries : v[1] \in Kinds /\ v[2] \in Names /\ v[3] \in ClustOrNone
  BY DEF Entries
<1>4. \A v \in SlotValue :
        v \in {Free, Last, Junk} \/ v \in Entries \/ (\E c : v = dot(c)) \/ (\E c : v = dotdot(c))
  BY DEF SlotValue
<1>5. {Free, Last, Junk} \subseteq SlotValue /\ Entries \subseteq SlotValue
  BY DEF SlotValue
<1> HIDE DEF Free, Last, Junk, dot, dotdot, Entries, SlotValue
<1> QED BY <1>1, <1>2, <1>3, <1>4, <1>5 DEF is_entry, is_free, Kinds

LEMMA ValueType ==
  /\ \A c \in Clusters : dot(c) \in SlotValue
  /\ \A c \in ClustOrNone : dotdot(c) \in SlotValue
BY DEF SlotValue

LEMMA FatKinds ==
  /\ CLUST_FREE \notin Clusters /\ CLUST_LAST \notin Clusters /\ CLUST_FREE # CLUST_LAST
  /\ Root \in Clusters /\ NoClust \notin Clusters /\ Clusters \subseteq ClustOrNone
  /\ NoClust \in ClustOrNone
  /\ 0 \in Indices /\ 1 \in Indices /\ 2 \in Indices /\ PerClust \in Nat \ {0}
  /\ Cell = TreeCells
BY TreeAssumption DEF CLUST_FREE, CLUST_LAST, ClustOrNone, Indices

-----------------------------------------------------------------------------
(* What a directory lists. *)

(* Its first end marker is in slot m. *)
EndAt(d, c, m) ==
  /\ m \in DOMAIN slots(d, c) /\ d[slots(d, c)[m]] = Last
  /\ \A k \in 1 .. (m - 1) : d[slots(d, c)[k]] # Last

Ended(d, c) == \E m \in Nat : EndAt(d, c, m)

LEMMA ProperType ==
  ASSUME NEW d, NEW c, Proper(d, c)
  PROVE  /\ chain(d, c) \in Seq(Clusters) /\ Len(chain(d, c)) > 0 /\ Len(chain(d, c)) \in Nat
         /\ Once(chain(d, c)) /\ chain(d, c)[1] = c
         /\ members(d, c) = {chain(d, c)[i] : i \in 1 .. Len(chain(d, c))}
         /\ members(d, c) \subseteq Clusters /\ c \in members(d, c) /\ c \in Clusters
<1>1. /\ chain(d, c) \in Seq(Clusters) /\ Len(chain(d, c)) > 0 /\ Once(chain(d, c)) /\ chain(d, c)[1] = c
      /\ Len(chain(d, c)) \in Nat
  BY DEF Proper, Linked
<1>2. members(d, c) = {chain(d, c)[i] : i \in 1 .. Len(chain(d, c))}
  BY <1>1 DEF members, Range
<1>3. members(d, c) \subseteq Clusters
  BY <1>1, <1>2
<1>4. 1 \in 1 .. Len(chain(d, c))
  BY <1>1
<1>5. c \in members(d, c)
  BY <1>1, <1>2, <1>4
<1> QED BY <1>1, <1>2, <1>3, <1>5

LEMMA SlotsOf ==
  ASSUME NEW d, NEW c, Proper(d, c)
  PROVE  /\ DOMAIN slots(d, c) = 1 .. Len(slots(d, c)) /\ Len(slots(d, c)) \in Nat
         /\ Len(slots(d, c)) = Room(chain(d, c)) /\ Len(slots(d, c)) >= PerClust
         /\ \A k \in 1 .. Len(slots(d, c)) : slots(d, c)[k] \in Slots /\ slots(d, c)[k][2] \in members(d, c)
         /\ \A k, l \in 1 .. Len(slots(d, c)) : slots(d, c)[k] = slots(d, c)[l] => k = l
         /\ \A j \in Indices : j + 1 \in 1 .. Len(slots(d, c)) /\ slots(d, c)[j + 1] = slot(c, j)
         /\ \A x \in members(d, c), j \in Indices :
              \E k \in 1 .. Len(slots(d, c)) : slots(d, c)[k] = slot(x, j)
<1> DEFINE q == chain(d, c)
<1>1. /\ q \in Seq(Clusters) /\ Len(q) > 0 /\ Once(q) /\ q[1] = c
      /\ members(d, c) = {q[i] : i \in 1 .. Len(q)} /\ slots(d, c) = slots_of(q)
  BY ProperType DEF slots
<1> HIDE DEF q
<1>2. /\ DOMAIN slots_of(q) = 1 .. Room(q) /\ Len(slots_of(q)) = Room(q)
      /\ Room(q) \in Nat /\ Room(q) >= PerClust
      /\ \A k \in 1 .. Room(q) : slots_of(q)[k] \in Slots
  BY <1>1, SlotsType
<1>3. \A k \in 1 .. Room(q) : slots_of(q)[k][2] \in members(d, c)
  <2> TAKE k \in 1 .. Room(q)
  <2>1. PICK i \in 1 .. Len(q), j \in Indices : slots_of(q)[k] = slot(q[i], j)
    BY <1>1, SlotAt
  <2> QED BY <1>1, <2>1, CellKinds
<1>4. \A k, l \in 1 .. Room(q) : slots_of(q)[k] = slots_of(q)[l] => k = l
  BY <1>1, SlotsOnce
<1>5. \A j \in Indices : j + 1 \in 1 .. Room(q) /\ slots_of(q)[j + 1] = slot(c, j)
  BY <1>1, FirstSlots
<1>6. \A x \in members(d, c), j \in Indices : \E k \in 1 .. Room(q) : slots_of(q)[k] = slot(x, j)
  <2> TAKE x \in members(d, c), j \in Indices
  <2>1. PICK i \in 1 .. Len(q) : x = q[i]
    BY <1>1
  <2> QED BY <1>1, <2>1, PositionOf
<1>7. q = chain(d, c)
  BY DEF q
<1> QED BY <1>1, <1>2, <1>3, <1>4, <1>5, <1>6, <1>7

LEMMA Listing ==
  ASSUME NEW d, NEW c, Proper(d, c), NEW m, EndAt(d, c, m)
  PROVE  /\ m \in 1 .. Len(slots(d, c)) /\ m \in Nat
         /\ listing(d, c) = {slots(d, c)[k] : k \in {j \in 1 .. (m - 1) : d[slots(d, c)[j]] # Free}}
         /\ listing(d, c) \subseteq Slots
         /\ \A s \in listing(d, c) : ~is_free(d[s]) /\ s[2] \in members(d, c)
         /\ entries(d, c) \subseteq listing(d, c)
<1> DEFINE s == slots(d, c)
<1>1. DOMAIN s = 1 .. Len(s) /\ Len(s) \in Nat
  BY SlotsOf
<1>2. m \in 1 .. Len(s) /\ m \in Nat /\ d[s[m]] = Last /\ \A k \in 1 .. (m - 1) : d[s[k]] # Last
  BY <1>1 DEF EndAt
<1>3. \A k \in 1 .. Len(s) : s[k] \in Slots /\ s[k][2] \in members(d, c)
  BY SlotsOf
<1>4. {j \in DOMAIN s : ~is_free(d[s[j]]) /\ \A e \in {k \in DOMAIN s : d[s[k]] = Last} : j < e}
        = {j \in 1 .. (m - 1) : d[s[j]] # Free}
  <2>1. ASSUME NEW j \in DOMAIN s, ~is_free(d[s[j]]), \A e \in {k \in DOMAIN s : d[s[k]] = Last} : j < e
        PROVE  j \in 1 .. (m - 1) /\ d[s[j]] # Free
    <3>1. j < m
      BY <1>1, <1>2, <2>1
    <3> QED BY <1>1, <1>2, <2>1, <3>1 DEF is_free
  <2>2. ASSUME NEW j \in 1 .. (m - 1), d[s[j]] # Free
        PROVE  /\ j \in DOMAIN s /\ ~is_free(d[s[j]])
               /\ \A e \in {k \in DOMAIN s : d[s[k]] = Last} : j < e
    <3>1. j \in DOMAIN s
      BY <1>1, <1>2
    <3>2. ~is_free(d[s[j]])
      BY <1>2, <2>2 DEF is_free
    <3>3. ASSUME NEW e \in DOMAIN s, d[s[e]] = Last PROVE j < e
      <4>1. ~(e \in 1 .. (m - 1))
        BY <1>2, <3>3
      <4> QED BY <1>1, <1>2, <4>1
    <3> QED BY <3>1, <3>2, <3>3
  <2> QED BY <2>1, <2>2
<1>5. listing(d, c) = {s[k] : k \in {j \in 1 .. (m - 1) : d[s[j]] # Free}}
  BY <1>4 DEF listing
<1>6. \A k \in 1 .. (m - 1) : k \in 1 .. Len(s)
  BY <1>1, <1>2
<1>7. ASSUME NEW x \in listing(d, c) PROVE x \in Slots /\ ~is_free(d[x]) /\ x[2] \in members(d, c)
  <2>1. PICK k \in 1 .. (m - 1) : x = s[k] /\ d[s[k]] # Free
    BY <1>5
  <2>2. x \in Slots /\ x[2] \in members(d, c)
    BY <1>3, <1>6, <2>1
  <2> QED BY <1>2, <2>1, <2>2 DEF is_free
<1>8. entries(d, c) \subseteq listing(d, c)
  BY DEF entries
<1> QED BY <1>1, <1>2, <1>5, <1>7, <1>8

LEMMA UpToEnd ==
  ASSUME NEW d, NEW c, Proper(d, c), NEW m, EndAt(d, c, m), NEW k \in 1 .. m
  PROVE  /\ k \in 1 .. Len(slots(d, c)) /\ m \in 1 .. Len(slots(d, c)) /\ Len(slots(d, c)) \in Nat
         /\ slots(d, c)[k] \in Slots /\ slots(d, c)[k][2] \in members(d, c)
<1>1. m \in 1 .. Len(slots(d, c)) /\ Len(slots(d, c)) \in Nat
  BY Listing, SlotsOf
<1>2. k \in 1 .. Len(slots(d, c))
  BY <1>1
<1> QED BY <1>1, <1>2, SlotsOf

(* A directory with an end marker has a first one. *)
LEMMA FirstEnd ==
  ASSUME NEW d, NEW c, Proper(d, c), NEW k \in 1 .. Len(slots(d, c)), d[slots(d, c)[k]] = Last
  PROVE  \E m \in 1 .. k : EndAt(d, c, m)
<1> DEFINE s == slots(d, c)
           T == {j \in 1 .. Len(s) : d[s[j]] = Last}
<1>1. DOMAIN s = 1 .. Len(s) /\ Len(s) \in Nat
  BY SlotsOf
<1>2. T \in SUBSET Nat /\ k \in T
  BY <1>1
<1>3. PICK m \in T : \A j \in T : m <= j
  <2> HIDE DEF T
  <2> QED BY <1>2, LeastNat
<1>4. m \in 1 .. Len(s) /\ d[s[m]] = Last /\ m <= k /\ m \in 1 .. k
  BY <1>1, <1>2, <1>3
<1>5. \A j \in 1 .. (m - 1) : d[s[j]] # Last
  <2> TAKE j \in 1 .. (m - 1)
  <2>1. j \in 1 .. Len(s) /\ ~(m <= j)
    BY <1>1, <1>4
  <2> QED BY <1>3, <2>1
<1> QED BY <1>1, <1>4, <1>5 DEF EndAt

(* What is up to the end marker is all there is. *)
LEMMA ListSame ==
  ASSUME NEW d, NEW e, NEW c, Proper(d, c), Proper(e, c), NEW m, EndAt(d, c, m),
         m \in 1 .. Len(slots(e, c)),
         \A k \in 1 .. m : slots(e, c)[k] = slots(d, c)[k] /\ e[slots(d, c)[k]] = d[slots(d, c)[k]]
  PROVE  /\ EndAt(e, c, m) /\ listing(e, c) = listing(d, c) /\ entries(e, c) = entries(d, c)
         /\ \A s \in listing(d, c) : e[s] = d[s]
<1> DEFINE s == slots(d, c)
<1>1. m \in Nat /\ m > 0 /\ m \in 1 .. m /\ DOMAIN slots(e, c) = 1 .. Len(slots(e, c))
  BY Listing, SlotsOf
<1>2. \A k \in 1 .. (m - 1) : k \in 1 .. m
  BY <1>1
<1>3. d[s[m]] = Last /\ \A k \in 1 .. (m - 1) : d[s[k]] # Last
  BY DEF EndAt
<1>4. EndAt(e, c, m)
  BY <1>1, <1>2, <1>3 DEF EndAt
<1>5. listing(d, c) = {s[k] : k \in {j \in 1 .. (m - 1) : d[s[j]] # Free}}
  BY Listing
<1>6. listing(e, c) = {slots(e, c)[k] : k \in {j \in 1 .. (m - 1) : e[slots(e, c)[j]] # Free}}
  BY <1>4, Listing
<1>7. \A k \in 1 .. (m - 1) : slots(e, c)[k] = s[k] /\ e[slots(e, c)[k]] = d[s[k]]
  BY <1>2
<1> HIDE DEF s
<1>8. listing(e, c) = listing(d, c)
  <2>1. ASSUME NEW x \in listing(e, c) PROVE x \in listing(d, c)
    <3>1. PICK k \in 1 .. (m - 1) : x = slots(e, c)[k] /\ e[slots(e, c)[k]] # Free
      BY <1>6
    <3> QED BY <1>5, <1>7, <3>1
  <2>2. ASSUME NEW x \in listing(d, c) PROVE x \in listing(e, c)
    <3>1. PICK k \in 1 .. (m - 1) : x = s[k] /\ d[s[k]] # Free
      BY <1>5
    <3> QED BY <1>6, <1>7, <3>1
  <2> QED BY <2>1, <2>2
<1>9. \A x \in listing(d, c) : e[x] = d[x]
  BY <1>5, <1>7
<1>10. entries(e, c) = entries(d, c)
  BY <1>8, <1>9 DEF entries
<1> QED BY <1>4, <1>8, <1>9, <1>10

-----------------------------------------------------------------------------
(* The invariant of a store: D are its directories, X the entry that is being
   removed, if there is one. *)

up(c) == IF c = Root THEN NoClust ELSE c
heads(d, D, X) == (UNION {entries(d, c) : c \in D}) \ X
owners(d, H) == ({Root} \cup {d[s][3] : s \in H}) \ {NoClust}

Chained(d, O) ==
  /\ \A c \in O : Proper(d, c) /\ \A x \in members(d, c) : d[fat(x)] # CLUST_FREE
  /\ \A c, e \in O : c # e => members(d, c) \cap members(d, e) = {}

(* An entry s in the directory c. *)
Kept1(d, D, c, s) ==
  d[s][1] = "dir" => d[s][3] \in D /\ Dotted(d, <<d[s][3], up(c)>>)

Filed(d, D, X) ==
  /\ Root \in D /\ D \subseteq Clusters
  /\ \A c \in D : Ended(d, c) /\ OnlyNames(d, <<c, NoClust>>)
  /\ \A c \in D : \A s \in entries(d, c) :
       IF s \in X THEN d[s][1] = "dir" => entries(d, d[s][3]) = {} ELSE Kept1(d, D, c, s)
  /\ \A c \in D \ {Root} : \E s \in heads(d, D, X) : d[s][1] = "dir" /\ d[s][3] = c
  /\ \A s \in heads(d, D, X) : d[s][3] # Root
  /\ \A s, t \in heads(d, D, X) : d[s][3] = d[t][3] /\ d[s][3] # NoClust => s = t

Good(d, D, X) == d \in Store /\ Filed(d, D, X) /\ Chained(d, owners(d, heads(d, D, X)))

(* Directories have chains of their own. *)
LEMMA DirsOwn ==
  ASSUME NEW d, NEW D, NEW X, Good(d, D, X)
  PROVE  /\ D \subseteq owners(d, heads(d, D, X))
         /\ \A c \in D : Proper(d, c) /\ Ended(d, c) /\ OnlyNames(d, <<c, NoClust>>)
         /\ \A c, e \in D : c # e => members(d, c) \cap members(d, e) = {}
<1> DEFINE O == owners(d, heads(d, D, X))
<1>1. Filed(d, D, X) /\ Chained(d, O)
  BY DEF Good
<1>2. ASSUME NEW c \in D PROVE c \in O
  <2>1. c # NoClust
    BY <1>1, FatKinds DEF Filed
  <2>2. CASE c = Root
    BY <2>1, <2>2 DEF owners
  <2>3. CASE c # Root
    <3>1. PICK s \in heads(d, D, X) : d[s][3] = c
      BY <1>1, <2>3 DEF Filed
    <3> QED BY <2>1, <3>1 DEF owners
  <2> QED BY <2>2, <2>3
<1> HIDE DEF O
<1>3. \A c \in D : Proper(d, c) /\ Ended(d, c) /\ OnlyNames(d, <<c, NoClust>>)
  BY <1>1, <1>2 DEF Filed, Chained
<1>4. \A c, e \in D : c # e => members(d, c) \cap members(d, e) = {}
  BY <1>1, <1>2 DEF Chained
<1> QED BY <1>2, <1>3, <1>4 DEF O

(* What an entry is. *)
LEMMA EntryType ==
  ASSUME NEW d \in Store, NEW c, Proper(d, c), Ended(d, c)
  PROVE  /\ entries(d, c) \subseteq listing(d, c) /\ listing(d, c) \subseteq Slots
         /\ \A s \in listing(d, c) : s[2] \in members(d, c) /\ d[s] \in SlotValue
         /\ \A s \in entries(d, c) :
              /\ is_entry(d[s]) /\ s \in Slots /\ d[s] \in Entries
              /\ d[s][1] \in Kinds /\ d[s][2] \in Names /\ d[s][3] \in ClustOrNone
<1>1. PICK m \in Nat : EndAt(d, c, m)
  BY DEF Ended
<1>2. /\ entries(d, c) \subseteq listing(d, c) /\ listing(d, c) \subseteq Slots
      /\ \A s \in listing(d, c) : s[2] \in members(d, c)
  BY <1>1, Listing
<1>3. \A s \in entries(d, c) : is_entry(d[s])
  BY DEF entries
<1>4. \A s \in Slots : d[s] \in SlotValue
  BY DEF Store
<1> QED BY <1>2, <1>3, <1>4, ValueKinds

LEMMA EntryIs ==
  ASSUME NEW d, NEW D, NEW X, Good(d, D, X), NEW c \in D, NEW s \in entries(d, c)
  PROVE  /\ is_entry(d[s]) /\ s \in Slots /\ d[s] \in Entries /\ s \in listing(d, c)
         /\ d[s][1] \in Kinds /\ d[s][2] \in Names /\ d[s][3] \in ClustOrNone
         /\ s[2] \in members(d, c)
<1>1. d \in Store /\ Proper(d, c) /\ Ended(d, c)
  BY DirsOwn DEF Good
<1>2. /\ entries(d, c) \subseteq listing(d, c)
      /\ \A t \in listing(d, c) : t[2] \in members(d, c)
      /\ \A t \in entries(d, c) :
           /\ is_entry(d[t]) /\ t \in Slots /\ d[t] \in Entries
           /\ d[t][1] \in Kinds /\ d[t][2] \in Names /\ d[t][3] \in ClustOrNone
  BY <1>1, EntryType
<1> QED BY <1>2

(* An entry lies in one directory only. *)
LEMMA EntryIn ==
  ASSUME NEW d, NEW D, NEW X, Good(d, D, X), NEW c \in D, NEW e \in D, c # e
  PROVE  listing(d, c) \cap listing(d, e) = {}
<1>1. d \in Store /\ Proper(d, c) /\ Ended(d, c) /\ Proper(d, e) /\ Ended(d, e)
  BY DirsOwn DEF Good
<1>2. members(d, c) \cap members(d, e) = {}
  BY DirsOwn
<1>3. /\ \A s \in listing(d, c) : s[2] \in members(d, c)
      /\ \A s \in listing(d, e) : s[2] \in members(d, e)
  BY <1>1, EntryType
<1> QED BY <1>2, <1>3

-----------------------------------------------------------------------------
(* The nodes of a store. *)

Grown(d, N) == UNION {below(d, x) : x \in {y \in N : y[2] = "dir"}}

LEMMA Levels ==
  ASSUME NEW d
  PROVE  /\ levels(d)[0] = {<<<<>>, "dir", Root>>}
         /\ \A i \in 1 .. MaxDepth : levels(d)[i] = Grown(d, levels(d)[i - 1])
<1> DEFINE first == {<<<<>>, "dir", Root>>}
           is(f, m) == /\ f = [k \in 0 .. m |-> f[k]] /\ f[0] = first
                       /\ \A k \in 1 .. m : f[k] = Grown(d, f[k - 1])
           rec(w) == w = [i \in 0 .. MaxDepth |->
                            IF i = 0 THEN {<<<<>>, "dir", Root>>}
                            ELSE UNION {below(d, x) : x \in {y \in w[i - 1] : y[2] = "dir"}}]
           W == CHOOSE w : rec(w)
           T == {m \in Nat : \E f : is(f, m)}
<1>0. MaxDepth \in Nat
  BY TreeAssumption
<1>1. 0 \in T
  <2> DEFINE f == [k \in 0 .. 0 |-> first]
  <2>1. is(f, 0)
    OBVIOUS
  <2> QED BY <2>1
<1>2. ASSUME NEW m \in Nat, m \in T PROVE m + 1 \in T
  <2>1. PICK f : is(f, m)
    BY <1>2
  <2> DEFINE g == [k \in 0 .. (m + 1) |-> IF k = m + 1 THEN Grown(d, f[m]) ELSE f[k]]
  <2>2. g = [k \in 0 .. (m + 1) |-> g[k]]
    OBVIOUS
  <2>3. g[0] = first
    BY <2>1
  <2>4. \A k \in 1 .. (m + 1) : g[k] = Grown(d, g[k - 1])
    <3> TAKE k \in 1 .. (m + 1)
    <3>1. k - 1 \in 0 .. (m + 1) /\ k - 1 # m + 1 /\ k \in 0 .. (m + 1)
      OBVIOUS
    <3>2. g[k - 1] = f[k - 1]
      BY <3>1
    <3>3. CASE k = m + 1
      BY <3>1, <3>2, <3>3
    <3>4. CASE k # m + 1
      <4>1. k \in 1 .. m
        BY <3>4
      <4>2. f[k] = Grown(d, f[k - 1]) /\ g[k] = f[k]
        BY <2>1, <3>1, <3>4, <4>1
      <4> QED BY <3>2, <4>2
    <3> QED BY <3>3, <3>4
  <2>5. is(g, m + 1)
    BY <2>2, <2>3, <2>4
  <2> HIDE DEF g, is
  <2> QED BY <2>5
<1>3. PICK f : is(f, MaxDepth)
  <2>1. MaxDepth \in T
    <3> HIDE DEF T
    <3> QED BY <1>0, <1>1, <1>2, Induction
  <2> QED BY <2>1
<1>4. rec(f)
  <2>1. ASSUME NEW i \in 0 .. MaxDepth
        PROVE  f[i] = IF i = 0 THEN first ELSE Grown(d, f[i - 1])
    <3>1. CASE i = 0
      BY <1>3, <3>1
    <3>2. CASE i \in 1 .. MaxDepth
      BY <1>3, <3>2
    <3> QED BY <1>0, <3>1, <3>2
  <2>2. f = [i \in 0 .. MaxDepth |-> f[i]]
    BY <1>3
  <2>3. [i \in 0 .. MaxDepth |-> f[i]] =
          [i \in 0 .. MaxDepth |-> IF i = 0 THEN first ELSE Grown(d, f[i - 1])]
    <3> HIDE DEF first
    <3> QED BY <2>1
  <2>4. f = [i \in 0 .. MaxDepth |-> IF i = 0 THEN first ELSE Grown(d, f[i - 1])]
    <3> HIDE DEF first
    <3> QED BY <2>2, <2>3
  <2> QED BY <2>4 DEF Grown
<1>5. rec(W)
  BY <1>4
<1>6. levels(d) = W
  BY DEF levels
<1> HIDE DEF W
<1>7. W[0] = first
  <2>1. 0 \in 0 .. MaxDepth
    BY <1>0
  <2> QED BY <1>5, <2>1
<1>8. \A i \in 1 .. MaxDepth : W[i] = Grown(d, W[i - 1])
  <2> TAKE i \in 1 .. MaxDepth
  <2>1. i \in 0 .. MaxDepth /\ i # 0
    BY <1>0
  <2> QED BY <1>5, <2>1 DEF Grown
<1> QED BY <1>6, <1>7, <1>8

(* A level of the tree: paths of one length, each once. *)
Level(d, D, N, i) ==
  \A x \in N :
    /\ x[1] \in Seq(Names) /\ Len(x[1]) = i
    /\ x[2] = "dir" => x[3] \in D \/ entries(d, x[3]) = {}
    /\ \A y \in N : x[1] = y[1] => x = y

(* Where a node comes from: an entry s of the directory y. *)
From(d, D, x, y, s) ==
  /\ y[2] = "dir" /\ y[3] \in D /\ s \in entries(d, y[3])
  /\ x = <<Append(y[1], d[s][2]), d[s][1], d[s][3]>>

LEMMA GrownFrom ==
  ASSUME NEW d, NEW D, NEW N, NEW i, Level(d, D, N, i), NEW x \in Grown(d, N)
  PROVE  \E y \in N : \E s : From(d, D, x, y, s)
<1>1. PICK y \in N : y[2] = "dir" /\ x \in below(d, y)
  BY DEF Grown
<1>2. PICK s \in entries(d, y[3]) : x = <<Append(y[1], d[s][2]), d[s][1], d[s][3]>>
  BY <1>1 DEF below
<1>3. y[3] \in D
  BY <1>1, <1>2 DEF Level
<1>4. From(d, D, x, y, s)
  BY <1>1, <1>2, <1>3 DEF From
<1> QED BY <1>4

LEMMA AppendParts ==
  ASSUME NEW S, NEW p \in Seq(S), NEW n \in S
  PROVE  /\ Append(p, n) \in Seq(S) /\ Len(Append(p, n)) = Len(p) + 1 /\ Append(p, n) # <<>>
         /\ Seqs!Front(Append(p, n)) = p /\ Append(p, n)[Len(p) + 1] = n /\ Len(p) \in Nat
<1>1. Append(p, n) \in Seq(S) /\ Len(Append(p, n)) = Len(p) + 1 /\ Append(p, n)[Len(p) + 1] = n /\ Len(p) \in Nat
  OBVIOUS
<1>2. Append(p, n) # <<>>
  BY <1>1
<1>3. Seqs!Front(Append(p, n)) = SubSeq(Append(p, n), 1, Len(p))
  BY <1>1 DEF Seqs!Front
<1>4. SubSeq(Append(p, n), 1, Len(p)) = p
  BY <1>1
<1> QED BY <1>1, <1>2, <1>3, <1>4

LEMMA NextLevel ==
  ASSUME NEW d, NEW D, NEW X, Good(d, D, X), NEW N, NEW i \in Nat, Level(d, D, N, i)
  PROVE  Level(d, D, Grown(d, N), i + 1)
<1>0. Filed(d, D, X) /\ d \in Store
  BY DEF Good
<1>1. ASSUME NEW x \in Grown(d, N)
      PROVE  x[1] \in Seq(Names) /\ Len(x[1]) = i + 1 /\ (x[2] = "dir" => x[3] \in D \/ entries(d, x[3]) = {})
  <2>1. PICK y \in N : \E s : From(d, D, x, y, s)
    BY GrownFrom
  <2>2. PICK s : From(d, D, x, y, s)
    BY <2>1
  <2>3. /\ y[3] \in D /\ s \in entries(d, y[3])
        /\ x[1] = Append(y[1], d[s][2]) /\ x[2] = d[s][1] /\ x[3] = d[s][3]
    BY <2>2 DEF From
  <2>4. y[1] \in Seq(Names) /\ Len(y[1]) = i
    BY DEF Level
  <2>5. d[s][2] \in Names
    BY <2>3, EntryIs
  <2>6. Append(y[1], d[s][2]) \in Seq(Names) /\ Len(Append(y[1], d[s][2])) = i + 1
    BY <2>4, <2>5, AppendParts
  <2>7. d[s][1] = "dir" => d[s][3] \in D \/ entries(d, d[s][3]) = {}
    BY <1>0, <2>3 DEF Filed, Kept1
  <2> QED BY <2>3, <2>6, <2>7
<1>2. ASSUME NEW x \in Grown(d, N), NEW z \in Grown(d, N), x[1] = z[1]
      PROVE  x = z
  <2>1. PICK y \in N : \E s : From(d, D, x, y, s)
    BY GrownFrom
  <2>2. PICK s : From(d, D, x, y, s)
    BY <2>1
  <2>3. PICK w \in N : \E t : From(d, D, z, w, t)
    BY GrownFrom
  <2>4. PICK t : From(d, D, z, w, t)
    BY <2>3
  <2>5. /\ y[3] \in D /\ s \in entries(d, y[3]) /\ x = <<Append(y[1], d[s][2]), d[s][1], d[s][3]>>
        /\ w[3] \in D /\ t \in entries(d, w[3]) /\ z = <<Append(w[1], d[t][2]), d[t][1], d[t][3]>>
    BY <2>2, <2>4 DEF From
  <2>6. y[1] \in Seq(Names) /\ w[1] \in Seq(Names)
    BY DEF Level
  <2>7. d[s][2] \in Names /\ d[t][2] \in Names
    BY <2>5, EntryIs
  <2>8. Append(y[1], d[s][2]) = Append(w[1], d[t][2])
    BY <1>2, <2>5
  <2>9. y[1] = w[1] /\ d[s][2] = d[t][2]
    <3>1. /\ Seqs!Front(Append(y[1], d[s][2])) = y[1] /\ Append(y[1], d[s][2])[Len(y[1]) + 1] = d[s][2]
          /\ Seqs!Front(Append(w[1], d[t][2])) = w[1] /\ Append(w[1], d[t][2])[Len(w[1]) + 1] = d[t][2]
      BY <2>6, <2>7, AppendParts
    <3> QED BY <2>8, <3>1
  <2>10. y = w
    BY <2>9 DEF Level
  <2>11. s = t
    <3>1. OnlyNames(d, <<y[3], NoClust>>)
      BY <2>5, DirsOwn
    <3>2. s \in listing(d, y[3]) /\ t \in listing(d, y[3]) /\ is_entry(d[s]) /\ is_entry(d[t])
      BY <2>5, <2>10 DEF entries
    <3>3. <<y[3], NoClust>>[1] = y[3]
      OBVIOUS
    <3> QED BY <2>9, <3>1, <3>2, <3>3 DEF OnlyNames
  <2> QED BY <2>5, <2>10, <2>11
<1> QED BY <1>1, <1>2 DEF Level

LEMMA LevelsAre ==
  ASSUME NEW d, NEW D, NEW X, Good(d, D, X)
  PROVE  \A i \in 0 .. MaxDepth : Level(d, D, levels(d)[i], i)
<1> DEFINE T == {i \in Nat : i <= MaxDepth => Level(d, D, levels(d)[i], i)}
<1>0. MaxDepth \in Nat
  BY TreeAssumption
<1>1. 0 \in T
  <2>1. levels(d)[0] = {<<<<>>, "dir", Root>>}
    BY Levels
  <2>2. Root \in D
    BY DEF Good, Filed
  <2>3. ASSUME NEW x \in levels(d)[0]
        PROVE  x[1] = <<>> /\ x[2] = "dir" /\ x[3] = Root /\ x = <<<<>>, "dir", Root>>
    BY <2>1, <2>3
  <2>4. <<>> \in Seq(Names) /\ Len(<<>>) = 0
    OBVIOUS
  <2>5. Level(d, D, levels(d)[0], 0)
    BY <2>2, <2>3, <2>4 DEF Level
  <2> QED BY <2>5
<1>2. ASSUME NEW i \in Nat, i \in T PROVE i + 1 \in T
  <2> SUFFICES ASSUME i + 1 <= MaxDepth PROVE Level(d, D, levels(d)[i + 1], i + 1)
    OBVIOUS
  <2>1. i + 1 \in 1 .. MaxDepth /\ i <= MaxDepth /\ (i + 1) - 1 = i
    BY <1>0
  <2>2. levels(d)[i + 1] = Grown(d, levels(d)[i])
    BY <2>1, Levels
  <2>3. Level(d, D, levels(d)[i], i)
    BY <1>2, <2>1
  <2> QED BY <2>2, <2>3, NextLevel
<1> HIDE DEF T
<1>3. Nat \subseteq T
  BY <1>1, <1>2, Induction
<1> QED BY <1>0, <1>3 DEF T

LEMMA NodesAre ==
  ASSUME NEW d, NEW D, NEW X, Good(d, D, X), NEW x \in Nodes(d)
  PROVE  /\ x[1] \in Seq(Names) /\ Len(x[1]) \in Nat
         /\ x[2] = "dir" => x[3] \in D \/ entries(d, x[3]) = {}
         /\ \A z \in Nodes(d) : x[1] = z[1] => x = z
         /\ x = <<<<>>, "dir", Root>> \/ \E y \in Nodes(d) : \E s : From(d, D, x, y, s)
<1>0. MaxDepth \in Nat
  BY TreeAssumption
<1>1. PICK i \in 0 .. MaxDepth : x \in levels(d)[i]
  BY DEF Nodes
<1>2. Level(d, D, levels(d)[i], i)
  BY LevelsAre
<1>3. x[1] \in Seq(Names) /\ Len(x[1]) = i /\ i \in Nat
  BY <1>0, <1>1, <1>2 DEF Level
<1>4. x[2] = "dir" => x[3] \in D \/ entries(d, x[3]) = {}
  BY <1>1, <1>2 DEF Level
<1>5. ASSUME NEW z \in Nodes(d), x[1] = z[1] PROVE x = z
  <2>1. PICK j \in 0 .. MaxDepth : z \in levels(d)[j]
    BY DEF Nodes
  <2>2. Level(d, D, levels(d)[j], j)
    BY LevelsAre
  <2>3. Len(z[1]) = j
    BY <2>1, <2>2 DEF Level
  <2>4. z \in levels(d)[i]
    BY <1>3, <1>5, <2>1, <2>3
  <2> QED BY <1>1, <1>2, <1>5, <2>4 DEF Level
<1>6. CASE i = 0
  <2>1. x = <<<<>>, "dir", Root>>
    BY <1>1, <1>6, Levels
  <2> QED BY <1>3, <1>4, <1>5, <2>1
<1>7. CASE i # 0
  <2>1. i \in 1 .. MaxDepth /\ i - 1 \in 0 .. MaxDepth /\ i - 1 \in Nat
    BY <1>0, <1>7
  <2>2. x \in Grown(d, levels(d)[i - 1])
    BY <1>1, <2>1, Levels
  <2>3. Level(d, D, levels(d)[i - 1], i - 1)
    BY <2>1, LevelsAre
  <2>4. PICK y \in levels(d)[i - 1] : \E s : From(d, D, x, y, s)
    BY <2>1, <2>2, <2>3, GrownFrom
  <2>5. y \in Nodes(d)
    BY <2>1 DEF Nodes
  <2> QED BY <1>3, <1>4, <1>5, <2>4, <2>5
<1> QED BY <1>6, <1>7

(* What is being removed, in the state of the module. *)
Going(d, X) ==
  X = {} \/ (unlinking /\ X = {at} /\ (is_entry(d[at]) => d[at][3] = clust))

LEMMA KeptIn ==
  ASSUME NEW d, NEW D, NEW X, Good(d, D, X), Going(d, X), NEW g \in Kept(d)
  PROVE  g[1] \in D /\ Dotted(d, g)
<1>0. Filed(d, D, X)
  BY DEF Good
<1>1. g \in Directories(d) /\ ~(unlinking /\ g[1] = clust)
  BY DEF Kept
<1>2. CASE g = <<Root, NoClust>>
  <2>1. g[1] = Root
    BY <1>2
  <2> QED BY <1>0, <2>1 DEF Filed, Dotted
<1>3. CASE g # <<Root, NoClust>>
  <2>1. PICK x \in Nodes(d) : /\ x[2] = "dir" /\ x[1] # <<>>
                              /\ \E y \in Nodes(d) :
                                   /\ y[2] = "dir" /\ y[1] = Seqs!Front(x[1])
                                   /\ g = <<x[3], IF y[3] = Root THEN NoClust ELSE y[3]>>
    BY <1>1, <1>3 DEF Directories
  <2>2. PICK y \in Nodes(d) : /\ y[2] = "dir" /\ y[1] = Seqs!Front(x[1])
                              /\ g = <<x[3], IF y[3] = Root THEN NoClust ELSE y[3]>>
    BY <2>1
  <2>3. x # <<<<>>, "dir", Root>>
    <3>1. <<<<>>, "dir", Root>>[1] = <<>>
      OBVIOUS
    <3> QED BY <2>1, <3>1
  <2>4. PICK z \in Nodes(d) : \E s : From(d, D, x, z, s)
    BY <2>3, NodesAre
  <2>5. PICK s : From(d, D, x, z, s)
    BY <2>4
  <2>6. /\ z[3] \in D /\ s \in entries(d, z[3])
        /\ x[1] = Append(z[1], d[s][2]) /\ x[2] = d[s][1] /\ x[3] = d[s][3]
    BY <2>5 DEF From
  <2>7. y = z
    <3>1. z[1] \in Seq(Names) /\ d[s][2] \in Names
      BY <2>6, NodesAre, EntryIs
    <3>2. Seqs!Front(x[1]) = z[1]
      BY <2>6, <3>1, AppendParts
    <3> QED BY <2>2, <3>2, NodesAre
  <2>8. g = <<d[s][3], up(z[3])>> /\ g[1] = d[s][3] /\ d[s][1] = "dir"
    BY <2>1, <2>2, <2>6, <2>7 DEF up
  <2>9. s \notin X
    <3> SUFFICES ASSUME s \in X PROVE FALSE
      OBVIOUS
    <3>1. unlinking /\ s = at /\ (is_entry(d[at]) => d[at][3] = clust)
      BY DEF Going
    <3>2. is_entry(d[s])
      BY <2>6, EntryIs
    <3> QED BY <1>1, <2>8, <3>1, <3>2
  <2>10. Kept1(d, D, z[3], s)
    BY <1>0, <2>6, <2>9 DEF Filed
  <2> QED BY <2>8, <2>10 DEF Kept1
<1> QED BY <1>2, <1>3

(* TreeIntact, for one store. *)
LEMMA SoundIs ==
  ASSUME NEW d, NEW D, NEW X, Good(d, D, X), Going(d, X)
  PROVE  Sound(d)
<1>0. Filed(d, D, X) /\ Chained(d, owners(d, heads(d, D, X)))
  BY DEF Good
<1>1. ASSUME NEW g \in Kept(d) PROVE Marked(d, g) /\ Dotted(d, g) /\ OnlyNames(d, g)
  <2>1. g[1] \in D /\ Dotted(d, g)
    BY KeptIn
  <2>2. Ended(d, g[1]) /\ OnlyNames(d, <<g[1], NoClust>>)
    BY <2>1, DirsOwn
  <2>3. OnlyNames(d, g)
    <3>1. <<g[1], NoClust>>[1] = g[1]
      OBVIOUS
    <3> QED BY <2>2, <3>1 DEF OnlyNames
  <2>4. Marked(d, g)
    BY <2>2 DEF Ended, EndAt, Marked
  <2> QED BY <2>1, <2>3, <2>4
<1>2. Heads(d) \subseteq heads(d, D, X)
  <2> SUFFICES ASSUME NEW s \in Heads(d) PROVE s \in heads(d, D, X)
    OBVIOUS
  <2>1. s \in UsedSlots(d) /\ is_entry(d[s])
    BY DEF Heads
  <2>2. PICK g \in Kept(d) : s \in listing(d, g[1])
    BY <2>1 DEF UsedSlots
  <2>3. s \in entries(d, g[1]) /\ g[1] \in D
    BY <2>1, <2>2, KeptIn DEF entries
  <2>4. s \notin X
    BY <2>1 DEF UsedSlots, Going
  <2> QED BY <2>3, <2>4 DEF heads
<1>3. Owned(d)
  <2> DEFINE hs == Heads(d)
             os == ({Root} \cup {d[s][3] : s \in hs}) \ {NoClust}
             owned == [c \in os |-> members(d, c)]
  <2>1. os \subseteq owners(d, heads(d, D, X))
    BY <1>2 DEF owners
  <2>2. \A s, t \in hs : d[s][3] = d[t][3] /\ d[s][3] # NoClust => s = t
    BY <1>0, <1>2 DEF Filed
  <2> HIDE DEF os, hs
  <2>3. \A c \in os : \A x \in owned[c] : d[fat(x)] # CLUST_FREE
    BY <1>0, <2>1 DEF Chained
  <2>4. \A c, e \in os : c # e => owned[c] \cap owned[e] = {}
    BY <1>0, <2>1 DEF Chained
  <2> QED BY <2>2, <2>3, <2>4 DEF Owned, os, hs
<1> QED BY <1>1, <1>3 DEF Sound

-----------------------------------------------------------------------------
(* Changes that no directory shows. *)

LEMMA DotsListed ==
  ASSUME NEW d, NEW D, NEW X, Good(d, D, X), NEW c \in D \ {Root}
  PROVE  slot(c, 0) \in listing(d, c) /\ slot(c, 1) \in listing(d, c)
<1> DEFINE s == slots(d, c)
<1>0. Filed(d, D, X)
  BY DEF Good
<1>1. PICK t \in heads(d, D, X) : d[t][1] = "dir" /\ d[t][3] = c
  BY <1>0 DEF Filed
<1>2. PICK p \in D : t \in entries(d, p) /\ t \notin X
  BY <1>1 DEF heads
<1>3. Dotted(d, <<c, up(p)>>)
  BY <1>0, <1>1, <1>2 DEF Filed, Kept1
<1>4. d[slot(c, 0)] = dot(c) /\ d[slot(c, 1)] = dotdot(up(p))
  <2>1. <<c, up(p)>>[1] = c /\ <<c, up(p)>>[2] = up(p)
    OBVIOUS
  <2> QED BY <1>3, <2>1 DEF Dotted
<1>5. Proper(d, c) /\ Ended(d, c)
  BY DirsOwn
<1>6. /\ 0 + 1 \in 1 .. Len(s) /\ s[0 + 1] = slot(c, 0)
      /\ 1 + 1 \in 1 .. Len(s) /\ s[1 + 1] = slot(c, 1)
  BY <1>5, SlotsOf, FatKinds
<1>7. PICK m \in Nat : EndAt(d, c, m)
  BY <1>5 DEF Ended
<1>8. m \in 1 .. Len(s) /\ d[s[m]] = Last
  BY <1>5, <1>7, Listing DEF EndAt
<1>9. dot(c) # Last /\ dot(c) # Free /\ dotdot(up(p)) # Last /\ dotdot(up(p)) # Free
  BY ValueKinds DEF is_free
<1>10. m # 1 /\ m # 2
  BY <1>4, <1>6, <1>8, <1>9
<1>11. 1 \in 1 .. (m - 1) /\ 2 \in 1 .. (m - 1)
  BY <1>7, <1>8, <1>10
<1>12. listing(d, c) = {s[k] : k \in {j \in 1 .. (m - 1) : d[s[j]] # Free}}
  BY <1>5, <1>7, Listing
<1> QED BY <1>4, <1>6, <1>9, <1>11, <1>12

Lists(d, e, D) ==
  \A c \in D : /\ Ended(e, c) /\ listing(e, c) = listing(d, c)
               /\ \A s \in listing(d, c) : e[s] = d[s]

LEMMA Frame ==
  ASSUME NEW d, NEW e \in Store, NEW D, Good(d, D, {}), Lists(d, e, D),
         Chained(e, owners(d, heads(d, D, {})))
  PROVE  /\ Good(e, D, {}) /\ heads(e, D, {}) = heads(d, D, {})
         /\ owners(e, heads(e, D, {})) = owners(d, heads(d, D, {}))
         /\ \A c \in D : entries(e, c) = entries(d, c)
<1>0. Filed(d, D, {}) /\ Root \in D
  BY DEF Good, Filed
<1>1. ASSUME NEW c \in D PROVE entries(e, c) = entries(d, c)
  BY DEF Lists, entries
<1>2. heads(e, D, {}) = heads(d, D, {})
  BY <1>1 DEF heads
<1>3. \A s \in heads(d, D, {}) : e[s] = d[s]
  BY DEF heads, entries, Lists
<1>4. owners(e, heads(e, D, {})) = owners(d, heads(d, D, {}))
  BY <1>2, <1>3 DEF owners
<1>5. ASSUME NEW c \in D PROVE Ended(e, c) /\ OnlyNames(e, <<c, NoClust>>)
  <2>1. OnlyNames(d, <<c, NoClust>>) /\ <<c, NoClust>>[1] = c
    BY DirsOwn
  <2>2. listing(e, c) = listing(d, c) /\ \A s \in listing(d, c) : e[s] = d[s]
    BY DEF Lists
  <2>3. OnlyNames(e, <<c, NoClust>>)
    BY <2>1, <2>2 DEF OnlyNames
  <2> QED BY <2>3 DEF Lists
<1>6. ASSUME NEW c \in D, NEW s \in entries(e, c) PROVE Kept1(e, D, c, s)
  <2>1. s \in entries(d, c) /\ e[s] = d[s]
    BY <1>1 DEF Lists, entries
  <2>2. Kept1(d, D, c, s)
    BY <1>0, <2>1 DEF Filed
  <2> SUFFICES ASSUME d[s][1] = "dir" PROVE d[s][3] \in D /\ Dotted(e, <<d[s][3], up(c)>>)
    BY <2>1 DEF Kept1
  <2>3. d[s][3] \in D /\ Dotted(d, <<d[s][3], up(c)>>)
    BY <2>2 DEF Kept1
  <2>4. d[s][3] # Root => /\ slot(d[s][3], 0) \in listing(d, d[s][3])
                          /\ slot(d[s][3], 1) \in listing(d, d[s][3])
    BY <2>3, DotsListed
  <2>5. d[s][3] # Root => /\ e[slot(d[s][3], 0)] = d[slot(d[s][3], 0)]
                          /\ e[slot(d[s][3], 1)] = d[slot(d[s][3], 1)]
    BY <2>3, <2>4 DEF Lists
  <2>6. <<d[s][3], up(c)>>[1] = d[s][3] /\ <<d[s][3], up(c)>>[2] = up(c)
    OBVIOUS
  <2> QED BY <2>3, <2>5, <2>6 DEF Dotted
<1>7. \A c \in D \ {Root} : \E s \in heads(e, D, {}) : e[s][1] = "dir" /\ e[s][3] = c
  BY <1>0, <1>2, <1>3 DEF Filed
<1>8. \A s \in heads(e, D, {}) : e[s][3] # Root
  BY <1>0, <1>2, <1>3 DEF Filed
<1>9. \A s, t \in heads(e, D, {}) : e[s][3] = e[t][3] /\ e[s][3] # NoClust => s = t
  BY <1>0, <1>2, <1>3 DEF Filed
<1>10. D \subseteq Clusters
  BY <1>0 DEF Filed
<1>11. Filed(e, D, {})
  BY <1>0, <1>5, <1>6, <1>7, <1>8, <1>9, <1>10 DEF Filed
<1> QED BY <1>1, <1>2, <1>4, <1>11 DEF Good

(* The cells that are read to list a directory: the FAT entries of its chain and the
   slots up to the end marker. *)
Unread(d, e, D) ==
  /\ \A o \in owners(d, heads(d, D, {})) : \A x \in members(d, o) : e[fat(x)] = d[fat(x)]
  /\ \A c \in D : \A m \in Nat : EndAt(d, c, m) =>
       \A k \in 1 .. m : e[slots(d, c)[k]] = d[slots(d, c)[k]]

LEMMA Unchanged ==
  ASSUME NEW d, NEW e \in Store, NEW D, Good(d, D, {}), Unread(d, e, D)
  PROVE  /\ Good(e, D, {}) /\ heads(e, D, {}) = heads(d, D, {})
         /\ owners(e, heads(e, D, {})) = owners(d, heads(d, D, {}))
         /\ \A c \in owners(d, heads(d, D, {})) : members(e, c) = members(d, c)
         /\ Lists(d, e, D)
         /\ \A c \in D :
              /\ entries(e, c) = entries(d, c) /\ slots(e, c) = slots(d, c)
              /\ \A m \in Nat : EndAt(d, c, m) => EndAt(e, c, m)
<1> DEFINE O == owners(d, heads(d, D, {}))
<1>1. ASSUME NEW c \in O
      PROVE  /\ Proper(d, c) /\ Proper(e, c) /\ chain(e, c) = chain(d, c) /\ members(e, c) = members(d, c)
             /\ \A x \in members(d, c) : e[fat(x)] = d[fat(x)] /\ d[fat(x)] # CLUST_FREE
  <2>1. Proper(d, c) /\ \A x \in members(d, c) : d[fat(x)] # CLUST_FREE
    BY DEF Good, Chained
  <2>2. \A x \in members(d, c) : e[fat(x)] = d[fat(x)]
    BY DEF Unread
  <2> QED BY <2>1, <2>2, ChainSame
<1>2. Chained(e, O)
  <2>1. \A c, g \in O : c # g => members(d, c) \cap members(d, g) = {}
    BY DEF Good, Chained
  <2> HIDE DEF O
  <2> QED BY <1>1, <2>1 DEF Chained
<1>3. D \subseteq O
  BY DirsOwn
<1> HIDE DEF O
<1>4. ASSUME NEW c \in D
      PROVE  /\ slots(e, c) = slots(d, c)
             /\ \A m \in Nat : EndAt(d, c, m) => EndAt(e, c, m)
             /\ Ended(e, c) /\ listing(e, c) = listing(d, c)
             /\ \A s \in listing(d, c) : e[s] = d[s]
  <2>1. slots(e, c) = slots(d, c)
    BY <1>1, <1>3 DEF slots
  <2>2. ASSUME NEW m \in Nat, EndAt(d, c, m)
        PROVE  /\ EndAt(e, c, m) /\ listing(e, c) = listing(d, c)
               /\ \A s \in listing(d, c) : e[s] = d[s]
    <3>1. Proper(d, c) /\ Proper(e, c)
      BY <1>1, <1>3
    <3>2. m \in 1 .. Len(slots(e, c))
      BY <2>1, <2>2, <3>1, Listing
    <3>3. \A k \in 1 .. m : slots(e, c)[k] = slots(d, c)[k] /\ e[slots(d, c)[k]] = d[slots(d, c)[k]]
      BY <2>1, <2>2 DEF Unread
    <3> QED BY <2>2, <3>1, <3>2, <3>3, ListSame
  <2>3. PICK m \in Nat : EndAt(d, c, m)
    BY DirsOwn DEF Ended
  <2>4. Ended(e, c)
    BY <2>2, <2>3 DEF Ended
  <2> QED BY <2>1, <2>2, <2>3, <2>4
<1>5. Lists(d, e, D)
  BY <1>4 DEF Lists
<1>6. /\ Good(e, D, {}) /\ heads(e, D, {}) = heads(d, D, {})
      /\ owners(e, heads(e, D, {})) = owners(d, heads(d, D, {}))
      /\ \A c \in D : entries(e, c) = entries(d, c)
  BY <1>2, <1>5, Frame DEF O
<1> QED BY <1>1, <1>4, <1>5, <1>6 DEF O

(* The clusters of a directory are left alone. *)
SameIn(d, e, c) ==
  /\ \A x \in members(d, c) : e[fat(x)] = d[fat(x)]
  /\ \A x \in Slots : x[2] \in members(d, c) => e[x] = d[x]

LEMMA DirSame ==
  ASSUME NEW d, NEW e, NEW c, Proper(d, c), Ended(d, c), SameIn(d, e, c)
  PROVE  /\ Proper(e, c) /\ chain(e, c) = chain(d, c) /\ members(e, c) = members(d, c)
         /\ Ended(e, c) /\ listing(e, c) = listing(d, c) /\ entries(e, c) = entries(d, c)
         /\ \A s \in listing(d, c) : e[s] = d[s]
<1>1. chain(e, c) = chain(d, c) /\ Proper(e, c) /\ members(e, c) = members(d, c)
  BY ChainSame DEF SameIn
<1>2. slots(e, c) = slots(d, c)
  BY <1>1 DEF slots
<1>3. PICK m \in Nat : EndAt(d, c, m)
  BY DEF Ended
<1>4. m \in 1 .. Len(slots(d, c)) /\ Len(slots(d, c)) \in Nat
  BY <1>3, Listing, SlotsOf
<1>5. \A k \in 1 .. m : slots(d, c)[k] \in Slots /\ slots(d, c)[k][2] \in members(d, c)
  <2> TAKE k \in 1 .. m
  <2>1. k \in 1 .. Len(slots(d, c))
    BY <1>4
  <2> QED BY <2>1, SlotsOf
<1>6. /\ EndAt(e, c, m) /\ listing(e, c) = listing(d, c) /\ entries(e, c) = entries(d, c)
      /\ \A s \in listing(d, c) : e[s] = d[s]
  <2>1. \A k \in 1 .. m : slots(e, c)[k] = slots(d, c)[k] /\ e[slots(d, c)[k]] = d[slots(d, c)[k]]
    BY <1>2, <1>5 DEF SameIn
  <2>2. m \in 1 .. Len(slots(e, c))
    BY <1>2, <1>4
  <2> QED BY <1>1, <1>3, <2>1, <2>2, ListSame
<1> QED BY <1>1, <1>3, <1>6 DEF Ended

(* A cluster that a chain begins with, and that is no file's nor directory's yet. *)
Fresh(d, D, c) ==
  /\ c \in Clusters /\ d[fat(c)] = CLUST_LAST
  /\ \A o \in owners(d, heads(d, D, {})) : c \notin members(d, o)

Entriless(d, p, n) == \A s \in entries(d, p) : d[s][2] # n

LEMMA AllocStore ==
  ASSUME NEW d, NEW D, Good(d, D, {}), NEW c \in Clusters, d[fat(c)] = CLUST_FREE
  PROVE  LET e == [d EXCEPT ![fat(c)] = CLUST_LAST] IN
         /\ Good(e, D, {}) /\ Fresh(e, D, c)
         /\ \A p \in D : \A n : Entriless(d, p, n) => Entriless(e, p, n)
<1> DEFINE e == [d EXCEPT ![fat(c)] = CLUST_LAST]
           O == owners(d, heads(d, D, {}))
<1>1. d \in Store /\ d \in [TreeCells -> FatValue \cup SlotValue] /\ c \in ClustOrNone /\ fat(c) \in TreeCells
  BY CellKinds, FatKinds DEF Good, Store
<1>2. e[fat(c)] = CLUST_LAST /\ \A x \in TreeCells : x # fat(c) => e[x] = d[x]
  BY <1>1
<1>3. e \in Store
  <2>1. e \in [TreeCells -> FatValue \cup SlotValue]
    BY <1>1 DEF FatValue
  <2>2. \A x \in ClustOrNone : e[fat(x)] \in FatValue
    <3> TAKE x \in ClustOrNone
    <3>1. d[fat(x)] \in FatValue /\ fat(x) \in TreeCells
      BY <1>1, CellKinds DEF Store
    <3> QED BY <1>2, <3>1 DEF FatValue
  <2>3. \A s \in Slots : e[s] \in SlotValue
    BY <1>1, <1>2, CellKinds DEF Store
  <2>4. e[fat(NoClust)] \notin Clusters
    <3>1. d[fat(NoClust)] \notin Clusters /\ fat(NoClust) \in TreeCells
      BY <1>1, CellKinds, FatKinds DEF Store
    <3> QED BY <1>2, <3>1, FatKinds
  <2> HIDE DEF e
  <2> QED BY <2>1, <2>2, <2>3, <2>4 DEF Store
<1>4. \A o \in O : Proper(d, o) /\ \A x \in members(d, o) : d[fat(x)] # CLUST_FREE
  BY DEF Good, Chained
<1> HIDE DEF e, O
<1>5. \A o \in O : c \notin members(d, o)
  BY <1>4
<1>6. \A o \in O : \A x \in members(d, o) : e[fat(x)] = d[fat(x)]
  <2> TAKE o \in O
  <2> TAKE x \in members(d, o)
  <2>1. x # c /\ x \in ClustOrNone
    BY <1>4, <1>5, ProperType, FatKinds
  <2> QED BY <1>2, <2>1, CellKinds
<1>7. \A p \in D : \A m \in Nat : EndAt(d, p, m) =>
        \A k \in 1 .. m : e[slots(d, p)[k]] = d[slots(d, p)[k]]
  <2> TAKE p \in D
  <2> TAKE m \in Nat
  <2> HAVE EndAt(d, p, m)
  <2> TAKE k \in 1 .. m
  <2>0. Proper(d, p)
    BY DirsOwn
  <2>1. k \in 1 .. Len(slots(d, p)) /\ Proper(d, p)
    BY <2>0, UpToEnd
  <2>2. slots(d, p)[k] \in Slots
    BY <2>1, SlotsOf
  <2> QED BY <1>2, <2>2, CellKinds
<1>8. Unread(d, e, D)
  BY <1>6, <1>7 DEF Unread, O
<1>9. /\ Good(e, D, {}) /\ owners(e, heads(e, D, {})) = O
      /\ \A o \in O : members(e, o) = members(d, o)
      /\ Lists(d, e, D) /\ \A p \in D : entries(e, p) = entries(d, p)
  BY <1>3, <1>8, Unchanged DEF O
<1>10. Fresh(e, D, c)
  BY <1>2, <1>5, <1>9 DEF Fresh
<1>11. \A p \in D : \A n : Entriless(d, p, n) => Entriless(e, p, n)
  BY <1>9 DEF Entriless, Lists, entries
<1> QED BY <1>9, <1>10, <1>11 DEF e

LEMMA FreshStore ==
  ASSUME NEW d, NEW D, Good(d, D, {}), NEW c, Fresh(d, D, c), NEW e \in Store,
         \A x \in TreeCells : (x \in Slots /\ x[2] = c) \/ e[x] = d[x]
  PROVE  /\ Good(e, D, {}) /\ Fresh(e, D, c)
         /\ \A p \in D : \A n : Entriless(d, p, n) => Entriless(e, p, n)
<1> DEFINE O == owners(d, heads(d, D, {}))
<1>1. c \in Clusters /\ \A o \in O : c \notin members(d, o)
  BY DEF Fresh
<1>2. \A x \in ClustOrNone : e[fat(x)] = d[fat(x)]
  BY CellKinds
<1>3. \A o \in O : \A x \in members(d, o) : e[fat(x)] = d[fat(x)]
  <2> TAKE o \in O
  <2>1. Proper(d, o)
    BY DEF Good, Chained
  <2> QED BY <1>2, <2>1, ProperType, FatKinds
<1>4. \A p \in D : \A m \in Nat : EndAt(d, p, m) =>
        \A k \in 1 .. m : e[slots(d, p)[k]] = d[slots(d, p)[k]]
  <2> TAKE p \in D
  <2> TAKE m \in Nat
  <2> HAVE EndAt(d, p, m)
  <2> TAKE k \in 1 .. m
  <2>0. Proper(d, p) /\ p \in O
    BY DirsOwn
  <2>1. k \in 1 .. Len(slots(d, p)) /\ Proper(d, p) /\ p \in O
    BY <2>0, UpToEnd
  <2>2. slots(d, p)[k] \in Slots /\ slots(d, p)[k][2] \in members(d, p)
    BY <2>1, SlotsOf
  <2>3. slots(d, p)[k][2] # c
    BY <1>1, <2>1, <2>2
  <2> QED BY <2>2, <2>3, CellKinds
<1> HIDE DEF O
<1>5. Unread(d, e, D)
  BY <1>3, <1>4 DEF Unread, O
<1>6. /\ Good(e, D, {}) /\ owners(e, heads(e, D, {})) = O
      /\ \A o \in O : members(e, o) = members(d, o)
      /\ Lists(d, e, D) /\ \A p \in D : entries(e, p) = entries(d, p)
  BY <1>5, Unchanged DEF O
<1>7. Fresh(e, D, c)
  BY <1>1, <1>2, <1>6, FatKinds DEF Fresh
<1>8. \A p \in D : \A n : Entriless(d, p, n) => Entriless(e, p, n)
  BY <1>6 DEF Entriless, Lists, entries
<1> QED BY <1>6, <1>7, <1>8

(* Behind the end marker of the directory p. *)
LEMMA BeyondStore ==
  ASSUME NEW d, NEW D, Good(d, D, {}), NEW p \in D, NEW m \in Nat, EndAt(d, p, m), NEW e \in Store,
         \A x \in TreeCells :
           (\E k \in (m + 1) .. Len(slots(d, p)) : x = slots(d, p)[k]) \/ e[x] = d[x]
  PROVE  /\ Good(e, D, {}) /\ EndAt(e, p, m) /\ slots(e, p) = slots(d, p)
         /\ \A c : Fresh(d, D, c) =>
              Fresh(e, D, c) /\ \A i \in Indices : e[slot(c, i)] = d[slot(c, i)]
         /\ \A g \in D : \A n : Entriless(d, g, n) => Entriless(e, g, n)
<1> DEFINE O == owners(d, heads(d, D, {}))
           N == Len(slots(d, p))
<1>1. Proper(d, p) /\ p \in O /\ N \in Nat /\ m \in 1 .. N
  BY DirsOwn, Listing, SlotsOf
<1>2. ASSUME NEW x \in TreeCells, e[x] # d[x]
      PROVE  x \in Slots /\ x[2] \in members(d, p) /\ \E k \in (m + 1) .. N : x = slots(d, p)[k]
  <2>1. PICK k \in (m + 1) .. N : x = slots(d, p)[k]
    BY <1>2
  <2>2. k \in 1 .. N
    BY <1>1, <2>1
  <2> QED BY <1>1, <2>1, <2>2, SlotsOf
<1>3. \A x \in ClustOrNone : e[fat(x)] = d[fat(x)]
  BY <1>2, CellKinds
<1>4. \A o \in O : \A x \in members(d, o) : e[fat(x)] = d[fat(x)]
  <2> TAKE o \in O
  <2>1. Proper(d, o)
    BY DEF Good, Chained
  <2> QED BY <1>3, <2>1, ProperType, FatKinds
<1>5. \A g \in D : \A l \in Nat : EndAt(d, g, l) =>
        \A k \in 1 .. l : e[slots(d, g)[k]] = d[slots(d, g)[k]]
  <2> TAKE g \in D
  <2> TAKE l \in Nat
  <2> HAVE EndAt(d, g, l)
  <2> TAKE k \in 1 .. l
  <2> SUFFICES ASSUME e[slots(d, g)[k]] # d[slots(d, g)[k]] PROVE FALSE
    OBVIOUS
  <2>0. Proper(d, g)
    BY DirsOwn
  <2>1. k \in 1 .. Len(slots(d, g)) /\ Proper(d, g) /\ l \in 1 .. Len(slots(d, g))
    BY <2>0, UpToEnd
  <2>2. slots(d, g)[k] \in Slots /\ slots(d, g)[k][2] \in members(d, g)
    BY <2>1, SlotsOf
  <2>3. slots(d, g)[k] \in TreeCells
    BY <2>2, CellKinds
  <2>4. slots(d, g)[k][2] \in members(d, p) /\ \E j \in (m + 1) .. N : slots(d, g)[k] = slots(d, p)[j]
    BY <1>2, <2>3
  <2>5. g = p
    BY <2>2, <2>4, DirsOwn
  <2>6. PICK j \in (m + 1) .. N : slots(d, p)[k] = slots(d, p)[j]
    BY <2>4, <2>5
  <2>7. j \in 1 .. N /\ k \in 1 .. N
    BY <1>1, <2>1, <2>5, <2>6
  <2>8. k = j
    BY <1>1, <2>6, <2>7, SlotsOf
  <2>9. d[slots(d, p)[m]] = Last /\ ~(m \in 1 .. (l - 1))
    BY <2>5 DEF EndAt
  <2>10. l \in Nat /\ m < k /\ k <= l
    BY <1>1, <2>1, <2>6, <2>8
  <2> QED BY <1>1, <2>9, <2>10
<1>6. Unread(d, e, D)
  BY <1>4, <1>5 DEF Unread
<1> HIDE DEF O
<1>7. /\ Good(e, D, {}) /\ owners(e, heads(e, D, {})) = O
      /\ \A o \in O : members(e, o) = members(d, o)
      /\ Lists(d, e, D)
      /\ \A g \in D : entries(e, g) = entries(d, g) /\ slots(e, g) = slots(d, g)
                      /\ \A l \in Nat : EndAt(d, g, l) => EndAt(e, g, l)
  BY <1>6, Unchanged DEF O
<1>8. ASSUME NEW c, Fresh(d, D, c)
      PROVE  Fresh(e, D, c) /\ \A i \in Indices : e[slot(c, i)] = d[slot(c, i)]
  <2>1. c \in Clusters /\ d[fat(c)] = CLUST_LAST /\ \A o \in O : c \notin members(d, o)
    BY <1>8 DEF Fresh, O
  <2>2. Fresh(e, D, c)
    BY <1>3, <1>7, <2>1, FatKinds DEF Fresh
  <2>3. \A i \in Indices : e[slot(c, i)] = d[slot(c, i)]
    <3> TAKE i \in Indices
    <3>1. slot(c, i) \in TreeCells /\ slot(c, i)[2] = c
      BY <2>1, CellKinds
    <3> QED BY <1>1, <1>2, <2>1, <3>1
  <2> QED BY <2>2, <2>3
<1>9. \A g \in D : \A n : Entriless(d, g, n) => Entriless(e, g, n)
  BY <1>7 DEF Entriless, Lists, entries
<1> QED BY <1>7, <1>8, <1>9

Changed(d, e, x, v) == e = [d EXCEPT ![x] = v]

LEMMA PutFat ==
  ASSUME NEW d \in Store, NEW c \in Clusters, NEW v \in FatValue,
         NEW e, Changed(d, e, fat(c), v)
  PROVE  /\ e \in Store /\ e[fat(c)] = v
         /\ \A x \in TreeCells : x # fat(c) => e[x] = d[x]
<1>1. d \in [TreeCells -> FatValue \cup SlotValue] /\ c \in ClustOrNone /\ fat(c) \in TreeCells
  BY CellKinds, FatKinds DEF Store
<1>2. e[fat(c)] = v /\ \A x \in TreeCells : x # fat(c) => e[x] = d[x]
  BY <1>1 DEF Changed
<1>3. e \in [TreeCells -> FatValue \cup SlotValue]
  BY <1>1 DEF Changed
<1>4. \A x \in ClustOrNone : e[fat(x)] \in FatValue
  <2> TAKE x \in ClustOrNone
  <2>1. d[fat(x)] \in FatValue /\ fat(x) \in TreeCells
    BY CellKinds DEF Store
  <2> QED BY <1>2, <2>1
<1>5. \A s \in Slots : e[s] \in SlotValue
  BY <1>2, CellKinds DEF Store
<1>6. e[fat(NoClust)] \notin Clusters
  <2>1. d[fat(NoClust)] \notin Clusters /\ fat(NoClust) \in TreeCells /\ fat(NoClust) # fat(c)
    BY CellKinds, FatKinds DEF Store
  <2> QED BY <1>2, <2>1
<1>7. e \in Store
  BY <1>3, <1>4, <1>5, <1>6 DEF Store
<1> QED BY <1>2, <1>7

LEMMA PutSlot ==
  ASSUME NEW d \in Store, NEW s \in Slots, NEW v \in SlotValue
  PROVE  /\ [d EXCEPT ![s] = v] \in Store
         /\ [d EXCEPT ![s] = v][s] = v
         /\ \A x \in TreeCells : x # s => [d EXCEPT ![s] = v][x] = d[x]
<1> DEFINE e == [d EXCEPT ![s] = v]
<1>1. d \in [TreeCells -> FatValue \cup SlotValue] /\ s \in TreeCells
  BY CellKinds DEF Store
<1>2. e[s] = v /\ \A x \in TreeCells : x # s => e[x] = d[x]
  BY <1>1
<1>3. e \in [TreeCells -> FatValue \cup SlotValue]
  BY <1>1
<1>4. \A x \in ClustOrNone : fat(x) \in TreeCells /\ fat(x) # s
  BY CellKinds
<1>5. \A x \in ClustOrNone : e[fat(x)] = d[fat(x)]
  BY <1>2, <1>4
<1>6. \A x \in Slots : e[x] \in SlotValue
  BY <1>2, CellKinds DEF Store
<1> HIDE DEF e
<1>7. e \in Store
  BY <1>3, <1>5, <1>6, FatKinds DEF Store
<1> QED BY <1>2, <1>7 DEF e

(* The two writes that append the cluster c to a chain that ends in x. *)
Linking(d, e, c, x) == e = [d EXCEPT ![fat(c)] = CLUST_LAST, ![fat(x)] = c]

LEMMA PutFats ==
  ASSUME NEW d \in Store, NEW c \in Clusters, NEW x \in Clusters, x # c,
         NEW e, Linking(d, e, c, x)
  PROVE  /\ e \in Store /\ e[fat(c)] = CLUST_LAST /\ e[fat(x)] = c
         /\ \A y \in TreeCells : y # fat(c) /\ y # fat(x) => e[y] = d[y]
<1>1. PICK a : Changed(d, a, fat(c), CLUST_LAST) /\ Changed(a, e, fat(x), c)
  BY DEF Changed, Linking
<1>2. CLUST_LAST \in FatValue /\ c \in FatValue
  BY DEF FatValue
<1>3. a \in Store /\ a[fat(c)] = CLUST_LAST /\ \A y \in TreeCells : y # fat(c) => a[y] = d[y]
  BY <1>1, <1>2, PutFat
<1>4. e \in Store /\ e[fat(x)] = c /\ \A y \in TreeCells : y # fat(x) => e[y] = a[y]
  <2>1. a \in Store /\ Changed(a, e, fat(x), c)
    BY <1>1, <1>3
  <2> QED BY <1>2, <2>1, PutFat
<1>5. fat(c) \in TreeCells /\ fat(c) # fat(x)
  BY CellKinds, FatKinds
<1> QED BY <1>3, <1>4, <1>5

(* A directory gets one more cluster. *)
Stretched(d, e, p, c) ==
  LET x == slots(d, p)[Len(slots(d, p))][2] IN
  /\ EndAt(d, p, Len(slots(d, p)))
  /\ d[fat(c)] = CLUST_FREE /\ e[fat(c)] = CLUST_LAST /\ e[fat(x)] = c
  /\ \A y \in TreeCells : y # fat(c) /\ y # fat(x) => e[y] = d[y]

LEMMA StretchStore ==
  ASSUME NEW d, NEW D, Good(d, D, {}), NEW p \in D, NEW c \in Clusters,
         NEW e \in Store, Stretched(d, e, p, c)
  PROVE  /\ Good(e, D, {}) /\ EndAt(e, p, Len(slots(d, p)))
         /\ Len(slots(d, p)) + 1 \in 1 .. Len(slots(e, p))
         /\ slots(e, p)[Len(slots(d, p))] = slots(d, p)[Len(slots(d, p))]
         /\ slots(e, p)[Len(slots(d, p)) + 1] = slot(c, 0)
         /\ \A i \in Indices :
              \E k \in (Len(slots(d, p)) + 1) .. Len(slots(e, p)) : slot(c, i) = slots(e, p)[k]
         /\ \A f : Fresh(d, D, f) => Fresh(e, D, f) /\ \A s \in Slots : e[s] = d[s]
         /\ \A g \in D : \A n : Entriless(d, g, n) => Entriless(e, g, n)
<1> DEFINE O == owners(d, heads(d, D, {}))
           q == chain(d, p)
           L == Len(slots(d, p))
           x == q[Len(q)]
<1>1. /\ d \in Store /\ D \subseteq O /\ Proper(d, p) /\ p \in O
      /\ \A o \in O : Proper(d, o) /\ \A y \in members(d, o) : d[fat(y)] # CLUST_FREE
      /\ \A o, g \in O : o # g => members(d, o) \cap members(d, g) = {}
  BY DirsOwn DEF Good, Chained
<1>2. /\ q \in Seq(Clusters) /\ Len(q) > 0 /\ Len(q) \in Nat /\ slots(d, p) = slots_of(q) /\ L = Room(q)
      /\ members(d, p) = {q[i] : i \in 1 .. Len(q)} /\ members(d, p) \subseteq Clusters
      /\ L \in Nat /\ L >= PerClust /\ L > 0
  BY <1>1, ProperType, SlotsOf, FatKinds DEF slots
<1>3. slots(d, p)[L][2] = x /\ x \in members(d, p)
  BY <1>2, LastSlot, CellKinds
<1>4. d[fat(c)] = CLUST_FREE /\ \A o \in O : c \notin members(d, o)
  BY <1>1 DEF Stretched
<1>5. c # x /\ x \in Clusters
  BY <1>1, <1>2, <1>3, <1>4
<1>6. /\ e[fat(c)] = CLUST_LAST /\ e[fat(x)] = c
      /\ \A y \in TreeCells : y # fat(c) /\ y # fat(x) => e[y] = d[y]
  BY <1>3 DEF Stretched
<1>7. \A y \in Clusters : y # c /\ y # x => e[fat(y)] = d[fat(y)]
  <2> TAKE y \in Clusters
  <2>1. fat(y) \in TreeCells /\ (fat(y) = fat(c) => y = c) /\ (fat(y) = fat(x) => y = x)
    BY CellKinds, FatKinds
  <2> QED BY <1>6, <2>1
<1>8. \A s \in Slots : e[s] = d[s]
  <2> TAKE s \in Slots
  <2>1. s \in TreeCells /\ s # fat(c) /\ s # fat(x)
    BY CellKinds
  <2> QED BY <1>6, <2>1
<1>9. /\ chain(e, p) = Append(q, c) /\ Proper(e, p) /\ members(e, p) = members(d, p) \cup {c}
  <2>1. c \in Clusters \ members(d, p) /\ e[fat(c)] \notin Clusters
    BY <1>1, <1>4, <1>6, FatKinds
  <2>2. e[fat(chain(d, p)[Len(chain(d, p))])] = c
    BY <1>6
  <2>3. \A y \in members(d, p) : y # chain(d, p)[Len(chain(d, p))] => e[fat(y)] = d[fat(y)]
    BY <1>2, <1>7, <2>1
  <2>4. Proper(d, p)
    BY <1>1
  <2>5. LongerBy(d, e, p, c)
    BY <2>1, <2>2, <2>3 DEF LongerBy
  <2> QED BY <2>4, <2>5, ChainLonger DEF q
<1> HIDE DEF q, L, x
<1>10. /\ \A k \in 1 .. L : slots(e, p)[k] = slots(d, p)[k] /\ slots(e, p)[k][2] # c
       /\ Len(slots(e, p)) = L + PerClust /\ slots(e, p)[L + 1] = slot(c, 0)
  <2>1. c \in Clusters \ Range(q)
    <3>1. Range(q) = members(d, p)
      BY DEF members, q
    <3> QED BY <1>1, <1>4, <3>1
  <2>2. /\ Append(q, c) \in Seq(Clusters) /\ Room(Append(q, c)) = Room(q) + PerClust
        /\ \A k \in 1 .. Room(q) :
             slots_of(Append(q, c))[k] = slots_of(q)[k] /\ slots_of(q)[k][2] # c
        /\ slots_of(Append(q, c))[Room(q) + 1] = slot(c, 0)
    BY <1>2, <2>1, SlotsLonger
  <2>3. slots(e, p) = slots_of(Append(q, c)) /\ Len(slots(e, p)) = Room(Append(q, c))
    BY <1>9, SlotsOf DEF slots
  <2> QED BY <1>2, <2>2, <2>3
<1>11. L + 1 \in 1 .. Len(slots(e, p)) /\ L \in 1 .. Len(slots(e, p)) /\ L \in 1 .. L
  BY <1>2, <1>10, FatKinds
<1>12. /\ EndAt(e, p, L) /\ listing(e, p) = listing(d, p) /\ \A s \in listing(d, p) : e[s] = d[s]
  <2>1. \A k \in 1 .. L : slots(e, p)[k] = slots(d, p)[k] /\ e[slots(d, p)[k]] = d[slots(d, p)[k]]
    <3> TAKE k \in 1 .. L
    <3>1. slots(d, p)[k] \in Slots
      BY <1>1, SlotsOf DEF L
    <3> QED BY <1>8, <1>10, <3>1
  <2>2. EndAt(d, p, L)
    BY DEF L, Stretched
  <2> QED BY <1>1, <1>9, <1>11, <2>1, <2>2, ListSame
<1>13. ASSUME NEW o \in O, o # p
       PROVE  /\ Proper(e, o) /\ members(e, o) = members(d, o)
              /\ \A y \in members(d, o) : e[fat(y)] = d[fat(y)]
  <2>1. Proper(d, o) /\ members(d, o) \cap members(d, p) = {}
    BY <1>1, <1>13
  <2>2. \A y \in members(d, o) : y \in Clusters /\ y # c /\ y # x
    BY <1>3, <1>4, <2>1, ProperType
  <2>3. \A y \in members(d, o) : e[fat(y)] = d[fat(y)]
    BY <1>7, <2>2
  <2> QED BY <2>1, <2>3, ChainSame
<1>14. Lists(d, e, D)
  <2> SUFFICES ASSUME NEW g \in D, g # p
               PROVE  Ended(e, g) /\ listing(e, g) = listing(d, g) /\ \A s \in listing(d, g) : e[s] = d[s]
    BY <1>2, <1>12 DEF Lists, Ended
  <2>1. Proper(d, g) /\ Ended(d, g) /\ g \in O
    BY <1>1, DirsOwn
  <2>2. \A y \in members(d, g) : e[fat(y)] = d[fat(y)]
    BY <1>13, <2>1
  <2>3. Proper(d, g) /\ Ended(d, g)
    BY <2>1
  <2>4. \A s \in Slots : s[2] \in members(d, g) => e[s] = d[s]
    BY <1>8
  <2>5. SameIn(d, e, g)
    BY <2>2, <2>4 DEF SameIn
  <2> QED BY <2>3, <2>5, DirSame
<1>15. Chained(e, O)
  <2>1. ASSUME NEW o \in O PROVE Proper(e, o) /\ \A y \in members(e, o) : e[fat(y)] # CLUST_FREE
    <3>1. CASE o = p
      <4>1. \A y \in members(d, p) : e[fat(y)] # CLUST_FREE
        <5> TAKE y \in members(d, p)
        <5>1. CASE y = x
          BY <1>6, <5>1, FatKinds
        <5>2. CASE y # x
          BY <1>1, <1>2, <1>4, <1>7, <5>2
        <5> QED BY <5>1, <5>2
      <4> QED BY <1>6, <1>9, <3>1, <4>1, FatKinds
    <3>2. CASE o # p
      BY <1>1, <1>13, <3>2
    <3> QED BY <3>1, <3>2
  <2>2. ASSUME NEW o \in O, NEW g \in O, o # g PROVE members(e, o) \cap members(e, g) = {}
    <3>1. CASE o = p
      BY <1>1, <1>4, <1>9, <1>13, <2>2, <3>1
    <3>2. CASE g = p
      BY <1>1, <1>4, <1>9, <1>13, <2>2, <3>2
    <3>3. CASE o # p /\ g # p
      BY <1>1, <1>13, <2>2, <3>3
    <3> QED BY <3>1, <3>2, <3>3
  <2> HIDE DEF O
  <2> QED BY <2>1, <2>2 DEF Chained
<1>16. /\ Good(e, D, {}) /\ owners(e, heads(e, D, {})) = O
       /\ \A g \in D : entries(e, g) = entries(d, g)
  BY <1>6, <1>14, <1>15, Frame
<1>17. \A i \in Indices : \E k \in (L + 1) .. Len(slots(e, p)) : slot(c, i) = slots(e, p)[k]
  <2> TAKE i \in Indices
  <2>0. Proper(e, p) /\ c \in members(e, p)
    BY <1>9
  <2>1. PICK k \in 1 .. Len(slots(e, p)) : slots(e, p)[k] = slot(c, i)
    BY <2>0, SlotsOf
  <2>2. slots(e, p)[k][2] = c
    BY <2>1, CellKinds
  <2>3. k \notin 1 .. L
    BY <1>10, <2>2
  <2>4. k \in (L + 1) .. Len(slots(e, p))
    BY <1>2, <1>10, <2>3
  <2> QED BY <2>1, <2>4
<1>18. ASSUME NEW f, Fresh(d, D, f) PROVE Fresh(e, D, f)
  <2>1. f \in Clusters /\ d[fat(f)] = CLUST_LAST /\ \A o \in O : f \notin members(d, o)
    BY <1>18 DEF Fresh
  <2>2. f # c /\ f # x
    BY <1>1, <1>3, <1>4, <2>1, FatKinds
  <2>3. e[fat(f)] = CLUST_LAST
    BY <1>7, <2>1, <2>2
  <2>4. \A o \in O : f \notin members(e, o)
    BY <1>9, <1>13, <2>1, <2>2
  <2> HIDE DEF O
  <2> QED BY <1>16, <2>1, <2>3, <2>4 DEF Fresh
<1>19. \A g \in D : \A n : Entriless(d, g, n) => Entriless(e, g, n)
  BY <1>14, <1>16 DEF Entriless, Lists, entries
<1> QED BY <1>8, <1>10, <1>11, <1>12, <1>16, <1>17, <1>18, <1>19 DEF L

(* Room for one more entry: a free slot in front of the end marker, or the end
   marker's, when another follows it. *)
Spare(d, p, s) ==
  \E m \in Nat : \E k \in 1 .. m :
    /\ EndAt(d, p, m) /\ s = slots(d, p)[k]
    /\ \/ k < m /\ d[s] = Free
       \/ k = m /\ m + 1 \in DOMAIN slots(d, p) /\ d[slots(d, p)[m + 1]] = Last

LEMMA ListMore ==
  ASSUME NEW d, NEW e, NEW p, Proper(d, p), Proper(e, p), slots(e, p) = slots(d, p),
         NEW s, Spare(d, p, s), ~is_free(e[s]), \A x \in Slots : x # s => e[x] = d[x]
  PROVE  /\ Ended(e, p) /\ listing(e, p) = listing(d, p) \cup {s}
         /\ s \in Slots /\ s[2] \in members(d, p) /\ s \notin listing(d, p)
<1> DEFINE q == slots(d, p)
           N == Len(q)
<1>0. PICK m \in Nat : \E k \in 1 .. m :
        /\ EndAt(d, p, m) /\ s = q[k]
        /\ \/ k < m /\ d[s] = Free
           \/ k = m /\ m + 1 \in DOMAIN q /\ d[q[m + 1]] = Last
  BY DEF Spare
<1>1. PICK k \in 1 .. m :
        /\ EndAt(d, p, m) /\ s = q[k]
        /\ \/ k < m /\ d[s] = Free
           \/ k = m /\ m + 1 \in DOMAIN q /\ d[q[m + 1]] = Last
  BY <1>0
<1>2. /\ m \in 1 .. N /\ DOMAIN q = 1 .. N /\ N \in Nat /\ DOMAIN slots(e, p) = 1 .. N
      /\ \A j \in 1 .. N : q[j] \in Slots /\ q[j][2] \in members(d, p)
      /\ \A j, l \in 1 .. N : q[j] = q[l] => j = l
      /\ d[q[m]] = Last /\ \A j \in 1 .. (m - 1) : d[q[j]] # Last
  BY <1>1, Listing, SlotsOf DEF EndAt
<1>3. k \in 1 .. N /\ s \in Slots /\ s[2] \in members(d, p)
  BY <1>1, <1>2
<1>4. \A j \in 1 .. N : j # k => e[q[j]] = d[q[j]]
  BY <1>1, <1>2, <1>3
<1>5. listing(d, p) = {q[j] : j \in {l \in 1 .. (m - 1) : d[q[l]] # Free}}
  BY <1>1, Listing
<1>6. e[s] # Free /\ e[s] # Last
  BY DEF is_free
<1>7. s \notin listing(d, p)
  <2> SUFFICES ASSUME NEW j \in 1 .. (m - 1), d[q[j]] # Free, s = q[j] PROVE FALSE
    BY <1>5
  <2>1. j \in 1 .. N /\ j < m
    BY <1>2
  <2>2. j = k
    BY <1>1, <1>2, <1>3, <2>1
  <2> QED BY <1>1, <2>1, <2>2
<1> DEFINE n == IF k < m THEN m ELSE m + 1
<1>8. n \in Nat /\ n \in 1 .. N /\ n # k /\ k \in 1 .. (n - 1)
  BY <1>1, <1>2
<1>9. e[q[n]] = Last
  BY <1>1, <1>2, <1>4, <1>8
<1>10. \A j \in 1 .. (n - 1) : j # k => j \in 1 .. (m - 1)
  BY <1>1, <1>2
<1>11. \A j \in 1 .. (m - 1) : j \in 1 .. (n - 1) /\ j \in 1 .. N
  BY <1>1, <1>2
<1> HIDE DEF n, q
<1>12. EndAt(e, p, n)
  <2>1. \A j \in 1 .. (n - 1) : e[q[j]] # Last
    BY <1>1, <1>2, <1>4, <1>6, <1>10, <1>11
  <2> QED BY <1>2, <1>8, <1>9, <2>1 DEF EndAt, q
<1>13. listing(e, p) = {q[j] : j \in {l \in 1 .. (n - 1) : e[q[l]] # Free}}
  BY <1>12, Listing DEF q
<1>14. listing(e, p) = listing(d, p) \cup {s}
  <2>1. ASSUME NEW x \in listing(e, p) PROVE x \in listing(d, p) \cup {s}
    <3>1. PICK j \in 1 .. (n - 1) : x = q[j] /\ e[q[j]] # Free
      BY <1>13
    <3>2. j # k => j \in 1 .. (m - 1) /\ d[q[j]] # Free
      BY <1>4, <1>10, <1>11, <3>1
    <3> QED BY <1>1, <1>5, <3>1, <3>2
  <2>2. ASSUME NEW x \in listing(d, p) PROVE x \in listing(e, p)
    <3>1. PICK j \in 1 .. (m - 1) : x = q[j] /\ d[q[j]] # Free
      BY <1>5
    <3>2. j # k
      BY <1>1, <1>7, <3>1
    <3>3. j \in 1 .. (n - 1) /\ e[q[j]] # Free
      BY <1>4, <1>11, <3>1, <3>2
    <3> QED BY <1>13, <3>1, <3>3
  <2>3. s \in listing(e, p)
    BY <1>1, <1>6, <1>8, <1>13
  <2> QED BY <2>1, <2>2, <2>3
<1>15. Ended(e, p)
  BY <1>8, <1>12 DEF Ended
<1> QED BY <1>3, <1>7, <1>14, <1>15

(* A directory with its own two entries and nothing else. *)
Dotty(d, c, p) ==
  /\ d[slot(c, 0)] = dot(c) /\ d[slot(c, 1)] = dotdot(up(p))
  /\ \A i \in Indices : i > 1 => d[slot(c, i)] = Last

LEMMA DottyList ==
  ASSUME NEW d, NEW c, Proper(d, c), NEW p, Dotty(d, c, p)
  PROVE  /\ Ended(d, c) /\ entries(d, c) = {} /\ listing(d, c) = {slot(c, 0), slot(c, 1)}
         /\ OnlyNames(d, <<c, NoClust>>)
<1> DEFINE s == slots(d, c)
<1>1. /\ DOMAIN s = 1 .. Len(s) /\ 0 + 1 \in 1 .. Len(s) /\ 1 + 1 \in 1 .. Len(s) /\ 2 + 1 \in 1 .. Len(s)
      /\ s[0 + 1] = slot(c, 0) /\ s[1 + 1] = slot(c, 1) /\ s[2 + 1] = slot(c, 2)
  BY SlotsOf, FatKinds
<1>2. s[1] = slot(c, 0) /\ s[2] = slot(c, 1) /\ s[3] = slot(c, 2) /\ 3 \in DOMAIN s
  BY <1>1
<1>3. d[slot(c, 0)] = dot(c) /\ d[slot(c, 1)] = dotdot(up(p)) /\ d[slot(c, 2)] = Last
  BY FatKinds DEF Dotty
<1>4. /\ dot(c) # Last /\ dot(c) # Free /\ dotdot(up(p)) # Last /\ dotdot(up(p)) # Free
      /\ ~is_entry(dot(c)) /\ ~is_entry(dotdot(up(p))) /\ dot(c) # Junk /\ dotdot(up(p)) # Junk
  BY ValueKinds DEF is_free
<1>5. \A k \in 1 .. 2 : k = 1 \/ k = 2
  OBVIOUS
<1>6. 3 - 1 = 2 /\ 3 \in Nat
  OBVIOUS
<1>7. EndAt(d, c, 3)
  BY <1>2, <1>3, <1>4, <1>5, <1>6 DEF EndAt
<1>8. listing(d, c) = {s[k] : k \in {j \in 1 .. 2 : d[s[j]] # Free}}
  BY <1>6, <1>7, Listing
<1>9. listing(d, c) = {slot(c, 0), slot(c, 1)}
  <2>1. 1 \in 1 .. 2 /\ 2 \in 1 .. 2
    OBVIOUS
  <2> QED BY <1>2, <1>3, <1>4, <1>5, <1>8, <2>1
<1>10. entries(d, c) = {}
  BY <1>3, <1>4, <1>9 DEF entries
<1>11. OnlyNames(d, <<c, NoClust>>)
  <2>1. ASSUME NEW t \in listing(d, c)
        PROVE  d[t] # Junk /\ ~is_entry(d[t]) /\ t[2] = c /\ t[3] < 2
    <3>1. slot(c, 0)[2] = c /\ slot(c, 0)[3] = 0 /\ slot(c, 1)[2] = c /\ slot(c, 1)[3] = 1
      BY CellKinds
    <3> QED BY <1>3, <1>4, <1>9, <3>1
  <2>2. <<c, NoClust>>[1] = c
    OBVIOUS
  <2> QED BY <2>1, <2>2 DEF OnlyNames
<1> QED BY <1>6, <1>7, <1>9, <1>10, <1>11 DEF Ended

(* An entry is added. *)
LEMMA AddStore ==
  ASSUME NEW d, NEW D, Good(d, D, {}), NEW c, Fresh(d, D, c), NEW p \in D,
         NEW k \in Kinds, NEW n \in Names, Entriless(d, p, n), k = "dir" => Dotty(d, c, p),
         NEW s, Spare(d, p, s)
  PROVE  Good([d EXCEPT ![s] = <<k, n, c, "long">>], IF k = "dir" THEN D \cup {c} ELSE D, {})
<1> DEFINE v == <<k, n, c, "long">>
           e == [d EXCEPT ![s] = v]
           H == heads(d, D, {})
           O == owners(d, H)
           E == IF k = "dir" THEN D \cup {c} ELSE D
<1>1. /\ d \in Store /\ D \subseteq O /\ Filed(d, D, {}) /\ Root \in D /\ D \subseteq Clusters
      /\ \A o \in O : Proper(d, o) /\ \A y \in members(d, o) : d[fat(y)] # CLUST_FREE
      /\ \A o, g \in O : o # g => members(d, o) \cap members(d, g) = {}
      /\ \A g \in D : Proper(d, g) /\ Ended(d, g) /\ OnlyNames(d, <<g, NoClust>>)
  BY DirsOwn DEF Good, Chained, Filed
<1>2. /\ c \in Clusters /\ c # NoClust /\ d[fat(c)] = CLUST_LAST
      /\ \A o \in O : c \notin members(d, o)
  BY FatKinds DEF Fresh
<1>3. c \notin O
  BY <1>1, <1>2, ProperType
<1>4. c \notin D /\ c # Root
  BY <1>1, <1>3
<1>5. /\ v \in Entries /\ v \in SlotValue /\ is_entry(v) /\ ~is_free(v) /\ v # Junk
      /\ v[1] = k /\ v[2] = n /\ v[3] = c /\ v[1] \notin {"dot", "dotdot"}
  <2>1. v \in Entries
    BY <1>2 DEF Entries, ClustOrNone
  <2>2. is_entry(v)
    BY DEF is_entry
  <2> QED BY <2>1, <2>2, ValueKinds
<1>6. s \in Slots /\ s[2] \in members(d, p) /\ Proper(d, p) /\ p \in O
  <2>1. Proper(d, p) /\ p \in O
    BY <1>1
  <2>2. PICK m \in Nat : \E j \in 1 .. m : EndAt(d, p, m) /\ s = slots(d, p)[j]
    BY DEF Spare
  <2> QED BY <2>1, <2>2, UpToEnd
<1>7. e \in Store /\ e[s] = v /\ \A x \in TreeCells : x # s => e[x] = d[x]
  BY <1>1, <1>5, <1>6, PutSlot
<1> HIDE DEF e, O, v
<1>8. \A x \in ClustOrNone : e[fat(x)] = d[fat(x)]
  BY <1>6, <1>7, CellKinds
<1>9. \A x \in Slots : x # s => e[x] = d[x]
  BY <1>7, CellKinds
<1>10. ASSUME NEW o \in O
       PROVE  Proper(e, o) /\ chain(e, o) = chain(d, o) /\ members(e, o) = members(d, o)
  <2>1. Proper(d, o)
    BY <1>1
  <2>2. \A y \in members(d, o) : e[fat(y)] = d[fat(y)]
    BY <1>8, <2>1, ProperType, FatKinds
  <2> QED BY <2>1, <2>2, ChainSame
<1>11. Proper(e, c) /\ members(e, c) = {c} /\ e[fat(c)] = CLUST_LAST
  BY <1>2, <1>8, FatKinds, ChainOfOne
<1>12. /\ Ended(e, p) /\ listing(e, p) = listing(d, p) \cup {s} /\ s \notin listing(d, p)
  <2>1. slots(e, p) = slots(d, p) /\ Proper(e, p)
    BY <1>6, <1>10 DEF slots
  <2>2. ~is_free(e[s])
    BY <1>5, <1>7
  <2> QED BY <1>6, <1>9, <2>1, <2>2, ListMore
<1>13. ASSUME NEW g \in D, g # p
       PROVE  Ended(e, g) /\ listing(e, g) = listing(d, g) /\ s \notin listing(d, g)
  <2>1. Proper(d, g) /\ Ended(d, g) /\ members(d, g) \cap members(d, p) = {} /\ g \in O
    BY <1>1, <1>6, <1>13
  <2>2. \A y \in members(d, g) : e[fat(y)] = d[fat(y)]
    BY <1>8, <2>1, ProperType, FatKinds
  <2>3. \A x \in Slots : x[2] \in members(d, g) => e[x] = d[x]
    BY <1>6, <1>9, <2>1
  <2>4. SameIn(d, e, g)
    BY <2>2, <2>3 DEF SameIn
  <2>5. Ended(e, g) /\ listing(e, g) = listing(d, g)
    BY <2>1, <2>4, DirSame
  <2>6. s \notin listing(d, g)
    BY <1>1, <1>6, <2>1, EntryType
  <2> QED BY <2>5, <2>6
<1>14. \A g \in D : \A t \in listing(d, g) : t # s /\ t \in Slots /\ e[t] = d[t]
  <2> TAKE g \in D
  <2> TAKE t \in listing(d, g)
  <2>1. t # s
    BY <1>12, <1>13
  <2>2. t \in Slots
    BY <1>1, EntryType
  <2> QED BY <1>9, <2>1, <2>2
<1>15. /\ \A g \in D : g # p => entries(e, g) = entries(d, g)
       /\ entries(e, p) = entries(d, p) \cup {s}
  <2>1. ASSUME NEW g \in D, g # p PROVE entries(e, g) = entries(d, g)
    BY <1>13, <1>14, <2>1 DEF entries
  <2>2. entries(e, p) = entries(d, p) \cup {s}
    BY <1>5, <1>7, <1>12, <1>14 DEF entries
  <2> QED BY <2>1, <2>2
<1>16. k = "dir" => /\ Dotty(e, c, p) /\ Ended(e, c) /\ entries(e, c) = {}
                    /\ OnlyNames(e, <<c, NoClust>>)
  <2> HAVE k = "dir"
  <2>1. \A i \in Indices : e[slot(c, i)] = d[slot(c, i)]
    <3> TAKE i \in Indices
    <3>1. slot(c, i) \in Slots /\ slot(c, i)[2] = c
      BY <1>2, CellKinds
    <3> QED BY <1>2, <1>6, <1>9, <3>1
  <2>2. Dotty(e, c, p)
    BY <2>1, FatKinds DEF Dotty
  <2> QED BY <1>11, <2>2, DottyList
<1>17. \A g \in E : Ended(e, g) /\ OnlyNames(e, <<g, NoClust>>)
  <2>1. ASSUME NEW g \in D, g # p PROVE Ended(e, g) /\ OnlyNames(e, <<g, NoClust>>)
    <3>1. OnlyNames(d, <<g, NoClust>>) /\ <<g, NoClust>>[1] = g
      BY <1>1
    <3>2. listing(e, g) = listing(d, g) /\ \A t \in listing(d, g) : e[t] = d[t]
      BY <1>13, <1>14, <2>1
    <3> QED BY <1>13, <2>1, <3>1, <3>2 DEF OnlyNames
  <2>2. OnlyNames(e, <<p, NoClust>>)
    <3>1. OnlyNames(d, <<p, NoClust>>) /\ <<p, NoClust>>[1] = p
      BY <1>1
    <3>2. \A t \in listing(d, p) :
            /\ d[t] # Junk /\ (d[t][1] \in {"dot", "dotdot"} => t[2] = p /\ t[3] < 2)
            /\ \A u \in listing(d, p) : t # u /\ is_entry(d[t]) /\ is_entry(d[u]) => d[t][2] # d[u][2]
      BY <3>1 DEF OnlyNames
    <3>3. \A t \in listing(d, p) : is_entry(d[t]) => d[t][2] # n
      BY DEF Entriless, entries
    <3>4. \A t \in listing(d, p) : e[t] = d[t] /\ t # s
      BY <1>14
    <3>5. ASSUME NEW t \in listing(e, p)
          PROVE  /\ e[t] # Junk
                 /\ e[t][1] \in {"dot", "dotdot"} => t[2] = p /\ t[3] < 2
                 /\ \A u \in listing(e, p) :
                      t # u /\ is_entry(e[t]) /\ is_entry(e[u]) => e[t][2] # e[u][2]
      <4>1. CASE t = s
        BY <1>5, <1>7, <1>12, <3>3, <3>4, <4>1
      <4>2. CASE t # s
        <5>1. t \in listing(d, p) /\ e[t] = d[t]
          BY <1>12, <3>4, <4>2
        <5>2. \A u \in listing(e, p) : t # u /\ is_entry(e[t]) /\ is_entry(e[u]) => e[t][2] # e[u][2]
          <6> TAKE u \in listing(e, p)
          <6>1. CASE u = s
            BY <1>5, <1>7, <3>3, <5>1, <6>1
          <6>2. CASE u # s
            BY <1>12, <3>2, <3>4, <5>1, <6>2
          <6> QED BY <6>1, <6>2
        <5> QED BY <3>2, <5>1, <5>2
      <4> QED BY <4>1, <4>2
    <3> QED BY <3>1, <3>5 DEF OnlyNames
  <2> QED BY <1>12, <1>16, <2>1, <2>2
<1>18. /\ heads(e, E, {}) = H \cup {s} /\ \A t \in H : e[t] = d[t] /\ t # s
       /\ \A t \in H : d[t][3] \in O \cup {NoClust}
  <2>1. heads(e, D, {}) = H \cup {s}
    BY <1>15 DEF heads
  <2>2. heads(e, E, {}) = heads(e, D, {})
    BY <1>16 DEF heads
  <2>3. \A t \in H : e[t] = d[t] /\ t # s
    BY <1>14 DEF heads, entries
  <2>4. \A t \in H : d[t][3] \in O \cup {NoClust}
    BY DEF owners, O
  <2> QED BY <2>1, <2>2, <2>3, <2>4
<1>19. owners(e, heads(e, E, {})) = O \cup {c}
  <2> DEFINE G == heads(e, E, {})
  <2>1. O = ({Root} \cup {d[t][3] : t \in H}) \ {NoClust}
    BY DEF owners, O
  <2>2. e[s][3] = c
    BY <1>5, <1>7
  <2> HIDE DEF H, G, E
  <2>3. ({Root} \cup {e[t][3] : t \in H \cup {s}}) \ {NoClust} = O \cup {c}
    BY <1>2, <1>18, <2>1, <2>2
  <2>4. owners(e, H \cup {s}) = ({Root} \cup {e[t][3] : t \in H \cup {s}}) \ {NoClust}
    BY DEF owners
  <2> QED BY <1>18, <2>3, <2>4
<1>20. Chained(e, O \cup {c})
  <2>1. ASSUME NEW o \in O \cup {c} PROVE Proper(e, o) /\ \A y \in members(e, o) : e[fat(y)] # CLUST_FREE
    <3>1. CASE o \in O
      <4>1. Proper(d, o) /\ members(d, o) \subseteq ClustOrNone
        BY <1>1, <3>1, ProperType, FatKinds
      <4> QED BY <1>1, <1>8, <1>10, <3>1, <4>1
    <3>2. CASE o = c
      BY <1>11, <3>2, FatKinds
    <3> QED BY <3>1, <3>2
  <2>2. ASSUME NEW o \in O \cup {c}, NEW g \in O \cup {c}, o # g
        PROVE  members(e, o) \cap members(e, g) = {}
    <3>1. CASE o \in O /\ g \in O
      BY <1>1, <1>10, <2>2, <3>1
    <3>2. CASE o = c \/ g = c
      BY <1>2, <1>10, <1>11, <2>2, <3>2
    <3> QED BY <3>1, <3>2
  <2> QED BY <2>1, <2>2 DEF Chained
<1>21. ASSUME NEW g \in E, NEW t \in entries(e, g) PROVE Kept1(e, E, g, t)
  <2>1. g \in D
    BY <1>16
  <2>2. CASE t = s
    <3>1. g = p
      BY <1>13, <1>15, <2>1, <2>2 DEF entries
    <3>2. Dotted(e, <<c, up(p)>>) \/ k # "dir"
      <4>1. <<c, up(p)>>[1] = c /\ <<c, up(p)>>[2] = up(p)
        OBVIOUS
      <4> QED BY <1>16, <4>1 DEF Dotted, Dotty
    <3> QED BY <1>5, <1>7, <2>2, <3>1, <3>2 DEF Kept1
  <2>3. CASE t # s
    <3>1. t \in entries(d, g) /\ e[t] = d[t]
      BY <1>14, <1>15, <2>1, <2>3 DEF entries
    <3>2. Kept1(d, D, g, t)
      BY <1>1, <2>1, <3>1 DEF Filed
    <3> SUFFICES ASSUME d[t][1] = "dir" PROVE d[t][3] \in E /\ Dotted(e, <<d[t][3], up(g)>>)
      BY <3>1 DEF Kept1
    <3>3. d[t][3] \in D /\ Dotted(d, <<d[t][3], up(g)>>)
      BY <3>2 DEF Kept1
    <3>4. d[t][3] # Root => /\ slot(d[t][3], 0) \in listing(d, d[t][3])
                            /\ slot(d[t][3], 1) \in listing(d, d[t][3])
      BY <3>3, DotsListed
    <3>5. d[t][3] # Root => /\ e[slot(d[t][3], 0)] = d[slot(d[t][3], 0)]
                            /\ e[slot(d[t][3], 1)] = d[slot(d[t][3], 1)]
      BY <1>14, <3>3, <3>4
    <3>6. <<d[t][3], up(g)>>[1] = d[t][3] /\ <<d[t][3], up(g)>>[2] = up(g)
      OBVIOUS
    <3> QED BY <3>3, <3>5, <3>6 DEF Dotted
  <2> QED BY <2>2, <2>3
<1>22. \A g \in E \ {Root} : \E t \in heads(e, E, {}) : e[t][1] = "dir" /\ e[t][3] = g
  <2> TAKE g \in E \ {Root}
  <2>1. CASE g \in D
    <3>1. PICK t \in H : d[t][1] = "dir" /\ d[t][3] = g
      BY <1>1, <2>1 DEF Filed
    <3> QED BY <1>18, <3>1
  <2>2. CASE g \notin D
    <3>1. g = c /\ k = "dir"
      BY <2>2
    <3> QED BY <1>5, <1>7, <1>18, <3>1
  <2> QED BY <2>1, <2>2
<1>23. \A t \in heads(e, E, {}) : e[t][3] # Root
  BY <1>1, <1>4, <1>5, <1>7, <1>18 DEF Filed
<1>24. \A t, u \in heads(e, E, {}) : e[t][3] = e[u][3] /\ e[t][3] # NoClust => t = u
  <2>1. \A t, u \in H : d[t][3] = d[u][3] /\ d[t][3] # NoClust => t = u
    BY <1>1 DEF Filed
  <2>2. \A t \in H : e[t][3] # e[s][3]
    BY <1>2, <1>3, <1>5, <1>7, <1>18
  <2> QED BY <1>18, <2>1, <2>2
<1>25. E \subseteq Clusters /\ Root \in E
  BY <1>1, <1>2
<1> HIDE DEF E
<1>26. Filed(e, E, {})
  BY <1>17, <1>21, <1>22, <1>23, <1>24, <1>25 DEF Filed
<1>27. Good(e, E, {})
  BY <1>7, <1>19, <1>20, <1>26 DEF Good
<1> QED BY <1>27 DEF e, E, v

(* An entry is removed from what a directory lists. *)
LEMMA ListLess ==
  ASSUME NEW d, NEW e, NEW p, Proper(d, p), Ended(d, p), Proper(e, p), slots(e, p) = slots(d, p),
         NEW s \in listing(d, p), e[s] = Free, \A x \in Slots : x # s => e[x] = d[x]
  PROVE  /\ Ended(e, p) /\ listing(e, p) = listing(d, p) \ {s}
         /\ s \in Slots /\ s[2] \in members(d, p)
<1> DEFINE q == slots(d, p)
           N == Len(q)
<1>1. PICK m \in Nat : EndAt(d, p, m)
  BY DEF Ended
<1>2. /\ m \in 1 .. N /\ DOMAIN q = 1 .. N /\ N \in Nat /\ DOMAIN slots(e, p) = 1 .. N
      /\ \A j \in 1 .. N : q[j] \in Slots /\ q[j][2] \in members(d, p)
      /\ \A j, l \in 1 .. N : q[j] = q[l] => j = l
      /\ d[q[m]] = Last /\ \A j \in 1 .. (m - 1) : d[q[j]] # Last
  BY <1>1, Listing, SlotsOf DEF EndAt
<1>3. listing(d, p) = {q[j] : j \in {l \in 1 .. (m - 1) : d[q[l]] # Free}}
  BY <1>1, Listing
<1>4. PICK k \in 1 .. (m - 1) : s = q[k] /\ d[q[k]] # Free
  BY <1>3
<1>5. k \in 1 .. N /\ k # m /\ m \in 1 .. N /\ \A j \in 1 .. (m - 1) : j \in 1 .. N
  BY <1>2, <1>4
<1>6. \A j \in 1 .. N : j # k => e[q[j]] = d[q[j]]
  BY <1>2, <1>4, <1>5
<1>7. Free # Last
  BY ValueKinds
<1>8. e[q[m]] = Last /\ \A j \in 1 .. (m - 1) : e[q[j]] # Last
  BY <1>2, <1>4, <1>5, <1>6, <1>7
<1>9. EndAt(e, p, m)
  BY <1>2, <1>8 DEF EndAt
<1>10. listing(e, p) = {q[j] : j \in {l \in 1 .. (m - 1) : e[q[l]] # Free}}
  BY <1>9, Listing
<1> HIDE DEF q
<1>11. listing(e, p) = listing(d, p) \ {s}
  <2>1. ASSUME NEW x \in listing(e, p) PROVE x \in listing(d, p) \ {s}
    <3>1. PICK j \in 1 .. (m - 1) : x = q[j] /\ e[q[j]] # Free
      BY <1>10
    <3>2. j # k
      BY <1>4, <3>1
    <3> QED BY <1>2, <1>3, <1>4, <1>5, <1>6, <3>1, <3>2
  <2>2. ASSUME NEW x \in listing(d, p) \ {s} PROVE x \in listing(e, p)
    <3>1. PICK j \in 1 .. (m - 1) : x = q[j] /\ d[q[j]] # Free
      BY <1>3
    <3>2. j # k
      BY <1>4, <3>1
    <3> QED BY <1>5, <1>6, <1>10, <3>1, <3>2
  <2> QED BY <2>1, <2>2
<1> QED BY <1>2, <1>4, <1>5, <1>9, <1>11 DEF Ended

(* The entry of a chain that is freed already. *)
LEMMA RemoveStore ==
  ASSUME NEW d, NEW D, NEW s, Good(d, D, {s}), NEW p \in D, s \in entries(d, p)
  PROVE  Good([d EXCEPT ![s] = Free], D, {})
<1> DEFINE e == [d EXCEPT ![s] = Free]
           H == heads(d, D, {s})
           O == owners(d, H)
<1>1. /\ d \in Store /\ D \subseteq O /\ Filed(d, D, {s}) /\ Root \in D /\ D \subseteq Clusters
      /\ Chained(d, O)
      /\ \A o \in O : Proper(d, o) /\ \A y \in members(d, o) : d[fat(y)] # CLUST_FREE
      /\ \A o, g \in O : o # g => members(d, o) \cap members(d, g) = {}
      /\ \A g \in D : Proper(d, g) /\ Ended(d, g) /\ OnlyNames(d, <<g, NoClust>>)
  BY DirsOwn DEF Good, Chained, Filed
<1>2. s \in Slots /\ s \in listing(d, p) /\ is_entry(d[s]) /\ s[2] \in members(d, p)
  BY EntryIs
<1>3. e \in Store /\ e[s] = Free /\ \A x \in TreeCells : x # s => e[x] = d[x]
  BY <1>1, <1>2, PutSlot, ValueKinds
<1> HIDE DEF e, O
<1>4. /\ \A x \in ClustOrNone : e[fat(x)] = d[fat(x)]
      /\ \A x \in Slots : x # s => e[x] = d[x]
  BY <1>2, <1>3, CellKinds
<1>5. ASSUME NEW o \in O
      PROVE  Proper(e, o) /\ chain(e, o) = chain(d, o) /\ members(e, o) = members(d, o)
  <2>1. Proper(d, o)
    BY <1>1
  <2>2. \A y \in members(d, o) : e[fat(y)] = d[fat(y)]
    BY <1>4, <2>1, ProperType, FatKinds
  <2> QED BY <2>1, <2>2, ChainSame
<1>6. Ended(e, p) /\ listing(e, p) = listing(d, p) \ {s}
  <2>1. slots(e, p) = slots(d, p) /\ Proper(e, p) /\ Proper(d, p) /\ Ended(d, p)
    BY <1>1, <1>5 DEF slots
  <2> QED BY <1>2, <1>3, <1>4, <2>1, ListLess
<1>7. ASSUME NEW g \in D, g # p PROVE Ended(e, g) /\ listing(e, g) = listing(d, g) /\ s \notin listing(d, g)
  <2>1. Proper(d, g) /\ Ended(d, g) /\ members(d, g) \cap members(d, p) = {} /\ g \in O
    BY <1>1, <1>7
  <2>2. \A y \in members(d, g) : e[fat(y)] = d[fat(y)]
    BY <1>4, <2>1, ProperType, FatKinds
  <2>3. \A x \in Slots : x[2] \in members(d, g) => e[x] = d[x]
    BY <1>2, <1>4, <2>1
  <2>4. SameIn(d, e, g)
    BY <2>2, <2>3 DEF SameIn
  <2>5. Ended(e, g) /\ listing(e, g) = listing(d, g)
    BY <2>1, <2>4, DirSame
  <2>6. s \notin listing(d, g)
    BY <1>1, <1>2, <2>1, EntryType
  <2> QED BY <2>5, <2>6
<1>8. \A g \in D : /\ Ended(e, g) /\ listing(e, g) = listing(d, g) \ {s}
                   /\ \A t \in listing(d, g) : t # s => e[t] = d[t]
  <2> TAKE g \in D
  <2>1. Ended(e, g) /\ listing(e, g) = listing(d, g) \ {s}
    BY <1>6, <1>7
  <2>2. listing(d, g) \subseteq Slots
    BY <1>1, EntryType
  <2> QED BY <1>4, <2>1, <2>2
<1>9. \A g \in D : entries(e, g) = entries(d, g) \ {s}
  <2> TAKE g \in D
  <2>1. listing(e, g) = listing(d, g) \ {s} /\ \A t \in listing(d, g) : t # s => e[t] = d[t]
    BY <1>8
  <2> QED BY <2>1 DEF entries
<1>10. heads(e, D, {}) = H /\ \A t \in H : e[t] = d[t]
  <2>1. heads(e, D, {}) = H
    BY <1>9 DEF heads
  <2>2. \A t \in H : e[t] = d[t]
    BY <1>8 DEF heads, entries
  <2> QED BY <2>1, <2>2
<1>11. owners(e, heads(e, D, {})) = O
  <2> HIDE DEF H
  <2> QED BY <1>10 DEF owners, O
<1>12. Chained(e, O)
  <2>1. ASSUME NEW o \in O PROVE Proper(e, o) /\ \A y \in members(e, o) : e[fat(y)] # CLUST_FREE
    <3>1. Proper(d, o) /\ members(d, o) \subseteq ClustOrNone
      BY <1>1, ProperType, FatKinds
    <3> QED BY <1>1, <1>4, <1>5, <3>1
  <2> QED BY <1>1, <1>5, <2>1 DEF Chained
<1>13. ASSUME NEW g \in D PROVE Ended(e, g) /\ OnlyNames(e, <<g, NoClust>>)
  <2>1. OnlyNames(d, <<g, NoClust>>) /\ <<g, NoClust>>[1] = g
    BY <1>1
  <2>2. /\ Ended(e, g) /\ listing(e, g) = listing(d, g) \ {s}
        /\ \A t \in listing(d, g) : t # s => e[t] = d[t]
    BY <1>8
  <2>3. OnlyNames(e, <<g, NoClust>>)
    BY <2>1, <2>2 DEF OnlyNames
  <2> QED BY <2>2, <2>3
<1>14. ASSUME NEW g \in D, NEW t \in entries(e, g) PROVE Kept1(e, D, g, t)
  <2>1. t \in entries(d, g) /\ t # s /\ e[t] = d[t]
    BY <1>8, <1>9 DEF entries
  <2>2. Kept1(d, D, g, t)
    BY <1>1, <2>1 DEF Filed
  <2> SUFFICES ASSUME d[t][1] = "dir" PROVE d[t][3] \in D /\ Dotted(e, <<d[t][3], up(g)>>)
    BY <2>1 DEF Kept1
  <2>3. d[t][3] \in D /\ Dotted(d, <<d[t][3], up(g)>>)
    BY <2>2 DEF Kept1
  <2>4. d[t][3] # Root =>
          /\ slot(d[t][3], 0) \in Slots /\ slot(d[t][3], 1) \in Slots
          /\ slot(d[t][3], 0) # s /\ slot(d[t][3], 1) # s
    <3> HAVE d[t][3] # Root
    <3>1. <<d[t][3], up(g)>>[1] = d[t][3] /\ <<d[t][3], up(g)>>[2] = up(g)
      OBVIOUS
    <3>2. d[slot(d[t][3], 0)] = dot(d[t][3]) /\ d[slot(d[t][3], 1)] = dotdot(up(g))
      BY <2>3, <3>1 DEF Dotted
    <3>3. slot(d[t][3], 0) \in Slots /\ slot(d[t][3], 1) \in Slots
      BY <1>1, <2>3, CellKinds, FatKinds
    <3> QED BY <1>2, <3>2, <3>3, ValueKinds
  <2>5. d[t][3] # Root => /\ e[slot(d[t][3], 0)] = d[slot(d[t][3], 0)]
                          /\ e[slot(d[t][3], 1)] = d[slot(d[t][3], 1)]
    BY <1>4, <2>4
  <2>6. <<d[t][3], up(g)>>[1] = d[t][3] /\ <<d[t][3], up(g)>>[2] = up(g)
    OBVIOUS
  <2> QED BY <2>3, <2>5, <2>6 DEF Dotted
<1>15. \A g \in D \ {Root} : \E t \in heads(e, D, {}) : e[t][1] = "dir" /\ e[t][3] = g
  BY <1>1, <1>10 DEF Filed
<1>16. \A t \in heads(e, D, {}) : e[t][3] # Root
  BY <1>1, <1>10 DEF Filed
<1>17. \A t, u \in heads(e, D, {}) : e[t][3] = e[u][3] /\ e[t][3] # NoClust => t = u
  BY <1>1, <1>10 DEF Filed
<1>18. Filed(e, D, {})
  BY <1>1, <1>13, <1>14, <1>15, <1>16, <1>17 DEF Filed
<1> QED BY <1>3, <1>11, <1>12, <1>18 DEF Good, e

(* The chain of an entry is freed. *)
Unchained(d, e, c) ==
  \A x \in TreeCells : e[x] = IF \E y \in members(d, c) : x = fat(y) THEN CLUST_FREE ELSE d[x]

LEMMA StillEmpty ==
  ASSUME NEW d, NEW e, NEW c, Proper(d, c), Ended(d, c), entries(d, c) = {},
         e[fat(c)] \notin Clusters, \A x \in Slots : e[x] = d[x]
  PROVE  entries(e, c) = {}
<1>1. c \in Clusters /\ c \in ClustOrNone
  BY ProperType, FatKinds
<1>2. chain(e, c) = <<c>> /\ Proper(e, c)
  BY <1>1, ChainOfOne
<1>3. Len(slots(e, c)) = PerClust /\ PerClust \in Nat
  <2>1. Room(<<c>>) = PerClust
    BY FatKinds DEF Room
  <2> QED BY <1>2, <2>1, SlotsOf, FatKinds
<1>4. ASSUME NEW k \in 1 .. PerClust
      PROVE  /\ k \in DOMAIN slots(e, c) /\ k \in DOMAIN slots(d, c) /\ k \in Nat
             /\ slots(e, c)[k] = slots(d, c)[k] /\ slots(e, c)[k] \in Slots
  <2>1. k - 1 \in Indices /\ (k - 1) + 1 = k
    BY <1>3 DEF Indices
  <2>2. /\ k \in 1 .. Len(slots(e, c)) /\ slots(e, c)[k] = slot(c, k - 1)
        /\ DOMAIN slots(e, c) = 1 .. Len(slots(e, c)) /\ slots(e, c)[k] \in Slots
    BY <1>2, <1>3, <2>1, SlotsOf
  <2>3. /\ k \in 1 .. Len(slots(d, c)) /\ slots(d, c)[k] = slot(c, k - 1)
        /\ DOMAIN slots(d, c) = 1 .. Len(slots(d, c))
    BY <2>1, SlotsOf
  <2> QED BY <2>2, <2>3
<1>5. PICK m \in Nat : EndAt(d, c, m)
  BY DEF Ended
<1>6. /\ listing(d, c) = {slots(d, c)[k] : k \in {j \in 1 .. (m - 1) : d[slots(d, c)[j]] # Free}}
      /\ m \in Nat /\ m > 0 /\ d[slots(d, c)[m]] = Last
  <2>1. m \in 1 .. Len(slots(d, c))
    BY <1>5, Listing
  <2> QED BY <1>5, <2>1, Listing DEF EndAt
<1> SUFFICES ASSUME NEW t \in entries(e, c) PROVE FALSE
  OBVIOUS
<1>7. t \in listing(e, c) /\ is_entry(e[t])
  BY DEF entries
<1>8. PICK k \in DOMAIN slots(e, c) :
        /\ t = slots(e, c)[k] /\ ~is_free(e[t])
        /\ \A j \in DOMAIN slots(e, c) : e[slots(e, c)[j]] = Last => k < j
  BY <1>7 DEF listing
<1>9. k \in 1 .. PerClust /\ DOMAIN slots(e, c) = 1 .. PerClust
  <2>1. DOMAIN slots(e, c) = 1 .. Len(slots(e, c))
    BY <1>2, SlotsOf
  <2> QED BY <1>3, <1>8, <2>1
<1>10. t = slots(d, c)[k] /\ t \in Slots /\ e[t] = d[t] /\ k \in Nat
  BY <1>4, <1>8, <1>9
<1>11. k < m
  <2>1. CASE m \in 1 .. PerClust
    <3>1. slots(e, c)[m] = slots(d, c)[m] /\ slots(e, c)[m] \in Slots /\ m \in DOMAIN slots(e, c)
      BY <1>4, <2>1
    <3> QED BY <1>6, <1>8, <3>1
  <2>2. CASE m \notin 1 .. PerClust
    BY <1>3, <1>6, <1>9, <2>2
  <2> QED BY <2>1, <2>2
<1>12. k \in 1 .. (m - 1) /\ d[slots(d, c)[k]] # Free
  BY <1>3, <1>6, <1>8, <1>9, <1>10, <1>11 DEF is_free
<1>13. t \in entries(d, c)
  BY <1>6, <1>7, <1>10, <1>12 DEF entries
<1> QED BY <1>13

LEMMA UnchainStore ==
  ASSUME NEW d, NEW D, Good(d, D, {}), NEW p \in D, NEW s \in entries(d, p),
         d[s][1] = "dir" => entries(d, d[s][3]) = {}, NEW e \in Store, Unchained(d, e, d[s][3])
  PROVE  /\ Good(e, D \ {d[s][3]}, {s}) /\ p \in D \ {d[s][3]}
         /\ s \in entries(e, p) /\ e[s] = d[s]
<1> DEFINE c == d[s][3]
           E == D \ {c}
           H == heads(d, D, {})
           O == owners(d, H)
<1>1. /\ d \in Store /\ D \subseteq O /\ Filed(d, D, {}) /\ Root \in D /\ D \subseteq Clusters
      /\ \A o \in O : Proper(d, o) /\ \A y \in members(d, o) : d[fat(y)] # CLUST_FREE
      /\ \A o, g \in O : o # g => members(d, o) \cap members(d, g) = {}
      /\ \A g \in D : Proper(d, g) /\ Ended(d, g) /\ OnlyNames(d, <<g, NoClust>>)
  BY DirsOwn DEF Good, Chained, Filed
<1>2. /\ s \in Slots /\ s \in listing(d, p) /\ is_entry(d[s]) /\ s[2] \in members(d, p)
      /\ c \in ClustOrNone /\ d[s][1] \in Kinds
  BY EntryIs
<1>3. s \in H /\ c # Root /\ \A t \in H : d[t][3] = c /\ c # NoClust => t = s
  BY <1>1 DEF heads, Filed
<1>4. c # NoClust => c \in O
  BY <1>3 DEF owners
<1>5. c \in D => d[s][1] = "dir" /\ entries(d, c) = {}
  <2> HAVE c \in D
  <2>1. PICK t \in H : d[t][1] = "dir" /\ d[t][3] = c
    BY <1>1, <1>3 DEF Filed
  <2>2. c # NoClust
    BY <1>1, FatKinds
  <2>3. t = s
    BY <1>3, <2>1, <2>2
  <2> QED BY <2>1, <2>3
<1>6. p \in E
  BY <1>5
<1>7. \A o \in O : o # c => members(d, o) \cap members(d, c) = {}
  <2>1. CASE c = NoClust
    <3>1. members(d, c) = {c}
      BY <1>1, <1>2, <2>1, ChainOfOne DEF Store
    <3>2. \A o \in O : members(d, o) \subseteq Clusters
      BY <1>1, ProperType
    <3> QED BY <2>1, <3>1, <3>2, FatKinds
  <2>2. CASE c # NoClust
    BY <1>1, <1>4, <2>2
  <2> QED BY <2>1, <2>2
<1>8. \A t \in H : t # s => d[t][3] # c \/ c = NoClust
  BY <1>3
<1>9. \A x \in Slots : e[x] = d[x]
  <2> TAKE x \in Slots
  <2>1. x \in TreeCells /\ \A y \in members(d, c) : x # fat(y)
    BY CellKinds
  <2> QED BY <2>1 DEF Unchained
<1>10. \A y \in ClustOrNone : y \notin members(d, c) => e[fat(y)] = d[fat(y)]
  <2> TAKE y \in ClustOrNone
  <2> HAVE y \notin members(d, c)
  <2>1. fat(y) \in TreeCells /\ \A z \in members(d, c) : fat(y) # fat(z)
    BY CellKinds
  <2> QED BY <2>1 DEF Unchained
<1> HIDE DEF O, c
<1>11. ASSUME NEW o \in O, o # c
       PROVE  /\ Proper(e, o) /\ chain(e, o) = chain(d, o) /\ members(e, o) = members(d, o)
              /\ \A y \in members(d, o) : e[fat(y)] = d[fat(y)]
  <2>1. Proper(d, o) /\ members(d, o) \cap members(d, c) = {}
    BY <1>1, <1>7, <1>11
  <2>2. \A y \in members(d, o) : e[fat(y)] = d[fat(y)]
    BY <1>10, <2>1, ProperType, FatKinds
  <2> QED BY <2>1, <2>2, ChainSame
<1>12. ASSUME NEW g \in E
       PROVE  Ended(e, g) /\ listing(e, g) = listing(d, g) /\ entries(e, g) = entries(d, g)
  <2>1. Proper(d, g) /\ Ended(d, g) /\ g \in O /\ g # c
    BY <1>1
  <2>2. SameIn(d, e, g)
    BY <1>9, <1>11, <2>1 DEF SameIn
  <2> QED BY <2>1, <2>2, DirSame
<1>13. heads(e, E, {s}) = H \ {s}
  <2>1. \A g \in D : g \notin E => entries(d, g) = {}
    BY <1>5
  <2>2. \A t \in H : \E g \in E : t \in entries(d, g)
    BY <2>1 DEF heads
  <2>3. \A g \in E : entries(d, g) \subseteq H
    BY DEF heads
  <2> HIDE DEF H, E
  <2>4. heads(e, E, {s}) = (UNION {entries(e, g) : g \in E}) \ {s}
    BY DEF heads
  <2>5. \A t : t \in UNION {entries(e, g) : g \in E} <=> t \in H
    BY <1>12, <2>2, <2>3
  <2> QED BY <2>4, <2>5
<1>14. H \subseteq Slots /\ \A t \in H : e[t] = d[t]
  <2>1. H \subseteq Slots
    BY EntryIs DEF heads
  <2> QED BY <1>9, <2>1
<1>15. owners(e, heads(e, E, {s})) = O \ {c}
  <2>1. O = ({Root} \cup {d[t][3] : t \in H}) \ {NoClust}
    BY DEF owners, O
  <2>2. owners(e, H \ {s}) = ({Root} \cup {e[t][3] : t \in H \ {s}}) \ {NoClust}
    BY DEF owners
  <2>3. d[s][3] = c
    BY DEF c
  <2> HIDE DEF H, E
  <2>4. ({Root} \cup {e[t][3] : t \in H \ {s}}) \ {NoClust} = O \ {c}
    BY <1>3, <1>8, <1>14, <2>1, <2>3
  <2> QED BY <1>13, <2>2, <2>4
<1>16. Chained(e, O \ {c})
  <2>1. ASSUME NEW o \in O \ {c} PROVE Proper(e, o) /\ \A y \in members(e, o) : e[fat(y)] # CLUST_FREE
    BY <1>1, <1>11
  <2>2. ASSUME NEW o \in O \ {c}, NEW g \in O \ {c}, o # g
        PROVE  members(e, o) \cap members(e, g) = {}
    BY <1>1, <1>11, <2>2
  <2> QED BY <2>1, <2>2 DEF Chained
<1>17. ASSUME NEW g \in E PROVE Ended(e, g) /\ OnlyNames(e, <<g, NoClust>>)
  <2>1. OnlyNames(d, <<g, NoClust>>) /\ <<g, NoClust>>[1] = g /\ listing(d, g) \subseteq Slots
    BY <1>1, EntryType
  <2>2. Ended(e, g) /\ listing(e, g) = listing(d, g) /\ \A t \in listing(d, g) : e[t] = d[t]
    BY <1>9, <1>12, <2>1
  <2>3. OnlyNames(e, <<g, NoClust>>)
    BY <2>1, <2>2 DEF OnlyNames
  <2> QED BY <2>2, <2>3
<1>18. d[s][1] = "dir" => entries(e, c) = {}
  <2> HAVE d[s][1] = "dir"
  <2>1. Kept1(d, D, p, s)
    BY <1>1 DEF Filed
  <2>2. c \in D /\ entries(d, c) = {}
    BY <2>1 DEF Kept1, c
  <2>3. Proper(d, c) /\ Ended(d, c) /\ c \in members(d, c) /\ c \in ClustOrNone
    BY <1>1, <2>2, ProperType, FatKinds
  <2>4. e[fat(c)] = CLUST_FREE
    <3>1. fat(c) \in TreeCells
      BY <2>3, CellKinds
    <3> QED BY <2>3, <3>1 DEF Unchained, c
  <2>5. e[fat(c)] \notin Clusters
    BY <2>4, FatKinds
  <2> QED BY <1>9, <2>2, <2>3, <2>5, StillEmpty
<1>19. s \in entries(e, p) /\ e[s] = d[s]
  BY <1>2, <1>6, <1>9, <1>12
<1>20. ASSUME NEW g \in E, NEW t \in entries(e, g)
       PROVE  IF t \in {s} THEN e[t][1] = "dir" => entries(e, e[t][3]) = {} ELSE Kept1(e, E, g, t)
  <2>1. CASE t = s
    BY <1>18, <1>19, <2>1 DEF c
  <2>2. CASE t # s
    <3>1. t \in entries(d, g) /\ e[t] = d[t] /\ t \in H /\ g \in D
      BY <1>12, <1>14 DEF heads
    <3>2. Kept1(d, D, g, t)
      BY <1>1, <3>1 DEF Filed
    <3>3. d[t][1] = "dir" => d[t][3] \in E /\ Dotted(e, <<d[t][3], up(g)>>)
      <4> HAVE d[t][1] = "dir"
      <4>1. d[t][3] \in D /\ Dotted(d, <<d[t][3], up(g)>>)
        BY <3>2 DEF Kept1
      <4>2. d[t][3] # c
        BY <1>1, <1>8, <2>2, <3>1, <4>1, FatKinds
      <4>3. slot(d[t][3], 0) \in Slots /\ slot(d[t][3], 1) \in Slots
        BY <1>1, <4>1, CellKinds, FatKinds
      <4>4. <<d[t][3], up(g)>>[1] = d[t][3] /\ <<d[t][3], up(g)>>[2] = up(g)
        OBVIOUS
      <4> QED BY <1>9, <4>1, <4>2, <4>3, <4>4 DEF Dotted
    <3> QED BY <2>2, <3>1, <3>3 DEF Kept1
  <2> QED BY <2>1, <2>2
<1>21. \A g \in E \ {Root} : \E t \in heads(e, E, {s}) : e[t][1] = "dir" /\ e[t][3] = g
  <2> TAKE g \in E \ {Root}
  <2>1. PICK t \in H : d[t][1] = "dir" /\ d[t][3] = g
    BY <1>1 DEF Filed
  <2>2. t # s
    BY <2>1 DEF c
  <2> QED BY <1>13, <1>14, <2>1, <2>2
<1>22. \A t \in heads(e, E, {s}) : e[t][3] # Root
  <2>1. \A t \in H : d[t][3] # Root
    BY <1>1 DEF Filed
  <2> HIDE DEF H, E
  <2> QED BY <1>13, <1>14, <2>1
<1>23. \A t, u \in heads(e, E, {s}) : e[t][3] = e[u][3] /\ e[t][3] # NoClust => t = u
  <2>1. \A t, u \in H : d[t][3] = d[u][3] /\ d[t][3] # NoClust => t = u
    BY <1>1 DEF Filed
  <2> HIDE DEF H, E
  <2> QED BY <1>13, <1>14, <2>1
<1>24. Root \in E /\ E \subseteq Clusters
  BY <1>1, <1>3 DEF c
<1> HIDE DEF E
<1>25. Filed(e, E, {s})
  BY <1>17, <1>20, <1>21, <1>22, <1>23, <1>24 DEF Filed
<1>26. Good(e, E, {s})
  BY <1>15, <1>16, <1>25 DEF Good
<1> QED BY <1>6, <1>19, <1>26 DEF E, c

-----------------------------------------------------------------------------
(* Following a path. *)

LEMMA LeastIs ==
  ASSUME NEW T \in SUBSET Nat, T # {}
  PROVE  Min(T) \in T /\ \A k \in T : Min(T) <= k
<1>1. \E m \in T : \A k \in T : m <= k
  BY LeastNat
<1> QED BY <1>1 DEF Min

(* dir_search stops at the entry with that name, or at the end marker. *)
LEMMA Search ==
  ASSUME NEW D, Good(View, D, {}), NEW c \in D, NEW n
  PROVE  LET r == dir_search(c, n) IN
         /\ r.slot \in Slots
         /\ r.found => /\ r.slot \in entries(View, c) /\ View[r.slot][2] = n
         /\ ~r.found => Entriless(View, c, n)
<1> DEFINE s == slots(View, c)
           named(v) == is_entry(v) /\ v[2] = n
           T == {k \in DOMAIN s : View[s[k]] = Last \/ named(View[s[k]])}
           k == Min(T)
<1>1. Proper(View, c) /\ Ended(View, c)
  BY DirsOwn
<1>2. PICK m \in Nat : EndAt(View, c, m)
  BY <1>1 DEF Ended
<1>3. /\ DOMAIN s = 1 .. Len(s) /\ Len(s) \in Nat /\ m \in 1 .. Len(s)
      /\ View[s[m]] = Last /\ (\A j \in 1 .. (m - 1) : View[s[j]] # Last)
      /\ \A j \in 1 .. Len(s) : s[j] \in Slots
  BY <1>1, <1>2, SlotsOf, Listing DEF EndAt
<1>4. listing(View, c) = {s[j] : j \in {l \in 1 .. (m - 1) : View[s[l]] # Free}}
  BY <1>1, <1>2, Listing
<1> HIDE DEF s
<1>5. T \in SUBSET Nat /\ m \in T
  BY <1>3
<1>6. k \in T /\ \A j \in T : k <= j
  <2> HIDE DEF T
  <2> QED BY <1>5, LeastIs
<1>7. k \in 1 .. m /\ k \in 1 .. Len(s) /\ k <= m /\ k \in Nat
  <2> HIDE DEF k
  <2>1. k \in 1 .. Len(s) /\ k <= m
    BY <1>3, <1>5, <1>6
  <2> QED BY <1>3, <2>1
<1>8. dir_search(c, n).slot = s[k] /\ dir_search(c, n).found = (View[s[k]] # Last)
  BY DEF dir_search, first_of, s
<1> HIDE DEF k
<1>9. ASSUME View[s[k]] # Last PROVE s[k] \in entries(View, c) /\ View[s[k]][2] = n
  <2>1. named(View[s[k]])
    BY <1>6, <1>9
  <2>2. k \in 1 .. (m - 1) /\ View[s[k]] # Free
    BY <1>3, <1>7, <1>9, <2>1, ValueKinds
  <2> QED BY <1>4, <2>1, <2>2 DEF entries
<1>10. ASSUME View[s[k]] = Last PROVE Entriless(View, c, n)
  <2>1. k = m
    BY <1>3, <1>7, <1>10
  <2> SUFFICES ASSUME NEW t \in entries(View, c), View[t][2] = n PROVE FALSE
    BY DEF Entriless
  <2>2. PICK j \in 1 .. (m - 1) : t = s[j]
    BY <1>4 DEF entries
  <2>3. named(View[s[j]])
    BY <2>2 DEF entries
  <2>4. j \in 1 .. Len(s) /\ j < m
    BY <1>3
  <2>5. j \in T
    BY <1>3, <2>3, <2>4
  <2> HIDE DEF T
  <2> QED BY <1>3, <1>6, <2>1, <2>4, <2>5
<1> QED BY <1>3, <1>7, <1>8, <1>9, <1>10

start(p) == [res |-> "ok", dir |-> Root, at |-> slot(Root, 0), clust |-> Root,
             enterable |-> TRUE, left |-> Len(p), sectors |-> {}]

LEMMA WalkedIs ==
  ASSUME NEW S, NEW p \in Seq(S)
  PROVE  /\ walked(p)[0] = start(p)
         /\ \A i \in 1 .. Len(p) : walked(p)[i] = component(walked(p)[i - 1], p[i])
<1> DEFINE n == Len(p)
           is(f, m) == /\ f = [k \in 0 .. m |-> f[k]] /\ f[0] = start(p)
                       /\ \A k \in 1 .. m : f[k] = component(f[k - 1], p[k])
           rec(w) == w = [i \in 0 .. Len(p) |-> IF i = 0 THEN start(p) ELSE component(w[i - 1], p[i])]
           W == CHOOSE w : rec(w)
           T == {m \in Nat : \E f : is(f, m)}
<1>0. n \in Nat
  OBVIOUS
<1> HIDE DEF n
<1>1. 0 \in T
  <2> DEFINE f == [k \in 0 .. 0 |-> start(p)]
  <2>1. is(f, 0)
    OBVIOUS
  <2> QED BY <2>1
<1>2. ASSUME NEW m \in Nat, m \in T PROVE m + 1 \in T
  <2>1. PICK f : is(f, m)
    BY <1>2
  <2> DEFINE g == [k \in 0 .. (m + 1) |-> IF k = m + 1 THEN component(f[m], p[m + 1]) ELSE f[k]]
  <2>2. g = [k \in 0 .. (m + 1) |-> g[k]]
    OBVIOUS
  <2>3. g[0] = start(p)
    BY <2>1
  <2>4. \A k \in 1 .. (m + 1) : g[k] = component(g[k - 1], p[k])
    <3> TAKE k \in 1 .. (m + 1)
    <3>1. k - 1 \in 0 .. (m + 1) /\ k - 1 # m + 1 /\ k \in 0 .. (m + 1)
      OBVIOUS
    <3>2. g[k - 1] = f[k - 1]
      BY <3>1
    <3>3. CASE k = m + 1
      BY <3>1, <3>2, <3>3
    <3>4. CASE k # m + 1
      <4>1. k \in 1 .. m
        BY <3>4
      <4>2. f[k] = component(f[k - 1], p[k]) /\ g[k] = f[k]
        BY <2>1, <3>1, <3>4, <4>1
      <4> QED BY <3>2, <4>2
    <3> QED BY <3>3, <3>4
  <2>5. is(g, m + 1)
    BY <2>2, <2>3, <2>4
  <2> HIDE DEF g, is
  <2> QED BY <2>5
<1>3. PICK f : is(f, n)
  <2>1. n \in T
    <3> HIDE DEF T
    <3> QED BY <1>0, <1>1, <1>2, Induction
  <2> QED BY <2>1
<1>4. rec(f)
  <2>1. ASSUME NEW i \in 0 .. n
        PROVE  f[i] = IF i = 0 THEN start(p) ELSE component(f[i - 1], p[i])
    <3>1. CASE i = 0
      BY <1>3, <3>1
    <3>2. CASE i \in 1 .. n
      BY <1>3, <3>2
    <3> QED BY <1>0, <3>1, <3>2
  <2>2. f = [i \in 0 .. n |-> f[i]]
    BY <1>3
  <2>3. [i \in 0 .. n |-> f[i]] =
          [i \in 0 .. n |-> IF i = 0 THEN start(p) ELSE component(f[i - 1], p[i])]
    BY <2>1
  <2> QED BY <2>2, <2>3 DEF n
<1>5. rec(W)
  <2> HIDE DEF rec
  <2> QED BY <1>4
<1>6. walked(p) = W
  BY DEF walked, start
<1> HIDE DEF W
<1>7. W[0] = start(p)
  <2>1. 0 \in 0 .. Len(p)
    BY <1>0 DEF n
  <2> QED BY <1>5, <2>1
<1>8. \A i \in 1 .. Len(p) : W[i] = component(W[i - 1], p[i])
  <2> TAKE i \in 1 .. Len(p)
  <2>1. i \in 0 .. Len(p) /\ i # 0
    BY <1>0 DEF n
  <2> QED BY <1>5, <2>1
<1> QED BY <1>6, <1>7, <1>8

Shaped(w) ==
  w = [res |-> w.res, dir |-> w.dir, at |-> w.at, clust |-> w.clust, enterable |-> w.enterable,
       left |-> w.left, sectors |-> w.sectors]

(* A position of follow_path after i components of p. *)
WalkOk(D, p, i, w) ==
  /\ Shaped(w)
  /\ w.dir \in D /\ w.at \in Slots
  /\ w.res = "ok" =>
       /\ w.left = Len(p) - i
       /\ i = 0 => w = start(p)
       /\ i > 0 => /\ w.at \in entries(View, w.dir) /\ w.clust = View[w.at][3]
                   /\ w.enterable = (View[w.at][1] = "dir") /\ View[w.at][2] = p[i]
  /\ w.res = "eof" =>
       \E j \in 1 .. i : w.left = Len(p) - (j - 1) /\ Entriless(View, w.dir, p[j])

LEMMA NextWalk ==
  ASSUME NEW D, Good(View, D, {}), NEW S, NEW p \in Seq(S), NEW i \in 1 .. Len(p),
         NEW w, WalkOk(D, p, i - 1, w)
  PROVE  WalkOk(D, p, i, component(w, p[i]))
<1> DEFINE r == component(w, p[i])
<1>0. Len(p) \in Nat /\ i \in Nat /\ i > 0 /\ i <= Len(p) /\ i - 1 \in Nat /\ i \in 1 .. i
      /\ 1 .. (i - 1) \subseteq 1 .. i
  OBVIOUS
<1>1. w.dir \in D /\ w.at \in Slots /\ Shaped(w)
  BY DEF WalkOk
<1>2. CASE w.res # "ok"
  <2>1. r = w
    BY <1>2 DEF component
  <2>2. r.res = "eof" => \E j \in 1 .. i : r.left = Len(p) - (j - 1) /\ Entriless(View, r.dir, p[j])
    BY <1>0, <2>1 DEF WalkOk
  <2> HIDE DEF r
  <2>3. WalkOk(D, p, i, r)
    BY <1>1, <1>2, <2>1, <2>2 DEF WalkOk
  <2> QED BY <2>3 DEF r
<1>3. CASE w.res = "ok" /\ ~w.enterable
  <2>1. r = [w EXCEPT !.res = "path"]
    BY <1>3 DEF component
  <2> HIDE DEF r
  <2>2. r.dir = w.dir /\ r.at = w.at /\ r.res # "ok" /\ r.res # "eof" /\ Shaped(r)
    BY <1>1, <2>1 DEF Shaped
  <2>3. WalkOk(D, p, i, r)
    BY <1>1, <2>2 DEF WalkOk
  <2> QED BY <2>3 DEF r
<1>4. CASE w.res = "ok" /\ w.enterable
  <2> DEFINE c == enter(w.clust)
             f == dir_search(c, p[i])
             v == View[f.slot]
  <2>1. c \in D
    <3>1. CASE i - 1 = 0
      <4>1. w.clust = Root
        BY <1>4, <3>1 DEF WalkOk, start
      <4> QED BY <4>1 DEF enter, Good, Filed
    <3>2. CASE i - 1 # 0
      <4>1. w.at \in entries(View, w.dir) /\ w.clust = View[w.at][3] /\ View[w.at][1] = "dir"
        <5>1. i - 1 > 0 /\ w.res = "ok" /\ w.enterable
          BY <1>0, <1>4, <3>2
        <5>2. /\ w.at \in entries(View, w.dir) /\ w.clust = View[w.at][3]
              /\ w.enterable = (View[w.at][1] = "dir")
          BY <5>1 DEF WalkOk
        <5> QED BY <5>1, <5>2, Zenon
      <4>2. Kept1(View, D, w.dir, w.at)
        BY <1>1, <4>1 DEF Good, Filed
      <4>3. w.clust \in D
        BY <4>1, <4>2 DEF Kept1
      <4> QED BY <4>3 DEF enter, Good, Filed
    <3> QED BY <3>1, <3>2
  <2> HIDE DEF c
  <2>2. /\ f.slot \in Slots
        /\ f.found => f.slot \in entries(View, c) /\ View[f.slot][2] = p[i]
        /\ ~f.found => Entriless(View, c, p[i])
    BY <2>1, Search
  <2>3. CASE f.found
    <3>1. r = [res |-> "ok", dir |-> c, at |-> f.slot, clust |-> v[3],
               enterable |-> v[1] = "dir", left |-> w.left - 1, sectors |-> w.sectors \cup f.sectors]
      BY <1>4, <2>3 DEF component, c
    <3>2. w.left = Len(p) - (i - 1)
      BY <1>4 DEF WalkOk
    <3> HIDE DEF r, f
    <3>3. /\ r.res = "ok" /\ r.dir = c /\ r.at = f.slot /\ r.clust = v[3]
          /\ r.enterable = (v[1] = "dir") /\ r.left = w.left - 1 /\ Shaped(r)
      BY <3>1 DEF Shaped
    <3>4. r.left = Len(p) - i
      BY <1>0, <3>2, <3>3
    <3>5. r.res # "eof"
      BY <3>3
    <3>6. WalkOk(D, p, i, r)
      BY <1>0, <2>1, <2>2, <2>3, <3>3, <3>4, <3>5 DEF WalkOk
    <3> QED BY <3>6 DEF r
  <2>4. CASE ~f.found
    <3>1. r = [w EXCEPT !.res = "eof", !.dir = c, !.at = f.slot, !.sectors = w.sectors \cup f.sectors]
      BY <1>4, <2>4 DEF component, c
    <3>2. w.left = Len(p) - (i - 1)
      BY <1>4 DEF WalkOk
    <3> HIDE DEF r, f
    <3>3. r.res = "eof" /\ r.dir = c /\ r.at = f.slot /\ r.left = w.left /\ Shaped(r)
      BY <1>1, <3>1 DEF Shaped
    <3>4. r.res # "ok"
      BY <3>3
    <3>5. \E j \in 1 .. i : r.left = Len(p) - (j - 1) /\ Entriless(View, r.dir, p[j])
      BY <1>0, <2>2, <2>4, <3>2, <3>3
    <3>6. WalkOk(D, p, i, r)
      BY <2>1, <2>2, <3>3, <3>4, <3>5 DEF WalkOk
    <3> QED BY <3>6 DEF r
  <2> QED BY <2>3, <2>4
<1> QED BY <1>2, <1>3, <1>4

LEMMA WalkIs ==
  ASSUME NEW D, Good(View, D, {}), NEW S, NEW p \in Seq(S)
  PROVE  WalkOk(D, p, Len(p), follow_path(p))
<1> DEFINE T == {i \in Nat : i <= Len(p) => WalkOk(D, p, i, walked(p)[i])}
<1>0. Len(p) \in Nat
  OBVIOUS
<1>1. 0 \in T
  <2>1. walked(p)[0] = start(p)
    BY WalkedIs
  <2>2. /\ start(p).dir = Root /\ start(p).at = slot(Root, 0) /\ start(p).res = "ok"
        /\ start(p).left = Len(p) - 0 /\ Shaped(start(p))
    BY <1>0 DEF start, Shaped
  <2>3. Root \in D /\ slot(Root, 0) \in Slots
    BY FatKinds, CellKinds DEF Good, Filed
  <2>4. WalkOk(D, p, 0, start(p))
    <3> HIDE DEF start
    <3> QED BY <2>2, <2>3 DEF WalkOk
  <2> QED BY <2>1, <2>4
<1>2. ASSUME NEW i \in Nat, i \in T PROVE i + 1 \in T
  <2> SUFFICES ASSUME i + 1 <= Len(p) PROVE WalkOk(D, p, i + 1, walked(p)[i + 1])
    OBVIOUS
  <2>1. i + 1 \in 1 .. Len(p) /\ (i + 1) - 1 = i /\ i <= Len(p)
    BY <1>0
  <2>2. walked(p)[i + 1] = component(walked(p)[i], p[i + 1])
    BY <2>1, WalkedIs
  <2>3. WalkOk(D, p, (i + 1) - 1, walked(p)[i])
    BY <1>2, <2>1
  <2>4. WalkOk(D, p, i + 1, component(walked(p)[i], p[i + 1]))
    BY <2>1, <2>3, NextWalk
  <2> QED BY <2>2, <2>4
<1> HIDE DEF T
<1>3. Nat \subseteq T
  BY <1>1, <1>2, Induction
<1> QED BY <1>0, <1>3 DEF T, follow_path

(* What a call finds. *)
LEMMA FollowPath ==
  ASSUME NEW D, Good(View, D, {}), NEW S, NEW p \in Seq(S), NEW w, w = follow_path(p)
  PROVE  /\ w.dir \in D /\ w.at \in Slots
         /\ w.res = "ok" /\ p = <<>> => w = start(p)
         /\ w.res = "ok" /\ p # <<>> =>
              /\ w.at \in entries(View, w.dir) /\ w.clust = View[w.at][3]
              /\ w.enterable = (View[w.at][1] = "dir") /\ View[w.at][2] = p[Len(p)]
         /\ missing(w) => p # <<>> /\ Entriless(View, w.dir, p[Len(p)])
<1>1. WalkOk(D, p, Len(p), w) /\ Len(p) \in Nat
  BY WalkIs
<1>2. p = <<>> <=> Len(p) = 0
  OBVIOUS
<1>3. ASSUME missing(w) PROVE p # <<>> /\ Entriless(View, w.dir, p[Len(p)])
  <2>1. w.res = "eof" /\ w.left = 1
    BY <1>3 DEF missing
  <2>2. PICK j \in 1 .. Len(p) : w.left = Len(p) - (j - 1) /\ Entriless(View, w.dir, p[j])
    BY <1>1, <2>1 DEF WalkOk
  <2>3. j = Len(p) /\ Len(p) # 0
    BY <1>1, <2>1, <2>2
  <2> QED BY <1>2, <2>2, <2>3
<1>4. Len(p) # 0 => Len(p) > 0
  BY <1>1
<1> QED BY <1>1, <1>2, <1>3, <1>4 DEF WalkOk

(* A directory that empty finds empty. *)
LEMMA EmptyIs ==
  ASSUME NEW D, Good(View, D, {}), NEW c \in D \ {Root}, empty(c)
  PROVE  entries(View, c) = {}
<1> DEFINE s == slots(View, c)
           T == {k \in DOMAIN s : View[s[k]] = Last}
<1>1. Proper(View, c) /\ Ended(View, c)
  BY DirsOwn
<1>2. PICK m \in Nat : EndAt(View, c, m)
  BY <1>1 DEF Ended
<1>3. /\ DOMAIN s = 1 .. Len(s) /\ Len(s) \in Nat /\ m \in 1 .. Len(s)
      /\ View[s[m]] = Last /\ \A j \in 1 .. (m - 1) : View[s[j]] # Last
  BY <1>1, <1>2, SlotsOf, Listing DEF EndAt
<1>4. listing(View, c) = {s[j] : j \in {l \in 1 .. (m - 1) : View[s[l]] # Free}}
  BY <1>1, <1>2, Listing
<1>5. s[1] = slot(c, 0) /\ s[2] = slot(c, 1)
  <2>1. s[0 + 1] = slot(c, 0) /\ s[1 + 1] = slot(c, 1)
    BY <1>1, SlotsOf, FatKinds
  <2> QED BY <2>1
<1>6. \A k \in 3 .. (Min(T) - 1) : is_free(View[s[k]])
  BY DEF empty, first_of
<1>7. ~is_entry(View[slot(c, 0)]) /\ ~is_entry(View[slot(c, 1)])
  <2>1. PICK t \in heads(View, D, {}) : View[t][1] = "dir" /\ View[t][3] = c
    BY DEF Good, Filed
  <2>2. PICK p \in D : t \in entries(View, p)
    BY DEF heads
  <2>3. Dotted(View, <<c, up(p)>>)
    BY <2>1, <2>2 DEF Good, Filed, Kept1
  <2>4. <<c, up(p)>>[1] = c /\ <<c, up(p)>>[2] = up(p)
    OBVIOUS
  <2>5. View[slot(c, 0)] = dot(c) /\ View[slot(c, 1)] = dotdot(up(p))
    BY <2>3, <2>4 DEF Dotted
  <2> QED BY <2>5, ValueKinds
<1> HIDE DEF s
<1>8. Min(T) = m
  <2>1. T \in SUBSET Nat /\ m \in T
    BY <1>3
  <2>2. Min(T) \in T /\ Min(T) <= m
    <3> HIDE DEF T
    <3> QED BY <2>1, LeastIs
  <2>3. \A k \in T : k <= m => k = m
    BY <1>3
  <2> HIDE DEF T
  <2> QED BY <2>2, <2>3
<1> SUFFICES ASSUME NEW t \in entries(View, c) PROVE FALSE
  OBVIOUS
<1>9. t \in listing(View, c) /\ is_entry(View[t])
  BY DEF entries
<1>10. PICK j \in 1 .. (m - 1) : t = s[j]
  BY <1>4, <1>9
<1>11. j = 1 \/ j = 2 \/ j \in 3 .. (m - 1)
  BY <1>3
<1>12. j # 1 /\ j # 2
  BY <1>5, <1>7, <1>9, <1>10
<1>13. is_free(View[t])
  BY <1>6, <1>8, <1>10, <1>11, <1>12
<1> QED BY <1>9, <1>13, ValueKinds

-----------------------------------------------------------------------------
(* The sector cache. *)

CacheInv == Coherent /\ dirty \in BOOLEAN /\ DOMAIN buf = CellsOf(sect)

LEMMA Sectors ==
  /\ \A x \in TreeCells : SectorOf[x] # elsewhere
  /\ \A s \in Slots : \A c : SectorOf[s] = dir_sect(c) <=> s[2] = c
  /\ \A f \in FatCells : \A c : SectorOf[f] # dir_sect(c)
<1>1. SectorOf = TreeSectors
  BY TreeAssumption
<1>2. fat_sect[1] = "fat" /\ elsewhere[1] = "info" /\ \A c : dir_sect(c)[1] = "dir" /\ dir_sect(c)[2] = c
  BY DEF fat_sect, elsewhere, dir_sect
<1> HIDE DEF fat_sect, elsewhere, dir_sect
<1>3. \A x \in TreeCells : SectorOf[x] = IF x \in FatCells THEN fat_sect ELSE dir_sect(x[2])
  BY <1>1 DEF TreeSectors
<1>4. \A s \in Slots : s \in TreeCells /\ s \notin FatCells
  BY CellKinds
<1>5. \A f \in FatCells : f \in TreeCells
  BY DEF TreeCells
<1> QED BY <1>2, <1>3, <1>4, <1>5

LEMMA VisitEffect ==
  ASSUME CacheInv, NEW STATE S, NEW STATE s, visit(S, s)
  PROVE  View' = View /\ (disk' = disk \/ disk' = View) /\ CacheInv'
<1> USE DEF CacheInv
<1>1. CASE UNCHANGED cacheVars
  BY <1>1 DEF View, Coherent, CellsOf, cacheVars
<1>2. CASE ~UNCHANGED cacheVars
  <2>1. /\ disk' = View /\ sect' = s /\ buf' = [x \in CellsOf(s) |-> View[x]] /\ dirty' = FALSE
    BY <1>2, FlushedIsView DEF visit
  <2>2. View' = View
    <3>1. View' = [x \in Cell |-> IF SectorOf[x] = sect' THEN buf'[x] ELSE disk'[x]]
      BY DEF View
    <3>2. \A x \in Cell : (IF SectorOf[x] = sect' THEN buf'[x] ELSE disk'[x]) = View[x]
      BY <2>1 DEF CellsOf
    <3>3. View = [x \in Cell |-> View[x]]
      BY DEF View
    <3> QED BY <3>1, <3>2, <3>3
  <2>3. Coherent'
    BY <2>1 DEF Coherent, CellsOf
  <2>4. DOMAIN buf' = CellsOf(sect)'
    BY <2>1 DEF CellsOf
  <2> QED BY <2>1, <2>2, <2>3, <2>4
<1> QED BY <1>1, <1>2

LEMMA SyncedEffect ==
  ASSUME NEW STATE d, d \in Store, synced(d)
  PROVE  View' = d /\ disk' = d /\ CacheInv'
<1>1. disk' = d /\ sect' = elsewhere /\ buf' = [x \in {} |-> 0] /\ dirty' = FALSE
  BY DEF synced
<1>2. d = [x \in Cell |-> d[x]] /\ \A x \in Cell : SectorOf[x] # elsewhere
  BY Sectors, FatKinds DEF Store
<1>3. View' = [x \in Cell |-> IF SectorOf[x] = sect' THEN buf'[x] ELSE disk'[x]]
  BY DEF View
<1>4. View' = d
  BY <1>1, <1>2, <1>3
<1>5. CellsOf(sect)' = {}
  BY <1>1, <1>2 DEF CellsOf
<1>6. Coherent' /\ DOMAIN buf' = CellsOf(sect)'
  BY <1>1, <1>5 DEF Coherent
<1> QED BY <1>1, <1>4, <1>6 DEF CacheInv

LEMMA ClearedEffect ==
  ASSUME CacheInv, View \in Store, NEW STATE c, c \in Clusters, cleared(c)
  PROVE  /\ View' \in Store /\ disk' = View' /\ CacheInv' /\ sect' = dir_sect(c)
         /\ \A x \in TreeCells : (x \in Slots /\ x[2] = c) \/ View'[x] = View[x]
         /\ \A i \in Indices : View'[slot(c, i)] = Last
<1> DEFINE d == [x \in Cell |-> IF SectorOf[x] = dir_sect(c) THEN Last ELSE View[x]]
<1>1. disk' = d /\ sect' = dir_sect(c) /\ buf' = [x \in CellsOf(dir_sect(c)) |-> Last] /\ dirty' = FALSE
  BY FlushedIsView DEF cleared, CacheInv
<1>2. View' = d
  <2>1. View' = [x \in Cell |-> IF SectorOf[x] = sect' THEN buf'[x] ELSE disk'[x]]
    BY DEF View
  <2>2. \A x \in Cell : (IF SectorOf[x] = sect' THEN buf'[x] ELSE disk'[x]) = d[x]
    BY <1>1 DEF CellsOf
  <2> QED BY <2>1, <2>2
<1>3. CacheInv'
  BY <1>1 DEF CacheInv, Coherent, CellsOf
<1>4. Cell = TreeCells
  BY FatKinds
<1>5. \A f \in FatCells : SectorOf[f] # dir_sect(c) /\ f \in TreeCells
  BY Sectors DEF TreeCells
<1>6. \A s \in Slots : SectorOf[s] = dir_sect(c) <=> s[2] = c
  BY Sectors
<1>7. \A x \in TreeCells : (x \in Slots /\ x[2] = c) \/ d[x] = View[x]
  <2> TAKE x \in TreeCells
  <2>1. x \in FatCells \/ x \in Slots
    BY DEF TreeCells
  <2> QED BY <1>4, <1>5, <1>6, <2>1
<1>8. \A i \in Indices : d[slot(c, i)] = Last
  <2> TAKE i \in Indices
  <2>1. slot(c, i) \in Slots /\ slot(c, i)[2] = c /\ slot(c, i) \in Cell
    BY <1>4, CellKinds
  <2> QED BY <1>6, <2>1
<1>9. d \in Store
  <2>1. d \in [TreeCells -> FatValue \cup SlotValue]
    BY <1>4, ValueKinds DEF Store
  <2>2. \A x \in ClustOrNone : d[fat(x)] = View[fat(x)]
    BY <1>4, <1>5, CellKinds
  <2>3. \A s \in Slots : d[s] \in SlotValue
    <3> TAKE s \in Slots
    <3>1. s \in Cell /\ View[s] \in SlotValue
      BY <1>4, CellKinds DEF Store
    <3> QED BY <3>1, ValueKinds
  <2>4. NoClust \in ClustOrNone
    BY FatKinds
  <2> HIDE DEF d
  <2> QED BY <2>1, <2>2, <2>3, <2>4 DEF Store
<1> QED BY <1>1, <1>2, <1>3, <1>7, <1>8, <1>9

LEMMA PutStore ==
  ASSUME CacheInv, View \in Store, NEW STATE s, s \in Slots, NEW STATE v, v \in SlotValue, put(s, v)
  PROVE  /\ View' = [View EXCEPT ![s] = v] /\ (disk' = disk \/ disk' = View) /\ CacheInv'
         /\ View' \in Store
         /\ \A x \in TreeCells : x = s \/ View'[x] = View[x]
<1>1. s \in Cell
  BY CellKinds, FatKinds
<1>2. View' = [View EXCEPT ![s] = v] /\ (disk' = disk \/ disk' = View) /\ Coherent' /\ dirty' = TRUE
  BY <1>1, PutEffect DEF CacheInv
<1>3. DOMAIN buf' = CellsOf(sect)'
  BY DEF put, CellsOf
<1>4. View' \in Store /\ \A x \in TreeCells : x # s => View'[x] = View[x]
  <2>1. /\ [View EXCEPT ![s] = v] \in Store
        /\ \A x \in TreeCells : x # s => [View EXCEPT ![s] = v][x] = View[x]
    BY PutSlot
  <2> QED BY <1>2, <2>1
<1> QED BY <1>2, <1>3, <1>4 DEF CacheInv

-----------------------------------------------------------------------------
(* The invariant. *)

(* The volume as another system has left it. *)
AsLeft(q) ==
  [x \in Cell |->
     IF x \in {fat(Root), fat(NoClust)} THEN CLUST_LAST
     ELSE IF x \in FatCells THEN
       IF \E i \in DOMAIN q : is_entry(q[i]) /\ x = fat(q[i][3]) THEN CLUST_LAST ELSE CLUST_FREE
     ELSE IF x[2] # Root THEN Junk
     ELSE IF x[3] < Len(q) THEN q[x[3] + 1] ELSE Last]

LEMMA InitStore ==
  ASSUME NEW q \in Initial
  PROVE  Good(AsLeft(q), {Root}, {})
<1> DEFINE d == AsLeft(q)
           s == slots(d, Root)
           good(v) == is_entry(v) /\ v[1] = "file" /\ v[3] # Root
<1>1. q \in Seq(SlotValue) /\ Len(q) <= PerClust /\ Len(q) \in Nat /\ DOMAIN q = 1 .. Len(q)
  BY InitialAssumption
<1>2. PICK m \in DOMAIN q :
         /\ q[m] = Last
         /\ \A i \in 1 .. (m - 1) : q[i] = Free \/ good(q[i])
         /\ \A i \in (m + 1) .. Len(q) : ~is_entry(q[i])
         /\ \A i, j \in 1 .. (m - 1) :
              i # j /\ is_entry(q[i]) /\ is_entry(q[j]) =>
                q[i][2] # q[j][2] /\ (q[i][3] = q[j][3] => q[i][3] = NoClust)
  BY InitialAssumption
<1>3. m \in 1 .. Len(q) /\ m \in Nat /\ PerClust \in Nat /\ m <= PerClust
  BY <1>1, FatKinds
<1>4. \A x \in ClustOrNone :
        d[fat(x)] = IF x \in {Root, NoClust} \/ \E i \in DOMAIN q : is_entry(q[i]) /\ x = q[i][3]
                      THEN CLUST_LAST ELSE CLUST_FREE
  <2> TAKE x \in ClustOrNone
  <2>1. fat(x) \in Cell /\ fat(x) \in FatCells /\ \A y : fat(x) = fat(y) <=> x = y
    BY CellKinds, FatKinds
  <2>2. d[fat(x)] = IF fat(x) \in {fat(Root), fat(NoClust)} THEN CLUST_LAST
                    ELSE IF \E i \in DOMAIN q : is_entry(q[i]) /\ fat(x) = fat(q[i][3])
                           THEN CLUST_LAST ELSE CLUST_FREE
    BY <2>1 DEF AsLeft
  <2> QED BY <2>1, <2>2
<1>5. \A j \in Indices : d[slot(Root, j)] = IF j < Len(q) THEN q[j + 1] ELSE Last
  <2> TAKE j \in Indices
  <2>1. /\ slot(Root, j) \in Cell /\ slot(Root, j) \notin FatCells /\ slot(Root, j) # fat(Root)
        /\ slot(Root, j) # fat(NoClust) /\ slot(Root, j)[2] = Root /\ slot(Root, j)[3] = j
    BY CellKinds, FatKinds
  <2> QED BY <2>1 DEF AsLeft
<1>6. d \in Store
  <2>1. \A t \in Slots : d[t] \in SlotValue
    <3> TAKE t \in Slots
    <3>1. t \in Cell /\ t \notin FatCells /\ t[2] \in Clusters /\ t[3] \in Indices /\ t = slot(t[2], t[3])
      BY CellKinds, FatKinds
    <3>2. CASE t[2] = Root
      <4>1. d[t] = IF t[3] < Len(q) THEN q[t[3] + 1] ELSE Last
        BY <1>5, <3>1, <3>2
      <4>2. t[3] < Len(q) => t[3] + 1 \in 1 .. Len(q)
        BY <1>1, <3>1 DEF Indices
      <4> QED BY <1>1, <4>1, <4>2, ValueKinds
    <3>3. CASE t[2] # Root
      <4>1. t \notin {fat(Root), fat(NoClust)}
        BY <3>1, CellKinds
      <4>2. d[t] = Junk
        BY <3>1, <3>3, <4>1 DEF AsLeft
      <4> QED BY <4>2, ValueKinds
    <3> QED BY <3>2, <3>3
  <2>2. \A x \in ClustOrNone : d[fat(x)] \in FatValue /\ d[fat(x)] \notin Clusters
    BY <1>4, FatKinds DEF FatValue
  <2>3. d = [x \in TreeCells |-> d[x]]
    BY FatKinds DEF AsLeft
  <2>4. \A x \in TreeCells : d[x] \in FatValue \cup SlotValue
    <3> HIDE DEF d
    <3> QED BY <2>1, <2>2 DEF TreeCells, FatCells
  <2>5. d \in [TreeCells -> FatValue \cup SlotValue]
    <3> HIDE DEF d
    <3> QED BY <2>3, <2>4
  <2> HIDE DEF d
  <2> QED BY <2>1, <2>2, <2>5, FatKinds DEF Store
<1> HIDE DEF d
<1>7. Proper(d, Root)
  <2>1. Root \in ClustOrNone /\ d[fat(Root)] \notin Clusters
    BY <1>4, FatKinds
  <2> QED BY <2>1, FatKinds, ChainOfOne
<1>8. \A k \in 1 .. m : /\ s[k] = slot(Root, k - 1) /\ d[s[k]] = q[k] /\ k \in DOMAIN s
                        /\ k - 1 \in Indices
  <2> TAKE k \in 1 .. m
  <2>1. k - 1 \in Indices /\ (k - 1) + 1 = k /\ k - 1 < Len(q)
    BY <1>3, <1>1 DEF Indices
  <2>2. (k - 1) + 1 \in 1 .. Len(s) /\ s[(k - 1) + 1] = slot(Root, k - 1) /\ DOMAIN s = 1 .. Len(s)
    BY <1>7, <2>1, SlotsOf
  <2> QED BY <1>5, <2>1, <2>2
<1>9. EndAt(d, Root, m)
  <2>1. \A k \in 1 .. (m - 1) : k \in 1 .. m /\ q[k] # Last
    BY <1>2, <1>3, ValueKinds
  <2>2. m \in 1 .. m
    BY <1>3
  <2> QED BY <1>2, <1>8, <2>1, <2>2 DEF EndAt
<1>10. \A t \in listing(d, Root) : \E k \in 1 .. (m - 1) : t = slot(Root, k - 1) /\ d[t] = q[k] /\ good(q[k])
  <2> TAKE t \in listing(d, Root)
  <2>1. PICK k \in 1 .. (m - 1) : t = s[k] /\ d[s[k]] # Free
    BY <1>7, <1>9, Listing
  <2>2. k \in 1 .. m
    BY <1>3
  <2>3. s[k] = slot(Root, k - 1) /\ d[s[k]] = q[k]
    BY <1>8, <2>2
  <2> QED BY <1>2, <2>1, <2>3
<1>11. OnlyNames(d, <<Root, NoClust>>)
  <2>1. ASSUME NEW t \in listing(d, Root)
        PROVE  /\ d[t] # Junk /\ (d[t][1] \in {"dot", "dotdot"} => t[2] = Root /\ t[3] < 2)
               /\ \A u \in listing(d, Root) : t # u /\ is_entry(d[t]) /\ is_entry(d[u]) => d[t][2] # d[u][2]
    <3>1. PICK k \in 1 .. (m - 1) : t = slot(Root, k - 1) /\ d[t] = q[k] /\ good(q[k])
      BY <1>10
    <3>2. d[t] # Junk /\ d[t][1] \notin {"dot", "dotdot"}
      BY <3>1, ValueKinds
    <3>3. ASSUME NEW u \in listing(d, Root), t # u PROVE d[t][2] # d[u][2]
      <4>1. PICK l \in 1 .. (m - 1) : u = slot(Root, l - 1) /\ d[u] = q[l] /\ good(q[l])
        BY <1>10
      <4>2. k # l
        BY <3>1, <3>3, <4>1
      <4> QED BY <1>2, <3>1, <4>1, <4>2
    <3> QED BY <3>2, <3>3
  <2>2. <<Root, NoClust>>[1] = Root
    OBVIOUS
  <2> QED BY <2>1, <2>2 DEF OnlyNames
<1>12. /\ entries(d, Root) \subseteq listing(d, Root)
       /\ \A t \in entries(d, Root) : good(d[t]) /\ \E k \in DOMAIN q : d[t] = q[k]
  <2>1. \A k \in 1 .. (m - 1) : k \in DOMAIN q
    BY <1>1, <1>3
  <2> QED BY <1>10, <2>1 DEF entries
<1>13. \A t, u \in entries(d, Root) : d[t][3] = d[u][3] /\ d[t][3] # NoClust => t = u
  <2> SUFFICES ASSUME NEW t \in entries(d, Root), NEW u \in entries(d, Root), d[t][3] = d[u][3],
                      d[t][3] # NoClust, t # u
               PROVE  FALSE
    OBVIOUS
  <2>1. PICK k \in 1 .. (m - 1) : t = slot(Root, k - 1) /\ d[t] = q[k] /\ good(q[k])
    BY <1>10, <1>12
  <2>2. PICK l \in 1 .. (m - 1) : u = slot(Root, l - 1) /\ d[u] = q[l] /\ good(q[l])
    BY <1>10, <1>12
  <2>3. k # l
    BY <2>1, <2>2
  <2> QED BY <1>2, <2>1, <2>2, <2>3
<1>14. heads(d, {Root}, {}) = entries(d, Root)
  BY DEF heads
<1>15. Filed(d, {Root}, {})
  <2>1. Ended(d, Root)
    BY <1>3, <1>9 DEF Ended
  <2>2. \A t \in entries(d, Root) : Kept1(d, {Root}, Root, t)
    BY <1>12 DEF Kept1
  <2>3. \A t \in heads(d, {Root}, {}) : d[t][3] # Root
    BY <1>12, <1>14
  <2>4. \A t, u \in heads(d, {Root}, {}) : d[t][3] = d[u][3] /\ d[t][3] # NoClust => t = u
    BY <1>13, <1>14
  <2> QED BY <1>11, <2>1, <2>2, <2>3, <2>4, FatKinds DEF Filed
<1>16. ASSUME NEW c \in owners(d, heads(d, {Root}, {}))
       PROVE  Proper(d, c) /\ members(d, c) = {c} /\ d[fat(c)] = CLUST_LAST
  <2>1. c # NoClust /\ (c = Root \/ \E t \in entries(d, Root) : c = d[t][3])
    BY <1>14, <1>16 DEF owners
  <2>2. CASE c = Root
    <3>1. d[fat(c)] = CLUST_LAST /\ c \in Clusters /\ c \in ClustOrNone
      BY <1>4, <2>2, FatKinds
    <3> QED BY <3>1, ChainOfOne, FatKinds
  <2>3. CASE c # Root
    <3>1. PICK t \in entries(d, Root) : c = d[t][3]
      BY <2>1, <2>3
    <3>2. PICK k \in DOMAIN q : d[t] = q[k]
      BY <1>12
    <3>3. is_entry(q[k]) /\ q[k] \in SlotValue
      BY <1>1, <1>12, <3>2
    <3>4. c \in ClustOrNone /\ c \in Clusters
      BY <2>1, <3>1, <3>2, <3>3, ValueKinds DEF ClustOrNone
    <3>5. d[fat(c)] = CLUST_LAST
      BY <1>4, <3>1, <3>2, <3>3, <3>4
    <3> QED BY <3>4, <3>5, ChainOfOne, FatKinds
  <2> QED BY <2>2, <2>3
<1>17. Chained(d, owners(d, heads(d, {Root}, {})))
  <2> DEFINE O == owners(d, heads(d, {Root}, {}))
  <2> HIDE DEF O
  <2>1. \A c \in O : Proper(d, c) /\ members(d, c) = {c} /\ d[fat(c)] # CLUST_FREE
    BY <1>16, FatKinds DEF O
  <2>2. Chained(d, O)
    BY <2>1 DEF Chained
  <2> QED BY <2>2 DEF O
<1>18. Good(d, {Root}, {})
  BY <1>6, <1>15, <1>17 DEF Good
<1> QED BY <1>18 DEF d

Adding == {"find", "stretch", "clearNew", "newEnd", "add"}
Making == {"alloc", "clear", "dots"} \cup Adding

(* The end marker is in slot k, where the entry will be, and a slot follows it. *)
NextAt(V, k) ==
  /\ EndAt(V, dir, k) /\ k + 1 \in DOMAIN slots(V, dir)
  /\ spot = slots(V, dir)[k] /\ at = slots(V, dir)[k + 1]

(* The cluster of at lies behind slot k. *)
Behind(V, k) ==
  /\ at[2] \in Clusters
  /\ \A i \in Indices : \E j \in (k + 1) .. Len(slots(V, dir)) : slot(at[2], i) = slots(V, dir)[j]

(* What a call knows of the directories D at each point: of the path that it makes,
   of the cluster that it has taken, of the slot that it will use, and of the
   entry that it removes. *)
Missing(V, D) ==
  /\ op \in {"open", "mkdir"} /\ dir \in D
  /\ path \in Seq(Names) /\ path # <<>> /\ Entriless(V, dir, path[Len(path)])

Took(V, D) ==
  /\ Fresh(V, D, clust)
  /\ pc \in {"clear", "dots"} => op = "mkdir"
  /\ pc = "dots" => sect = dir_sect(clust) /\ \A i \in Indices : V[slot(clust, i)] = Last
  /\ pc \in Adding /\ op = "mkdir" => Dotty(V, clust, dir)

Slotted(V) ==
  /\ pc = "stretch" => /\ EndAt(V, dir, Len(slots(V, dir)))
                       /\ spot = slots(V, dir)[Len(slots(V, dir))]
  /\ pc \in {"clearNew", "newEnd"} =>
       \E k \in Nat : NextAt(V, k) /\ (pc = "clearNew" => Behind(V, k))
  /\ pc = "add" => Spare(V, dir, spot)

Removing(V, D) ==
  /\ op = "unlink" /\ dir \in D /\ at \in entries(V, dir) /\ clust = V[at][3]
  /\ pc = "unchain" /\ V[at][1] = "dir" => entries(V, clust) = {}

Phase(V, D) ==
  /\ Good(V, D, IF pc = "remove" THEN {at} ELSE {})
  /\ pc \in Making => Missing(V, D)
  /\ pc \in Making \ {"alloc"} => Took(V, D)
  /\ Slotted(V)
  /\ pc \in {"unchain", "remove"} => Removing(V, D)

Whole(d) == \E D, X : Good(d, D, X) /\ Going(d, X)

TreeInv ==
  /\ CacheInv
  /\ cut => pc = "idle"
  /\ ~cut => Whole(disk) /\ \E D : Phase(View, D)

(* At rest there is nothing to know but the tree. *)
LEMMA Rests ==
  ASSUME NEW D, Good(View, D, {}), pc \in {"idle", "return", "sync"}
  PROVE  Phase(View, D)
BY DEF Phase, Making, Adding, Slotted

LEMMA RestsNext ==
  ASSUME NEW D, Good(View', D, {}), pc' \in {"idle", "return", "sync"}
  PROVE  Phase(View, D)'
BY DEF Phase, Making, Adding, Slotted

LEMMA AddingNext ==
  ASSUME NEW D, Good(View', D, {}), pc' \in Adding, Missing(View, D)', Took(View, D)', Slotted(View)'
  PROVE  Phase(View, D)'
BY DEF Phase, Making, Adding

(* The disk after a step takes over what the driver saw or sees. *)
LEMMA DiskNext ==
  ASSUME Whole(disk), ~unlinking, NEW D, Good(View, D, {}), NEW E, Good(View', E, {}),
         disk' = disk \/ disk' = View \/ disk' = View'
  PROVE  Whole(disk)'
<1>1. \E F : Good(disk, F, {})
  BY DEF Whole, Going
<1>2. \E F : Good(disk', F, {})
  BY <1>1
<1> QED BY <1>2 DEF Whole, Going

LEMMA StepInv ==
  ASSUME TreeInv, ~cut, cut' = cut, ~unlinking, NEW D, Good(View, D, {}), NEW E, Good(View', E, {}),
         disk' = disk \/ disk' = View \/ disk' = View', CacheInv', Phase(View, E)'
  PROVE  TreeInv'
<1>1. Whole(disk)'
  BY DiskNext DEF TreeInv
<1> QED BY <1>1 DEF TreeInv

(* A step that ends a call. *)
LEMMA RestInv ==
  ASSUME TreeInv, ~cut, cut' = cut, ~unlinking, NEW D, Good(View, D, {}), NEW E, Good(View', E, {}),
         disk' = disk \/ disk' = View \/ disk' = View', CacheInv', pc' \in {"idle", "return", "sync"}
  PROVE  TreeInv'
BY RestsNext, StepInv

LEMMA InitInv == Init => TreeInv
<1> SUFFICES ASSUME Init PROVE TreeInv
  OBVIOUS
<1>1. PICK q \in Initial : disk = AsLeft(q)
  BY DEF Init, AsLeft
<1>2. /\ sect = elsewhere /\ buf = [x \in {} |-> 0] /\ dirty = FALSE
      /\ pc = "idle" /\ cut = FALSE
  BY DEF Init
<1>3. Good(disk, {Root}, {})
  BY <1>1, InitStore
<1>4. disk = [x \in Cell |-> disk[x]] /\ \A x \in Cell : SectorOf[x] # elsewhere
  BY <1>3, Sectors, FatKinds DEF Good, Store
<1>5. View = disk
  BY <1>2, <1>4 DEF View
<1>6. CellsOf(sect) = {}
  BY <1>2, <1>4 DEF CellsOf
<1>7. CacheInv
  BY <1>2, <1>6 DEF CacheInv, Coherent
<1>8. Whole(disk)
  BY <1>3 DEF Whole, Going
<1>9. Phase(View, {Root})
  BY <1>2, <1>3, <1>5, Rests
<1> QED BY <1>2, <1>7, <1>8, <1>9 DEF TreeInv

LEMMA InvSound == TreeInv => TreeIntact
<1> SUFFICES ASSUME TreeInv, ~cut, NEW d, d \in {disk, View} PROVE Sound(d)
  BY DEF TreeIntact
<1>1. CASE d = disk
  <2>1. PICK D, X : Good(d, D, X) /\ Going(d, X)
    BY <1>1 DEF TreeInv, Whole
  <2> QED BY <2>1, SoundIs
<1>2. CASE d = View
  <2>1. PICK D : Phase(d, D)
    BY <1>2 DEF TreeInv
  <2>2. CASE pc # "remove"
    <3>1. Good(d, D, {}) /\ Going(d, {})
      BY <2>1, <2>2 DEF Phase, Going
    <3> QED BY <3>1, SoundIs
  <2>3. CASE pc = "remove"
    <3>1. Good(d, D, {at}) /\ op = "unlink" /\ clust = d[at][3]
      BY <2>1, <2>3 DEF Phase, Removing
    <3>2. Going(d, {at})
      BY <2>3, <3>1 DEF Going, unlinking
    <3> QED BY <3>1, <3>2, SoundIs
  <2> QED BY <2>2, <2>3
<1> QED BY <1>1, <1>2

-----------------------------------------------------------------------------
(* The steps of calls. *)

(* What TreeInv says where nothing is being removed. *)
LEMMA InPhase ==
  ASSUME TreeInv, ~cut, pc # "remove"
  PROVE  \E D : Phase(View, D) /\ Good(View, D, {})
BY DEF TreeInv, Phase

LEMMA PathsAre == \A p \in Paths : p \in Seq(Names)
BY TreeAssumption DEF Paths, Seqs!SeqOf

(* A call that has looked at its path, and ends or goes on with what is given. *)
LEMMA BegunInv ==
  ASSUME TreeInv, ~cut, pc = "idle", NEW STATE o, NEW p, NEW w, begins(o, p, w),
         NEW STATE S, NEW STATE s, visit(S, s), NEW D, Good(View, D, {}), Phase(View, D)'
  PROVE  TreeInv'
<1>1. View' = View /\ (disk' = disk \/ disk' = View) /\ CacheInv'
  BY VisitEffect DEF TreeInv
<1>2. cut' = cut /\ ~unlinking
  BY DEF begins, historyVars, unlinking
<1> QED BY <1>1, <1>2, StepInv

LEMMA EndedInv ==
  ASSUME TreeInv, ~cut, pc = "idle", NEW STATE o, NEW p, NEW w, begins(o, p, w),
         NEW STATE S, NEW STATE s, visit(S, s), pc' = "return"
  PROVE  TreeInv'
<1>1. PICK D : Good(View, D, {})
  BY InPhase
<1>2. View' = View
  BY VisitEffect DEF TreeInv
<1>3. Phase(View, D)'
  BY <1>1, <1>2, RestsNext
<1> QED BY <1>1, <1>3, BegunInv

LEMMA AllocatesInv ==
  ASSUME TreeInv, ~cut, pc = "idle", NEW STATE o, o \in {"open", "mkdir"}, NEW p \in Seq(Names),
         NEW w, w = follow_path(p), begins(o, p, w), missing(w),
         NEW STATE S, NEW STATE s, visit(S, s), pc' = "alloc"
  PROVE  TreeInv'
<1>1. PICK D : Good(View, D, {})
  BY InPhase
<1>2. View' = View
  BY VisitEffect DEF TreeInv
<1>3. op' = o /\ path' = p /\ dir' = w.dir
  BY DEF begins
<1>4. w.dir \in D /\ p # <<>> /\ Entriless(View, w.dir, p[Len(p)])
  BY <1>1, FollowPath
<1>5. Missing(View, D)'
  BY <1>2, <1>3, <1>4 DEF Missing
<1>6. Phase(View, D)'
  BY <1>1, <1>2, <1>5 DEF Phase, Making, Adding, Slotted
<1> QED BY <1>1, <1>6, BegunInv

LEMMA OpenInv ==
  ASSUME TreeInv, ~cut, pc = "idle", NEW p \in Paths, NEW b \in BOOLEAN, fat_file_open(p, b)
  PROVE  TreeInv'
<1>1. p \in Seq(Names)
  BY PathsAre
<1>2. PICK w \in {follow_path(p)} :
        /\ begins("open", p, w)
        /\ visit(w.sectors, dir_sect(w.at[2]))
        /\ pc' = "return" \/ (missing(w) /\ pc' = "alloc")
  BY DEF fat_file_open, returns
<1>3. w = follow_path(p)
  BY <1>2
<1>4. CASE pc' = "return"
  BY <1>2, <1>4, EndedInv
<1>5. CASE missing(w) /\ pc' = "alloc"
  BY <1>1, <1>2, <1>3, <1>5, AllocatesInv
<1> QED BY <1>2, <1>4, <1>5

LEMMA MkdirInv ==
  ASSUME TreeInv, ~cut, pc = "idle", NEW p \in Paths, fat_dir_create(p)
  PROVE  TreeInv'
<1>1. p \in Seq(Names)
  BY PathsAre
<1>2. PICK w \in {follow_path(p)} :
        /\ begins("mkdir", p, w)
        /\ visit(w.sectors, dir_sect(w.at[2]))
        /\ pc' = "return" \/ (missing(w) /\ pc' = "alloc")
  BY DEF fat_dir_create, returns
<1>3. w = follow_path(p)
  BY <1>2
<1>4. CASE pc' = "return"
  BY <1>2, <1>4, EndedInv
<1>5. CASE missing(w) /\ pc' = "alloc"
  BY <1>1, <1>2, <1>3, <1>5, AllocatesInv
<1> QED BY <1>2, <1>4, <1>5

LEMMA OpendirInv ==
  ASSUME TreeInv, ~cut, pc = "idle", NEW p \in Paths, fat_dir_open(p)
  PROVE  TreeInv'
<1>1. PICK w \in {follow_path(p)} :
        /\ begins("opendir", p, w)
        /\ visit(w.sectors, dir_sect(w.at[2]))
        /\ pc' = "return"
  BY DEF fat_dir_open, returns
<1> QED BY <1>1, EndedInv

LEMMA UnlinkInv ==
  ASSUME TreeInv, ~cut, pc = "idle", NEW p \in Paths, fat_unlink(p)
  PROVE  TreeInv'
<1>1. p \in Seq(Names)
  BY PathsAre
<1>2. PICK w \in {follow_path(p)} :
        /\ begins("unlink", p, w)
        /\ \E S, s : visit(S, s)
        /\ \/ pc' = "return"
           \/ /\ w.res = "ok" /\ ~dir_at_root(p, w) /\ (w.enterable => empty(enter(w.clust)))
              /\ clust' = w.clust /\ pc' = "unchain"
  BY DEF fat_unlink, returns
<1>3. w = follow_path(p)
  BY <1>2
<1>4. CASE pc' = "return"
  BY <1>2, <1>4, EndedInv
<1>5. CASE /\ w.res = "ok" /\ ~dir_at_root(p, w) /\ (w.enterable => empty(enter(w.clust)))
           /\ clust' = w.clust /\ pc' = "unchain"
  <2>1. PICK D : Good(View, D, {})
    BY InPhase
  <2>2. View' = View
    BY <1>2, VisitEffect DEF TreeInv
  <2>3. p # <<>>
    <3>1. p = <<>> => w.at = slot(Root, 0)
      <4>1. p = <<>> => w = start(p)
        BY <1>1, <1>3, <1>5, <2>1, FollowPath
      <4>2. start(p).at = slot(Root, 0)
        BY DEF start
      <4> QED BY <4>1, <4>2
    <3> QED BY <1>5, <3>1 DEF dir_at_root
  <2>4. /\ w.dir \in D /\ w.at \in entries(View, w.dir) /\ w.clust = View[w.at][3]
        /\ w.enterable = (View[w.at][1] = "dir")
    BY <1>1, <1>3, <1>5, <2>1, <2>3, FollowPath
  <2>5. op' = "unlink" /\ dir' = w.dir /\ at' = w.at
    BY <1>2 DEF begins
  <2>6. View[w.at][1] = "dir" => entries(View, w.clust) = {}
    <3> HAVE View[w.at][1] = "dir"
    <3>1. Kept1(View, D, w.dir, w.at)
      BY <2>1, <2>4 DEF Good, Filed
    <3>2. w.clust \in D /\ w.clust \in Clusters
      BY <2>1, <2>4, <3>1 DEF Kept1, Good, Filed
    <3>3. w.at \in heads(View, D, {})
      BY <2>4 DEF heads
    <3>4. w.clust # Root
      BY <2>1, <2>4, <3>3 DEF Good, Filed
    <3>5. enter(w.clust) = w.clust
      BY <3>2, FatKinds DEF enter
    <3>6. empty(w.clust)
      BY <1>5, <2>4, <3>5
    <3> QED BY <2>1, <3>2, <3>4, <3>6, EmptyIs
  <2>7. Removing(View, D)'
    BY <1>5, <2>2, <2>4, <2>5, <2>6 DEF Removing
  <2>8. Phase(View, D)'
    BY <1>5, <2>1, <2>2, <2>7 DEF Phase, Making, Adding, Slotted
  <2> QED BY <1>2, <2>1, <2>8, BegunInv
<1> QED BY <1>2, <1>4, <1>5

LEMMA SyncInv ==
  ASSUME TreeInv, ~cut, pc = "idle", fat_sync
  PROVE  TreeInv'
<1>1. PICK D : Good(View, D, {})
  BY InPhase
<1>2. View \in Store /\ Flushed = View
  BY <1>1, FlushedIsView DEF Good, TreeInv, CacheInv
<1>3. synced(View) /\ cut' = cut /\ pc' = "idle"
  BY <1>2 DEF fat_sync, historyVars
<1>4. View' = View /\ disk' = View /\ CacheInv'
  BY <1>2, <1>3, SyncedEffect
<1>5. ~unlinking
  BY DEF unlinking
<1> QED BY <1>1, <1>3, <1>4, <1>5, RestInv

LEMMA CallInv ==
  ASSUME TreeInv, Call
  PROVE  TreeInv'
<1>1. pc = "idle" /\ ~cut
  BY DEF Call
<1>2. CASE \E p \in Paths : fat_file_open(p, FALSE)
  BY <1>1, <1>2, OpenInv
<1>3. CASE \E p \in Paths : fat_dir_open(p)
  BY <1>1, <1>3, OpendirInv
<1>4. CASE \E p \in Paths : fat_file_open(p, TRUE)
  BY <1>1, <1>4, OpenInv
<1>5. CASE \E p \in Paths : fat_dir_create(p)
  BY <1>1, <1>5, MkdirInv
<1>6. CASE \E p \in Paths : fat_unlink(p)
  BY <1>1, <1>6, UnlinkInv
<1>7. CASE fat_sync
  BY <1>1, <1>7, SyncInv
<1> QED BY <1>2, <1>3, <1>4, <1>5, <1>6, <1>7 DEF Call

-----------------------------------------------------------------------------
(* The steps that make an entry. *)

LEMMA SeesFlushed == TreeInv => Flushed = View
BY FlushedIsView DEF TreeInv, CacheInv

LEMMA FullInv ==
  ASSUME TreeInv, ~cut, pc # "remove", ~unlinking, full, cut' = cut
  PROVE  TreeInv'
<1>1. PICK D : Good(View, D, {})
  BY InPhase
<1>2. visit({fat_sect}, fat_sect) /\ pc' = "return"
  BY DEF full, returns
<1>3. View' = View /\ (disk' = disk \/ disk' = View) /\ CacheInv'
  BY <1>2, VisitEffect DEF TreeInv
<1> QED BY <1>1, <1>2, <1>3, RestInv

LEMMA AllocInv ==
  ASSUME TreeInv, ~cut, Alloc
  PROVE  TreeInv'
<1>1. pc = "alloc" /\ cut' = cut /\ ~unlinking /\ UNCHANGED <<op, path, dir>>
  BY DEF Alloc, callFrame, unlinking
<1>2. CASE full
  BY <1>1, <1>2, FullInv
<1>3. ASSUME NEW c \in free, synced([Flushed EXCEPT ![fat(c)] = CLUST_LAST]), clust' = c,
             pc' = IF op = "mkdir" THEN "clear" ELSE "find"
      PROVE  TreeInv'
  <2> DEFINE e == [View EXCEPT ![fat(c)] = CLUST_LAST]
  <2>1. PICK D : Phase(View, D) /\ Good(View, D, {})
    BY <1>1, InPhase
  <2>2. c \in Clusters /\ View[fat(c)] = CLUST_FREE
    BY DEF free
  <2>3. /\ Good(e, D, {}) /\ Fresh(e, D, c)
        /\ \A p \in D : \A n : Entriless(View, p, n) => Entriless(e, p, n)
    BY <2>1, <2>2, AllocStore
  <2>4. synced(e)
    BY <1>3, SeesFlushed
  <2> HIDE DEF e
  <2>5. e \in Store
    BY <2>3 DEF Good
  <2>6. View' = e /\ disk' = e /\ CacheInv'
    BY <2>4, <2>5, SyncedEffect
  <2>7. /\ op \in {"open", "mkdir"} /\ dir \in D /\ path \in Seq(Names) /\ path # <<>>
        /\ Entriless(View, dir, path[Len(path)])
    BY <1>1, <2>1 DEF Phase, Making, Missing
  <2>8. Missing(View, D)'
    BY <1>1, <2>3, <2>6, <2>7 DEF Missing
  <2>9. Took(View, D)'
    BY <1>1, <1>3, <2>3, <2>6, <2>7 DEF Took, Adding
  <2>10. Slotted(View)'
    BY <1>3 DEF Slotted
  <2>11. Phase(View, D)'
    BY <1>3, <2>3, <2>6, <2>8, <2>9, <2>10 DEF Phase
  <2> QED BY <1>1, <2>1, <2>3, <2>6, <2>11, StepInv
<1> QED BY <1>2, <1>3 DEF Alloc

LEMMA ClearInv ==
  ASSUME TreeInv, ~cut, Clear
  PROVE  TreeInv'
<1>1. /\ pc = "clear" /\ pc' = "dots" /\ cut' = cut /\ ~unlinking /\ UNCHANGED <<op, path, dir, clust>>
      /\ cleared(clust)
  BY DEF Clear, callFrame, historyVars, unlinking
<1>2. PICK D : Phase(View, D) /\ Good(View, D, {})
  BY <1>1, InPhase
<1>3. /\ op \in {"open", "mkdir"} /\ dir \in D /\ path \in Seq(Names) /\ path # <<>>
      /\ Entriless(View, dir, path[Len(path)]) /\ Fresh(View, D, clust) /\ op = "mkdir"
  BY <1>1, <1>2 DEF Phase, Making, Missing, Took
<1>4. View \in Store /\ clust \in Clusters
  BY <1>2, <1>3 DEF Good, Fresh
<1>5. /\ View' \in Store /\ disk' = View' /\ CacheInv' /\ sect' = dir_sect(clust)
      /\ \A x \in TreeCells : (x \in Slots /\ x[2] = clust) \/ View'[x] = View[x]
      /\ \A i \in Indices : View'[slot(clust, i)] = Last
  BY <1>1, <1>4, ClearedEffect DEF TreeInv
<1>6. /\ Good(View', D, {}) /\ Fresh(View', D, clust)
      /\ \A p \in D : \A n : Entriless(View, p, n) => Entriless(View', p, n)
  BY <1>2, <1>3, <1>5, FreshStore
<1>7. Missing(View, D)'
  BY <1>1, <1>3, <1>6 DEF Missing
<1>8. Took(View, D)'
  BY <1>1, <1>3, <1>5, <1>6 DEF Took, Adding
<1>9. Slotted(View)'
  BY <1>1 DEF Slotted
<1>10. Phase(View, D)'
  BY <1>1, <1>6, <1>7, <1>8, <1>9 DEF Phase
<1> QED BY <1>1, <1>2, <1>5, <1>6, <1>10, StepInv

LEMMA DotsEffect ==
  ASSUME CacheInv, View \in Store, NEW STATE c, c \in Clusters, sect = dir_sect(c),
         NEW STATE a, a \in SlotValue, NEW STATE b, b \in SlotValue,
         buf' = [buf EXCEPT ![slot(c, 0)] = a, ![slot(c, 1)] = b], dirty' = TRUE,
         UNCHANGED <<disk, sect>>
  PROVE  /\ View' \in Store /\ CacheInv'
         /\ View'[slot(c, 0)] = a /\ View'[slot(c, 1)] = b
         /\ \A x \in TreeCells : x # slot(c, 0) /\ x # slot(c, 1) => View'[x] = View[x]
<1> DEFINE t == slot(c, 0)
           u == slot(c, 1)
           d == [View EXCEPT ![t] = a]
           e == [d EXCEPT ![u] = b]
<1>1. t \in Slots /\ u \in Slots /\ t # u /\ t \in TreeCells /\ u \in TreeCells
  BY CellKinds, FatKinds
<1>2. t \in CellsOf(sect) /\ u \in CellsOf(sect)
  BY <1>1, CellKinds, Sectors, FatKinds DEF CellsOf
<1> HIDE DEF t, u
<1>3. buf' = [buf EXCEPT ![t] = a, ![u] = b]
  BY DEF t, u
<1>4. /\ buf'[t] = a /\ buf'[u] = b /\ DOMAIN buf' = DOMAIN buf
      /\ \A x \in CellsOf(sect) : x # t /\ x # u => buf'[x] = buf[x]
  BY <1>1, <1>2, <1>3 DEF CacheInv
<1>5. CacheInv'
  BY <1>4 DEF CacheInv, Coherent, CellsOf
<1>6. d \in Store /\ d[t] = a /\ \A x \in TreeCells : x # t => d[x] = View[x]
  BY <1>1, PutSlot
<1> HIDE DEF d
<1>7. e \in Store /\ e[u] = b /\ \A x \in TreeCells : x # u => e[x] = d[x]
  BY <1>1, <1>6, PutSlot
<1> HIDE DEF e
<1>8. \A x \in Cell : (IF SectorOf[x] = sect' THEN buf'[x] ELSE disk'[x]) = e[x]
  <2> TAKE x \in Cell
  <2>1. x \in TreeCells /\ sect' = sect /\ disk' = disk
    BY FatKinds
  <2>2. CASE x \in CellsOf(sect)
    <3>1. View[x] = buf[x] /\ SectorOf[x] = sect
      BY <2>2 DEF View, CellsOf
    <3> QED BY <1>1, <1>4, <1>6, <1>7, <2>1, <2>2, <3>1
  <2>3. CASE x \notin CellsOf(sect)
    <3>1. View[x] = disk[x] /\ SectorOf[x] # sect
      BY <2>3 DEF View, CellsOf
    <3> QED BY <1>2, <1>6, <1>7, <2>1, <2>3, <3>1
  <2> QED BY <2>2, <2>3
<1>9. View' = e
  <2>1. View' = [x \in Cell |-> IF SectorOf[x] = sect' THEN buf'[x] ELSE disk'[x]]
    BY DEF View
  <2>2. e = [x \in Cell |-> e[x]]
    BY <1>7, FatKinds DEF Store
  <2> QED BY <1>8, <2>1, <2>2
<1>10. \A x \in TreeCells : x # t /\ x # u => View'[x] = View[x]
  BY <1>6, <1>7, <1>9
<1> QED BY <1>1, <1>5, <1>6, <1>7, <1>9, <1>10 DEF t, u

LEMMA DotsInv ==
  ASSUME TreeInv, ~cut, Dots
  PROVE  TreeInv'
<1>1. /\ pc = "dots" /\ pc' = "find" /\ cut' = cut /\ ~unlinking /\ UNCHANGED <<op, path, dir, clust>>
      /\ buf' = [buf EXCEPT ![slot(clust, 0)] = dot(clust), ![slot(clust, 1)] = dotdot(parent)]
      /\ dirty' = TRUE /\ UNCHANGED <<disk, sect>>
  BY DEF Dots, callFrame, historyVars, unlinking
<1>2. PICK D : Phase(View, D) /\ Good(View, D, {})
  BY <1>1, InPhase
<1>3. /\ op \in {"open", "mkdir"} /\ dir \in D /\ path \in Seq(Names) /\ path # <<>>
      /\ Entriless(View, dir, path[Len(path)]) /\ Fresh(View, D, clust) /\ op = "mkdir"
      /\ sect = dir_sect(clust) /\ \A i \in Indices : View[slot(clust, i)] = Last
  BY <1>1, <1>2 DEF Phase, Making, Missing, Took
<1>4. View \in Store /\ clust \in Clusters /\ D \subseteq Clusters
  BY <1>2, <1>3 DEF Good, Fresh, Filed
<1>5. parent = up(dir) /\ dot(clust) \in SlotValue /\ dotdot(parent) \in SlotValue
  <2>1. parent = up(dir) /\ parent \in ClustOrNone
    BY <1>3, <1>4, FatKinds DEF parent, up
  <2> QED BY <1>4, <2>1, ValueType
<1> HIDE DEF parent
<1>6. /\ View' \in Store /\ CacheInv'
      /\ View'[slot(clust, 0)] = dot(clust) /\ View'[slot(clust, 1)] = dotdot(parent)
      /\ \A x \in TreeCells : x # slot(clust, 0) /\ x # slot(clust, 1) => View'[x] = View[x]
  BY <1>1, <1>3, <1>4, <1>5, DotsEffect DEF TreeInv
<1>7. \A x \in TreeCells : (x \in Slots /\ x[2] = clust) \/ View'[x] = View[x]
  BY <1>4, <1>6, CellKinds, FatKinds
<1>8. /\ Good(View', D, {}) /\ Fresh(View', D, clust)
      /\ \A p \in D : \A n : Entriless(View, p, n) => Entriless(View', p, n)
  BY <1>2, <1>3, <1>6, <1>7, FreshStore
<1>9. Dotty(View', clust, dir)
  <2>1. \A i \in Indices : i > 1 => View'[slot(clust, i)] = Last
    <3> TAKE i \in Indices
    <3> HAVE i > 1
    <3>1. slot(clust, i) \in TreeCells /\ slot(clust, i) # slot(clust, 0) /\ slot(clust, i) # slot(clust, 1)
      BY <1>4, CellKinds
    <3> QED BY <1>3, <1>6, <3>1
  <2> QED BY <1>5, <1>6, <2>1 DEF Dotty
<1>10. Missing(View, D)'
  BY <1>1, <1>3, <1>8 DEF Missing
<1>11. Took(View, D)'
  BY <1>1, <1>8, <1>9 DEF Took
<1>12. Slotted(View)'
  BY <1>1 DEF Slotted
<1>13. Phase(View, D)'
  BY <1>1, <1>8, <1>10, <1>11, <1>12, AddingNext DEF Adding
<1> QED BY <1>1, <1>2, <1>6, <1>8, <1>13, StepInv

LEMMA FindInv ==
  ASSUME TreeInv, ~cut, Find
  PROVE  TreeInv'
<1> DEFINE s == slots(View, dir)
           T == {j \in DOMAIN s : is_free(View[s[j]])}
<1>0. PICK k, N : k = Min(T) /\ N = Len(s)
  OBVIOUS
<1>1. /\ pc = "find" /\ cut' = cut /\ ~unlinking /\ UNCHANGED <<op, path, dir, clust>>
      /\ \E S : visit(S, dir_sect(s[k][2]))
      /\ spot' = s[k]
      /\ \/ k < N /\ at' = s[k + 1] /\ pc' = IF View[s[k]] = Last THEN "newEnd" ELSE "add"
         \/ k = N /\ pc' = "stretch"
  BY <1>0 DEF Find, first_of, callFrame, historyVars, unlinking
<1>2. PICK D : Phase(View, D) /\ Good(View, D, {})
  BY <1>1, InPhase
<1>3. /\ op \in {"open", "mkdir"} /\ dir \in D /\ path \in Seq(Names) /\ path # <<>>
      /\ Entriless(View, dir, path[Len(path)]) /\ Fresh(View, D, clust)
      /\ op = "mkdir" => Dotty(View, clust, dir)
  BY <1>1, <1>2 DEF Phase, Making, Adding, Missing, Took
<1>4. View' = View /\ (disk' = disk \/ disk' = View) /\ CacheInv'
  BY <1>1, VisitEffect DEF TreeInv
<1>5. PICK m \in Nat : EndAt(View, dir, m)
  BY <1>2, <1>3, DirsOwn DEF Ended
<1>6. /\ m \in 1 .. N /\ DOMAIN s = 1 .. N /\ N \in Nat
      /\ View[s[m]] = Last /\ \A j \in 1 .. (m - 1) : View[s[j]] # Last
  BY <1>0, <1>2, <1>3, <1>5, DirsOwn, Listing, SlotsOf DEF EndAt
<1>7. k \in 1 .. N /\ k <= m /\ is_free(View[s[k]])
  <2>1. T \in SUBSET Nat /\ m \in T
    BY <1>6 DEF is_free
  <2> HIDE DEF T
  <2>2. k \in T /\ k <= m
    BY <1>0, <2>1, LeastIs
  <2> USE DEF T
  <2> QED BY <1>6, <2>2
<1>8. View[s[k]] = Last => k = m
  BY <1>6, <1>7
<1>9. View[s[k]] # Last => k < m /\ View[s[k]] = Free
  BY <1>6, <1>7 DEF is_free
<1>10. Slotted(View)'
  <2>1. CASE k = N
    <3>1. pc' = "stretch" /\ EndAt(View, dir, N) /\ spot' = s[N]
      BY <1>1, <1>5, <1>6, <1>7, <2>1
    <3> QED BY <1>0, <1>1, <1>4, <3>1 DEF Slotted
  <2>2. CASE k < N /\ View[s[k]] = Last
    <3>1. pc' = "newEnd" /\ EndAt(View, dir, k) /\ k + 1 \in DOMAIN s /\ spot' = s[k] /\ at' = s[k + 1]
      BY <1>1, <1>5, <1>6, <1>7, <1>8, <2>2
    <3>2. NextAt(View, k)'
      BY <1>1, <1>4, <3>1 DEF NextAt
    <3> QED BY <1>7, <3>1, <3>2 DEF Slotted
  <2>3. CASE k < N /\ View[s[k]] # Last
    <3>1. pc' = "add" /\ k \in 1 .. m /\ k < m /\ spot' = s[k] /\ View[s[k]] = Free
      BY <1>1, <1>6, <1>7, <1>9, <2>3
    <3>2. Spare(View, dir, s[k])
      BY <1>5, <3>1 DEF Spare
    <3> QED BY <1>1, <1>4, <3>1, <3>2 DEF Slotted
  <2>4. k = N \/ k < N
    BY <1>6, <1>7
  <2> QED BY <2>1, <2>2, <2>3, <2>4
<1>11. pc' \in Adding
  BY <1>1 DEF Adding
<1>12. Missing(View, D)'
  BY <1>1, <1>3, <1>4 DEF Missing
<1>13. Took(View, D)'
  BY <1>1, <1>3, <1>4, <1>11 DEF Took, Adding
<1>14. Good(View', D, {})
  BY <1>2, <1>4
<1>15. Phase(View, D)'
  BY <1>10, <1>11, <1>12, <1>13, <1>14, AddingNext
<1> QED BY <1>1, <1>2, <1>4, <1>14, <1>15, StepInv

LEMMA StretchInv ==
  ASSUME TreeInv, ~cut, Stretch
  PROVE  TreeInv'
<1>1. pc = "stretch" /\ cut' = cut /\ ~unlinking /\ UNCHANGED <<op, path, dir, clust, spot>>
  BY DEF Stretch, callFrame, unlinking
<1>2. CASE full
  BY <1>1, <1>2, FullInv
<1>3. ASSUME NEW c \in free, synced([Flushed EXCEPT ![fat(c)] = CLUST_LAST, ![fat(spot[2])] = c]),
             at' = slot(c, 0), pc' = "clearNew"
      PROVE  TreeInv'
  <2> DEFINE s == slots(View, dir)
  <2>0. PICK N, x : N = Len(s) /\ x = spot[2]
    OBVIOUS
  <2>1. PICK D : Phase(View, D) /\ Good(View, D, {})
    BY <1>1, InPhase
  <2>2. c \in Clusters /\ View[fat(c)] = CLUST_FREE /\ View \in Store
    BY <2>1 DEF free, Good
  <2>3. /\ op \in {"open", "mkdir"} /\ dir \in D /\ path \in Seq(Names) /\ path # <<>>
        /\ Entriless(View, dir, path[Len(path)]) /\ Fresh(View, D, clust)
        /\ op = "mkdir" => Dotty(View, clust, dir)
        /\ EndAt(View, dir, N) /\ spot = s[N]
    BY <1>1, <2>0, <2>1 DEF Phase, Making, Adding, Missing, Took, Slotted
  <2>4. x \in members(View, dir) /\ N \in Nat /\ N \in 1 .. N
    BY <2>0, <2>1, <2>3, DirsOwn, Listing, SlotsOf
  <2>5. x \in Clusters /\ x # c
    <3>1. dir \in owners(View, heads(View, D, {}))
      BY <2>1, <2>3, DirsOwn
    <3>2. View[fat(x)] # CLUST_FREE
      BY <2>1, <2>4, <3>1 DEF Good, Chained
    <3>3. members(View, dir) \subseteq Clusters
      BY <2>1, <2>3, DirsOwn, ProperType
    <3> QED BY <2>2, <2>4, <3>2, <3>3
  <2> DEFINE e == [View EXCEPT ![fat(c)] = CLUST_LAST, ![fat(x)] = c]
  <2>6. /\ e \in Store /\ e[fat(c)] = CLUST_LAST /\ e[fat(x)] = c
        /\ \A y \in TreeCells : y # fat(c) /\ y # fat(x) => e[y] = View[y]
    <3>1. PICK v, f : v = View /\ Linking(v, f, c, x) /\ f = e
      BY DEF Linking
    <3> HIDE DEF e
    <3>2. v \in Store
      BY <2>2, <3>1
    <3>3. /\ f \in Store /\ f[fat(c)] = CLUST_LAST /\ f[fat(x)] = c
          /\ \A y \in TreeCells : y # fat(c) /\ y # fat(x) => f[y] = v[y]
      BY <2>2, <2>5, <3>1, <3>2, PutFats
    <3> QED BY <3>1, <3>3
  <2>7. synced(e)
    BY <1>3, <2>0, SeesFlushed
  <2> HIDE DEF e
  <2>8. Stretched(View, e, dir, c)
    BY <2>0, <2>2, <2>3, <2>6 DEF Stretched
  <2>9. /\ Good(e, D, {}) /\ EndAt(e, dir, N) /\ N + 1 \in 1 .. Len(slots(e, dir))
        /\ slots(e, dir)[N] = s[N] /\ slots(e, dir)[N + 1] = slot(c, 0)
        /\ \A i \in Indices : \E k \in (N + 1) .. Len(slots(e, dir)) : slot(c, i) = slots(e, dir)[k]
        /\ Fresh(e, D, clust) /\ \A y \in Slots : e[y] = View[y]
        /\ \A g \in D : \A n : Entriless(View, g, n) => Entriless(e, g, n)
    BY <2>0, <2>1, <2>2, <2>3, <2>6, <2>8, StretchStore
  <2>10. View' = e /\ disk' = e /\ CacheInv'
    BY <2>6, <2>7, SyncedEffect
  <2>11. Missing(View, D)'
    BY <1>1, <2>3, <2>9, <2>10 DEF Missing
  <2>12. Dotty(View, clust, dir) => Dotty(e, clust, dir)
    <3>1. \A i \in Indices : e[slot(clust, i)] = View[slot(clust, i)]
      BY <2>3, <2>9, CellKinds DEF Fresh
    <3> QED BY <3>1, FatKinds DEF Dotty
  <2>13. Took(View, D)'
    BY <1>1, <1>3, <2>3, <2>9, <2>10, <2>12 DEF Took
  <2>14. Slotted(View)'
    <3>1. slot(c, 0)[2] = c
      BY CellKinds
    <3>2. DOMAIN slots(e, dir) = 1 .. Len(slots(e, dir))
      BY <2>3, <2>9, DirsOwn, SlotsOf
    <3>3. NextAt(View, N)'
      BY <1>1, <1>3, <2>3, <2>9, <2>10, <3>2 DEF NextAt
    <3>4. Behind(View, N)'
      BY <1>1, <1>3, <2>2, <2>9, <2>10, <3>1 DEF Behind
    <3> QED BY <1>3, <2>4, <3>3, <3>4 DEF Slotted
  <2>15. Phase(View, D)'
    BY <1>3, <2>9, <2>10, <2>11, <2>13, <2>14, AddingNext DEF Adding
  <2> QED BY <1>1, <2>1, <2>9, <2>10, <2>15, StepInv
<1> QED BY <1>2, <1>3 DEF Stretch

(* What the steps that change only slots behind the end marker have in common. *)
LEMMA BeyondInv ==
  ASSUME TreeInv, ~cut, cut' = cut, pc \in Adding, pc' \in Adding, UNCHANGED <<op, path, dir, clust>>,
         NEW D, Phase(View, D), Good(View, D, {}), View' \in Store, CacheInv', Slotted(View)',
         disk' = disk \/ disk' = View \/ disk' = View',
         NEW k \in Nat, EndAt(View, dir, k),
         \A x \in TreeCells :
           (\E j \in (k + 1) .. Len(slots(View, dir)) : x = slots(View, dir)[j]) \/ View'[x] = View[x]
  PROVE  TreeInv'
<1>1. /\ op \in {"open", "mkdir"} /\ dir \in D /\ path \in Seq(Names) /\ path # <<>>
      /\ Entriless(View, dir, path[Len(path)]) /\ Fresh(View, D, clust)
      /\ op = "mkdir" => Dotty(View, clust, dir)
  BY DEF Phase, Making, Adding, Missing, Took
<1>2. /\ Good(View', D, {})
      /\ Fresh(View', D, clust) /\ \A i \in Indices : View'[slot(clust, i)] = View[slot(clust, i)]
      /\ \A g \in D : \A n : Entriless(View, g, n) => Entriless(View', g, n)
  BY <1>1, BeyondStore
<1>3. Missing(View, D)'
  BY <1>1, <1>2 DEF Missing
<1>4. Dotty(View, clust, dir) => Dotty(View', clust, dir)
  BY <1>2, FatKinds DEF Dotty
<1>5. Took(View, D)'
  BY <1>1, <1>2, <1>4 DEF Took, Adding
<1>6. Phase(View, D)'
  BY <1>2, <1>3, <1>5, AddingNext
<1>7. ~unlinking
  BY <1>1 DEF unlinking
<1> QED BY <1>2, <1>6, <1>7, StepInv

LEMMA ClearNewInv ==
  ASSUME TreeInv, ~cut, ClearNew
  PROVE  TreeInv'
<1>1. /\ pc = "clearNew" /\ pc' = "newEnd" /\ cut' = cut
      /\ UNCHANGED <<op, path, dir, clust, at, spot>> /\ cleared(at[2])
  BY DEF ClearNew, callFrame, historyVars
<1>2. PICK D : Phase(View, D) /\ Good(View, D, {})
  BY <1>1, InPhase
<1>3. View \in Store /\ dir \in D
  BY <1>1, <1>2 DEF Good, Phase, Making, Adding, Missing
<1>4. PICK k \in Nat : NextAt(View, k) /\ Behind(View, k)
  BY <1>1, <1>2 DEF Phase, Slotted
<1>5. PICK c : c = at[2] /\ c \in Clusters
  BY <1>4 DEF Behind
<1>6. /\ View' \in Store /\ disk' = View' /\ CacheInv'
      /\ \A x \in TreeCells : (x \in Slots /\ x[2] = c) \/ View'[x] = View[x]
  BY <1>1, <1>3, <1>5, ClearedEffect DEF TreeInv
<1>7. ASSUME NEW x \in TreeCells, View'[x] # View[x]
      PROVE  \E j \in (k + 1) .. Len(slots(View, dir)) : x = slots(View, dir)[j]
  <2>1. x = slot(c, x[3]) /\ x[3] \in Indices
    BY <1>6, <1>7, CellKinds
  <2> QED BY <1>4, <1>5, <2>1 DEF Behind
<1>8. EndAt(View, dir, k)
  BY <1>4 DEF NextAt
<1>9. EndAt(View', dir, k) /\ slots(View', dir) = slots(View, dir)
  BY <1>2, <1>3, <1>6, <1>7, <1>8, BeyondStore
<1>10. NextAt(View, k)'
  BY <1>1, <1>4, <1>9 DEF NextAt
<1>11. Slotted(View)'
  BY <1>1, <1>10 DEF Slotted
<1>12. pc \in Adding /\ pc' \in Adding
  BY <1>1 DEF Adding
<1> QED BY <1>1, <1>2, <1>6, <1>7, <1>8, <1>11, <1>12, BeyondInv

LEMMA NewEndInv ==
  ASSUME TreeInv, ~cut, NewEnd
  PROVE  TreeInv'
<1>1. /\ pc = "newEnd" /\ pc' = "add" /\ cut' = cut
      /\ UNCHANGED <<op, path, dir, clust, at, spot>> /\ put(at, Last)
  BY DEF NewEnd, callFrame, historyVars
<1>2. PICK D : Phase(View, D) /\ Good(View, D, {})
  BY <1>1, InPhase
<1>3. View \in Store /\ dir \in D
  BY <1>1, <1>2 DEF Good, Phase, Making, Adding, Missing
<1>4. PICK k \in Nat : NextAt(View, k)
  BY <1>1, <1>2 DEF Phase, Slotted
<1>5. /\ EndAt(View, dir, k) /\ k + 1 \in DOMAIN slots(View, dir)
      /\ spot = slots(View, dir)[k] /\ at = slots(View, dir)[k + 1]
  BY <1>4 DEF NextAt
<1>6. /\ k + 1 \in (k + 1) .. Len(slots(View, dir)) /\ at \in Slots
      /\ k \in 1 .. k
  <2>1. Proper(View, dir)
    BY <1>2, <1>3, DirsOwn
  <2>2. /\ DOMAIN slots(View, dir) = 1 .. Len(slots(View, dir)) /\ Len(slots(View, dir)) \in Nat
        /\ \A j \in 1 .. Len(slots(View, dir)) : slots(View, dir)[j] \in Slots
    BY <2>1, SlotsOf
  <2>3. k \in 1 .. Len(slots(View, dir))
    BY <1>5, <2>1, Listing
  <2>4. k + 1 \in 1 .. Len(slots(View, dir))
    BY <1>5, <2>2
  <2> QED BY <1>5, <2>2, <2>3, <2>4
<1>7. Last \in SlotValue
  BY ValueKinds
<1>8. /\ (disk' = disk \/ disk' = View) /\ CacheInv' /\ View' \in Store
      /\ \A x \in TreeCells : x = at \/ View'[x] = View[x]
  BY <1>1, <1>3, <1>6, <1>7, PutStore DEF TreeInv
<1>9. \A x \in TreeCells :
        (\E j \in (k + 1) .. Len(slots(View, dir)) : x = slots(View, dir)[j]) \/ View'[x] = View[x]
  BY <1>5, <1>6, <1>8
<1>10. EndAt(View', dir, k) /\ slots(View', dir) = slots(View, dir)
  BY <1>2, <1>3, <1>5, <1>8, <1>9, BeyondStore
<1>11. View'[at] = Last
  <2>1. View' = [View EXCEPT ![at] = Last]
    BY <1>1, <1>3, <1>6, <1>7, PutStore DEF TreeInv
  <2>2. at \in DOMAIN View
    BY <1>3, <1>6, CellKinds DEF Store
  <2> QED BY <2>1, <2>2
<1>12. Spare(View', dir, spot)
  BY <1>5, <1>6, <1>10, <1>11 DEF Spare
<1>13. Slotted(View)'
  BY <1>1, <1>12 DEF Slotted
<1>14. pc \in Adding /\ pc' \in Adding
  BY <1>1 DEF Adding
<1> QED BY <1>1, <1>2, <1>5, <1>8, <1>9, <1>13, <1>14, BeyondInv

LEMMA AddInv ==
  ASSUME TreeInv, ~cut, Add
  PROVE  TreeInv'
<1> DEFINE v == <<IF op = "mkdir" THEN "dir" ELSE "file", path[Len(path)], clust, "long">>
<1>1. /\ pc = "add" /\ cut' = cut /\ ~unlinking /\ put(spot, v) /\ pc' \in {"sync", "return"}
  BY DEF Add, historyVars, unlinking, returns
<1>2. PICK D : Phase(View, D) /\ Good(View, D, {})
  BY <1>1, InPhase
<1>3. /\ View \in Store /\ op \in {"open", "mkdir"} /\ dir \in D /\ path \in Seq(Names) /\ path # <<>>
      /\ Entriless(View, dir, path[Len(path)]) /\ Fresh(View, D, clust)
      /\ op = "mkdir" => Dotty(View, clust, dir)
      /\ Spare(View, dir, spot)
  BY <1>1, <1>2 DEF Good, Phase, Making, Adding, Missing, Took, Slotted
<1>4. PICK k, n : n = path[Len(path)] /\ k = (IF op = "mkdir" THEN "dir" ELSE "file")
  OBVIOUS
<1>5. v = <<k, n, clust, "long">> /\ k \in Kinds /\ n \in Names /\ clust \in ClustOrNone
      /\ (k = "dir" => op = "mkdir")
  <2>1. path \in Seq(Names) /\ path # <<>>
    BY <1>3
  <2>2. n \in Names
    BY <1>4, <2>1
  <2>3. op \in {"open", "mkdir"} /\ clust \in ClustOrNone
    BY <1>3, FatKinds DEF Fresh
  <2>4. v = <<k, n, clust, "long">>
    BY <1>4
  <2> HIDE DEF v
  <2>5. k \in Kinds /\ (k = "dir" => op = "mkdir")
    BY <1>4, <2>3 DEF Kinds
  <2> QED BY <2>2, <2>3, <2>4, <2>5
<1> HIDE DEF v
<1>6. v \in SlotValue
  <2>1. v \in Entries
    BY <1>5 DEF Entries
  <2> QED BY <2>1, ValueKinds
<1>7. spot \in Slots
  <2>1. PICK m \in Nat : \E j \in 1 .. m : EndAt(View, dir, m) /\ spot = slots(View, dir)[j]
    BY <1>3 DEF Spare
  <2>2. PICK j \in 1 .. m : EndAt(View, dir, m) /\ spot = slots(View, dir)[j]
    BY <2>1
  <2>3. Proper(View, dir)
    BY <1>2, <1>3, DirsOwn
  <2> QED BY <2>2, <2>3, UpToEnd
<1>8. View' = [View EXCEPT ![spot] = v] /\ (disk' = disk \/ disk' = View) /\ CacheInv'
  BY <1>1, <1>3, <1>6, <1>7, PutStore DEF TreeInv
<1>9. \E E : Good(View', E, {})
  <2>1. Good([View EXCEPT ![spot] = <<k, n, clust, "long">>], IF k = "dir" THEN D \cup {clust} ELSE D, {})
    <3>1. /\ dir \in D /\ Entriless(View, dir, n) /\ Fresh(View, D, clust)
          /\ k = "dir" => Dotty(View, clust, dir)
      BY <1>3, <1>4, <1>5
    <3> QED BY <1>2, <1>3, <1>5, <3>1, AddStore
  <2> QED BY <1>5, <1>8, <2>1
<1> QED BY <1>1, <1>2, <1>8, <1>9, RestInv

-----------------------------------------------------------------------------
(* The steps that remove an entry, and those that end a call. *)

LEMMA UnchainInv ==
  ASSUME TreeInv, ~cut, Unchain
  PROVE  TreeInv'
<1>1. pc = "unchain" /\ cut' = cut /\ ~unlinking /\ UNCHANGED <<op, dir, at, clust>>
  BY DEF Unchain, callFrame, unlinking
<1>2. PICK D : Phase(View, D) /\ Good(View, D, {})
  BY <1>1, InPhase
<1>3. CASE visit({fat_sect}, fat_sect) /\ returns("broken")
  <2>1. View' = View /\ (disk' = disk \/ disk' = View) /\ CacheInv' /\ pc' = "return"
    BY <1>3, VisitEffect DEF TreeInv, returns
  <2> QED BY <1>1, <1>2, <2>1, RestInv
<1>4. ASSUME synced([x \in Cell |-> IF x \in {fat(c) : c \in members(View, clust)}
                                      THEN CLUST_FREE ELSE Flushed[x]]),
             pc' = "remove"
      PROVE  TreeInv'
  <2> DEFINE e == [x \in Cell |-> IF x \in {fat(c) : c \in members(View, clust)}
                                    THEN CLUST_FREE ELSE View[x]]
  <2>1. synced(e)
    BY <1>4, SeesFlushed
  <2>2. /\ op = "unlink" /\ dir \in D /\ at \in entries(View, dir) /\ clust = View[at][3]
        /\ View[at][1] = "dir" => entries(View, View[at][3]) = {}
    BY <1>1, <1>2 DEF Phase, Removing
  <2>3. View \in Store
    BY <1>2 DEF Good
  <2>4. Unchained(View, e, View[at][3])
    BY <2>2, FatKinds DEF Unchained
  <2>5. e \in Store
    <3>1. e = [x \in TreeCells |-> e[x]]
      BY FatKinds
    <3> HIDE DEF e
    <3>2. \A x \in TreeCells : e[x] = View[x] \/ e[x] = CLUST_FREE
      BY <2>4 DEF Unchained
    <3>3. \A s \in Slots : e[s] = View[s]
      BY <2>4, CellKinds DEF Unchained
    <3>4. CLUST_FREE \in FatValue
      BY DEF FatValue
    <3>5. e \in [TreeCells -> FatValue \cup SlotValue]
      BY <2>3, <3>1, <3>2, <3>4 DEF Store
    <3>6. \A c \in ClustOrNone : e[fat(c)] \in FatValue
      BY <2>3, <3>2, <3>4, CellKinds DEF Store
    <3>7. e[fat(NoClust)] \notin Clusters
      BY <2>3, <3>2, CellKinds, FatKinds DEF Store
    <3>8. \A s \in Slots : e[s] \in SlotValue
      BY <2>3, <3>3 DEF Store
    <3> QED BY <3>5, <3>6, <3>7, <3>8 DEF Store
  <2> HIDE DEF e
  <2>6. View' = e /\ disk' = e /\ CacheInv'
    BY <2>1, <2>5, SyncedEffect
  <2>7. PICK E, c : E = D \ {c} /\ c = View[at][3]
    OBVIOUS
  <2>8. /\ Good(e, E, {at}) /\ dir \in E /\ at \in entries(e, dir) /\ e[at] = View[at]
    BY <1>2, <2>2, <2>4, <2>5, <2>7, UnchainStore
  <2>9. Removing(View, E)'
    BY <1>1, <1>4, <2>2, <2>6, <2>8 DEF Removing
  <2>10. Phase(View, E)'
    BY <1>1, <1>4, <2>6, <2>8, <2>9 DEF Phase, Making, Adding, Slotted
  <2>11. unlinking' /\ clust' = e[at][3] /\ at' = at
    BY <1>1, <1>4, <2>2, <2>8 DEF unlinking
  <2>12. Whole(disk)'
    BY <2>6, <2>8, <2>11 DEF Whole, Going
  <2> QED BY <1>1, <2>6, <2>10, <2>12 DEF TreeInv
<1> QED BY <1>3, <1>4 DEF Unchain

LEMMA RemoveInv ==
  ASSUME TreeInv, ~cut, Remove
  PROVE  TreeInv'
<1>1. pc = "remove" /\ cut' = cut /\ pc' = "sync" /\ UNCHANGED <<op, at, clust>> /\ put(at, Free)
  BY DEF Remove, callFrame, historyVars
<1>2. PICK D : Phase(View, D)
  BY DEF TreeInv
<1>3. /\ Good(View, D, {at}) /\ op = "unlink" /\ dir \in D /\ at \in entries(View, dir)
      /\ clust = View[at][3]
  BY <1>1, <1>2 DEF Phase, Removing
<1>4. View \in Store /\ at \in Slots /\ Free \in SlotValue
  BY <1>3, EntryIs, ValueKinds DEF Good
<1>5. View' = [View EXCEPT ![at] = Free] /\ (disk' = disk \/ disk' = View) /\ CacheInv'
  BY <1>1, <1>4, PutStore DEF TreeInv
<1>6. Good(View', D, {})
  BY <1>3, <1>5, RemoveStore
<1>7. Phase(View, D)'
  BY <1>1, <1>6, RestsNext
<1>8. unlinking /\ unlinking'
  BY <1>1, <1>3 DEF unlinking
<1>9. Whole(disk)'
  <2>1. PICK E, X : Good(disk, E, X) /\ Going(disk, X)
    BY DEF TreeInv, Whole
  <2>2. CASE disk' = disk
    <3>1. Going(disk, X)'
      BY <1>1, <1>8, <2>1, <2>2 DEF Going
    <3> QED BY <2>1, <2>2, <3>1 DEF Whole
  <2>3. CASE disk' = View
    <3>1. Going(disk, {at})'
      BY <1>1, <1>3, <1>8, <2>3 DEF Going
    <3>2. at' = at
      BY <1>1
    <3> QED BY <1>3, <2>3, <3>1, <3>2 DEF Whole
  <2> QED BY <1>5, <2>2, <2>3
<1> QED BY <1>1, <1>5, <1>7, <1>9 DEF TreeInv

LEMMA SyncFsInv ==
  ASSUME TreeInv, ~cut, SyncFs
  PROVE  TreeInv'
<1>1. pc = "sync" /\ cut' = cut /\ pc' = "return" /\ synced(Flushed)
  BY DEF SyncFs, historyVars, returns
<1>2. PICK D : Good(View, D, {})
  BY <1>1, InPhase
<1>3. View \in Store /\ synced(View)
  BY <1>1, <1>2, SeesFlushed DEF Good
<1>4. View' = View /\ disk' = View /\ CacheInv'
  BY <1>3, SyncedEffect
<1>5. Phase(View, D)'
  BY <1>1, <1>2, <1>4, RestsNext
<1>6. Whole(disk)'
  BY <1>2, <1>4 DEF Whole, Going
<1> QED BY <1>1, <1>4, <1>5, <1>6 DEF TreeInv

LEMMA ReturnInv ==
  ASSUME TreeInv, ~cut, Return
  PROVE  TreeInv'
<1>1. pc = "return" /\ cut' = cut /\ pc' = "idle" /\ ~unlinking /\ UNCHANGED cacheVars
  BY DEF Return, historyVars, unlinking
<1>2. PICK D : Good(View, D, {})
  BY <1>1, InPhase
<1>3. View' = View /\ disk' = disk /\ CacheInv'
  BY <1>1 DEF View, cacheVars, TreeInv, CacheInv, Coherent, CellsOf
<1> QED BY <1>1, <1>2, <1>3, RestInv

LEMMA PowerInv ==
  ASSUME TreeInv, PowerCycle
  PROVE  TreeInv'
<1>1. /\ cut' = (cut \/ unlinking) /\ pc' = "idle" /\ drop_buf(elsewhere)
      /\ sect' = elsewhere /\ buf' = [x \in {} |-> 0] /\ dirty' = FALSE /\ disk' = disk
  BY DEF PowerCycle, drop_buf
<1>2. CellsOf(sect)' = {}
  BY <1>1, Sectors, FatKinds DEF CellsOf
<1>3. CacheInv'
  BY <1>1, <1>2 DEF CacheInv, Coherent
<1>4. ASSUME ~cut' PROVE Whole(disk)' /\ \E D : Phase(View, D)'
  <2>1. ~cut /\ ~unlinking
    BY <1>1, <1>4
  <2>2. PICK D : Good(disk, D, {})
    BY <2>1 DEF TreeInv, Whole, Going
  <2>3. DOMAIN disk = Cell /\ disk = [x \in Cell |-> disk[x]]
    BY <2>2, FatKinds DEF Good, Store
  <2>4. View' = disk
    BY <1>1, <2>3, Sectors, FatKinds, DropEffect
  <2>5. Phase(View, D)'
    BY <1>1, <2>2, <2>4, RestsNext
  <2>6. Whole(disk)'
    BY <1>1, <2>2 DEF Whole, Going
  <2> QED BY <2>5, <2>6
<1> QED BY <1>1, <1>3, <1>4 DEF TreeInv

LEMMA StillInv ==
  ASSUME TreeInv, UNCHANGED vars
  PROVE  TreeInv'
<1>1. UNCHANGED <<disk, sect, buf, dirty, pc, op, path, dir, at, clust, spot, cut>>
  BY DEF vars
<1>2. View' = View /\ disk' = disk /\ CacheInv'
  BY <1>1 DEF View, TreeInv, CacheInv, Coherent, CellsOf
<1>3. ASSUME Whole(disk) PROVE Whole(disk)'
  BY <1>1, <1>3 DEF Whole, Going, unlinking
<1>4. ASSUME NEW D, Phase(View, D) PROVE Phase(View, D)'
  <2>1. Missing(View, D) => Missing(View, D)'
    BY <1>1, <1>2 DEF Missing
  <2>2. Took(View, D) => Took(View, D)'
    BY <1>1, <1>2 DEF Took
  <2>3. Slotted(View) => Slotted(View)'
    BY <1>1, <1>2 DEF Slotted, NextAt, Behind
  <2>4. Removing(View, D) => Removing(View, D)'
    BY <1>1, <1>2 DEF Removing
  <2> QED BY <1>1, <1>2, <1>4, <2>1, <2>2, <2>3, <2>4 DEF Phase
<1> QED BY <1>1, <1>2, <1>3, <1>4 DEF TreeInv

(* In every state, whatever calls were made and wherever power was lost but
   between the two halves of fat_unlink, what the driver sees and what is on
   the disk are both a tree of directories. *)
THEOREM TreeIsIntact == Spec => []TreeIntact
<1>1. Init => TreeInv
  BY InitInv
<1>2. TreeInv /\ [Next]_vars => TreeInv'
  <2> SUFFICES ASSUME TreeInv, [Next]_vars PROVE TreeInv'
    OBVIOUS
  <2>1. CASE UNCHANGED vars
    BY <2>1, StillInv
  <2>2. CASE Call
    BY <2>2, CallInv
  <2>3. CASE PowerCycle
    BY <2>3, PowerInv
  <2>4. CASE Step
    <3>1. pc # "idle"
      BY <2>4 DEF Step, Alloc, Clear, Dots, Find, Stretch, ClearNew, NewEnd, Add, Unchain, Remove,
                  SyncFs, Return
    <3>2. ~cut
      BY <3>1 DEF TreeInv
    <3>3. CASE Alloc
      BY <3>2, <3>3, AllocInv
    <3>4. CASE Clear
      BY <3>2, <3>4, ClearInv
    <3>5. CASE Dots
      BY <3>2, <3>5, DotsInv
    <3>6. CASE Find
      BY <3>2, <3>6, FindInv
    <3>7. CASE Stretch
      BY <3>2, <3>7, StretchInv
    <3>8. CASE ClearNew
      BY <3>2, <3>8, ClearNewInv
    <3>9. CASE NewEnd
      BY <3>2, <3>9, NewEndInv
    <3>10. CASE Add
      BY <3>2, <3>10, AddInv
    <3>11. CASE Unchain
      BY <3>2, <3>11, UnchainInv
    <3>12. CASE Remove
      BY <3>2, <3>12, RemoveInv
    <3>13. CASE SyncFs
      BY <3>2, <3>13, SyncFsInv
    <3>14. CASE Return
      BY <3>2, <3>14, ReturnInv
    <3> QED BY <2>4, <3>3, <3>4, <3>5, <3>6, <3>7, <3>8, <3>9, <3>10, <3>11, <3>12, <3>13, <3>14
            DEF Step
  <2> QED BY <2>1, <2>2, <2>3, <2>4 DEF Next
<1>3. TreeInv => TreeIntact
  BY InvSound
<1> QED BY <1>1, <1>2, <1>3, PTL DEF Spec

=============================================================================

---------------------------- MODULE ShellProofs ----------------------------
(* The shell: what is on the screen is what was printed and typed, for every size
   of the screen and of the line buffer and every output of the commands; and
   the current path always leads to a directory, whatever is typed. *)
EXTENDS Console, Commands, WellFoundedInduction, TLAPS

-----------------------------------------------------------------------------
(* Induction. The rule of the library is about a predicate; this one is about a
   set, the numbers for which the predicate holds. *)

(* Every set of natural numbers that is not empty has a least element. *)
LEMMA LeastNat ==
  ASSUME NEW T \in SUBSET Nat, T # {}
  PROVE  \E m \in T : \A k \in T : m <= k
<1> DEFINE less == OpToRel(<, Nat)
<1>1. IsWellFoundedOn(less, Nat)
  BY NatLessThanWellFounded
<1>2. \E m \in T : \A k \in T : <<k, m>> \notin less
  <2> HIDE DEF less
  <2> QED BY <1>1, WFMin
<1>3. \A k, m \in Nat : k < m => <<k, m>> \in less
  BY DEF OpToRel
<1> HIDE DEF less
<1>4. PICK m \in T : \A k \in T : <<k, m>> \notin less
  BY <1>2
<1>5. \A k \in T : ~(k < m)
  BY <1>3, <1>4
<1> QED BY <1>5

(* What holds of 0 and of the successor of each number that it holds of, holds of
   every number. *)
LEMMA Induction ==
  ASSUME NEW T, 0 \in T, \A n \in Nat : n \in T => n + 1 \in T
  PROVE  Nat \subseteq T
<1> SUFFICES ASSUME Nat \ T # {} PROVE FALSE
  OBVIOUS
<1>1. PICK m \in Nat \ T : \A k \in Nat \ T : m <= k
  BY LeastNat
<1>2. m - 1 \in Nat
  BY <1>1
<1>3. m - 1 \in T
  BY <1>1, <1>2
<1> QED BY <1>1, <1>2, <1>3

(* A recursive function over 0 .. n, as a loop computes it, exists. *)
Steps(n, S) == [1 .. n -> [S -> S]]
Computes(f, n, first, step) == f[0] = first /\ \A k \in 1 .. n : f[k] = step[k][f[k - 1]]

LEMMA Recursion ==
  ASSUME NEW n \in Nat, NEW S, NEW first \in S, NEW step \in Steps(n, S)
  PROVE  \E f \in [0 .. n -> S] : Computes(f, n, first, step)
<1> USE DEF Computes, Steps
<1> DEFINE T == {m \in Nat : m <= n => \E f \in [0 .. m -> S] : Computes(f, m, first, step)}
<1>1. 0 \in T
  <2> DEFINE f == [k \in 0 .. 0 |-> first]
  <2>1. f \in [0 .. 0 -> S] /\ Computes(f, 0, first, step)
    OBVIOUS
  <2> QED BY <2>1
<1>2. ASSUME NEW m \in Nat, m \in T PROVE m + 1 \in T
  <2> SUFFICES ASSUME m + 1 <= n PROVE \E f \in [0 .. (m + 1) -> S] : Computes(f, m + 1, first, step)
    OBVIOUS
  <2>1. PICK f \in [0 .. m -> S] : Computes(f, m, first, step)
    BY <1>2
  <2> DEFINE g == [k \in 0 .. (m + 1) |-> IF k = m + 1 THEN step[m + 1][f[m]] ELSE f[k]]
  <2>2. step[m + 1][f[m]] \in S
    BY <2>1
  <2>3. g \in [0 .. (m + 1) -> S]
    BY <2>1, <2>2
  <2>4. \A k \in 1 .. (m + 1) : g[k] = step[k][g[k - 1]]
    <3> TAKE k \in 1 .. (m + 1)
    <3>1. CASE k = m + 1
      BY <3>1
    <3>2. CASE k \in 1 .. m
      BY <2>1, <3>2
    <3> QED BY <3>1, <3>2
  <2>5. g[0] = first
    BY <2>1
  <2> QED BY <2>3, <2>4, <2>5
<1>3. n \in T
  <2> HIDE DEF T
  <2> QED BY <1>1, <1>2, Induction
<1> QED BY <1>3

-----------------------------------------------------------------------------
(* Arithmetic. *)

(* Products of natural numbers. *)
LEMMA Products ==
  ASSUME NEW a \in Nat, NEW b \in Nat, NEW k \in Nat
  PROVE  /\ a * k \in Nat /\ (a + b) * k = a * k + b * k
         /\ a <= b => a * k <= b * k
         /\ a < b => (a + 1) * k <= b * k
         /\ (a + 1) * k = a * k + k
<1>1. a * k \in Nat /\ (a + b) * k = a * k + b * k /\ (a + 1) * k = a * k + k
  OBVIOUS
<1>2. ASSUME NEW x \in Nat, NEW y \in Nat, x <= y PROVE x * k <= y * k
  <2>1. PICK d \in Nat : y = x + d
    BY <1>2
  <2>2. d * k \in Nat /\ x * k \in Nat /\ (x + d) * k = x * k + d * k
    OBVIOUS
  <2>3. y * k = x * k + d * k
    BY <2>1, <2>2
  <2> QED BY <2>2, <2>3
<1>3. a < b => a + 1 \in Nat /\ a + 1 <= b
  OBVIOUS
<1> QED BY <1>1, <1>2, <1>3

(* Quotient and remainder. *)
LEMMA Division ==
  ASSUME NEW a \in Nat, NEW k \in Nat \ {0}
  PROVE  /\ a \div k \in Nat /\ a % k \in 0 .. (k - 1)
         /\ a = (a \div k) * k + (a % k)
<1>1. a \in Int /\ k \in Int /\ k > 0
  OBVIOUS
<1>2. a = k * (a \div k) + (a % k) /\ 0 <= a % k /\ a % k < k /\ a \div k \in Int /\ a % k \in Int
  BY <1>1
<1>3. a \div k >= 0
  BY <1>1
<1> QED BY <1>1, <1>2, <1>3

(* They are determined by that. *)
LEMMA DivisionUnique ==
  ASSUME NEW a \in Nat, NEW k \in Nat \ {0}, NEW q \in Nat, NEW m \in 0 .. (k - 1),
         a = q * k + m
  PROVE  a \div k = q /\ a % k = m
<1> DEFINE p == a \div k
           r == a % k
<1>1. p \in Nat /\ r \in 0 .. (k - 1) /\ a = p * k + r
  BY Division
<1> HIDE DEF p, r
<1>2. ~(p < q)
  <2>1. p < q => (p + 1) * k <= q * k /\ (p + 1) * k = p * k + k
    BY <1>1, Products
  <2>2. p * k \in Nat /\ q * k \in Nat
    BY <1>1, Products
  <2> QED BY <1>1, <2>1, <2>2
<1>3. ~(q < p)
  <2>1. q < p => (q + 1) * k <= p * k /\ (q + 1) * k = q * k + k
    BY <1>1, Products
  <2>2. p * k \in Nat /\ q * k \in Nat
    BY <1>1, Products
  <2> QED BY <1>1, <2>1, <2>2
<1>4. p = q
  BY <1>1, <1>2, <1>3
<1>5. r = m
  <2>1. q * k \in Nat
    BY Products
  <2> QED BY <1>1, <1>4, <2>1
<1> QED BY <1>4, <1>5 DEF p, r

-----------------------------------------------------------------------------
(* The inductive invariant of the screen. Places are lines and columns of the
   roll here, instead of cells counted from its beginning. *)

Char == Glyphs \cup {"\n"}
Terminals == [row : Rows, column : Columns, buffer : [Rows -> [Columns -> Glyphs]]]

(* Before the k+1st character the next place is column c[k] of line l[k]. *)
Roll(p, l, c) ==
  /\ l \in [0 .. Len(p) -> Nat] /\ c \in [0 .. Len(p) -> Columns]
  /\ l[0] = 0 /\ c[0] = 0
  /\ \A k \in 1 .. Len(p) :
       IF p[k] # "\n" /\ c[k - 1] + 1 < VGA_WIDTH
         THEN l[k] = l[k - 1] /\ c[k] = c[k - 1] + 1
         ELSE l[k] = l[k - 1] + 1 /\ c[k] = 0
  /\ \A j, k \in 0 .. Len(p) : j < k => l[j] < l[k] \/ (l[j] = l[k] /\ c[j] < c[k])

(* The buffer b shows of the text what is on line top and below it. *)
Drawn(b, p, l, c, top) ==
  /\ b \in [Rows -> [Columns -> Glyphs]]
  /\ \A k \in 1 .. Len(p) :
       p[k] # "\n" /\ l[k - 1] >= top => b[l[k - 1] - top][c[k - 1]] = p[k]
  /\ \A r \in Rows, x \in Columns :
       (\A k \in 1 .. Len(p) : p[k] # "\n" => l[k - 1] # top + r \/ c[k - 1] # x)
         => b[r][x] = " "

Top(line) == IF line < VGA_HEIGHT THEN 0 ELSE line - (VGA_HEIGHT - 1)

Shown(t, p) ==
  /\ t \in Terminals
  /\ \E l \in [0 .. Len(p) -> Nat], c \in [0 .. Len(p) -> Columns] :
       /\ Roll(p, l, c)
       /\ t.row = l[Len(p)] - Top(l[Len(p)]) /\ t.column = c[Len(p)]
       /\ Drawn(t.buffer, p, l, c, Top(l[Len(p)]))

Ends(p, s) ==
  Len(s) <= Len(p) /\ \A i \in 1 .. Len(s) : p[Len(p) - Len(s) + i] = s[i]

ScreenInv ==
  /\ paper \in Seq(Char) /\ cmdbuf \in Seq(Keys) /\ Len(cmdbuf) < BufSize
  /\ Ends(paper, prompt \o cmdbuf)
  /\ Shown(terminal, paper)

-----------------------------------------------------------------------------
(* Lemmas about the roll. *)

(* One character more. *)
Longer(p, ch, l, line) == [k \in 0 .. (Len(p) + 1) |-> IF k = Len(p) + 1 THEN line ELSE l[k]]

(* A character put at the end of a text has its place on the roll. *)
LEMMA RollAppend ==
  ASSUME NEW p \in Seq(Char), NEW ch \in Char, NEW l, NEW c, Roll(p, l, c),
         NEW line \in Nat, NEW col \in Columns,
         IF ch # "\n" /\ c[Len(p)] + 1 < VGA_WIDTH
           THEN line = l[Len(p)] /\ col = c[Len(p)] + 1
           ELSE line = l[Len(p)] + 1 /\ col = 0
  PROVE  Roll(Append(p, ch), Longer(p, ch, l, line), Longer(p, ch, c, col))
<1> DEFINE n == Len(p)
           q == Append(p, ch)
           m == Longer(p, ch, l, line)
           d == Longer(p, ch, c, col)
<1>1. n \in Nat /\ q \in Seq(Char) /\ Len(q) = n + 1 /\ q[n + 1] = ch /\ \A k \in 1 .. n : q[k] = p[k]
  OBVIOUS
<1>2. m \in [0 .. (n + 1) -> Nat] /\ d \in [0 .. (n + 1) -> Columns]
  BY DEF Longer, Roll
<1>3. \A k \in 0 .. n : m[k] = l[k] /\ d[k] = c[k] /\ l[k] \in Nat /\ c[k] \in Columns
  BY DEF Longer, Roll
<1>4. m[n + 1] = line /\ d[n + 1] = col
  BY DEF Longer
<1> HIDE DEF m, d, q
<1>5. \A k \in 1 .. (n + 1) :
        IF q[k] # "\n" /\ d[k - 1] + 1 < VGA_WIDTH
          THEN m[k] = m[k - 1] /\ d[k] = d[k - 1] + 1
          ELSE m[k] = m[k - 1] + 1 /\ d[k] = 0
  <2> TAKE k \in 1 .. (n + 1)
  <2>1. CASE k = n + 1
    BY <1>1, <1>3, <1>4, <2>1
  <2>2. CASE k \in 1 .. n
    <3>1. k \in 0 .. n /\ k - 1 \in 0 .. n
      BY <2>2
    <3> QED BY <1>1, <1>3, <2>2, <3>1 DEF Roll
  <2> QED BY <2>1, <2>2
<1>6. \A j, k \in 0 .. (n + 1) : j < k => m[j] < m[k] \/ (m[j] = m[k] /\ d[j] < d[k])
  <2> SUFFICES ASSUME NEW j \in 0 .. (n + 1), NEW k \in 0 .. (n + 1), j < k
               PROVE  m[j] < m[k] \/ (m[j] = m[k] /\ d[j] < d[k])
    OBVIOUS
  <2>1. CASE k \in 0 .. n
    BY <1>3, <2>1 DEF Roll
  <2>2. CASE k = n + 1
    <3>1. n \in 0 .. n /\ j \in 0 .. n
      BY <1>1, <2>2
    <3>2. j = n \/ l[j] < l[n] \/ (l[j] = l[n] /\ c[j] < c[n])
      BY <3>1 DEF Roll
    <3>3. l[n] < line \/ (l[n] = line /\ c[n] < col)
      BY <1>3, <3>1 DEF Columns
    <3> QED BY <1>3, <1>4, <2>2, <3>1, <3>2, <3>3 DEF Columns
  <2> QED BY <2>1, <2>2
<1>7. m[0] = 0 /\ d[0] = 0
  BY <1>1, <1>3 DEF Roll
<1> QED BY <1>1, <1>2, <1>5, <1>6, <1>7 DEF Roll, m, d, q

(* Sequences: what the later proofs need of pairs, concatenations and parts. *)
LEMMA TwoInSeq ==
  ASSUME NEW S, NEW a \in S, NEW b \in S
  PROVE  <<a, b>> \in Seq(S) /\ Len(<<a, b>>) = 2
OBVIOUS

(* What a concatenation consists of. *)
LEMMA Concatenation ==
  ASSUME NEW S, NEW a \in Seq(S), NEW b \in Seq(S)
  PROVE  /\ a \o b \in Seq(S) /\ Len(a \o b) = Len(a) + Len(b)
         /\ \A i \in 1 .. Len(a) : (a \o b)[i] = a[i]
         /\ \A i \in 1 .. Len(b) : (a \o b)[Len(a) + i] = b[i]
OBVIOUS





LEMMA AppendSome ==
  ASSUME NEW S, NEW a \in Seq(S), NEW x \in S
  PROVE  Append(a, x) # <<>>
<1>1. Len(Append(a, x)) = Len(a) + 1 /\ Len(a) \in Nat
  OBVIOUS
<1>2. Len(<<>>) = 0
  OBVIOUS
<1> QED BY <1>1, <1>2

LEMMA FrontConcat ==
  ASSUME NEW S, NEW a \in Seq(S), NEW b \in Seq(S), b # <<>>
  PROVE  SubSeq(a \o b, 1, Len(a \o b) - 1) = a \o SubSeq(b, 1, Len(b) - 1)
OBVIOUS

(* Sequences are the same if their elements are. *)
LEMMA SameSequence ==
  ASSUME NEW S, NEW a \in Seq(S), NEW b \in Seq(S), Len(a) = Len(b),
         \A i \in 1 .. Len(a) : a[i] = b[i]
  PROVE  a = b
OBVIOUS

(* A sequence from all but its last element, and that. *)
LEMMA LastPut ==
  ASSUME NEW S, NEW p \in Seq(S), NEW q \in Seq(S), Len(p) = Len(q) + 1,
         \A i \in 1 .. Len(q) : q[i] = p[i]
  PROVE  p = Append(q, p[Len(p)])
<1> DEFINE x == p[Len(p)]
           a == Append(q, x)
<1>1. Len(p) \in Nat /\ Len(q) \in Nat /\ x \in S
  OBVIOUS
<1> HIDE DEF x
<1>2. a \in Seq(S) /\ Len(a) = Len(q) + 1 /\ a[Len(q) + 1] = x /\ \A i \in 1 .. Len(q) : a[i] = q[i]
  BY <1>1
<1> HIDE DEF a
<1>3. \A i \in 1 .. Len(p) : p[i] = a[i]
  <2> TAKE i \in 1 .. Len(p)
  <2>1. CASE i = Len(q) + 1
    BY <1>2, <2>1 DEF x
  <2>2. CASE i \in 1 .. Len(q)
    BY <1>2, <2>2
  <2> QED BY <1>1, <2>1, <2>2
<1>4. p = a
  BY <1>2, <1>3, SameSequence
<1> QED BY <1>4 DEF a, x

(* The screen is not empty. *)
LEMMA Sizes ==
  /\ VGA_WIDTH \in Nat /\ VGA_WIDTH > 0 /\ VGA_HEIGHT \in Nat /\ VGA_HEIGHT > 0
  /\ 0 \in Rows /\ VGA_HEIGHT - 1 \in Rows /\ \A y \in Rows : y \in Nat /\ y < VGA_HEIGHT
  /\ 0 \in Columns /\ \A x \in Columns : x \in Nat /\ x < VGA_WIDTH
<1>1. VGA_WIDTH \in Nat /\ VGA_WIDTH > 0 /\ VGA_HEIGHT \in Nat /\ VGA_HEIGHT > 0
  <2>1. VGA_WIDTH \in Nat \ {0} /\ VGA_HEIGHT \in Nat \ {0}
    BY TerminalAssumption
  <2> QED BY <2>1
<1>2. 0 \in Rows /\ VGA_HEIGHT - 1 \in Rows
  BY <1>1 DEF Rows
<1>3. \A y \in Rows : y \in Nat /\ y < VGA_HEIGHT
  BY <1>1 DEF Rows
<1>4. 0 \in Columns
  BY <1>1 DEF Columns
<1>5. \A x \in Columns : x \in Nat /\ x < VGA_WIDTH
  BY <1>1 DEF Columns
<1> QED BY <1>1, <1>2, <1>3, <1>4, <1>5

(* The row on the screen that shows a line. *)
LEMMA RowOfLine ==
  ASSUME NEW line \in Nat, NEW top \in Nat, top <= line, line < top + VGA_HEIGHT
  PROVE  line - top \in Rows
<1>1. VGA_HEIGHT \in Nat
  BY TerminalAssumption
<1> QED BY <1>1 DEF Rows

(* A character is behind all those before it. *)
LEMMA RollOrder ==
  ASSUME NEW p \in Seq(Char), NEW l, NEW c, Roll(p, l, c), NEW k \in 1 .. Len(p)
  PROVE  /\ l[k - 1] \in Nat /\ c[k - 1] \in Columns
         /\ l[Len(p)] \in Nat /\ c[Len(p)] \in Columns
         /\ l[k - 1] < l[Len(p)] \/ (l[k - 1] = l[Len(p)] /\ c[k - 1] < c[Len(p)])
<1>1. k - 1 \in 0 .. Len(p) /\ Len(p) \in 0 .. Len(p) /\ k - 1 < Len(p)
  OBVIOUS
<1> QED BY <1>1 DEF Roll

-----------------------------------------------------------------------------
(* Lemmas about what is drawn. *)

(* A character is written at the cursor. *)
LEMMA DrawChar ==
  ASSUME NEW p \in Seq(Char), NEW ch \in Glyphs, NEW l, NEW c, Roll(p, l, c),
         NEW line \in Nat, NEW col \in Columns, NEW top \in Nat,
         l[Len(p)] - top \in Rows, NEW b, Drawn(b, p, l, c, top)
  PROVE  Drawn([b EXCEPT ![l[Len(p)] - top][c[Len(p)]] = ch], Append(p, ch),
               Longer(p, ch, l, line), Longer(p, ch, c, col), top)
<1> DEFINE n == Len(p)
           q == Append(p, ch)
           m == Longer(p, ch, l, line)
           d == Longer(p, ch, c, col)
           y == l[n] - top
           x == c[n]
           e == [b EXCEPT ![y][x] = ch]
<1>1. n \in Nat /\ q \in Seq(Char) /\ Len(q) = n + 1 /\ q[n + 1] = ch /\ \A k \in 1 .. n : q[k] = p[k]
  BY DEF Char
<1>2. \A k \in 0 .. n : m[k] = l[k] /\ d[k] = c[k] /\ l[k] \in Nat /\ c[k] \in Columns
  BY DEF Longer, Roll
<1>3. b \in [Rows -> [Columns -> Glyphs]] /\ y \in Rows /\ x \in Columns
  <2>1. n \in 0 .. n
    BY <1>1
  <2> QED BY <1>2, <2>1 DEF Drawn
<1>4. e \in [Rows -> [Columns -> Glyphs]] /\ e[y][x] = ch
  BY <1>3
<1>5. \A r \in Rows, z \in Columns : r # y \/ z # x => e[r][z] = b[r][z]
  BY <1>3
<1>6. ch # "\n"
  BY TerminalAssumption
<1> HIDE DEF m, d, q, e
<1>7. \A k \in 1 .. (n + 1) :
        q[k] # "\n" /\ m[k - 1] >= top => e[m[k - 1] - top][d[k - 1]] = q[k]
  <2> SUFFICES ASSUME NEW k \in 1 .. (n + 1), q[k] # "\n", m[k - 1] >= top
               PROVE  e[m[k - 1] - top][d[k - 1]] = q[k]
    OBVIOUS
  <2>1. CASE k = n + 1
    BY <1>1, <1>2, <1>4, <2>1
  <2>2. CASE k \in 1 .. n
    <3>1. k - 1 \in 0 .. n /\ m[k - 1] = l[k - 1] /\ d[k - 1] = c[k - 1]
      BY <1>2, <2>2
    <3>2. b[l[k - 1] - top][c[k - 1]] = q[k]
      BY <1>1, <2>2, <3>1 DEF Drawn
    <3>3. l[k - 1] < l[n] \/ (l[k - 1] = l[n] /\ c[k - 1] < c[n])
      BY <2>2, RollOrder
    <3>4. l[k - 1] - top \in Rows /\ c[k - 1] \in Columns
      <4>1. l[k - 1] \in Nat /\ l[n] \in Nat /\ l[k - 1] >= top /\ l[k - 1] <= l[n]
        BY <1>2, <3>1, <3>3, RollOrder
      <4>2. VGA_HEIGHT \in Nat /\ y < VGA_HEIGHT
        BY <1>3, Sizes
      <4>3. l[k - 1] < top + VGA_HEIGHT
        BY <4>1, <4>2
      <4> QED BY <1>2, <3>1, <4>1, <4>3, RowOfLine
    <3>5. l[k - 1] - top # y \/ c[k - 1] # x
      BY <1>2, <1>3, <3>1, <3>3 DEF Columns
    <3> QED BY <1>5, <3>1, <3>2, <3>4, <3>5
  <2> QED BY <2>1, <2>2
<1>8. ASSUME NEW r \in Rows, NEW z \in Columns,
             \A k \in 1 .. (n + 1) : q[k] # "\n" => m[k - 1] # top + r \/ d[k - 1] # z
      PROVE  e[r][z] = " "
  <2>1. n + 1 \in 1 .. (n + 1) /\ n \in 0 .. n
    BY <1>1
  <2>2. l[n] # top + r \/ c[n] # z
    BY <1>1, <1>2, <1>6, <1>8, <2>1
  <2>3. r # y \/ z # x
    BY <1>2, <2>1, <2>2 DEF Rows
  <2>4. \A k \in 1 .. n : p[k] # "\n" => l[k - 1] # top + r \/ c[k - 1] # z
    <3> TAKE k \in 1 .. n
    <3>1. k \in 1 .. (n + 1) /\ k - 1 \in 0 .. n
      BY <1>1
    <3> QED BY <1>1, <1>2, <1>8, <3>1
  <2>5. b[r][z] = " "
    BY <2>4 DEF Drawn
  <2> QED BY <1>5, <2>3, <2>5
<1>9. Drawn(e, q, m, d, top)
  <2>1. Len(q) = n + 1
    BY <1>1
  <2> HIDE DEF n, e
  <2>2. \A r \in Rows, z \in Columns :
          (\A k \in 1 .. (n + 1) : q[k] # "\n" => m[k - 1] # top + r \/ d[k - 1] # z) => e[r][z] = " "
    BY <1>8
  <2>3. \A k \in 1 .. Len(q) :
          q[k] # "\n" /\ m[k - 1] >= top => e[m[k - 1] - top][d[k - 1]] = q[k]
    BY <1>7, <2>1
  <2>4. \A r \in Rows, z \in Columns :
          (\A k \in 1 .. Len(q) : q[k] # "\n" => m[k - 1] # top + r \/ d[k - 1] # z) => e[r][z] = " "
    BY <2>1, <2>2
  <2> QED BY <1>4, <2>3, <2>4 DEF Drawn
<1> QED BY <1>9 DEF q, m, d, e

(* A new line shows nothing. *)
LEMMA DrawNewline ==
  ASSUME NEW p \in Seq(Char), NEW l, NEW c, Roll(p, l, c), NEW line, NEW col,
         NEW top \in Nat, NEW b, Drawn(b, p, l, c, top)
  PROVE  Drawn(b, Append(p, "\n"), Longer(p, "\n", l, line), Longer(p, "\n", c, col), top)
<1> DEFINE n == Len(p)
           q == Append(p, "\n")
           m == Longer(p, "\n", l, line)
           d == Longer(p, "\n", c, col)
<1>1. n \in Nat /\ Len(q) = n + 1 /\ q[n + 1] = "\n" /\ \A k \in 1 .. n : q[k] = p[k]
  OBVIOUS
<1>2. \A k \in 0 .. n : m[k] = l[k] /\ d[k] = c[k]
  BY DEF Longer
<1> HIDE DEF m, d, q
<1>3. \A k \in 1 .. (n + 1) :
        q[k] # "\n" => k \in 1 .. n /\ q[k] = p[k] /\ m[k - 1] = l[k - 1] /\ d[k - 1] = c[k - 1]
  <2> SUFFICES ASSUME NEW k \in 1 .. (n + 1), q[k] # "\n"
               PROVE  k \in 1 .. n /\ q[k] = p[k] /\ m[k - 1] = l[k - 1] /\ d[k - 1] = c[k - 1]
    OBVIOUS
  <2>1. k \in 1 .. n /\ k - 1 \in 0 .. n
    BY <1>1
  <2> QED BY <1>1, <1>2, <2>1
<1>4. ASSUME NEW r \in Rows, NEW z \in Columns,
             \A k \in 1 .. (n + 1) : q[k] # "\n" => m[k - 1] # top + r \/ d[k - 1] # z
      PROVE  b[r][z] = " "
  <2>1. \A k \in 1 .. n : p[k] # "\n" => l[k - 1] # top + r \/ c[k - 1] # z
    <3> TAKE k \in 1 .. n
    <3>1. k \in 1 .. (n + 1) /\ k - 1 \in 0 .. n
      BY <1>1
    <3> QED BY <1>1, <1>2, <1>4, <3>1
  <2> QED BY <2>1 DEF Drawn
<1>5. \A k \in 1 .. (n + 1) :
        q[k] # "\n" /\ m[k - 1] >= top => b[m[k - 1] - top][d[k - 1]] = q[k]
  <2> SUFFICES ASSUME NEW k \in 1 .. (n + 1), q[k] # "\n", m[k - 1] >= top
               PROVE  b[m[k - 1] - top][d[k - 1]] = q[k]
    OBVIOUS
  <2>1. k \in 1 .. n /\ q[k] = p[k] /\ m[k - 1] = l[k - 1] /\ d[k - 1] = c[k - 1]
    BY <1>3
  <2>2. \A j \in 1 .. n : p[j] # "\n" /\ l[j - 1] >= top => b[l[j - 1] - top][c[j - 1]] = p[j]
    BY DEF Drawn
  <2> QED BY <2>1, <2>2
<1>6. Drawn(b, q, m, d, top)
  <2>1. b \in [Rows -> [Columns -> Glyphs]]
    BY DEF Drawn
  <2>2. Len(q) = n + 1
    BY <1>1
  <2> HIDE DEF n
  <2>3. \A r \in Rows, z \in Columns :
          (\A k \in 1 .. (n + 1) : q[k] # "\n" => m[k - 1] # top + r \/ d[k - 1] # z) => b[r][z] = " "
    BY <1>4
  <2>4. \A k \in 1 .. Len(q) :
          q[k] # "\n" /\ m[k - 1] >= top => b[m[k - 1] - top][d[k - 1]] = q[k]
    BY <1>5, <2>2
  <2>5. \A r \in Rows, z \in Columns :
          (\A k \in 1 .. Len(q) : q[k] # "\n" => m[k - 1] # top + r \/ d[k - 1] # z) => b[r][z] = " "
    BY <2>2, <2>3
  <2> QED BY <2>1, <2>4, <2>5 DEF Drawn
<1> QED BY <1>6 DEF q, m, d

(* The screen moves on by one line, when nothing is below it. *)
LEMMA DrawScrolled ==
  ASSUME NEW p \in Seq(Char), NEW l, NEW c, Roll(p, l, c), NEW top \in Nat, NEW b,
         Drawn(b, p, l, c, top),
         \A k \in 1 .. Len(p) : p[k] # "\n" => l[k - 1] < top + VGA_HEIGHT
  PROVE  Drawn([y \in Rows |-> IF y + 1 \in Rows THEN b[y + 1] ELSE BlankRow], p, l, c, top + 1)
<1> DEFINE e == [y \in Rows |-> IF y + 1 \in Rows THEN b[y + 1] ELSE BlankRow]
<1>1. e \in [Rows -> [Columns -> Glyphs]]
  BY TerminalAssumption DEF BlankRow, Drawn
<1>2. \A y \in Rows : e[y] = IF y + 1 \in Rows THEN b[y + 1] ELSE BlankRow
  OBVIOUS
<1> HIDE DEF e
<1>3. ASSUME NEW k \in 1 .. Len(p), p[k] # "\n", l[k - 1] >= top + 1
      PROVE  e[l[k - 1] - (top + 1)][c[k - 1]] = p[k]
  <2>1. l[k - 1] \in Nat
    BY RollOrder
  <2>2. l[k - 1] < top + VGA_HEIGHT
    BY <1>3
  <2>3. l[k - 1] - (top + 1) \in Rows /\ l[k - 1] - top \in Rows /\ l[k - 1] >= top
    <3> DEFINE line == l[k - 1]
    <3>1. line \in Nat /\ line < top + VGA_HEIGHT /\ line >= top + 1
      BY <1>3, <2>1, <2>2
    <3> HIDE DEF line
    <3>2. VGA_HEIGHT \in Nat
      BY TerminalAssumption
    <3>3. top <= line /\ line < (top + 1) + VGA_HEIGHT /\ top + 1 <= line /\ top + 1 \in Nat
      BY <3>1, <3>2
    <3>4. line - (top + 1) \in Rows /\ line - top \in Rows /\ line >= top
      BY <3>1, <3>3, RowOfLine
    <3> QED BY <3>4 DEF line
  <2>4. (l[k - 1] - (top + 1)) + 1 = l[k - 1] - top
    BY <2>1
  <2>5. b[l[k - 1] - top][c[k - 1]] = p[k]
    BY <1>3, <2>3 DEF Drawn
  <2> QED BY <1>2, <2>3, <2>4, <2>5
<1>4. ASSUME NEW r \in Rows, NEW z \in Columns,
             \A k \in 1 .. Len(p) : p[k] # "\n" => l[k - 1] # (top + 1) + r \/ c[k - 1] # z
      PROVE  e[r][z] = " "
  <2>1. CASE r + 1 \in Rows
    <3>1. \A k \in 1 .. Len(p) : p[k] # "\n" => l[k - 1] # top + (r + 1) \/ c[k - 1] # z
      BY <1>4 DEF Rows
    <3>2. b[r + 1][z] = " "
      BY <2>1, <3>1 DEF Drawn
    <3> QED BY <1>2, <2>1, <3>2
  <2>2. CASE r + 1 \notin Rows
    BY <1>2, <2>2 DEF BlankRow
  <2> QED BY <2>1, <2>2
<1> QED BY <1>1, <1>3, <1>4 DEF Drawn, e


(* Without its last character the text is drawn with a blank in its place. *)
LEMMA DrawBlank ==
  ASSUME NEW p \in Seq(Char), NEW ch \in Glyphs, NEW l, NEW c, Roll(Append(p, ch), l, c),
         NEW top \in Nat, NEW b, Drawn(b, Append(p, ch), l, c, top), l[Len(p)] - top \in Rows
  PROVE  Drawn([b EXCEPT ![l[Len(p)] - top][c[Len(p)]] = " "], p, l, c, top)
<1> DEFINE n == Len(p)
           q == Append(p, ch)
           y == l[n] - top
           x == c[n]
           e == [b EXCEPT ![y][x] = " "]
<1>1. n \in Nat /\ q \in Seq(Char) /\ Len(q) = n + 1 /\ q[n + 1] = ch /\ \A k \in 1 .. n : q[k] = p[k]
  BY DEF Char
<1> HIDE DEF q
<1>2. \A k \in 0 .. n : l[k] \in Nat /\ c[k] \in Columns
  BY <1>1 DEF Roll, q
<1>3. b \in [Rows -> [Columns -> Glyphs]] /\ y \in Rows /\ x \in Columns
  <2>1. n \in 0 .. n
    BY <1>1
  <2> QED BY <1>2, <2>1 DEF Drawn
<1>4. e \in [Rows -> [Columns -> Glyphs]] /\ e[y][x] = " "
  BY <1>3, TerminalAssumption
<1>5. \A r \in Rows, z \in Columns : r # y \/ z # x => e[r][z] = b[r][z]
  BY <1>3
<1> HIDE DEF e
<1>6. ASSUME NEW k \in 1 .. n, p[k] # "\n", l[k - 1] >= top
      PROVE  e[l[k - 1] - top][c[k - 1]] = p[k]
  <2>1. k - 1 \in 0 .. n /\ n \in 0 .. n /\ k \in 1 .. (n + 1) /\ k - 1 \in 0 .. (n + 1) /\ n \in 0 .. (n + 1) /\ k - 1 < n
    BY <1>1
  <2>2. b[l[k - 1] - top][c[k - 1]] = p[k]
    BY <1>1, <1>6, <2>1 DEF Drawn, q
  <2>3. l[k - 1] < l[n] \/ (l[k - 1] = l[n] /\ c[k - 1] < c[n])
    BY <1>1, <2>1 DEF Roll, q
  <2>4. l[k - 1] - top \in Rows /\ c[k - 1] \in Columns
    <3>1. l[k - 1] \in Nat /\ l[n] \in Nat /\ l[k - 1] >= top /\ l[k - 1] <= l[n]
      BY <1>2, <1>6, <2>1, <2>3
    <3>2. VGA_HEIGHT \in Nat /\ \A z \in Rows : z < VGA_HEIGHT
      BY Sizes
    <3>3. l[k - 1] < top + VGA_HEIGHT
      BY <1>3, <3>1, <3>2
    <3> QED BY <1>2, <2>1, <3>1, <3>3, RowOfLine
  <2>5. l[k - 1] - top # y \/ c[k - 1] # x
    BY <1>2, <1>3, <2>1, <2>3 DEF Columns
  <2> QED BY <1>5, <2>2, <2>4, <2>5
<1>7. ASSUME NEW r \in Rows, NEW z \in Columns,
             \A k \in 1 .. n : p[k] # "\n" => l[k - 1] # top + r \/ c[k - 1] # z
      PROVE  e[r][z] = " "
  <2>1. CASE r = y /\ z = x
    BY <1>4, <2>1
  <2>2. CASE r # y \/ z # x
    <3>1. \A k \in 1 .. (n + 1) : q[k] # "\n" => l[k - 1] # top + r \/ c[k - 1] # z
      <4> SUFFICES ASSUME NEW k \in 1 .. (n + 1), q[k] # "\n"
                   PROVE  l[k - 1] # top + r \/ c[k - 1] # z
        OBVIOUS
      <4>1. CASE k \in 1 .. n
        BY <1>1, <1>7, <4>1
      <4>2. CASE k = n + 1
        <5>1. n \in 0 .. n
          BY <1>1
        <5>2. l[n] # top + r \/ c[n] # z
          BY <1>2, <2>2, <5>1 DEF Rows
        <5> QED BY <1>1, <4>2, <5>2
      <4> QED BY <4>1, <4>2
    <3>2. b[r][z] = " "
      BY <1>1, <3>1 DEF Drawn, q
    <3> QED BY <1>5, <2>2, <3>2
  <2> QED BY <2>1, <2>2
<1> QED BY <1>4, <1>6, <1>7 DEF Drawn, e

-----------------------------------------------------------------------------
(* The screen goes on showing the text. *)

(* What next_row and a character at the cursor do. *)
LEMMA NextRow ==
  ASSUME NEW t, t.row \in Rows, t.buffer \in [Rows -> [Columns -> Glyphs]]
  PROVE  /\ next_row(t) \in Terminals /\ next_row(t).column = 0
         /\ IF t.row + 1 < VGA_HEIGHT
              THEN next_row(t).row = t.row + 1 /\ next_row(t).buffer = t.buffer
              ELSE /\ next_row(t).row = t.row
                   /\ next_row(t).buffer =
                        [y \in Rows |-> IF y + 1 \in Rows THEN t.buffer[y + 1] ELSE BlankRow]
<1> DEFINE u == [row |-> t.row + 1, column |-> 0, buffer |-> t.buffer]
<1>1. VGA_HEIGHT \in Nat /\ VGA_HEIGHT > 0 /\ 0 \in Columns /\ VGA_HEIGHT - 1 \in Rows
  BY Sizes
<1>2. t.row \in Rows /\ t.buffer \in [Rows -> [Columns -> Glyphs]] /\ t.row \in Nat /\ t.row < VGA_HEIGHT
  BY Sizes
<1>3. t.row + 1 < VGA_HEIGHT \/ t.row + 1 = VGA_HEIGHT
  BY <1>1, <1>2
<1>4. CASE t.row + 1 < VGA_HEIGHT
  <2>1. next_row(t) = u
    BY <1>1, <1>2, <1>4 DEF next_row
  <2>2. t.row + 1 \in Rows
    BY <1>1, <1>2, <1>4 DEF Rows
  <2> QED BY <1>1, <1>2, <1>4, <2>1, <2>2 DEF Terminals
<1>5. CASE t.row + 1 = VGA_HEIGHT
  <2> DEFINE b == [y \in Rows |-> IF y + 1 \in Rows THEN t.buffer[y + 1] ELSE BlankRow]
  <2>1. next_row(t) = [row |-> VGA_HEIGHT - 1, column |-> 0, buffer |-> b]
    BY <1>5 DEF next_row, terminal_scroll
  <2>2. b \in [Rows -> [Columns -> Glyphs]]
    BY <1>2, TerminalAssumption DEF BlankRow
  <2>3. t.row = VGA_HEIGHT - 1
    BY <1>1, <1>2, <1>5
  <2> HIDE DEF b
  <2>4. next_row(t) \in Terminals /\ next_row(t).column = 0 /\ next_row(t).row = t.row /\ next_row(t).buffer = b
    BY <1>1, <2>1, <2>2, <2>3 DEF Terminals
  <2>5. ~(t.row + 1 < VGA_HEIGHT)
    BY <1>1, <1>5
  <2> QED BY <2>4, <2>5 DEF b
<1> QED BY <1>3, <1>4, <1>5


(* The line goes on at the next row, which may scroll the screen. *)
LEMMA ShownOnNextRow ==
  ASSUME NEW q \in Seq(Char), Len(q) > 0, NEW m, NEW d, Roll(q, m, d),
         m[Len(q)] = m[Len(q) - 1] + 1, d[Len(q)] = 0,
         NEW t, t.row = m[Len(q) - 1] - Top(m[Len(q) - 1]),
         Drawn(t.buffer, q, m, d, Top(m[Len(q) - 1]))
  PROVE  Shown(next_row(t), q)
<1> DEFINE n == Len(q)
           line == m[n - 1]
           top == Top(line)
           new == next_row(t)
<1>1. n \in Nat /\ n - 1 \in 0 .. n /\ n \in 0 .. n /\ n - 1 < n
  OBVIOUS
<1>2. line \in Nat /\ m[n] = line + 1
  BY <1>1 DEF Roll
<1>3. VGA_HEIGHT \in Nat /\ VGA_HEIGHT > 0
  BY Sizes
<1>4. /\ top \in Nat /\ top <= line /\ line < top + VGA_HEIGHT
      /\ line - top + 1 < VGA_HEIGHT => Top(line + 1) = top
      /\ ~(line - top + 1 < VGA_HEIGHT) => Top(line + 1) = top + 1
  <2> HIDE DEF line
  <2> QED BY <1>2, <1>3 DEF Top
<1>5. t.row = line - top /\ t.row \in Rows
  <2> HIDE DEF line, top
  <2> QED BY <1>2, <1>4, RowOfLine DEF line, top
<1>6. t.buffer \in [Rows -> [Columns -> Glyphs]]
  BY DEF Drawn
<1>7. \A k \in 1 .. n : m[k - 1] < top + VGA_HEIGHT
  <2> TAKE k \in 1 .. n
  <2>1. k - 1 \in 0 .. n /\ (k - 1 = n - 1 \/ k - 1 < n - 1)
    BY <1>1
  <2>2. m[k - 1] \in Nat
    BY <2>1 DEF Roll
  <2>3. CASE k - 1 = n - 1
    BY <1>2, <1>3, <1>4, <2>3
  <2>4. CASE k - 1 < n - 1
    <3>1. m[k - 1] < line \/ m[k - 1] = line
      BY <1>1, <2>1, <2>4 DEF Roll
    <3> HIDE DEF line, top
    <3> QED BY <1>2, <1>3, <1>4, <2>2, <3>1
  <2> QED BY <2>1, <2>3, <2>4
<1> HIDE DEF line, top, new
<1>8. CASE line - top + 1 < VGA_HEIGHT
  <2>1. new \in Terminals /\ new.column = 0 /\ new.row = t.row + 1 /\ new.buffer = t.buffer
    BY <1>5, <1>6, <1>8, NextRow DEF new
  <2>2. Top(m[n]) = top /\ new.row = m[n] - top
    BY <1>2, <1>4, <1>5, <1>8, <2>1
  <2>3. Drawn(new.buffer, q, m, d, Top(m[n]))
    BY <2>1, <2>2 DEF top, line
  <2> QED BY <2>1, <2>2, <2>3 DEF Shown, Roll, new
<1>9. CASE ~(line - top + 1 < VGA_HEIGHT)
  <2> DEFINE b == [y \in Rows |-> IF y + 1 \in Rows THEN t.buffer[y + 1] ELSE BlankRow]
  <2>1. new \in Terminals /\ new.column = 0 /\ new.row = t.row /\ new.buffer = b
    BY <1>5, <1>6, <1>9, NextRow DEF new
  <2>2. Top(m[n]) = top + 1 /\ new.row = m[n] - (top + 1)
    BY <1>2, <1>4, <1>5, <1>9, <2>1
  <2>3. Drawn(b, q, m, d, top + 1)
    <3>1. Drawn(t.buffer, q, m, d, top)
      BY DEF top, line
    <3> QED BY <1>4, <1>7, <3>1, DrawScrolled
  <2> HIDE DEF b
  <2>4. Drawn(new.buffer, q, m, d, Top(m[n]))
    BY <2>1, <2>2, <2>3
  <2> QED BY <2>1, <2>2, <2>4 DEF Shown, Roll, new
<1> QED BY <1>8, <1>9

(* A cell that is written. *)
LEMMA PutEntry ==
  ASSUME NEW t \in Terminals, NEW ch, NEW x, NEW y
  PROVE  terminal_putentryat(t, ch, x, y) =
           [row |-> t.row, column |-> t.column, buffer |-> [t.buffer EXCEPT ![y][x] = ch]]
<1> DEFINE Buffers == [Rows -> [Columns -> Glyphs]]
<1>1. t \in [row : Rows, column : Columns, buffer : Buffers]
  BY DEF Terminals
<1> HIDE DEF Buffers
<1> QED BY <1>1 DEF terminal_putentryat

(* terminal_putchar keeps the screen in step, by the four ways it can go. *)
LEMMA ShownAfterPutchar ==
  ASSUME NEW p \in Seq(Char), NEW t, Shown(t, p), NEW ch \in Char
  PROVE  Shown(terminal_putchar(t, ch), Append(p, ch))
<1> DEFINE n == Len(p)
           q == Append(p, ch)
<1>1. n \in Nat /\ n \in 0 .. n /\ q \in Seq(Char) /\ Len(q) = n + 1
  OBVIOUS
<1>2. PICK l \in [0 .. n -> Nat], c \in [0 .. n -> Columns] :
        /\ Roll(p, l, c)
        /\ t.row = l[n] - Top(l[n]) /\ t.column = c[n]
        /\ Drawn(t.buffer, p, l, c, Top(l[n]))
  BY DEF Shown
<1> DEFINE top == Top(l[n])
<1>3. l[n] \in Nat /\ c[n] \in Columns /\ top \in Nat /\ t.row \in Rows /\ l[n] - top \in Rows
  <2>1. l[n] \in Nat /\ c[n] \in Columns /\ t.row \in Rows
    BY <1>1 DEF Shown, Terminals
  <2>2. top \in Nat
    BY <2>1, Sizes DEF Top
  <2> QED BY <1>2, <2>1, <2>2
<1>4. t.buffer \in [Rows -> [Columns -> Glyphs]]
  BY <1>2 DEF Drawn
<1>5. \A line \in Nat, col \in Columns :
        LET m == Longer(p, ch, l, line)
            d == Longer(p, ch, c, col)
        IN  m[n + 1] = line /\ d[n + 1] = col /\ m[n] = l[n] /\ d[n] = c[n]
  BY <1>1 DEF Longer
<1>6. CASE ch = "\n"
  <2> DEFINE m == Longer(p, ch, l, l[n] + 1)
             d == Longer(p, ch, c, 0)
  <2>1. l[n] + 1 \in Nat /\ 0 \in Columns
    BY <1>3, Sizes
  <2>2. Roll(q, m, d)
    BY <1>2, <1>6, <2>1, RollAppend
  <2>3. Drawn(t.buffer, q, m, d, top)
    BY <1>2, <1>3, <1>6, DrawNewline
  <2>4. m[n + 1] = l[n] + 1 /\ d[n + 1] = 0 /\ m[n] = l[n]
    BY <1>5, <2>1
  <2> HIDE DEF m, d, q
  <2>5. Shown(next_row(t), q)
    <3>1. (n + 1) - 1 = n /\ n + 1 > 0
      BY <1>1
    <3> QED BY <1>1, <1>2, <2>2, <2>3, <2>4, <3>1, ShownOnNextRow
  <2> QED BY <1>6, <2>5 DEF terminal_putchar, q
<1>7. CASE ch # "\n"
  <2> DEFINE b == [t.buffer EXCEPT ![t.row][t.column] = ch]
             u == [row |-> t.row, column |-> t.column + 1, buffer |-> b]
  <2>1. ch \in Glyphs
    BY <1>7 DEF Char
  <2>2. terminal_putchar(t, ch) = IF t.column + 1 = VGA_WIDTH THEN next_row(u) ELSE u
    <3> DEFINE v == terminal_putentryat(t, ch, t.column, t.row)
    <3>1. v = [row |-> t.row, column |-> t.column, buffer |-> b]
      <4>1. t \in Terminals
        BY DEF Shown
      <4> QED BY <4>1, PutEntry
    <3>2. [v EXCEPT !.column = @ + 1] = u
      <4> HIDE DEF b, v
      <4> QED BY <3>1
    <3> HIDE DEF u, v
    <3>3. u.column = t.column + 1
      BY DEF u
    <3> QED BY <1>7, <3>2, <3>3 DEF terminal_putchar, v
  <2>3. c[n] \in Nat /\ c[n] < VGA_WIDTH /\ VGA_WIDTH \in Nat
    BY <1>3, Sizes
  <2>4. CASE c[n] + 1 = VGA_WIDTH
    <3> DEFINE m == Longer(p, ch, l, l[n] + 1)
               d == Longer(p, ch, c, 0)
    <3>1. l[n] + 1 \in Nat /\ 0 \in Columns
      BY <1>3, Sizes
    <3>2. Roll(q, m, d)
      BY <1>2, <2>3, <2>4, <3>1, RollAppend
    <3>3. Drawn(b, q, m, d, top)
      BY <1>2, <1>3, <2>1, <3>1, DrawChar
    <3>4. m[n + 1] = l[n] + 1 /\ d[n + 1] = 0 /\ m[n] = l[n]
      BY <1>5, <3>1
    <3>5. u.row = l[n] - top /\ u.buffer = b
      BY <1>2
    <3> HIDE DEF m, d, q, b, u
    <3>6. Shown(next_row(u), q)
      <4>1. (n + 1) - 1 = n /\ n + 1 > 0
        BY <1>1
      <4> QED BY <1>1, <3>2, <3>3, <3>4, <3>5, <4>1, ShownOnNextRow
    <3> QED BY <1>2, <2>2, <2>4, <3>6 DEF q
  <2>5. CASE c[n] + 1 < VGA_WIDTH
    <3> DEFINE m == Longer(p, ch, l, l[n])
               d == Longer(p, ch, c, c[n] + 1)
    <3>1. c[n] + 1 \in Columns
      BY <2>3, <2>5 DEF Columns
    <3>2. Roll(q, m, d)
      BY <1>2, <1>3, <1>7, <2>5, <3>1, RollAppend
    <3>3. Drawn(b, q, m, d, top)
      BY <1>2, <1>3, <2>1, <3>1, DrawChar
    <3>4. m[n + 1] = l[n] /\ d[n + 1] = c[n] + 1
      BY <1>3, <1>5, <3>1
    <3>5. u.row = l[n] - top /\ u.column = c[n] + 1 /\ u.buffer = b /\ u \in Terminals
      <4>1. b \in [Rows -> [Columns -> Glyphs]]
        BY <3>3 DEF Drawn
      <4> HIDE DEF b
      <4> QED BY <1>2, <1>3, <3>1, <4>1 DEF Terminals
    <3> HIDE DEF m, d, q, b, u
    <3>6. Shown(u, q)
      BY <1>1, <3>2, <3>3, <3>4, <3>5 DEF Shown, Roll
    <3>7. t.column + 1 # VGA_WIDTH
      BY <1>2, <2>3, <2>5
    <3> QED BY <2>2, <3>6, <3>7 DEF q
  <2> QED BY <2>3, <2>4, <2>5
<1> QED BY <1>6, <1>7


(* terminal_putchar leaves a screen. *)
LEMMA PutcharType ==
  ASSUME NEW t \in Terminals, NEW ch \in Char
  PROVE  terminal_putchar(t, ch) \in Terminals
<1>1. t.row \in Rows /\ t.column \in Columns /\ t.buffer \in [Rows -> [Columns -> Glyphs]]
  BY DEF Terminals
<1>2. CASE ch = "\n"
  BY <1>1, <1>2, NextRow DEF terminal_putchar
<1>3. CASE ch # "\n"
  <2> DEFINE b == [t.buffer EXCEPT ![t.row][t.column] = ch]
             v == terminal_putentryat(t, ch, t.column, t.row)
             u == [row |-> t.row, column |-> t.column + 1, buffer |-> b]
  <2>1. b \in [Rows -> [Columns -> Glyphs]]
    BY <1>1, <1>3 DEF Char
  <2>2. v = [row |-> t.row, column |-> t.column, buffer |-> b]
    BY PutEntry
  <2>3. [v EXCEPT !.column = @ + 1] = u
    <3> HIDE DEF b, v
    <3> QED BY <2>2
  <2>4. u.row = t.row /\ u.column = t.column + 1 /\ u.buffer = b
    OBVIOUS
  <2>5. terminal_putchar(t, ch) = IF t.column + 1 = VGA_WIDTH THEN next_row(u) ELSE u
    <3> HIDE DEF u, v
    <3> QED BY <1>3, <2>3, <2>4 DEF terminal_putchar, v
  <2>6. t.column + 1 # VGA_WIDTH => t.column + 1 \in Columns
    BY <1>1, Sizes DEF Columns
  <2> HIDE DEF b
  <2>7. t.column + 1 # VGA_WIDTH => u \in Terminals
    BY <1>1, <2>1, <2>6 DEF Terminals
  <2> HIDE DEF u
  <2>8. next_row(u) \in Terminals
    BY <1>1, <2>1, <2>4, NextRow
  <2> QED BY <2>5, <2>7, <2>8
<1> QED BY <1>2, <1>3

(* terminal_write is its loop. *)
LEMMA WriteLoop ==
  ASSUME NEW t \in Terminals, NEW data \in Seq(Char)
  PROVE  \E w \in [0 .. Len(data) -> Terminals] :
           /\ w[0] = t /\ terminal_write(t, data) = w[Len(data)]
           /\ \A k \in 1 .. Len(data) : w[k] = terminal_putchar(w[k - 1], data[k])
<1> DEFINE n == Len(data)
           step == [k \in 1 .. n |-> [x \in Terminals |-> terminal_putchar(x, data[k])]]
           loop(w) == w = [k \in 0 .. n |-> IF k = 0 THEN t ELSE terminal_putchar(w[k - 1], data[k])]
           W == CHOOSE w : loop(w)
<1>1. n \in Nat
  OBVIOUS
<1>2. step \in Steps(n, Terminals)
  BY PutcharType DEF Steps
<1>3. \A k \in 1 .. n, x \in Terminals : step[k][x] = terminal_putchar(x, data[k])
  OBVIOUS
<1> HIDE DEF step
<1>4. PICK w \in [0 .. n -> Terminals] : w[0] = t /\ \A k \in 1 .. n : w[k] = step[k][w[k - 1]]
  <2>1. \E w \in [0 .. n -> Terminals] : Computes(w, n, t, step)
    <3> HIDE DEF n
    <3> QED BY <1>1, <1>2, Recursion
  <2> QED BY <2>1 DEF Computes
<1>5. \A k \in 0 .. n : w[k] = IF k = 0 THEN t ELSE terminal_putchar(w[k - 1], data[k])
  <2> TAKE k \in 0 .. n
  <2>1. k # 0 => k \in 1 .. n /\ w[k - 1] \in Terminals
    BY <1>1, <1>4
  <2> QED BY <1>3, <1>4, <2>1
<1>7. loop(w)
  BY <1>4, <1>5
<1>8. loop(W)
  BY <1>7
<1>9. \A k \in 0 .. n : W[k] = IF k = 0 THEN t ELSE terminal_putchar(W[k - 1], data[k])
  BY <1>8
<1>10. terminal_write(t, data) = W[n]
  BY DEF terminal_write
<1> HIDE DEF W
<1>11. W[0] = t /\ \A k \in 1 .. n : W[k] = terminal_putchar(W[k - 1], data[k])
  BY <1>1, <1>9
<1>12. \A k \in 0 .. n : W[k] \in Terminals
  <2> DEFINE T == {k \in Nat : k <= n => W[k] \in Terminals}
  <2>1. 0 \in T
    BY <1>11
  <2>2. ASSUME NEW k \in Nat, k \in T PROVE k + 1 \in T
    <3> SUFFICES ASSUME k + 1 <= n PROVE W[k + 1] \in Terminals
      OBVIOUS
    <3>1. W[k] \in Terminals /\ k + 1 \in 1 .. n /\ (k + 1) - 1 = k
      BY <1>1, <2>2
    <3> QED BY <1>11, <3>1, PutcharType
  <2>3. Nat \subseteq T
    <3> HIDE DEF T
    <3> QED BY <2>1, <2>2, Induction
  <2> QED BY <1>1, <2>3
<1>13. W \in [0 .. n -> Terminals]
  BY <1>8, <1>12
<1> QED BY <1>10, <1>11, <1>13

(* terminal_write keeps the screen in step, character by character. *)
LEMMA ShownAfterWrite ==
  ASSUME NEW p \in Seq(Char), NEW t, Shown(t, p), NEW data \in Seq(Char)
  PROVE  Shown(terminal_write(t, data), p \o data)
<1> DEFINE n == Len(data)
<1>1. n \in Nat /\ t \in Terminals
  BY DEF Shown
<1>2. PICK w \in [0 .. n -> Terminals] :
        /\ w[0] = t /\ terminal_write(t, data) = w[n]
        /\ \A k \in 1 .. n : w[k] = terminal_putchar(w[k - 1], data[k])
  BY <1>1, WriteLoop
<1> DEFINE text(k) == p \o SubSeq(data, 1, k)
           T == {k \in Nat : k <= n => Shown(w[k], text(k))}
<1>3. 0 \in T
  <2>1. text(0) = p
    OBVIOUS
  <2> QED BY <1>2, <2>1
<1>4. ASSUME NEW k \in Nat, k \in T PROVE k + 1 \in T
  <2> SUFFICES ASSUME k + 1 <= n PROVE Shown(w[k + 1], text(k + 1))
    OBVIOUS
  <2>1. Shown(w[k], text(k)) /\ k + 1 \in 1 .. n /\ (k + 1) - 1 = k
    BY <1>1, <1>4
  <2>2. w[k + 1] = terminal_putchar(w[k], data[k + 1])
    BY <1>2, <2>1
  <2>3. data[k + 1] \in Char /\ text(k) \in Seq(Char)
    BY <2>1
  <2>4. text(k + 1) = Append(text(k), data[k + 1])
    <3>1. SubSeq(data, 1, k + 1) = Append(SubSeq(data, 1, k), data[k + 1])
      BY <2>1
    <3> QED BY <3>1
  <2> HIDE DEF text
  <2> QED BY <2>1, <2>2, <2>3, <2>4, ShownAfterPutchar
<1>5. n \in T
  <2> HIDE DEF T
  <2> QED BY <1>1, <1>3, <1>4, Induction
<1>6. text(n) = p \o data
  <2>1. SubSeq(data, 1, n) = data
    OBVIOUS
  <2> QED BY <2>1
<1>7. Shown(w[n], text(n))
  BY <1>1, <1>5
<1> HIDE DEF text
<1> QED BY <1>2, <1>6, <1>7

(* The cleared screen shows nothing. *)
LEMMA ShownClear == Shown(terminal_clear, <<>>)
<1> DEFINE l == [k \in 0 .. 0 |-> 0]
           blank == [y \in Rows |-> BlankRow]
<1>1. Len(<<>>) = 0 /\ <<>> \in Seq(Char)
  OBVIOUS
<1>2. l \in [0 .. 0 -> Nat] /\ l \in [0 .. 0 -> Columns] /\ l[0] = 0
  BY Sizes
<1>3. Top(0) = 0
  BY Sizes DEF Top
<1>4. blank \in [Rows -> [Columns -> Glyphs]] /\ \A r \in Rows, x \in Columns : blank[r][x] = " "
  BY TerminalAssumption DEF BlankRow
<1> HIDE DEF l, blank
<1>5. Roll(<<>>, l, l)
  BY <1>1, <1>2 DEF Roll
<1>6. Drawn(blank, <<>>, l, l, 0)
  <2>1. 1 .. Len(<<>>) = {}
    BY <1>1
  <2> QED BY <1>4, <2>1 DEF Drawn
<1>7. terminal_clear = [row |-> 0, column |-> 0, buffer |-> blank]
  BY DEF terminal_clear, blank
<1>8. terminal_clear \in Terminals
  BY <1>4, <1>7, Sizes DEF Terminals
<1> QED BY <1>1, <1>2, <1>3, <1>5, <1>6, <1>7, <1>8 DEF Shown

(* terminal_backspace takes the last character off the screen, if it is not the
   first of its line. *)
LEMMA ShownAfterBackspace ==
  ASSUME NEW p \in Seq(Char), NEW ch \in Glyphs, NEW t, Shown(t, Append(p, ch)), t.column > 0
  PROVE  Shown(terminal_backspace(t), p)
<1> DEFINE n == Len(p)
           q == Append(p, ch)
<1>1. n \in Nat /\ Len(q) = n + 1 /\ q[n + 1] = ch /\ q \in Seq(Char) /\ \A k \in 1 .. n : q[k] = p[k]
  BY DEF Char
<1>2. PICK l \in [0 .. (n + 1) -> Nat], c \in [0 .. (n + 1) -> Columns] :
        /\ Roll(q, l, c)
        /\ t.row = l[n + 1] - Top(l[n + 1]) /\ t.column = c[n + 1]
        /\ Drawn(t.buffer, q, l, c, Top(l[n + 1]))
  BY <1>1 DEF Shown
<1>3. l[n + 1] = l[n] /\ c[n + 1] = c[n] + 1
  <2>1. n + 1 \in 1 .. Len(q) /\ (n + 1) - 1 = n
    BY <1>1
  <2>2. c[n + 1] # 0
    BY <1>2, Sizes
  <2> QED BY <1>2, <2>1, <2>2 DEF Roll
<1>4. l[n] \in Nat /\ c[n] \in Columns /\ c[n] \in Nat /\ t.row \in Rows /\ t \in Terminals
  <2>1. n \in 0 .. (n + 1) /\ t \in Terminals
    BY <1>1 DEF Shown
  <2> QED BY <2>1, Sizes DEF Terminals
<1> DEFINE top == Top(l[n])
           b == [t.buffer EXCEPT ![l[n] - top][c[n]] = " "]
           u == [row |-> t.row, column |-> c[n], buffer |-> t.buffer]
<1>5. t.row = l[n] - top /\ t.column = c[n] + 1 /\ l[n] - top \in Rows /\ top \in Nat
  <2>1. top \in Nat
    BY <1>4, Sizes DEF Top
  <2> QED BY <1>2, <1>3, <1>4, <2>1
<1>6. terminal_backspace(t) = [row |-> t.row, column |-> c[n], buffer |-> b]
  <2>1. [t EXCEPT !.column = @ - 1] = [row |-> t.row, column |-> t.column - 1, buffer |-> t.buffer]
    <3> DEFINE Buffers == [Rows -> [Columns -> Glyphs]]
    <3>1. t \in [row : Rows, column : Columns, buffer : Buffers]
      BY <1>4 DEF Terminals
    <3> HIDE DEF Buffers
    <3> QED BY <3>1
  <2>2. t.column - 1 = c[n]
    BY <1>4, <1>5
  <2>3. [t EXCEPT !.column = @ - 1] = u /\ u.row = t.row /\ u.column = c[n] /\ u.buffer = t.buffer
    BY <2>1, <2>2
  <2>4. u \in Terminals
    BY <1>4 DEF Terminals
  <2> HIDE DEF u
  <2>5. terminal_backspace(t) = terminal_putentryat(u, " ", c[n], t.row)
    BY <2>3 DEF terminal_backspace
  <2>6. terminal_backspace(t) =
          [row |-> t.row, column |-> c[n], buffer |-> [t.buffer EXCEPT ![t.row][c[n]] = " "]]
    <3>1. terminal_putentryat(u, " ", c[n], t.row) =
            [row |-> u.row, column |-> u.column, buffer |-> [u.buffer EXCEPT ![t.row][c[n]] = " "]]
      BY <2>4, PutEntry
    <3> QED BY <2>3, <2>5, <3>1
  <2> QED BY <1>5, <2>6
<1>7. Drawn(b, p, l, c, top)
  BY <1>2, <1>3, <1>5, DrawBlank
<1> DEFINE m == [k \in 0 .. n |-> l[k]]
           d == [k \in 0 .. n |-> c[k]]
<1>8. Roll(p, m, d)
  <2>1. \A k \in 0 .. n : k \in 0 .. (n + 1) /\ m[k] = l[k] /\ d[k] = c[k]
    BY <1>1
  <2>2. m \in [0 .. n -> Nat] /\ d \in [0 .. n -> Columns]
    BY <2>1
  <2> HIDE DEF m, d, q
  <2>3. ASSUME NEW k \in 1 .. n
        PROVE  IF p[k] # "\n" /\ d[k - 1] + 1 < VGA_WIDTH
                 THEN m[k] = m[k - 1] /\ d[k] = d[k - 1] + 1
                 ELSE m[k] = m[k - 1] + 1 /\ d[k] = 0
    <3>1. k \in 1 .. (n + 1) /\ k - 1 \in 0 .. n /\ k \in 0 .. n
      BY <1>1
    <3> QED BY <1>1, <1>2, <2>1, <3>1 DEF Roll
  <2>4. \A j, k \in 0 .. n : j < k => m[j] < m[k] \/ (m[j] = m[k] /\ d[j] < d[k])
    BY <1>1, <1>2, <2>1 DEF Roll
  <2>5. m[0] = 0 /\ d[0] = 0
    BY <1>1, <1>2, <2>1 DEF Roll
  <2> QED BY <2>2, <2>3, <2>4, <2>5 DEF Roll
<1>9. Drawn(b, p, m, d, top)
  <2>1. \A k \in 1 .. n : m[k - 1] = l[k - 1] /\ d[k - 1] = c[k - 1]
    BY <1>1
  <2> HIDE DEF m, d, b, top
  <2> QED BY <1>7, <2>1 DEF Drawn
<1>10. m[n] = l[n] /\ d[n] = c[n] /\ m \in [0 .. n -> Nat] /\ d \in [0 .. n -> Columns]
  BY <1>1
<1>11. [row |-> t.row, column |-> c[n], buffer |-> b] \in Terminals
  <2>1. b \in [Rows -> [Columns -> Glyphs]]
    BY <1>9 DEF Drawn
  <2> HIDE DEF b
  <2> QED BY <1>4, <2>1 DEF Terminals
<1> HIDE DEF m, d, b
<1>12. /\ terminal_backspace(t).row = m[n] - Top(m[n])
       /\ terminal_backspace(t).column = d[n]
       /\ terminal_backspace(t).buffer = b
  BY <1>5, <1>6, <1>10
<1>13. Drawn(b, p, m, d, Top(m[n]))
  BY <1>9, <1>10
<1> QED BY <1>6, <1>8, <1>10, <1>11, <1>12, <1>13 DEF Shown


-----------------------------------------------------------------------------
(* Counted in cells. *)

(* The place before a character, from its line and column. *)
LEMMA PlacesOnRoll ==
  ASSUME NEW p \in Seq(Char), NEW l, NEW c, Roll(p, l, c)
  PROVE  \A k \in 0 .. Len(p) :
           /\ Places(p)[k] = l[k] * VGA_WIDTH + c[k]
           /\ Places(p)[k] \div VGA_WIDTH = l[k] /\ Places(p)[k] % VGA_WIDTH = c[k]
<1> DEFINE n == Len(p)
           W == VGA_WIDTH
           next(q, x) == IF x = "\n" THEN (q \div W + 1) * W ELSE q + 1
           loop(f) == f = [k \in 0 .. n |-> IF k = 0 THEN 0
                                            ELSE IF p[k] = "\n" THEN (f[k - 1] \div W + 1) * W
                                            ELSE f[k - 1] + 1]
           g == [k \in 0 .. n |-> l[k] * W + c[k]]
           P == CHOOSE f : loop(f)
<1>1. n \in Nat /\ W \in Nat \ {0} /\ W \in Nat /\ W > 0
  BY Sizes
<1>2. ASSUME NEW k \in 0 .. n
      PROVE  /\ l[k] \in Nat /\ c[k] \in 0 .. (W - 1)
             /\ g[k] = l[k] * W + c[k] /\ g[k] \in Nat
             /\ g[k] \div W = l[k] /\ g[k] % W = c[k]
  <2>1. l[k] \in Nat /\ c[k] \in 0 .. (W - 1)
    BY DEF Roll, Columns
  <2>2. l[k] * W \in Nat
    BY <1>1, <2>1, Products
  <2>3. g[k] = l[k] * W + c[k]
    OBVIOUS
  <2> HIDE DEF g, W
  <2>4. g[k] \in Nat
    BY <1>1, <2>1, <2>2, <2>3
  <2> QED BY <1>1, <2>1, <2>3, <2>4, DivisionUnique
<1>3. \A k \in 0 .. n : g[k] = IF k = 0 THEN 0 ELSE next(g[k - 1], p[k])
  <2> TAKE k \in 0 .. n
  <2>1. CASE k = 0
    <3>1. g[0] = l[0] * W + c[0] /\ l[0] = 0 /\ c[0] = 0
      BY <1>2, <2>1 DEF Roll
    <3>2. 0 * W = 0
      BY <1>1
    <3> HIDE DEF g, W
    <3> QED BY <2>1, <3>1, <3>2
  <2>2. CASE k # 0
    <3>1. k \in 1 .. n /\ k - 1 \in 0 .. n
      BY <1>1, <2>2
    <3> DEFINE line == l[k - 1]
               col == c[k - 1]
    <3>2. /\ line \in Nat /\ col \in 0 .. (W - 1)
          /\ g[k - 1] = line * W + col /\ g[k - 1] \div W = line
          /\ g[k] = l[k] * W + c[k]
      BY <1>2, <3>1
    <3>3. IF p[k] # "\n" /\ col + 1 < W THEN l[k] = line /\ c[k] = col + 1
                                        ELSE l[k] = line + 1 /\ c[k] = 0
      BY <3>1 DEF Roll
    <3>4. line * W \in Nat /\ (line + 1) * W = line * W + W /\ (line + 1) * W \in Nat
      <4> HIDE DEF line, W
      <4> QED BY <1>1, <3>2, Products
    <3> HIDE DEF g, W, line, col
    <3>5. CASE p[k] = "\n"
      <4>1. g[k] = (line + 1) * W + 0
        BY <3>2, <3>3, <3>5
      <4> QED BY <2>2, <3>2, <3>4, <3>5, <4>1
    <3>6. CASE p[k] # "\n" /\ col + 1 < W
      <4>1. g[k] = line * W + (col + 1)
        BY <3>2, <3>3, <3>6
      <4> QED BY <2>2, <3>2, <3>4, <3>6, <4>1
    <3>7. CASE p[k] # "\n" /\ ~(col + 1 < W)
      <4>1. g[k] = (line + 1) * W + 0
        BY <3>2, <3>3, <3>7
      <4>2. col + 1 = W
        BY <1>1, <3>2, <3>7
      <4> QED BY <1>1, <2>2, <3>2, <3>4, <3>7, <4>1, <4>2
    <3> QED BY <3>5, <3>6, <3>7
  <2> QED BY <2>1, <2>2
<1>4. loop(g)
  <2>1. g = [k \in 0 .. n |-> g[k]]
    OBVIOUS
  <2> HIDE DEF g
  <2> QED BY <1>3, <2>1
<1>5. loop(P)
  <2> HIDE DEF g
  <2> QED BY <1>4
<1>6. Places(p) = P
  BY DEF Places
<1> HIDE DEF P
<1>7. \A k \in 0 .. n : P[k] = IF k = 0 THEN 0 ELSE next(P[k - 1], p[k])
  BY <1>5
<1> HIDE DEF g, next, loop
<1> DEFINE T == {k \in Nat : k <= n => P[k] = g[k]}
<1>8. 0 \in T
  BY <1>1, <1>3, <1>7
<1>9. ASSUME NEW k \in Nat, k \in T PROVE k + 1 \in T
  <2> SUFFICES ASSUME k + 1 <= n PROVE P[k + 1] = g[k + 1]
    OBVIOUS
  <2>1. k + 1 \in 0 .. n /\ k + 1 # 0 /\ (k + 1) - 1 = k /\ P[k] = g[k]
    BY <1>1, <1>9
  <2> QED BY <1>3, <1>7, <2>1
<1>10. \A k \in 0 .. n : P[k] = g[k]
  <2>1. Nat \subseteq T
    <3> HIDE DEF T
    <3> QED BY <1>8, <1>9, Induction
  <2> QED BY <1>1, <2>1
<1> QED BY <1>2, <1>6, <1>10

(* What is drawn line by line is what Shows asks for. *)
LEMMA ShownShows ==
  ASSUME NEW p \in Seq(Char), NEW t, Shown(t, p)
  PROVE  Shows(t, p)
<1> DEFINE n == Len(p)
           P == Places(p)
           W == VGA_WIDTH
<1>1. n \in Nat /\ n \in 0 .. n /\ W \in Nat \ {0} /\ W \in Nat /\ VGA_HEIGHT \in Nat /\ t \in Terminals
  BY Sizes DEF Shown
<1>2. PICK l \in [0 .. n -> Nat], c \in [0 .. n -> Columns] :
        /\ Roll(p, l, c)
        /\ t.row = l[n] - Top(l[n]) /\ t.column = c[n]
        /\ Drawn(t.buffer, p, l, c, Top(l[n]))
  BY DEF Shown
<1>3. \A k \in 0 .. n : P[k] = l[k] * W + c[k] /\ P[k] \div W = l[k] /\ P[k] % W = c[k]
  BY <1>2, PlacesOnRoll
<1> DEFINE top == IF P[n] \div W < VGA_HEIGHT THEN 0 ELSE P[n] \div W - (VGA_HEIGHT - 1)
           at(r, x) == {p[k] : k \in {j \in 1 .. n : p[j] # "\n" /\ P[j - 1] = (top + r) * W + x}}
           shown(r, x) == IF at(r, x) = {} THEN " " ELSE CHOOSE ch \in at(r, x) : TRUE
<1>4. top = Top(l[n])
  BY <1>1, <1>3 DEF Top
<1>10. top \in Nat
  <2>1. l[n] \in Nat
    BY <1>1, <1>2
  <2> QED BY <1>1, <1>4, <2>1 DEF Top
<1>5. ASSUME NEW r \in Rows, NEW x \in Columns, NEW j \in 1 .. n
      PROVE  P[j - 1] = (top + r) * W + x <=> l[j - 1] = top + r /\ c[j - 1] = x
  <2>1. j - 1 \in 0 .. n /\ r \in Nat /\ x \in 0 .. (W - 1)
    BY <1>1, Sizes DEF Columns
  <2>2. l[j - 1] \in Nat /\ c[j - 1] \in 0 .. (W - 1)
    BY <1>2, <2>1 DEF Columns
  <2> DEFINE a == (top + r) * W + x
             q == top + r
  <2>3. q \in Nat /\ a \in Nat /\ a = q * W + x
    <3>1. q \in Nat
      BY <1>10, <2>1
    <3>2. q * W \in Nat
      <4> HIDE DEF q, W
      <4> QED BY <1>1, <3>1, Products
    <3> HIDE DEF q
    <3>3. q * W + x \in Nat
      <4> DEFINE b == q * W
      <4> HIDE DEF b
      <4> QED BY <1>1, <2>1, <3>2 DEF b
    <3> QED BY <3>1, <3>3 DEF q
  <2>4. a \div W = q /\ a % W = x
    <3> HIDE DEF a, q, W
    <3> QED BY <1>1, <2>1, <2>3, DivisionUnique
  <2>5. P[j - 1] = l[j - 1] * W + c[j - 1] /\ P[j - 1] \div W = l[j - 1] /\ P[j - 1] % W = c[j - 1]
    BY <1>3, <2>1
  <2>6. P[j - 1] = a => l[j - 1] = q /\ c[j - 1] = x
    <3> HIDE DEF a, q, W, P
    <3> QED BY <2>4, <2>5
  <2>7. l[j - 1] = q /\ c[j - 1] = x => P[j - 1] = a
    <3> HIDE DEF q, W, P
    <3> QED BY <2>3, <2>5
  <2> QED BY <2>6, <2>7
<1> HIDE DEF P, top
<1>6. ASSUME NEW r \in Rows, NEW x \in Columns
      PROVE  t.buffer[r][x] = shown(r, x)
  <2>1. CASE at(r, x) = {}
    <3>1. ASSUME NEW k \in 1 .. n, p[k] # "\n" PROVE l[k - 1] # top + r \/ c[k - 1] # x
      <4>1. P[k - 1] # (top + r) * W + x
        BY <2>1, <3>1
      <4> QED BY <1>5, <4>1
    <3>2. t.buffer[r][x] = " "
      BY <1>2, <1>4, <3>1 DEF Drawn
    <3> QED BY <2>1, <3>2
  <2>2. CASE at(r, x) # {}
    <3>1. \A ch \in at(r, x) : ch = t.buffer[r][x]
      <4> TAKE ch \in at(r, x)
      <4>1. PICK j \in 1 .. n : ch = p[j] /\ p[j] # "\n" /\ P[j - 1] = (top + r) * W + x
        OBVIOUS
      <4>2. l[j - 1] = top + r /\ c[j - 1] = x
        BY <1>5, <4>1
      <4>3. l[j - 1] >= top /\ l[j - 1] - top = r
        BY <1>10, <4>2, Sizes
      <4> QED BY <1>2, <1>4, <4>1, <4>2, <4>3 DEF Drawn
    <3> HIDE DEF at
    <3> QED BY <2>2, <3>1
  <2> QED BY <2>1, <2>2
<1>7. t.buffer = [r \in Rows |-> [x \in Columns |-> shown(r, x)]]
  <2>1. t.buffer \in [Rows -> [Columns -> Glyphs]]
    BY <1>1 DEF Terminals
  <2> DEFINE S == [r \in Rows |-> [x \in Columns |-> shown(r, x)]]
  <2>2. \A r \in Rows : t.buffer[r] = [x \in Columns |-> t.buffer[r][x]]
    BY <2>1
  <2> HIDE DEF shown
  <2>3. \A r \in Rows : t.buffer[r] = S[r]
    BY <1>6, <2>2
  <2> QED BY <2>1, <2>3
<1>8. t.row = P[n] \div W - top /\ t.column = P[n] % W
  BY <1>1, <1>2, <1>3, <1>4
<1> QED BY <1>7, <1>8 DEF Shows, P, top

-----------------------------------------------------------------------------
(* The screen along a behaviour. *)

LEMMA PromptType == prompt \in Seq(Char) /\ Len(prompt) = 2
<1>1. ">" \in Char /\ " " \in Char
  BY ConsoleAssumption, TerminalAssumption DEF Char
<1> QED BY <1>1, TwoInSeq DEF prompt

(* The last characters of the paper are the prompt and the line. *)
LEMMA SuffixShown == ScreenInv => LineIsShown
<1> SUFFICES ASSUME ScreenInv PROVE LineIsShown
  OBVIOUS
<1> DEFINE s == prompt \o cmdbuf
           n == Len(paper)
<1>1. cmdbuf \in Seq(Char) /\ paper \in Seq(Char)
  BY ConsoleAssumption DEF ScreenInv, Char
<1>2. s \in Seq(Char)
  BY <1>1, PromptType, Concatenation
<1>3. Len(s) \in Nat /\ n \in Nat
  BY <1>1, <1>2
<1>4. Len(s) <= n /\ \A i \in 1 .. Len(s) : paper[n - Len(s) + i] = s[i]
  BY DEF ScreenInv, Ends
<1> HIDE DEF s
<1>5. Len(Reverse(s)) = Len(s) /\ Len(Reverse(paper)) = n
  BY <1>1, <1>2, <1>3 DEF Reverse
<1>6. Reverse(s) \in Seq(Char) /\ Reverse(paper) \in Seq(Char)
  BY <1>1, <1>2, <1>3 DEF Reverse
<1>7. \A i \in 1 .. Len(s) : Reverse(s)[i] = Reverse(paper)[i]
  <2> TAKE i \in 1 .. Len(s)
  <2>1. Reverse(s)[i] = s[(Len(s) - i) + 1] /\ Reverse(paper)[i] = paper[(n - i) + 1]
    <3>1. i \in 1 .. n
      BY <1>3, <1>4
    <3> QED BY <3>1 DEF Reverse
  <2>2. (Len(s) - i) + 1 \in 1 .. Len(s) /\ n - Len(s) + ((Len(s) - i) + 1) = (n - i) + 1
    BY <1>3, <1>4
  <2> QED BY <1>4, <2>1, <2>2
<1>8. SubSeq(Reverse(s), 1, Len(s)) = SubSeq(Reverse(paper), 1, Len(s))
  BY <1>3, <1>4, <1>5, <1>6, <1>7
<1>9. IsSuffix(s, paper)
  BY <1>4, <1>5, <1>8 DEF IsSuffix, IsPrefix
<1> QED BY <1>9 DEF LineIsShown, ScreenInv, s


(* Both get the same character. *)
LEMMA EndsAppend ==
  ASSUME NEW p \in Seq(Char), NEW s \in Seq(Char), Ends(p, s), NEW ch \in Char
  PROVE  Ends(Append(p, ch), Append(s, ch))
<1> DEFINE q == Append(p, ch)
           r == Append(s, ch)
<1>1. /\ Len(p) \in Nat /\ Len(s) \in Nat /\ Len(q) = Len(p) + 1 /\ Len(r) = Len(s) + 1
      /\ q[Len(p) + 1] = ch /\ r[Len(s) + 1] = ch
      /\ \A i \in 1 .. Len(p) : q[i] = p[i]
      /\ \A i \in 1 .. Len(s) : r[i] = s[i]
  OBVIOUS
<1> HIDE DEF q, r
<1>2. Len(s) <= Len(p)
  BY DEF Ends
<1>3. \A i \in 1 .. Len(r) : q[Len(q) - Len(r) + i] = r[i]
  <2> TAKE i \in 1 .. Len(r)
  <2>1. CASE i = Len(s) + 1
    BY <1>1, <1>2, <2>1
  <2>2. CASE i \in 1 .. Len(s)
    <3>1. Len(q) - Len(r) + i = Len(p) - Len(s) + i /\ Len(p) - Len(s) + i \in 1 .. Len(p)
      BY <1>1, <1>2, <2>2
    <3> QED BY <1>1, <2>2, <3>1 DEF Ends
  <2> QED BY <1>1, <2>1, <2>2
<1>4. Len(r) <= Len(q)
  BY <1>1, <1>2
<1> QED BY <1>3, <1>4 DEF Ends, q, r

(* A text ends with what was put behind it. *)
LEMMA EndsConcat ==
  ASSUME NEW p \in Seq(Char), NEW s \in Seq(Char)
  PROVE  Ends(p \o s, s)
<1>1. Len(p) \in Nat /\ Len(s) \in Nat /\ Len(p \o s) = Len(p) + Len(s)
  BY Concatenation
<1>2. \A i \in 1 .. Len(s) : Len(p \o s) - Len(s) + i = Len(p) + i
  BY <1>1
<1>3. \A i \in 1 .. Len(s) : (p \o s)[Len(p \o s) - Len(s) + i] = s[i]
  BY <1>2, Concatenation
<1> QED BY <1>1, <1>3 DEF Ends

(* The first elements of a sequence. *)
LEMMA Prefix ==
  ASSUME NEW S, NEW p \in Seq(S), NEW n \in Nat, n <= Len(p)
  PROVE  /\ SubSeq(p, 1, n) \in Seq(S) /\ Len(SubSeq(p, 1, n)) = n
         /\ \A i \in 1 .. n : SubSeq(p, 1, n)[i] = p[i]
<1>1. Len(SubSeq(p, 1, n)) = n
  OBVIOUS
<1>2. \A i \in 1 .. n : SubSeq(p, 1, n)[i] = p[i]
  OBVIOUS
<1>3. SubSeq(p, 1, n) \in Seq(S)
  OBVIOUS
<1> QED BY <1>1, <1>2, <1>3

(* All but the last. *)
LEMMA FrontFacts ==
  ASSUME NEW p \in Seq(Char), Len(p) > 0
  PROVE  /\ Front(p) \in Seq(Char) /\ Len(Front(p)) = Len(p) - 1
         /\ \A i \in 1 .. Len(Front(p)) : Front(p)[i] = p[i]
<1>1. Len(p) - 1 \in Nat /\ Len(p) - 1 <= Len(p)
  OBVIOUS
<1>2. Front(p) = SubSeq(p, 1, Len(p) - 1)
  BY DEF Front
<1>3. /\ SubSeq(p, 1, Len(p) - 1) \in Seq(Char) /\ Len(SubSeq(p, 1, Len(p) - 1)) = Len(p) - 1
      /\ \A i \in 1 .. Len(p) - 1 : SubSeq(p, 1, Len(p) - 1)[i] = p[i]
  BY <1>1, Prefix
<1> QED BY <1>2, <1>3

(* Both lose their last character, which is the same. *)
LEMMA EndsFront ==
  ASSUME NEW p \in Seq(Char), NEW s \in Seq(Char), Ends(p, s), s # <<>>
  PROVE  /\ Front(p) \in Seq(Char) /\ p = Append(Front(p), s[Len(s)])
         /\ Ends(Front(p), Front(s))
<1> DEFINE q == Front(p)
           r == Front(s)
<1>1. Len(p) \in Nat /\ Len(s) \in Nat /\ Len(s) > 0 /\ Len(s) <= Len(p)
  BY DEF Ends
<1>2. /\ q \in Seq(Char) /\ r \in Seq(Char) /\ Len(q) = Len(p) - 1 /\ Len(r) = Len(s) - 1
      /\ \A i \in 1 .. Len(q) : q[i] = p[i]
      /\ \A i \in 1 .. Len(r) : r[i] = s[i]
  BY <1>1, FrontFacts
<1> HIDE DEF q, r
<1>3. p[Len(p)] = s[Len(s)]
  <2>1. Len(s) \in 1 .. Len(s) /\ Len(p) - Len(s) + Len(s) = Len(p)
    BY <1>1
  <2> QED BY <2>1 DEF Ends
<1>4. p = Append(q, p[Len(p)])
  BY <1>1, <1>2, LastPut
<1>5. \A i \in 1 .. Len(r) : q[Len(q) - Len(r) + i] = r[i]
  <2> TAKE i \in 1 .. Len(r)
  <2>1. i \in 1 .. Len(s) /\ Len(q) - Len(r) + i = Len(p) - Len(s) + i /\ Len(p) - Len(s) + i \in 1 .. Len(q)
    BY <1>1, <1>2
  <2> QED BY <1>2, <2>1 DEF Ends
<1> QED BY <1>1, <1>2, <1>3, <1>4, <1>5 DEF Ends, q, r

(* The steps of the shell. *)
LEMMA ScreenInit == Init => ScreenInv
<1> SUFFICES ASSUME Init PROVE ScreenInv
  OBVIOUS
<1>1. PICK s \in Outputs : /\ terminal = terminal_write(terminal_initialize, s \o prompt)
                           /\ paper = s \o prompt /\ cmdbuf = <<>>
  BY DEF Init
<1>2. s \in Seq(Char) /\ s \o prompt \in Seq(Char)
  BY ConsoleAssumption, PromptType, Concatenation DEF Char
<1>3. Shown(terminal_initialize, <<>>)
  BY ShownClear DEF terminal_initialize
<1>4. Shown(terminal, paper)
  <2>1. <<>> \in Seq(Char) /\ <<>> \o (s \o prompt) = s \o prompt
    BY <1>2
  <2> QED BY <1>1, <1>2, <1>3, <2>1, ShownAfterWrite
<1>5. prompt \o cmdbuf = prompt
  BY <1>1, PromptType
<1>6. Ends(paper, prompt \o cmdbuf)
  BY <1>1, <1>2, <1>5, PromptType, EndsConcat
<1>7. cmdbuf \in Seq(Keys) /\ Len(cmdbuf) < BufSize
  BY <1>1, ConsoleAssumption
<1> QED BY <1>1, <1>2, <1>4, <1>6, <1>7 DEF ScreenInv

LEMMA TypeStep ==
  ASSUME ScreenInv, NEW c \in Keys, Type(c)
  PROVE  ScreenInv'
<1>1. /\ terminal' = terminal_putchar(terminal, c)
      /\ cmdbuf' = Append(cmdbuf, c) /\ paper' = Append(paper, c) /\ room
  BY DEF Type
<1>2. c \in Char /\ cmdbuf \in Seq(Keys) /\ cmdbuf \in Seq(Char) /\ paper \in Seq(Char)
  BY ConsoleAssumption DEF ScreenInv, Char
<1>3. Shown(terminal', paper')
  BY <1>1, <1>2, ShownAfterPutchar DEF ScreenInv
<1>4. Append(prompt \o cmdbuf, c) = prompt \o Append(cmdbuf, c)
  <2>1. prompt \in Seq(Char)
    BY PromptType
  <2>2. \A a, b \in Seq(Char) : \A x \in Char : Append(a \o b, x) = a \o Append(b, x)
    OBVIOUS
  <2>3. c \in Char /\ cmdbuf \in Seq(Char)
    BY <1>2
  <2> QED BY <2>1, <2>2, <2>3
<1>5. Ends(paper', prompt \o cmdbuf')
  <2>1. prompt \o cmdbuf \in Seq(Char)
    BY <1>2, PromptType, Concatenation
  <2> QED BY <1>1, <1>2, <1>4, <2>1, EndsAppend DEF ScreenInv
<1>6. cmdbuf' \in Seq(Keys) /\ Len(cmdbuf') < BufSize
  <2>1. cmdbuf' \in Seq(Keys) /\ Len(cmdbuf') = Len(cmdbuf) + 1 /\ Len(cmdbuf) \in Nat
    BY <1>1, <1>2
  <2>2. BufSize \in Nat /\ Len(cmdbuf) < BufSize - 1
    BY <1>1, ConsoleAssumption DEF room
  <2> QED BY <2>1, <2>2
<1>7. paper' \in Seq(Char)
  BY <1>1, <1>2
<1> QED BY <1>3, <1>5, <1>6, <1>7 DEF ScreenInv

LEMMA BackspaceStep ==
  ASSUME ScreenInv, Backspace
  PROVE  ScreenInv'
<1>1. /\ terminal.column > 2 /\ cmdbuf # <<>>
      /\ terminal' = terminal_backspace(terminal)
      /\ cmdbuf' = SubSeq(cmdbuf, 1, Len(cmdbuf) - 1) /\ paper' = Front(paper)
  BY DEF Backspace, erasable
<1> DEFINE s == prompt \o cmdbuf
           last == cmdbuf[Len(cmdbuf)]
<1>2. cmdbuf \in Seq(Keys) /\ cmdbuf \in Seq(Char) /\ paper \in Seq(Char) /\ Len(cmdbuf) < BufSize
  BY ConsoleAssumption DEF ScreenInv, Char
<1>3. Len(cmdbuf) \in Nat /\ Len(cmdbuf) > 0 /\ last \in Keys /\ last \in Glyphs
  BY <1>1, <1>2, ConsoleAssumption
<1>4. s \in Seq(Char) /\ s # <<>> /\ s[Len(s)] = last
  <2>1. s \in Seq(Char) /\ Len(s) = Len(prompt) + Len(cmdbuf)
    BY <1>2, PromptType, Concatenation
  <2>2. Len(cmdbuf) \in 1 .. Len(cmdbuf) /\ Len(prompt) = 2
    BY <1>3, PromptType
  <2>3. s[Len(prompt) + Len(cmdbuf)] = last
    BY <1>2, <2>2, PromptType, Concatenation
  <2> HIDE DEF s
  <2> QED BY <1>3, <2>1, <2>2, <2>3
<1>5. Front(s) = prompt \o cmdbuf'
  BY <1>1, <1>2, PromptType, FrontConcat DEF Front
<1>6. paper' \in Seq(Char) /\ paper = Append(paper', last) /\ Ends(paper', Front(s))
  <2> HIDE DEF s, last
  <2>1. Ends(paper, s)
    BY DEF ScreenInv, s
  <2> QED BY <1>1, <1>2, <1>4, <2>1, EndsFront
<1>7. Shown(terminal', paper')
  <2>1. Shown(terminal, Append(paper', last))
    BY <1>6 DEF ScreenInv
  <2>2. terminal.column > 0
    <3>1. terminal.column \in Nat
      BY Sizes DEF ScreenInv, Shown, Terminals
    <3> QED BY <1>1, <3>1
  <2> HIDE DEF last
  <2> QED BY <1>1, <1>3, <1>6, <2>1, <2>2, ShownAfterBackspace
<1>8. cmdbuf' \in Seq(Keys) /\ Len(cmdbuf') < BufSize
  <2>1. Len(cmdbuf) - 1 \in Nat /\ Len(cmdbuf) - 1 <= Len(cmdbuf)
    BY <1>3
  <2>2. cmdbuf' \in Seq(Keys) /\ Len(cmdbuf') = Len(cmdbuf) - 1
    BY <1>1, <1>2, <2>1, Prefix
  <2>3. BufSize \in Nat
    BY ConsoleAssumption
  <2> QED BY <1>2, <1>3, <2>2, <2>3
<1> QED BY <1>5, <1>6, <1>7, <1>8 DEF ScreenInv

LEMMA EnterStep ==
  ASSUME ScreenInv, Enter \/ EnterClear
  PROVE  ScreenInv'
<1>1. cmdbuf' = <<>> /\ cmdbuf' \in Seq(Keys) /\ Len(cmdbuf') < BufSize
  <2>1. cmdbuf' = <<>>
    BY DEF Enter, EnterClear
  <2>2. BufSize \in Nat \ {0}
    BY ConsoleAssumption
  <2> QED BY <2>1, <2>2
<1>2. prompt \o cmdbuf' = prompt
  BY <1>1, PromptType
<1>3. CASE Enter
  <2>1. PICK s \in Outputs \cup {<<>>} :
          /\ terminal' = terminal_write(terminal, <<"\n">> \o s \o prompt)
          /\ paper' = paper \o (<<"\n">> \o s \o prompt)
    BY <1>3 DEF Enter
  <2> DEFINE new == <<"\n">> \o s
             out == new \o prompt
  <2>2. new \in Seq(Char)
    <3>1. <<"\n">> \in Seq(Char)
      BY DEF Char
    <3>2. s \in Seq(Char)
      <4>1. \A r \in Outputs : r \in Seq(Char)
        BY ConsoleAssumption DEF Char
      <4>2. <<>> \in Seq(Char)
        OBVIOUS
      <4> QED BY <4>1, <4>2
    <3> QED BY <3>1, <3>2, Concatenation
  <2> HIDE DEF new
  <2>3. out \in Seq(Char) /\ paper \in Seq(Char) /\ paper \o new \in Seq(Char)
    BY <2>2, PromptType, Concatenation DEF ScreenInv
  <2>4. Shown(terminal', paper')
    <3>1. terminal' = terminal_write(terminal, out) /\ paper' = paper \o out
      BY <2>1 DEF new
    <3> HIDE DEF out
    <3> QED BY <2>3, <3>1, ShownAfterWrite DEF ScreenInv
  <2>5. paper' = (paper \o new) \o prompt
    <3>1. paper \o (new \o prompt) = (paper \o new) \o prompt
      <4>1. \A a, b, d \in Seq(Char) : a \o (b \o d) = (a \o b) \o d
        OBVIOUS
      <4>2. paper \in Seq(Char) /\ new \in Seq(Char) /\ prompt \in Seq(Char)
        BY <2>2, <2>3, PromptType
      <4> HIDE DEF out
      <4> QED BY <4>1, <4>2
    <3>2. paper' = paper \o (new \o prompt)
      BY <2>1 DEF new
    <3> QED BY <3>1, <3>2
  <2>6. paper' \in Seq(Char) /\ Ends(paper', prompt)
    BY <2>3, <2>5, PromptType, Concatenation, EndsConcat
  <2> QED BY <1>1, <1>2, <2>4, <2>6 DEF ScreenInv
<1>4. CASE EnterClear
  <2>1. terminal' = terminal_write(terminal_clear, prompt) /\ paper' = prompt
    BY <1>4 DEF EnterClear
  <2>2. <<>> \in Seq(Char) /\ <<>> \o prompt = prompt
    BY PromptType
  <2>3. Shown(terminal', paper')
    BY <2>1, <2>2, PromptType, ShownClear, ShownAfterWrite
  <2>4. Ends(paper', prompt)
    BY <2>1, <2>2, PromptType, EndsConcat
  <2> QED BY <1>1, <1>2, <2>1, <2>3, <2>4, PromptType DEF ScreenInv
<1> QED BY <1>3, <1>4

LEMMA ScreenInvariance == Spec => []ScreenInv
<1>1. ScreenInv /\ [Next]_vars => ScreenInv'
  <2> SUFFICES ASSUME ScreenInv, [Next]_vars PROVE ScreenInv'
    OBVIOUS
  <2>1. CASE Backspace
    BY <2>1, BackspaceStep
  <2>2. CASE Enter \/ EnterClear
    BY <2>2, EnterStep
  <2>3. CASE \E c \in Keys : Type(c)
    BY <2>3, TypeStep
  <2>4. CASE Ignore \/ UNCHANGED vars
    BY <2>4 DEF Ignore, vars, ScreenInv
  <2> QED BY <2>1, <2>2, <2>3, <2>4 DEF Next
<1> QED BY ScreenInit, <1>1, PTL DEF Spec

(* Whatever is typed, erased and printed, and wherever the lines wrap and the
   screen scrolls, the screen shows the last rows of it (tty.c, shell.c). *)
THEOREM ScreenStaysInStep == Spec => []ScreenShowsPaper
<1>1. ScreenInv => ScreenShowsPaper
  BY ShownShows DEF ScreenInv, ScreenShowsPaper
<1> QED BY ScreenInvariance, <1>1, PTL

(* What Enter hands to process_command is what stands behind the prompt, and it
   fits into cmdbuf. *)
THEOREM LineStaysShown == Spec => []LineIsShown
BY ScreenInvariance, SuffixShown, PTL

-----------------------------------------------------------------------------
(* Commands. *)

-----------------------------------------------------------------------------
(* The names in a path. *)

(* The provers do not know that "/" is a string. *)
Characters == STRING \cup {"/", "root"}
Text == Seq(Characters)
Scans == [names : Seq(Text), name : Text]
Fresh == [names |-> <<>>, name |-> <<>>]

(* What a character makes of the names before it. *)
Onward(t, c) == IF c = "/" THEN [names |-> closed(t), name |-> <<>>]
                ELSE [names |-> t.names, name |-> Append(t.name, c)]

ScanOf(f, p) ==
  /\ f \in [0 .. Len(p) -> Scans] /\ f[0] = Fresh
  /\ \A k \in 1 .. Len(p) : f[k] = Onward(f[k - 1], p[k])

(* The states of the scan. *)
LEMMA ClosedType ==
  ASSUME NEW t \in Scans
  PROVE  /\ t.names \in Seq(Text) /\ t.name \in Text /\ closed(t) \in Seq(Text)
         /\ t.name = <<>> => closed(t) = t.names
         /\ t.name # <<>> => closed(t) = Append(t.names, t.name)
<1>1. t.names \in Seq(Text) /\ t.name \in Text
  BY DEF Scans
<1>2. Append(t.names, t.name) \in Seq(Text)
  BY <1>1
<1> QED BY <1>1, <1>2 DEF closed

LEMMA OnwardType ==
  ASSUME NEW t \in Scans, NEW c \in Characters
  PROVE  Onward(t, c) \in Scans
<1>1. t.names \in Seq(Text) /\ t.name \in Text /\ closed(t) \in Seq(Text)
  BY ClosedType
<1>2. Append(t.name, c) \in Text /\ <<>> \in Text
  BY <1>1 DEF Text
<1>3. CASE c = "/"
  BY <1>1, <1>2, <1>3 DEF Onward, Scans
<1>4. CASE c # "/"
  BY <1>1, <1>2, <1>4 DEF Onward, Scans
<1> QED BY <1>3, <1>4

LEMMA FreshType == Fresh \in Scans
<1>1. <<>> \in Seq(Text) /\ <<>> \in Text
  BY DEF Text
<1> QED BY <1>1 DEF Fresh, Scans

(* subpaths is its loop. *)
LEMMA ScanLoop ==
  ASSUME NEW p \in Text
  PROVE  ScanOf(scanned(p), p) /\ subpaths(p) = closed(scanned(p)[Len(p)])
<1> DEFINE n == Len(p)
           step == [k \in 1 .. n |-> [x \in Scans |-> Onward(x, p[k])]]
           loop(w) == w = [k \in 0 .. n |->
                             IF k = 0 THEN [names |-> <<>>, name |-> <<>>]
                             ELSE IF p[k] = "/" THEN [names |-> closed(w[k - 1]), name |-> <<>>]
                             ELSE [names |-> w[k - 1].names, name |-> Append(w[k - 1].name, p[k])]]
           W == CHOOSE w : loop(w)
<1>1. n \in Nat /\ \A k \in 1 .. n : p[k] \in Characters
  BY DEF Text
<1>2. step \in Steps(n, Scans)
  BY <1>1, OnwardType DEF Steps
<1>3. \A k \in 1 .. n, x \in Scans : step[k][x] = Onward(x, p[k])
  OBVIOUS
<1> HIDE DEF step
<1>4. PICK w \in [0 .. n -> Scans] : w[0] = Fresh /\ \A k \in 1 .. n : w[k] = step[k][w[k - 1]]
  <2>1. \E w \in [0 .. n -> Scans] : Computes(w, n, Fresh, step)
    <3> HIDE DEF n
    <3> QED BY <1>1, <1>2, FreshType, Recursion
  <2> QED BY <2>1 DEF Computes
<1>5. \A k \in 0 .. n : w[k] = IF k = 0 THEN Fresh ELSE Onward(w[k - 1], p[k])
  <2> TAKE k \in 0 .. n
  <2>1. k # 0 => k \in 1 .. n /\ w[k - 1] \in Scans
    BY <1>1, <1>4
  <2> QED BY <1>3, <1>4, <2>1
<1>7. loop(w)
  BY <1>4, <1>5 DEF Onward, Fresh
<1>8. loop(W)
  BY <1>7
<1>9. \A k \in 0 .. n : W[k] = IF k = 0 THEN Fresh ELSE Onward(W[k - 1], p[k])
  BY <1>8 DEF Onward, Fresh
<1>10. scanned(p) = W
  BY DEF scanned
<1> HIDE DEF W
<1>11. W[0] = Fresh /\ \A k \in 1 .. n : W[k] = Onward(W[k - 1], p[k])
  BY <1>1, <1>9
<1>12. \A k \in 0 .. n : W[k] \in Scans
  <2> DEFINE T == {k \in Nat : k <= n => W[k] \in Scans}
  <2>1. 0 \in T
    BY <1>11, FreshType
  <2>2. ASSUME NEW k \in Nat, k \in T PROVE k + 1 \in T
    <3> SUFFICES ASSUME k + 1 <= n PROVE W[k + 1] \in Scans
      OBVIOUS
    <3>1. W[k] \in Scans /\ k + 1 \in 1 .. n /\ (k + 1) - 1 = k
      BY <1>1, <2>2
    <3> QED BY <1>1, <1>11, <3>1, OnwardType
  <2>3. Nat \subseteq T
    <3> HIDE DEF T
    <3> QED BY <2>1, <2>2, Induction
  <2> QED BY <1>1, <2>3
<1>13. W \in [0 .. n -> Scans]
  BY <1>8, <1>12
<1> QED BY <1>10, <1>11, <1>13 DEF ScanOf, subpaths

(* A path is cut into texts. *)
LEMMA SubpathsType ==
  ASSUME NEW p \in Text
  PROVE  subpaths(p) \in Seq(Text)
<1>1. Len(p) \in Nat /\ scanned(p)[Len(p)] \in Scans
  <2>1. Len(p) \in 0 .. Len(p) /\ Len(p) \in Nat
    BY DEF Text
  <2> QED BY <2>1, ScanLoop DEF ScanOf
<1> QED BY <1>1, ScanLoop, ClosedType

(* The beginning of a path is read without what comes behind it. *)
LEMMA ScanPrefix ==
  ASSUME NEW p \in Text, NEW q \in Text
  PROVE  \A k \in 0 .. Len(p) : scanned(p \o q)[k] = scanned(p)[k]
<1> DEFINE n == Len(p)
           f == scanned(p \o q)
           g == scanned(p)
<1>1. p \o q \in Text /\ n \in Nat /\ n <= Len(p \o q) /\ \A k \in 1 .. n : (p \o q)[k] = p[k]
  <2>1. p \o q \in Text /\ n \in Nat /\ Len(q) \in Nat /\ Len(p \o q) = Len(p) + Len(q)
    BY Concatenation DEF Text
  <2> QED BY <2>1, Concatenation DEF Text
<1>2. f[0] = Fresh /\ \A k \in 1 .. n : f[k] = Onward(f[k - 1], p[k])
  <2>1. f[0] = Fresh /\ \A k \in 1 .. Len(p \o q) : f[k] = Onward(f[k - 1], (p \o q)[k])
    BY <1>1, ScanLoop DEF ScanOf
  <2>2. \A k \in 1 .. n : k \in 1 .. Len(p \o q)
    BY <1>1
  <2> HIDE DEF f, n
  <2> QED BY <1>1, <2>1, <2>2
<1>3. g[0] = Fresh /\ \A k \in 1 .. n : g[k] = Onward(g[k - 1], p[k])
  BY ScanLoop DEF ScanOf
<1> HIDE DEF f, g
<1> DEFINE T == {k \in Nat : k <= n => f[k] = g[k]}
<1>4. 0 \in T
  BY <1>2, <1>3
<1>5. ASSUME NEW k \in Nat, k \in T PROVE k + 1 \in T
  <2> SUFFICES ASSUME k + 1 <= n PROVE f[k + 1] = g[k + 1]
    OBVIOUS
  <2>1. f[k] = g[k] /\ k + 1 \in 1 .. n /\ (k + 1) - 1 = k
    BY <1>1, <1>5
  <2> QED BY <1>2, <1>3, <2>1
<1>6. Nat \subseteq T
  <2> HIDE DEF T
  <2> QED BY <1>4, <1>5, Induction
<1>7. \A k \in 0 .. n : f[k] = g[k]
  BY <1>1, <1>6
<1> QED BY <1>7 DEF f, g

(* No name is open at its end. *)
EndsClosed(p) == p = <<>> \/ p[Len(p)] = "/"

(* Behind a slash no name is open. *)
LEMMA ScanClosed ==
  ASSUME NEW p \in Text, EndsClosed(p)
  PROVE  scanned(p)[Len(p)].name = <<>>
<1>1. CASE p = <<>>
  <2>1. Len(p) = 0 /\ scanned(p)[0] = Fresh
    BY <1>1, ScanLoop DEF ScanOf
  <2> QED BY <2>1 DEF Fresh
<1>2. CASE p # <<>> /\ p[Len(p)] = "/"
  <2>1. Len(p) \in 1 .. Len(p)
    BY <1>2 DEF Text
  <2>2. scanned(p)[Len(p)] = Onward(scanned(p)[Len(p) - 1], p[Len(p)])
    BY <2>1, ScanLoop DEF ScanOf
  <2> QED BY <1>2, <2>2 DEF Onward
<1> QED BY <1>1, <1>2 DEF EndsClosed

(* Behind a closed end the names go on as from the beginning. *)
LEMMA ScanJoin ==
  ASSUME NEW p \in Text, NEW q \in Text, EndsClosed(p)
  PROVE  LET before == scanned(p)[Len(p)].names
             f == scanned(p \o q)
             h == scanned(q)
         IN \A k \in 0 .. Len(q) :
              f[Len(p) + k].names = before \o h[k].names /\ f[Len(p) + k].name = h[k].name
<1> DEFINE n == Len(p)
           m == Len(q)
           before == scanned(p)[n].names
           f == scanned(p \o q)
           h == scanned(q)
<1>1. /\ p \o q \in Text /\ n \in Nat /\ m \in Nat /\ Len(p \o q) = n + m
      /\ \A k \in 1 .. m : (p \o q)[n + k] = q[k]
  <2>1. p \o q \in Text /\ n \in Nat /\ m \in Nat /\ Len(p \o q) = Len(p) + Len(q)
    BY Concatenation DEF Text
  <2> QED BY <2>1, Concatenation DEF Text
<1>2. before \in Seq(Text)
  <2>1. scanned(p)[n] \in Scans
    <3>1. n \in 0 .. n
      BY <1>1
    <3> QED BY <3>1, ScanLoop DEF ScanOf
  <2> QED BY <2>1, ClosedType
<1>3. f[n].names = before /\ f[n].name = <<>>
  <2>1. n \in 0 .. n
    BY <1>1
  <2> QED BY <2>1, ScanPrefix, ScanClosed
<1>4. \A k \in 1 .. m : f[n + k] = Onward(f[n + k - 1], q[k])
  <2>1. \A k \in 1 .. Len(p \o q) : f[k] = Onward(f[k - 1], (p \o q)[k])
    BY <1>1, ScanLoop DEF ScanOf
  <2>2. \A k \in 1 .. m : n + k \in 1 .. Len(p \o q)
    BY <1>1
  <2> HIDE DEF f, n, m
  <2> TAKE k \in 1 .. m
  <2>3. f[n + k] = Onward(f[n + k - 1], (p \o q)[n + k])
    BY <1>1, <2>1, <2>2
  <2> QED BY <1>1, <2>3
<1>5. h[0] = Fresh /\ (\A k \in 1 .. m : h[k] = Onward(h[k - 1], q[k])) /\ \A k \in 0 .. m : h[k] \in Scans
  BY ScanLoop DEF ScanOf
<1> HIDE DEF f, h, before, n, m
<1> DEFINE T == {k \in Nat : k <= m => f[n + k].names = before \o h[k].names /\ f[n + k].name = h[k].name}
<1>6. 0 \in T
  <2>1. before \o <<>> = before /\ n + 0 = n
    BY <1>1, <1>2
  <2>2. h[0].names = <<>> /\ h[0].name = <<>>
    BY <1>5 DEF Fresh
  <2>3. f[n + 0].names = before \o h[0].names /\ f[n + 0].name = h[0].name
    BY <1>3, <2>1, <2>2
  <2> QED BY <2>3
<1>7. ASSUME NEW k \in Nat, k \in T PROVE k + 1 \in T
  <2> SUFFICES ASSUME k + 1 <= m
               PROVE  f[n + (k + 1)].names = before \o h[k + 1].names /\ f[n + (k + 1)].name = h[k + 1].name
    OBVIOUS
  <2> DEFINE x == f[n + k]
             y == h[k]
  <2>1. x.names = before \o y.names /\ x.name = y.name /\ y \in Scans
    BY <1>1, <1>5, <1>7
  <2>2. f[n + (k + 1)] = Onward(x, q[k + 1]) /\ h[k + 1] = Onward(y, q[k + 1])
    <3>1. k + 1 \in 1 .. m /\ n + (k + 1) - 1 = n + k /\ (k + 1) - 1 = k
      BY <1>1
    <3> QED BY <1>4, <1>5, <3>1
  <2> HIDE DEF x, y
  <2>3. closed(x) = before \o closed(y)
    <3>1. y.names \in Seq(Text) /\ y.name \in Text
      BY <2>1, ClosedType
    <3>2. Append(before \o y.names, y.name) = before \o Append(y.names, y.name)
      <4>1. \A a, b \in Seq(Text) : \A t \in Text : Append(a \o b, t) = a \o Append(b, t)
        OBVIOUS
      <4> QED BY <1>2, <3>1, <4>1
    <3> QED BY <2>1, <3>2 DEF closed
  <2> QED BY <2>1, <2>2, <2>3 DEF Onward
<1>8. Nat \subseteq T
  <2> HIDE DEF T
  <2> QED BY <1>6, <1>7, Induction
<1>9. \A k \in 0 .. m : f[n + k].names = before \o h[k].names /\ f[n + k].name = h[k].name
  BY <1>1, <1>8
<1> QED BY <1>9 DEF f, h, before, n, m

(* Two paths, the first of which ends with a slash. *)
LEMMA JoinClosed ==
  ASSUME NEW p \in Text, NEW q \in Text, EndsClosed(p)
  PROVE  subpaths(p \o q) = subpaths(p) \o subpaths(q)
<1> DEFINE before == scanned(p)[Len(p)].names
           x == scanned(p \o q)[Len(p) + Len(q)]
           y == scanned(q)[Len(q)]
<1>1. p \o q \in Text /\ Len(p) \in Nat /\ Len(q) \in Nat /\ Len(p \o q) = Len(p) + Len(q)
  BY Concatenation DEF Text
<1>2. x.names = before \o y.names /\ x.name = y.name
  <2>1. Len(q) \in 0 .. Len(q)
    BY <1>1
  <2> QED BY <2>1, ScanJoin
<1>3. y \in Scans /\ scanned(p)[Len(p)] \in Scans
  <2>1. Len(q) \in 0 .. Len(q) /\ Len(p) \in 0 .. Len(p)
    BY <1>1
  <2> QED BY <2>1, ScanLoop DEF ScanOf
<1>4. subpaths(p) = before
  BY <1>3, ScanClosed, ScanLoop, ClosedType
<1>5. subpaths(p \o q) = closed(x) /\ subpaths(q) = closed(y)
  BY <1>1, ScanLoop
<1>6. before \in Seq(Text) /\ y.names \in Seq(Text) /\ y.name \in Text
  BY <1>3, ClosedType
<1> HIDE DEF before, x, y
<1>7. Append(before \o y.names, y.name) = before \o Append(y.names, y.name)
  <2>1. \A a, b \in Seq(Text) : \A t \in Text : Append(a \o b, t) = a \o Append(b, t)
    OBVIOUS
  <2> QED BY <1>6, <2>1
<1> QED BY <1>2, <1>4, <1>5, <1>7 DEF closed

(* A slash behind a path adds no name. *)
LEMMA SlashBehind ==
  ASSUME NEW p \in Text
  PROVE  Append(p, "/") \in Text /\ subpaths(Append(p, "/")) = subpaths(p)
<1> DEFINE q == p \o <<"/">>
           x == scanned(p)[Len(p)]
<1>1. /\ q = Append(p, "/") /\ q \in Text /\ Len(p) \in Nat /\ Len(q) = Len(p) + 1
      /\ q[Len(q)] = "/" /\ <<"/">> \in Text
  <2>1. "/" \in Characters /\ <<"/">> \in Text
    <3>1. "/" \in Characters
      BY DEF Characters
    <3>2. \A S : \A c \in S : <<c>> \in Seq(S)
      OBVIOUS
    <3> QED BY <3>1, <3>2 DEF Text
  <2>2. q = Append(p, "/")
    BY <2>1 DEF Text
  <2>3. Append(p, "/") \in Text /\ Len(Append(p, "/")) = Len(p) + 1 /\ Len(p) \in Nat
        /\ Append(p, "/")[Len(p) + 1] = "/"
    BY <2>1 DEF Text
  <2> HIDE DEF q
  <2> QED BY <2>1, <2>2, <2>3
<1>2. Len(p) \in 0 .. Len(p) /\ Len(q) \in 1 .. Len(q) /\ Len(q) - 1 = Len(p)
  BY <1>1
<1>3. x \in Scans /\ subpaths(p) = closed(x)
  BY <1>2, ScanLoop DEF ScanOf
<1>4. scanned(q)[Len(p)] = x
  BY <1>1, <1>2, ScanPrefix
<1>5. /\ scanned(q)[Len(q)] = Onward(scanned(q)[Len(q) - 1], q[Len(q)])
      /\ subpaths(q) = closed(scanned(q)[Len(q)])
  <2> HIDE DEF q
  <2> QED BY <1>1, <1>2, ScanLoop DEF ScanOf
<1> HIDE DEF q, x
<1>6. scanned(q)[Len(q)] = Onward(x, "/")
  BY <1>1, <1>2, <1>4, <1>5
<1>7. subpaths(q) = closed(x)
  <2> DEFINE z == [names |-> closed(x), name |-> <<>>]
  <2>1. scanned(q)[Len(q)] = z
    BY <1>6 DEF Onward
  <2>2. z.name = <<>> /\ z.names = closed(x)
    OBVIOUS
  <2>3. closed(z) = z.names
    <3> HIDE DEF z
    <3> QED BY <2>2 DEF closed
  <2> HIDE DEF z
  <2> QED BY <1>5, <2>1, <2>2, <2>3
<1> QED BY <1>1, <1>3, <1>7

(* Short paths. *)
LEMMA OneCharacter ==
  ASSUME NEW c \in Characters
  PROVE  <<c>> \in Text /\ Len(<<c>>) = 1 /\ <<c>>[1] = c
<1>1. \A S : \A x \in S : <<x>> \in Seq(S)
  OBVIOUS
<1> QED BY <1>1 DEF Text

LEMMA ASlash == <<"/">> \in Text /\ EndsClosed(<<"/">>) /\ subpaths(<<"/">>) = <<>>
<1>1. "/" \in Characters
  BY DEF Characters
<1>2. <<"/">> \in Text /\ Len(<<"/">>) = 1 /\ <<"/">>[1] = "/"
  BY <1>1, OneCharacter
<1>3. <<>> \in Text /\ Append(<<>>, "/") = <<"/">>
  BY DEF Text
<1>4. subpaths(<<"/">>) = subpaths(<<>>)
  BY <1>3, SlashBehind
<1>5. subpaths(<<>>) = <<>>
  <2>1. scanned(<<>>)[0] = Fresh /\ Len(<<>>) = 0
    BY <1>3, ScanLoop DEF ScanOf
  <2>2. Fresh.names = <<>> /\ Fresh.name = <<>>
    BY DEF Fresh
  <2>3. subpaths(<<>>) = closed(Fresh)
    BY <1>3, <2>1, ScanLoop
  <2> QED BY <2>2, <2>3 DEF closed
<1> QED BY <1>2, <1>4, <1>5 DEF EndsClosed

(* What has no slash is one name. *)
LEMMA OneName ==
  ASSUME NEW p \in Text, \A k \in 1 .. Len(p) : p[k] # "/"
  PROVE  subpaths(p) = IF p = <<>> THEN <<>> ELSE <<p>>
<1> DEFINE n == Len(p)
           f == scanned(p)
<1>1. n \in Nat
  BY DEF Text
<1>2. f[0] = Fresh /\ \A k \in 1 .. n : f[k] = [names |-> f[k - 1].names, name |-> Append(f[k - 1].name, p[k])]
  BY ScanLoop DEF ScanOf, Onward
<1>3. \A k \in 0 .. n : SubSeq(p, 1, k) \in Text /\ Len(SubSeq(p, 1, k)) = k
  BY <1>1, Prefix DEF Text
<1>4. \A k \in 0 .. (n - 1) : SubSeq(p, 1, k + 1) = Append(SubSeq(p, 1, k), p[k + 1])
  BY DEF Text
<1>5. SubSeq(p, 1, 0) = <<>> /\ SubSeq(p, 1, n) = p
  BY DEF Text
<1> HIDE DEF f
<1> DEFINE T == {k \in Nat : k <= n => f[k].names = <<>> /\ f[k].name = SubSeq(p, 1, k)}
<1>6. 0 \in T
  <2>1. f[0].names = <<>> /\ f[0].name = <<>>
    BY <1>2 DEF Fresh
  <2> QED BY <1>5, <2>1
<1>7. ASSUME NEW k \in Nat, k \in T PROVE k + 1 \in T
  <2> SUFFICES ASSUME k + 1 <= n PROVE f[k + 1].names = <<>> /\ f[k + 1].name = SubSeq(p, 1, k + 1)
    OBVIOUS
  <2>1. f[k].names = <<>> /\ f[k].name = SubSeq(p, 1, k)
    BY <1>1, <1>7
  <2>2. f[k + 1] = [names |-> f[k].names, name |-> Append(f[k].name, p[k + 1])]
    <3>1. k + 1 \in 1 .. n /\ (k + 1) - 1 = k
      BY <1>1
    <3> QED BY <1>2, <3>1
  <2>3. SubSeq(p, 1, k + 1) = Append(SubSeq(p, 1, k), p[k + 1])
    BY <1>1, <1>4
  <2> QED BY <2>1, <2>2, <2>3
<1>8. Nat \subseteq T
  <2> HIDE DEF T
  <2> QED BY <1>6, <1>7, Induction
<1>9. f[n].names = <<>> /\ f[n].name = p
  BY <1>1, <1>5, <1>8
<1>10. subpaths(p) = closed(f[n])
  BY ScanLoop DEF f
<1>11. Append(<<>>, p) = <<p>>
  BY DEF Text
<1> QED BY <1>9, <1>10, <1>11 DEF closed

(* A character that is no slash is part of a name. *)
LEMMA SomeName ==
  ASSUME NEW p \in Text, NEW i \in 1 .. Len(p), p[i] # "/"
  PROVE  subpaths(p) # <<>>
<1> DEFINE n == Len(p)
           f == scanned(p)
           some(t) == t.names # <<>> \/ t.name # <<>>
<1>1. n \in Nat /\ i \in Nat /\ \A k \in 1 .. n : p[k] \in Characters
  BY DEF Text
<1>2. (\A k \in 1 .. n : f[k] = Onward(f[k - 1], p[k])) /\ \A k \in 0 .. n : f[k] \in Scans
  BY ScanLoop DEF ScanOf
<1>3. ASSUME NEW t \in Scans, NEW c \in Characters, c # "/" \/ some(t)
      PROVE  some(Onward(t, c))
  <2>1. t.names \in Seq(Text) /\ t.name \in Text
    BY ClosedType
  <2>2. CASE c = "/"
    <3>1. closed(t) # <<>>
      <4>1. Append(t.names, t.name) # <<>>
        BY <2>1, AppendSome
      <4> QED BY <1>3, <2>2, <4>1 DEF closed
    <3> QED BY <2>2, <3>1 DEF Onward
  <2>3. CASE c # "/"
    <3>1. Append(t.name, c) # <<>>
      BY <2>1, AppendSome DEF Text
    <3> QED BY <2>3, <3>1 DEF Onward
  <2> QED BY <2>2, <2>3
<1> HIDE DEF f, some
<1> DEFINE T == {k \in Nat : i + k <= n => some(f[i + k])}
<1>4. 0 \in T
  <2>1. f[i] = Onward(f[i - 1], p[i]) /\ f[i - 1] \in Scans /\ p[i] \in Characters
    BY <1>1, <1>2
  <2>2. some(f[i]) /\ i + 0 = i
    BY <1>1, <1>3, <2>1
  <2> QED BY <2>2
<1>5. ASSUME NEW k \in Nat, k \in T PROVE k + 1 \in T
  <2> SUFFICES ASSUME i + (k + 1) <= n PROVE some(f[i + (k + 1)])
    OBVIOUS
  <2>1. some(f[i + k])
    BY <1>1, <1>5
  <2>2. i + (k + 1) \in 1 .. n /\ i + (k + 1) - 1 = i + k /\ i + k \in 0 .. n
    BY <1>1
  <2>3. f[i + (k + 1)] = Onward(f[i + k], p[i + (k + 1)]) /\ f[i + k] \in Scans /\ p[i + (k + 1)] \in Characters
    BY <1>1, <1>2, <2>2
  <2> QED BY <1>3, <2>1, <2>3
<1>6. Nat \subseteq T
  <2> HIDE DEF T
  <2> QED BY <1>4, <1>5, Induction
<1>7. some(f[n]) /\ f[n] \in Scans
  <2>1. n - i \in Nat /\ i + (n - i) = n /\ n \in 0 .. n
    BY <1>1
  <2>2. n - i \in T
    BY <1>6, <2>1
  <2>3. i + (n - i) <= n => some(f[i + (n - i)])
    BY <2>2
  <2> QED BY <1>1, <1>2, <2>1, <2>3
<1>8. Append(f[n].names, f[n].name) # <<>>
  <2>1. f[n].names \in Seq(Text)
    BY <1>7, ClosedType
  <2>2. \A s \in Seq(Text) : \A x : Append(s, x) # <<>>
    OBVIOUS
  <2> QED BY <2>1, <2>2
<1>9. subpaths(p) = closed(f[n])
  BY ScanLoop DEF f
<1> QED BY <1>7, <1>8, <1>9 DEF some, closed

(* A slash between two paths keeps their names apart. *)
LEMMA JoinAtSlash ==
  ASSUME NEW p \in Text, NEW q \in Text, EndsClosed(p) \/ (q # <<>> /\ q[1] = "/")
  PROVE  subpaths(p \o q) = subpaths(p) \o subpaths(q)
<1>1. CASE EndsClosed(p)
  BY <1>1, JoinClosed
<1>2. CASE q # <<>> /\ q[1] = "/"
  <2> DEFINE t == Tail(q)
             r == Append(p, "/")
  <2>1. t \in Text /\ q = <<"/">> \o t
    BY <1>2 DEF Text
  <2>2. r \in Text /\ subpaths(r) = subpaths(p)
    BY SlashBehind
  <2>3. EndsClosed(r)
    <3>1. Len(r) = Len(p) + 1 /\ r[Len(p) + 1] = "/"
      BY DEF Text
    <3> QED BY <3>1 DEF EndsClosed
  <2> HIDE DEF t
  <2>4. p \o q = r \o t
    <3>1. p \o (<<"/">> \o t) = Append(p, "/") \o t
      BY <2>1 DEF Text
    <3> QED BY <2>1, <3>1
  <2>5. subpaths(r \o t) = subpaths(p) \o subpaths(t)
    <3> HIDE DEF r
    <3> QED BY <2>1, <2>2, <2>3, JoinClosed
  <2>6. subpaths(q) = <<>> \o subpaths(t)
    BY <2>1, ASlash, JoinClosed
  <2>7. <<>> \o subpaths(t) = subpaths(t)
    BY <2>1, SubpathsType
  <2> QED BY <2>4, <2>5, <2>6, <2>7
<1> QED BY <1>1, <1>2

(* A path on the volume, and the names in it below the volume's. *)
OnVolume(p) ==
  /\ p \in Text /\ Len(p) >= 2 /\ p[1] = "/" /\ p[2] = "root"
  /\ Head(subpaths(p)) = <<"root">>
Below(p) == Tail(subpaths(p))

(* The first element and the others. *)
LEMMA HeadTail ==
  ASSUME NEW S, NEW a \in Seq(S), a # <<>>
  PROVE  /\ Head(a) \in S /\ Head(a) = a[1] /\ Tail(a) \in Seq(S)
         /\ Len(Tail(a)) = Len(a) - 1 /\ \A b \in Seq(S) : Head(a \o b) = Head(a) /\ Tail(a \o b) = Tail(a) \o b
         /\ \A b \in Seq(S) : a \o b # <<>>
<1>1. Head(a) \in S /\ Head(a) = a[1] /\ Tail(a) \in Seq(S) /\ Len(Tail(a)) = Len(a) - 1
  OBVIOUS
<1>2. \A b \in Seq(S) : Head(a \o b) = Head(a)
  OBVIOUS
<1>3. \A b \in Seq(S) : a \o b # <<>>
  OBVIOUS
<1>4. \A b \in Seq(S) : Tail(a \o b) = Tail(a) \o b
  OBVIOUS
<1> QED BY <1>1, <1>2, <1>3, <1>4

(* They are names, and the volume is found. *)
LEMMA BelowType ==
  ASSUME NEW p, OnVolume(p)
  PROVE  /\ subpaths(p) \in Seq(Text) /\ subpaths(p) # <<>>
         /\ Below(p) \in Seq(Text) /\ volume(p)
<1>1. p \in Text /\ 2 \in 1 .. Len(p) /\ p[2] # "/"
  <2>1. Len(p) \in Nat
    BY DEF OnVolume, Text
  <2> QED BY <2>1 DEF OnVolume
<1>2. subpaths(p) \in Seq(Text) /\ subpaths(p) # <<>>
  BY <1>1, SubpathsType, SomeName
<1>3. Below(p) \in Seq(Text)
  BY <1>2, HeadTail DEF Below
<1> QED BY <1>2, <1>3 DEF OnVolume, volume

(* A path goes on below where it was. *)
LEMMA JoinOnVolume ==
  ASSUME NEW p, OnVolume(p), NEW q \in Text, EndsClosed(p) \/ (q # <<>> /\ q[1] = "/")
  PROVE  OnVolume(p \o q) /\ Below(p \o q) = Below(p) \o subpaths(q)
<1>1. p \in Text /\ Len(p) >= 2 /\ p[1] = "/" /\ p[2] = "root"
  BY DEF OnVolume
<1>2. p \o q \in Text /\ Len(p \o q) >= 2 /\ (p \o q)[1] = "/" /\ (p \o q)[2] = "root"
  <2>1. p \o q \in Text /\ Len(p \o q) = Len(p) + Len(q) /\ Len(p) \in Nat /\ Len(q) \in Nat
    BY <1>1, Concatenation DEF Text
  <2>2. \A i \in 1 .. Len(p) : (p \o q)[i] = p[i]
    BY <1>1, Concatenation DEF Text
  <2> QED BY <1>1, <2>1, <2>2
<1>3. subpaths(p \o q) = subpaths(p) \o subpaths(q)
  BY <1>1, JoinAtSlash
<1>4. subpaths(p) \in Seq(Text) /\ subpaths(p) # <<>> /\ subpaths(q) \in Seq(Text)
  BY BelowType, SubpathsType
<1>5. /\ Head(subpaths(p) \o subpaths(q)) = Head(subpaths(p))
      /\ Tail(subpaths(p) \o subpaths(q)) = Tail(subpaths(p)) \o subpaths(q)
  BY <1>4, HeadTail
<1> QED BY <1>2, <1>3, <1>5 DEF OnVolume, Below

(* "/root" is the root of the volume. *)
LEMMA PrefixOnVolume == OnVolume(VOLUME_PREFIX) /\ Below(VOLUME_PREFIX) = <<>>
<1> DEFINE v == VOLUME_PREFIX
           r == <<"root">>
<1>1. "root" \in Characters /\ "/" \in Characters
  BY DEF Characters
<1>2. r \in Text /\ Len(r) = 1 /\ r[1] = "root"
  BY <1>1, OneCharacter
<1>3. v = <<"/">> \o r /\ v \in Text /\ Len(v) = 2 /\ v[1] = "/" /\ v[2] = "root"
  <2>1. v \in Text
    BY <1>1, TwoInSeq DEF Text, VOLUME_PREFIX
  <2>2. v = <<"/">> \o r
    <3> DEFINE w == <<"/">> \o r
    <3>1. w \in Text /\ Len(w) = 2 /\ w[1] = "/" /\ w[2] = "root"
      <4>1. <<"/">> \in Seq(Characters) /\ r \in Seq(Characters) /\ Len(<<"/">>) = 1 /\ <<"/">>[1] = "/"
        BY <1>1, <1>2, OneCharacter DEF Text
      <4> DEFINE a == <<"/">>
      <4> HIDE DEF a, r
      <4>2. 1 \in 1 .. Len(a) /\ 1 \in 1 .. Len(r) /\ Len(a) + 1 = 2 /\ Len(a) + Len(r) = 2
        BY <1>2, <4>1 DEF a
      <4>3. (a \o r)[1] = a[1] /\ (a \o r)[Len(a) + 1] = r[1] /\ Len(a \o r) = Len(a) + Len(r)
            /\ a \o r \in Seq(Characters)
        BY <4>1, <4>2, Concatenation DEF a
      <4> QED BY <1>2, <4>1, <4>2, <4>3 DEF a, Text
    <3>2. Len(v) = 2 /\ v[1] = "/" /\ v[2] = "root"
      BY DEF VOLUME_PREFIX
    <3> HIDE DEF v, w
    <3>3. \A i \in 1 .. 2 : v[i] = w[i]
      BY <3>1, <3>2
    <3> QED BY <2>1, <3>1, <3>2, <3>3, SameSequence DEF Text, w
  <2>3. Len(v) = 2 /\ v[1] = "/" /\ v[2] = "root"
    BY DEF VOLUME_PREFIX
  <2> QED BY <2>1, <2>2, <2>3
<1>4. subpaths(r) = <<r>>
  <2>1. \A k \in 1 .. Len(r) : r[k] # "/"
    BY <1>2
  <2>2. r # <<>>
    OBVIOUS
  <2> HIDE DEF r
  <2> QED BY <1>2, <2>1, <2>2, OneName
<1>5. subpaths(v) = <<r>>
  <2> HIDE DEF v, r
  <2>1. subpaths(v) = <<>> \o <<r>>
    BY <1>2, <1>3, <1>4, ASlash, JoinClosed
  <2>2. <<>> \o <<r>> = <<r>>
    OBVIOUS
  <2> QED BY <2>1, <2>2
<1>6. Head(<<r>>) = r /\ Tail(<<r>>) = <<>>
  OBVIOUS
<1> HIDE DEF v
<1>7. Head(subpaths(v)) = r /\ Tail(subpaths(v)) = <<>> /\ Len(v) >= 2
  <2>1. Len(v) >= 2
    BY <1>3
  <2> HIDE DEF r
  <2>2. Head(subpaths(v)) = r
    BY <1>5, <1>6
  <2>3. Tail(subpaths(v)) = <<>>
    BY <1>5, <1>6
  <2> QED BY <2>1, <2>2, <2>3
<1>8. OnVolume(v) /\ Below(v) = <<>>
  BY <1>3, <1>7 DEF OnVolume, Below
<1> QED BY <1>8 DEF v

(* cat, touch, mkdir, echo and cd: a name under the current path. *)
LEMMA BuildPath ==
  ASSUME OnVolume(g_cwd), NEW name \in Text
  PROVE  /\ OnVolume(build_path(name))
         /\ Below(build_path(name)) = Below(g_cwd) \o subpaths(name)
<1>1. g_cwd \in Text /\ Len(g_cwd) \in Nat /\ Len(g_cwd) >= 2 /\ g_cwd # <<>>
  BY DEF OnVolume, Text
<1>2. Last(g_cwd) = g_cwd[Len(g_cwd)]
  BY DEF Last
<1>3. CASE g_cwd[Len(g_cwd)] # "/"
  <2>1. build_path(name) = (g_cwd \o <<"/">>) \o name
    BY <1>2, <1>3 DEF build_path
  <2>2. <<"/">> \in Text /\ <<"/">> # <<>> /\ <<"/">>[1] = "/" /\ subpaths(<<"/">>) = <<>>
    BY ASlash
  <2> DEFINE p == g_cwd \o <<"/">>
  <2>3. OnVolume(p) /\ Below(p) = Below(g_cwd) \o <<>>
    BY <2>2, JoinOnVolume
  <2>4. Below(p) = Below(g_cwd)
    BY <2>3, BelowType
  <2>5. EndsClosed(p)
    <3>1. Len(p) = Len(g_cwd) + 1 /\ p[Len(g_cwd) + 1] = "/"
      BY <1>1 DEF Text
    <3> QED BY <3>1 DEF EndsClosed
  <2> HIDE DEF p
  <2>6. OnVolume(p \o name) /\ Below(p \o name) = Below(p) \o subpaths(name)
    BY <2>3, <2>5, JoinOnVolume
  <2> QED BY <2>1, <2>4, <2>6 DEF p
<1>4. CASE g_cwd[Len(g_cwd)] = "/"
  <2>1. build_path(name) = (g_cwd \o <<>>) \o name
    BY <1>2, <1>4 DEF build_path
  <2>2. g_cwd \o <<>> = g_cwd
    BY <1>1 DEF Text
  <2>3. EndsClosed(g_cwd)
    BY <1>4 DEF EndsClosed
  <2> QED BY <2>1, <2>2, <2>3, JoinOnVolume
<1> QED BY <1>3, <1>4

(* cd: a path from the root. *)
LEMMA RootPath ==
  ASSUME NEW name \in Text, name # <<>>, name[1] = "/"
  PROVE  /\ OnVolume(VOLUME_PREFIX \o name)
         /\ Below(VOLUME_PREFIX \o name) = subpaths(name)
<1>1. Below(VOLUME_PREFIX \o name) = <<>> \o subpaths(name)
  BY PrefixOnVolume, JoinOnVolume
<1>2. <<>> \o subpaths(name) = subpaths(name)
  BY SubpathsType
<1> QED BY <1>1, <1>2, PrefixOnVolume, JoinOnVolume

-----------------------------------------------------------------------------
(* The first and the last place. *)

LEMMA MinIn ==
  ASSUME NEW n \in Nat, NEW I \in SUBSET (1 .. n), I # {}
  PROVE  Min(I) \in I /\ \A j \in I : Min(I) <= j
<1>1. I \in SUBSET Nat
  OBVIOUS
<1>2. \E m \in I : \A k \in I : m <= k
  BY <1>1, LeastNat
<1> QED BY <1>2 DEF Min

LEMMA MaxIn ==
  ASSUME NEW n \in Nat, NEW I \in SUBSET (1 .. n), I # {}
  PROVE  Max(I) \in I /\ \A j \in I : j <= Max(I)
<1> DEFINE T == {n - k : k \in I}
<1>0. \A k \in I : k \in Nat /\ k \in 1 .. n /\ n - k \in Nat
  <2> TAKE k \in I
  <2>1. k \in 1 .. n
    OBVIOUS
  <2> QED BY <2>1
<1>1. T \in SUBSET Nat /\ T # {}
  BY <1>0
<1>2. PICK m \in T : \A k \in T : m <= k
  <2> HIDE DEF T
  <2> QED BY <1>1, LeastNat
<1>3. PICK i \in I : m = n - i
  BY <1>2
<1>4. \A k \in I : i >= k
  <2> TAKE k \in I
  <2>1. m <= n - k
    BY <1>2
  <2>2. k \in Nat /\ i \in Nat
    BY <1>0
  <2> QED BY <1>3, <2>1, <2>2
<1>5. \E x \in I : \A y \in I : x >= y
  BY <1>4
<1>6. Max(I) \in I /\ \A y \in I : Max(I) >= y
  BY <1>5 DEF Max
<1> QED BY <1>0, <1>6

(* The last slash. *)
LEMMA LastSlash ==
  ASSUME NEW s \in Text, NEW i \in 1 .. Len(s), s[i] = "/"
  PROVE  LET k == SelectLastInSeq(s, LAMBDA c : c = "/") IN
         k \in 1 .. Len(s) /\ s[k] = "/" /\ \A j \in 1 .. Len(s) : k < j => s[j] # "/"
<1> DEFINE I == {j \in 1 .. Len(s) : s[j] = "/"}
           k == SelectLastInSeq(s, LAMBDA c : c = "/")
<1>1. Len(s) \in Nat
  BY DEF Text
<1>2. I \in SUBSET (1 .. Len(s)) /\ I # {}
  OBVIOUS
<1>3. k = Max(I)
  BY DEF SelectLastInSeq
<1>4. Max(I) \in I /\ \A j \in I : j <= Max(I)
  <2> HIDE DEF I
  <2> QED BY <1>1, <1>2, MaxIn
<1> HIDE DEF k
<1>5. k \in 1 .. Len(s) /\ s[k] = "/" /\ \A j \in 1 .. Len(s) : s[j] = "/" => j <= k
  BY <1>3, <1>4
<1>6. \A j \in 1 .. Len(s) : k < j => s[j] # "/"
  BY <1>1, <1>5
<1> QED BY <1>5, <1>6 DEF k

(* A path is cut at a slash. *)
LEMMA CutAt ==
  ASSUME NEW s \in Text, NEW k \in 1 .. Len(s), s[k] = "/"
  PROVE  LET u == SubSeq(s, 1, k - 1)
             w == SubSeq(s, k + 1, Len(s))
         IN /\ u \in Text /\ w \in Text /\ Len(u) = k - 1 /\ Len(w) = Len(s) - k
            /\ \A j \in 1 .. (k - 1) : u[j] = s[j]
            /\ \A j \in 1 .. Len(w) : w[j] = s[k + j]
            /\ subpaths(s) = subpaths(u) \o subpaths(w)
<1> DEFINE u == SubSeq(s, 1, k - 1)
           w == SubSeq(s, k + 1, Len(s))
<1>1. Len(s) \in Nat /\ k \in Nat /\ k - 1 \in Nat /\ k - 1 <= Len(s)
  BY DEF Text
<1>2. u \in Text /\ Len(u) = k - 1 /\ \A j \in 1 .. (k - 1) : u[j] = s[j]
  BY <1>1, Prefix DEF Text
<1>3. w \in Text /\ Len(w) = Len(s) - k /\ \A j \in 1 .. Len(w) : w[j] = s[k + j]
  BY <1>1 DEF Text
<1> HIDE DEF u, w
<1>4. s = Append(u, "/") \o w
  <2> DEFINE v == Append(u, "/")
             x == v \o w
  <2>1. v \in Text /\ Len(v) = k /\ v[k] = "/" /\ \A j \in 1 .. (k - 1) : v[j] = u[j]
    <3>1. "/" \in Characters
      BY DEF Characters
    <3> QED BY <1>1, <1>2, <3>1 DEF Text
  <2> HIDE DEF v
  <2>2. x \in Text /\ Len(x) = Len(v) + Len(w)
        /\ (\A j \in 1 .. Len(v) : x[j] = v[j]) /\ \A j \in 1 .. Len(w) : x[Len(v) + j] = w[j]
    <3>1. v \in Seq(Characters) /\ w \in Seq(Characters)
      BY <1>3, <2>1 DEF Text
    <3>2. \A a, b \in Seq(Characters) :
            /\ a \o b \in Seq(Characters) /\ Len(a \o b) = Len(a) + Len(b)
            /\ \A j \in 1 .. Len(a) : (a \o b)[j] = a[j]
            /\ \A j \in 1 .. Len(b) : (a \o b)[Len(a) + j] = b[j]
      BY Concatenation
    <3> QED BY <3>1, <3>2 DEF Text
  <2> HIDE DEF x
  <2>3. \A j \in 1 .. Len(s) : s[j] = x[j]
    <3> TAKE j \in 1 .. Len(s)
    <3>1. CASE j < k
      <4>1. j \in 1 .. (k - 1) /\ j \in 1 .. Len(v)
        BY <1>1, <2>1, <3>1
      <4> QED BY <1>2, <2>1, <2>2, <4>1
    <3>2. CASE j = k
      <4>1. j \in 1 .. Len(v)
        BY <1>1, <2>1, <3>2
      <4> QED BY <2>1, <2>2, <3>2, <4>1
    <3>3. CASE j > k
      <4>1. j - k \in 1 .. Len(w) /\ Len(v) + (j - k) = j /\ k + (j - k) = j
        BY <1>1, <1>3, <2>1, <3>3
      <4>2. x[Len(v) + (j - k)] = w[j - k] /\ w[j - k] = s[k + (j - k)]
        BY <1>3, <2>2, <4>1
      <4> QED BY <4>1, <4>2
    <3> QED BY <1>1, <3>1, <3>2, <3>3
  <2>4. Len(s) = Len(x)
    BY <1>1, <1>3, <2>1, <2>2
  <2> QED BY <2>2, <2>3, <2>4, SameSequence DEF Text, v, x
<1>5. Append(u, "/") \in Text /\ subpaths(Append(u, "/")) = subpaths(u)
  BY <1>2, SlashBehind
<1>6. EndsClosed(Append(u, "/"))
  <2>1. Len(Append(u, "/")) = Len(u) + 1 /\ Append(u, "/")[Len(u) + 1] = "/"
    BY <1>2 DEF Text
  <2> QED BY <2>1 DEF EndsClosed
<1>7. subpaths(s) = subpaths(u) \o subpaths(w)
  BY <1>3, <1>4, <1>5, <1>6, JoinClosed
<1> QED BY <1>2, <1>3, <1>7 DEF u, w

(* Where cd ".." leads: to the directory above, or nowhere. *)
Doubled(p) == p[Len(p)] = "/" /\ p[Len(p) - 1] = "/"

LEMMA UpLeads ==
  ASSUME OnVolume(g_cwd)
  PROVE  /\ OnVolume(up)
         /\ Below(g_cwd) = <<>> => Below(up) = <<>>
         /\ Doubled(g_cwd) => Below(up) = Below(g_cwd)
         /\ Below(g_cwd) # <<>> /\ ~Doubled(g_cwd) =>
              \E n \in Text : Below(g_cwd) = Append(Below(up), n)
<1> DEFINE g == g_cwd
           s == IF Last(g_cwd) = "/" THEN Front(g_cwd) ELSE g_cwd
           k == SelectLastInSeq(s, LAMBDA c : c = "/")
           u == SubSeq(s, 1, k - 1)
           w == SubSeq(s, k + 1, Len(s))
<1>1. g \in Text /\ Len(g) \in Nat /\ Len(g) >= 2 /\ g[1] = "/" /\ g[2] = "root"
  BY DEF OnVolume, Text
<1>2. /\ s \in Text /\ Len(s) \in Nat /\ Len(s) >= 2 /\ s[1] = "/" /\ s[2] = "root"
      /\ subpaths(s) = subpaths(g)
      /\ s[Len(s)] = "/" <=> Doubled(g)
  <2>1. Last(g_cwd) = g[Len(g)]
    BY DEF Last
  <2>2. CASE g[Len(g)] # "/"
    <3>1. s = g
      BY <2>1, <2>2
    <3>2. ~Doubled(g)
      BY <2>2 DEF Doubled
    <3> HIDE DEF s, g
    <3> QED BY <1>1, <2>2, <3>1, <3>2
  <2>3. CASE g[Len(g)] = "/"
    <3> DEFINE f == SubSeq(g, 1, Len(g) - 1)
    <3>1. s = f
      BY <2>1, <2>3 DEF Front
    <3>2. Len(g) >= 3
      BY <1>1, <2>3
    <3>3. f \in Text /\ Len(f) = Len(g) - 1 /\ \A i \in 1 .. (Len(g) - 1) : f[i] = g[i]
      BY <1>1, Prefix DEF Text
    <3>4. g = Append(f, "/")
      <4>1. g = Append(SubSeq(g, 1, Len(g) - 1), g[Len(g)])
        BY <1>1, <3>2 DEF Text
      <4> QED BY <2>3, <4>1
    <3>5. Doubled(g) <=> f[Len(f)] = "/"
      <4>1. f[Len(f)] = g[Len(g) - 1]
        BY <1>1, <3>2, <3>3
      <4> QED BY <2>3, <4>1 DEF Doubled
    <3> HIDE DEF f, s, g
    <3>6. subpaths(g) = subpaths(f)
      BY <3>3, <3>4, SlashBehind
    <3>7. Len(f) \in Nat /\ Len(f) >= 2 /\ f[1] = "/" /\ f[2] = "root"
      <4>1. 1 \in 1 .. (Len(g) - 1) /\ 2 \in 1 .. (Len(g) - 1)
        BY <1>1, <3>2
      <4> QED BY <1>1, <3>2, <3>3, <4>1
    <3> QED BY <3>1, <3>3, <3>5, <3>6, <3>7
  <2> QED BY <2>2, <2>3
<1>3. k \in 1 .. Len(s) /\ s[k] = "/" /\ \A j \in 1 .. Len(s) : k < j => s[j] # "/"
  <2>1. 1 \in 1 .. Len(s)
    BY <1>2
  <2> HIDE DEF s
  <2> QED BY <1>2, <2>1, LastSlash
<1>4. up = IF k <= 3 THEN VOLUME_PREFIX ELSE u
  <2>1. Len(VOLUME_PREFIX) + 1 = 3
    BY DEF VOLUME_PREFIX
  <2> QED BY <2>1 DEF up
<1> HIDE DEF s, k
<1>5. /\ u \in Text /\ w \in Text /\ Len(u) = k - 1 /\ Len(w) = Len(s) - k
      /\ \A j \in 1 .. (k - 1) : u[j] = s[j]
      /\ \A j \in 1 .. Len(w) : w[j] = s[k + j]
      /\ subpaths(s) = subpaths(u) \o subpaths(w)
  BY <1>2, <1>3, CutAt
<1> HIDE DEF u, w
<1>6. subpaths(w) = IF w = <<>> THEN <<>> ELSE <<w>>
  <2>1. \A j \in 1 .. Len(w) : k + j \in 1 .. Len(s) /\ k < k + j
    BY <1>2, <1>3, <1>5
  <2>2. \A j \in 1 .. Len(w) : w[j] # "/"
    BY <1>3, <1>5, <2>1
  <2> QED BY <1>5, <2>2, OneName
<1>7. w = <<>> <=> Doubled(g)
  <2>1. w = <<>> <=> k = Len(s)
    <3>1. w = <<>> <=> Len(w) = 0
      BY <1>5 DEF Text
    <3> QED BY <1>2, <1>3, <1>5, <3>1
  <2>2. k = Len(s) <=> s[Len(s)] = "/"
    <3>1. Len(s) \in 1 .. Len(s)
      BY <1>2
    <3> QED BY <1>2, <1>3, <3>1
  <2> QED BY <1>2, <2>1, <2>2
<1>8. CASE k = 1
  <2>1. u = <<>> /\ w # <<>>
    <3>1. Len(u) = 0 /\ Len(w) > 0
      BY <1>2, <1>5, <1>8
    <3> QED BY <1>5, <3>1 DEF Text
  <2>2. subpaths(u) = <<>>
    <3>1. \A j \in 1 .. Len(u) : u[j] # "/"
      BY <1>5, <1>8
    <3> QED BY <1>5, <2>1, <3>1, OneName
  <2>3. subpaths(g) = <<w>>
    <3>1. <<>> \o <<w>> = <<w>>
      OBVIOUS
    <3> QED BY <1>2, <1>5, <1>6, <2>1, <2>2, <3>1
  <2>4. Below(g_cwd) = <<>>
    <3>1. Tail(<<w>>) = <<>>
      OBVIOUS
    <3> QED BY <2>3, <3>1 DEF Below
  <2> QED BY <1>4, <1>7, <1>8, <2>1, <2>4, PrefixOnVolume
<1>9. CASE k # 1
  <2>1. k >= 3 /\ k \in Nat
    BY <1>2, <1>3, <1>9
  <2>2. up = u
    <3>1. CASE k > 3
      BY <1>4, <2>1, <3>1
    <3>2. CASE k = 3
      <4> DEFINE v == VOLUME_PREFIX
      <4>1. v \in Text /\ Len(v) = 2 /\ v[1] = "/" /\ v[2] = "root"
        BY PrefixOnVolume DEF OnVolume, VOLUME_PREFIX
      <4> HIDE DEF v
      <4>2. \A i \in 1 .. Len(v) : v[i] = u[i]
        BY <1>2, <1>5, <3>2, <4>1
      <4>3. Len(v) = Len(u)
        BY <1>5, <3>2, <4>1
      <4>4. v = u
        BY <1>5, <4>1, <4>2, <4>3, SameSequence DEF Text
      <4> QED BY <1>4, <3>2, <4>4 DEF v
    <3> QED BY <2>1, <3>1, <3>2
  <2>3. Len(u) >= 2 /\ u[1] = "/" /\ u[2] = "root"
    <3>1. 1 \in 1 .. (k - 1) /\ 2 \in 1 .. (k - 1)
      BY <2>1
    <3> QED BY <1>2, <1>5, <2>1, <3>1
  <2>4. subpaths(u) \in Seq(Text) /\ subpaths(u) # <<>>
    <3>1. 2 \in 1 .. Len(u) /\ u[2] # "/"
      BY <1>5, <2>1, <2>3
    <3> QED BY <1>5, <3>1, SubpathsType, SomeName
  <2>5. subpaths(w) \in Seq(Text)
    BY <1>5, SubpathsType
  <2>6. /\ Head(subpaths(g)) = Head(subpaths(u))
        /\ Tail(subpaths(g)) = Tail(subpaths(u)) \o subpaths(w)
    <3>1. /\ Head(subpaths(u) \o subpaths(w)) = Head(subpaths(u))
          /\ Tail(subpaths(u) \o subpaths(w)) = Tail(subpaths(u)) \o subpaths(w)
      BY <2>4, <2>5, HeadTail
    <3> QED BY <1>2, <1>5, <3>1
  <2>7. OnVolume(u)
    BY <1>5, <2>3, <2>6 DEF OnVolume
  <2>8. Below(u) \in Seq(Text) /\ Below(g) = Below(u) \o subpaths(w)
    BY <2>6, <2>7, BelowType DEF Below
  <2>9. w = <<>> => Below(g) = Below(u)
    BY <1>6, <2>8
  <2>10. w # <<>> => Below(g) = Append(Below(u), w)
    <3>1. \A a \in Seq(Text) : \A x \in Text : a \o <<x>> = Append(a, x)
      OBVIOUS
    <3> QED BY <1>5, <1>6, <2>8, <3>1
  <2>11. Below(g) = <<>> => Below(u) = <<>>
    <3>1. Append(Below(u), w) # <<>>
      BY <2>8
    <3> QED BY <2>9, <2>10, <3>1
  <2> QED BY <1>5, <1>7, <2>2, <2>7, <2>9, <2>10, <2>11
<1> QED BY <1>8, <1>9

(* As the property says it. *)
LEMMA DoubledIsSuffix ==
  ASSUME NEW p \in Text, Len(p) >= 2
  PROVE  IsSuffix(<<"/", "/">>, p) <=> Doubled(p)
<1> DEFINE s == <<"/", "/">>
           r == Reverse(s)
           q == Reverse(p)
           n == Len(p)
<1>1. n \in Nat /\ n >= 2
  BY DEF Text
<1>2. s \in Text /\ Len(s) = 2 /\ s[1] = "/" /\ s[2] = "/"
  <2>1. "/" \in Characters
    BY DEF Characters
  <2> QED BY <2>1, TwoInSeq DEF Text
<1> HIDE DEF s
<1>3. r \in Text /\ Len(r) = 2 /\ r[1] = "/" /\ r[2] = "/"
  <2>1. r \in Text /\ Len(r) = 2
    BY <1>2 DEF Reverse, Text
  <2>2. \A i \in 1 .. 2 : r[i] = s[(2 - i) + 1]
    BY <1>2 DEF Reverse
  <2>3. r[1] = s[2] /\ r[2] = s[1]
    BY <2>2
  <2> QED BY <1>2, <2>1, <2>3
<1>4. q \in Text /\ Len(q) = n /\ q[1] = p[n] /\ q[2] = p[n - 1]
  <2>1. q \in Text /\ Len(q) = n
    BY <1>1 DEF Reverse, Text
  <2>2. \A i \in 1 .. n : q[i] = p[(n - i) + 1]
    BY DEF Reverse
  <2>3. 1 \in 1 .. n /\ 2 \in 1 .. n /\ (n - 1) + 1 = n /\ (n - 2) + 1 = n - 1
    BY <1>1
  <2> HIDE DEF q, n
  <2>4. q[1] = p[(n - 1) + 1] /\ q[2] = p[(n - 2) + 1]
    BY <2>2, <2>3
  <2> QED BY <2>1, <2>3, <2>4
<1> HIDE DEF r, q
<1>5. IsSuffix(s, p) <=> SubSeq(r, 1, 2) = SubSeq(q, 1, 2)
  BY <1>1, <1>3, <1>4 DEF IsSuffix, IsPrefix, r, q
<1>6. /\ SubSeq(r, 1, 2) \in Text /\ Len(SubSeq(r, 1, 2)) = 2
      /\ SubSeq(q, 1, 2) \in Text /\ Len(SubSeq(q, 1, 2)) = 2
      /\ \A i \in 1 .. 2 : SubSeq(r, 1, 2)[i] = r[i] /\ SubSeq(q, 1, 2)[i] = q[i]
  BY <1>1, <1>3, <1>4, Prefix DEF Text
<1>7. SubSeq(r, 1, 2) = SubSeq(q, 1, 2) <=> r[1] = q[1] /\ r[2] = q[2]
  <2> DEFINE a == SubSeq(r, 1, 2)
             b == SubSeq(q, 1, 2)
  <2> HIDE DEF a, b
  <2>1. a[1] = r[1] /\ a[2] = r[2] /\ b[1] = q[1] /\ b[2] = q[2]
    BY <1>6 DEF a, b
  <2>2. a = b => r[1] = q[1] /\ r[2] = q[2]
    BY <2>1
  <2>3. r[1] = q[1] /\ r[2] = q[2] => a = b
    <3>1. r[1] = q[1] /\ r[2] = q[2] => \A i \in 1 .. 2 : a[i] = b[i]
      BY <2>1
    <3>2. a \in Text /\ b \in Text /\ Len(a) = 2 /\ Len(b) = 2
      BY <1>6 DEF a, b
    <3> QED BY <3>1, <3>2, SameSequence DEF Text
  <2> QED BY <2>2, <2>3 DEF a, b
<1> QED BY <1>3, <1>4, <1>5, <1>7 DEF s, Doubled

-----------------------------------------------------------------------------
(* What is typed. *)

LEMMA Part ==
  ASSUME NEW s \in Text, NEW a \in Nat \ {0}, NEW b \in Int, b <= Len(s)
  PROVE  SubSeq(s, a, b) \in Text
<1>1. Len(s) \in Nat
  BY DEF Text
<1>2. CASE a <= b
  BY <1>1, <1>2 DEF Text
<1>3. CASE ~(a <= b)
  BY <1>1, <1>3 DEF Text
<1> QED BY <1>2, <1>3

(* They are texts. *)
LEMMA SkipBlanksType ==
  ASSUME NEW s \in Text
  PROVE  skip_blanks(s) \in Text
<1> DEFINE I == {j \in 1 .. Len(s) : s[j] # " "}
           k == SelectInSeq(s, LAMBDA c : c # " ")
<1>1. Len(s) \in Nat /\ <<>> \in Text
  BY DEF Text
<1>2. k = IF I # {} THEN Min(I) ELSE 0
  BY DEF SelectInSeq
<1>3. I # {} => Min(I) \in I
  <2>1. I \in SUBSET (1 .. Len(s))
    OBVIOUS
  <2> HIDE DEF I
  <2> QED BY <1>1, <2>1, MinIn
<1>4. skip_blanks(s) = IF k = 0 THEN <<>> ELSE SubSeq(s, k, Len(s))
  BY DEF skip_blanks
<1> HIDE DEF k
<1>5. k = 0 \/ k \in Nat \ {0}
  <2>1. CASE I # {}
    <3>1. k \in I
      BY <1>2, <1>3, <2>1
    <3>2. k \in 1 .. Len(s)
      BY <3>1
    <3> QED BY <1>1, <3>2
  <2>2. CASE I = {}
    BY <1>2, <2>2
  <2> QED BY <2>1, <2>2
<1>6. CASE k = 0
  BY <1>1, <1>4, <1>6
<1>7. CASE k \in Nat \ {0}
  <2>1. SubSeq(s, k, Len(s)) \in Text
    <3>1. Len(s) \in Int /\ Len(s) <= Len(s)
      BY <1>1
    <3> HIDE DEF I
    <3> QED BY <1>7, <3>1, Part
  <2> QED BY <1>4, <1>7, <2>1
<1> QED BY <1>5, <1>6, <1>7

LEMMA CutLastType ==
  ASSUME NEW s \in Text, NEW unwanted
  PROVE  cut_last(s, unwanted) \in Text
<1> DEFINE I == {j \in 1 .. Len(s) : s[j] \notin unwanted}
           k == SelectLastInSeq(s, LAMBDA c : c \notin unwanted)
<1>1. Len(s) \in Nat
  BY DEF Text
<1>2. k = IF I # {} THEN Max(I) ELSE 0
  BY DEF SelectLastInSeq
<1>3. I # {} => Max(I) \in I
  <2>1. I \in SUBSET (1 .. Len(s))
    OBVIOUS
  <2> HIDE DEF I
  <2> QED BY <1>1, <2>1, MaxIn
<1>4. cut_last(s, unwanted) = SubSeq(s, 1, k)
  BY DEF cut_last
<1> HIDE DEF k
<1>5. k \in Nat /\ k <= Len(s)
  <2>1. CASE I # {}
    <3>1. k \in I
      BY <1>2, <1>3, <2>1
    <3>2. k \in 1 .. Len(s)
      BY <3>1
    <3> QED BY <1>1, <3>2
  <2>2. CASE I = {}
    BY <1>1, <1>2, <2>2
  <2> QED BY <2>1, <2>2
<1> QED BY <1>1, <1>4, <1>5, Part

LEMMA TrimType ==
  ASSUME NEW s \in Text
  PROVE  trim_whitespace(s) \in Text
BY SkipBlanksType, CutLastType DEF trim_whitespace

LEMMA RedirectionType ==
  ASSUME NEW s \in Text
  PROVE  parse_redirection(s).cmd \in Text
         /\ (parse_redirection(s).file = NoFile \/ parse_redirection(s).file \in Text)
<1> DEFINE double == {k \in 1 .. (Len(s) - 1) : s[k] = ">" /\ s[k + 1] = ">"}
           I == {j \in 1 .. Len(s) : s[j] = ">"}
           k == IF double # {} THEN CHOOSE i \in double : \A j \in double : i <= j
                ELSE SelectInSeq(s, LAMBDA c : c = ">")
           rest == SubSeq(s, k + (IF double # {} THEN 2 ELSE 1), Len(s))
<1>1. Len(s) \in Nat
  BY DEF Text
<1>2. double # {} => k \in 1 .. Len(s)
  <2>1. double \in SUBSET Nat /\ double \in SUBSET (1 .. Len(s))
    BY <1>1
  <2> HIDE DEF double
  <2>2. double # {} => \E i \in double : \A j \in double : i <= j
    BY <2>1, LeastNat
  <2> QED BY <2>1, <2>2
<1>3. double = {} => k \in 0 .. Len(s)
  <2> DEFINE f == SelectInSeq(s, LAMBDA c : c = ">")
  <2>1. f = IF I # {} THEN Min(I) ELSE 0
    BY DEF SelectInSeq
  <2>2. I # {} => Min(I) \in I
    <3>1. I \in SUBSET (1 .. Len(s))
      OBVIOUS
    <3> HIDE DEF I
    <3> QED BY <1>1, <3>1, MinIn
  <2>3. double = {} => k = f
    OBVIOUS
  <2> HIDE DEF f, k, double
  <2> QED BY <1>1, <2>1, <2>2, <2>3
<1>4. /\ parse_redirection(s).cmd = trim_whitespace(IF k = 0 THEN s ELSE SubSeq(s, 1, k - 1))
      /\ parse_redirection(s).file =
           IF k = 0 THEN NoFile
           ELSE cut_last(trim_whitespace(rest), IF double # {} THEN {" "} ELSE {" ", ">"})
  BY DEF parse_redirection
<1> HIDE DEF k
<1>5. k \in 0 .. Len(s)
  BY <1>1, <1>2, <1>3
<1>6. rest \in Text
  <2>1. k + (IF double # {} THEN 2 ELSE 1) \in Nat \ {0}
    BY <1>5
  <2> HIDE DEF double
  <2> QED BY <1>1, <2>1, Part
<1>7. (IF k = 0 THEN s ELSE SubSeq(s, 1, k - 1)) \in Text
  <2>1. k - 1 \in Int /\ k - 1 <= Len(s)
    BY <1>1, <1>5
  <2> QED BY <2>1, Part
<1> HIDE DEF rest
<1> QED BY <1>4, <1>6, <1>7, TrimType, CutLastType

LEMMA ArgType ==
  ASSUME NEW r, r.cmd \in Text
  PROVE  arg(r) \in Text
<1>1. Len(r.cmd) \in Nat
  BY DEF Text
<1> QED BY <1>1, Part DEF arg

-----------------------------------------------------------------------------
(* The commands. *)

(* The current path is one of a directory, and so is what each directory but the
   root lies in. *)
CmdInv ==
  /\ OnVolume(g_cwd) /\ <<Below(g_cwd), "dir">> \in tree
  /\ <<<<>>, "dir">> \in tree
  /\ \A names \in Seq(Text), n \in Text :
       <<Append(names, n), "dir">> \in tree => <<names, "dir">> \in tree

(* The tree stays as it is. *)
LEMMA Moves ==
  ASSUME CmdInv, OnVolume(g_cwd'), <<Below(g_cwd'), "dir">> \in tree, UNCHANGED tree
  PROVE  CmdInv'
BY DEF CmdInv

(* What the driver finds. *)
LEMMA OpensOnVolume ==
  ASSUME NEW p, OnVolume(p)
  PROVE  /\ fat_dir_open(p) <=> <<Below(p), "dir">> \in tree
         /\ exists(p) <=> <<Below(p), "dir">> \in tree \/ <<Below(p), "file">> \in tree
BY BelowType DEF fat_dir_open, exists, found, Below

(* touch, mkdir and echo put one path into the tree, in a directory. *)
LEMMA Creates ==
  ASSUME CmdInv, NEW p, OnVolume(p), NEW kind, creates(p, kind), UNCHANGED g_cwd
  PROVE  CmdInv' /\ asked' = p /\ \A e \in tree' \ tree : e[1] = Below(p)
<1> DEFINE names == Below(p)
<1>1. names \in Seq(Text)
  BY BelowType
<1>2. /\ asked' = p
      /\ \/ UNCHANGED tree
         \/ <<Front(names), "dir">> \in tree /\ tree' = tree \cup {<<names, kind>>}
  BY DEF creates, Below
<1>3. CASE UNCHANGED tree
  BY <1>2, <1>3, Moves DEF CmdInv
<1>4. CASE <<Front(names), "dir">> \in tree /\ tree' = tree \cup {<<names, kind>>}
  <2>1. ASSUME NEW a \in Seq(Text), NEW n \in Text, <<Append(a, n), "dir">> \in tree'
        PROVE  <<a, "dir">> \in tree'
    <3>1. CASE <<Append(a, n), "dir">> \in tree
      BY <1>4, <3>1 DEF CmdInv
    <3>2. CASE Append(a, n) = names
      <4>1. SubSeq(Append(a, n), 1, Len(Append(a, n)) - 1) = a
        OBVIOUS
      <4>2. Front(names) = a
        BY <3>2, <4>1 DEF Front
      <4> QED BY <1>4, <4>2
    <3>3. <<Append(a, n), "dir">> \in tree \/ Append(a, n) = names
      BY <1>4, <2>1
    <3> QED BY <3>1, <3>2, <3>3
  <2>2. \A e \in tree' \ tree : e[1] = names
    BY <1>4
  <2>3. tree \subseteq tree'
    BY <1>4
  <2>4. OnVolume(g_cwd') /\ Below(g_cwd') = Below(g_cwd)
    BY DEF CmdInv
  <2>5. CmdInv'
    BY <2>1, <2>3, <2>4 DEF CmdInv
  <2> QED BY <1>2, <2>2, <2>5
<1> QED BY <1>2, <1>3, <1>4

(* Where cd leads. *)
LEMMA CdLeadsThere ==
  ASSUME CmdInv, NEW r, r.cmd \in Text, cmd_cd(r)
  PROVE  LET s == trim_whitespace(arg(r))
             to == meant(Below(g_cwd), s)
             stuck == s = <<".", ".">> /\ IsSuffix(<<"/", "/">>, g_cwd)
         IN  /\ OnVolume(g_cwd') /\ UNCHANGED tree
             /\ Below(g_cwd') = IF ~stuck /\ <<to, "dir">> \in tree THEN to ELSE Below(g_cwd)
<1> DEFINE s == trim_whitespace(arg(r))
           d == Below(g_cwd)
           to == meant(d, s)
           stuck == s = <<".", ".">> /\ IsSuffix(<<"/", "/">>, g_cwd)
           name == IF s = <<>> THEN <<"/">> ELSE s
           p == IF name[1] = "/" THEN VOLUME_PREFIX \o name ELSE build_path(name)
<1>1. s \in Text /\ name \in Text /\ name # <<>>
  <2>1. s \in Text
    BY ArgType, TrimType
  <2>2. <<"/">> \in Text /\ <<"/">> # <<>>
    BY ASlash
  <2> HIDE DEF s
  <2> QED BY <2>1, <2>2
<1>2. /\ OnVolume(g_cwd) /\ <<d, "dir">> \in tree /\ d \in Seq(Text) /\ g_cwd \in Text /\ Len(g_cwd) >= 2
  BY BelowType DEF CmdInv, OnVolume
<1>3. \/ name = <<".">> /\ UNCHANGED <<g_cwd, tree>>
      \/ name = <<".", ".">> /\ g_cwd' = up /\ UNCHANGED tree
      \/ /\ name \notin {<<".">>, <<".", ".">>} /\ UNCHANGED tree
         /\ g_cwd' = IF fat_dir_open(p) THEN p ELSE g_cwd
  BY DEF cmd_cd, none, asks, entered
<1>4. stuck <=> s = <<".", ".">> /\ Doubled(g_cwd)
  BY <1>2, DoubledIsSuffix
<1>5. /\ <<".">>[1] = "." /\ <<".", ".">>[1] = "." /\ <<"/">>[1] = "/"
      /\ <<".">> # <<".", ".">> /\ <<".">> # <<>> /\ <<".", ".">> # <<>> /\ <<"/">> # <<".">> /\ <<"/">> # <<".", ".">>
  OBVIOUS
<1>6. s # <<>> => Head(s) = s[1]
  BY <1>1, HeadTail DEF Text
<1> HIDE DEF s, stuck, d, p
<1>7. CASE name = <<".">> /\ UNCHANGED <<g_cwd, tree>>
  <2>1. s = <<".">>
    BY <1>5, <1>7
  <2>2. to = d
    BY <1>5, <1>6, <2>1 DEF meant
  <2> QED BY <1>2, <1>7, <2>2 DEF d, s, stuck
<1>8. CASE name = <<".", ".">> /\ g_cwd' = up /\ UNCHANGED tree
  <2>1. s = <<".", ".">>
    BY <1>5, <1>8
  <2>2. to = IF d = <<>> THEN d ELSE Front(d)
    BY <1>5, <1>6, <2>1 DEF meant
  <2>3. OnVolume(up) /\ Below(up) \in Seq(Text)
    BY <1>2, UpLeads, BelowType
  <2> DEFINE e == Below(up)
  <2>4. /\ d = <<>> => e = <<>>
        /\ Doubled(g_cwd) => e = d
        /\ d # <<>> /\ ~Doubled(g_cwd) => \E n \in Text : d = Append(e, n)
    BY <1>2, UpLeads DEF d
  <2> HIDE DEF to, e
  <2>5. Below(g_cwd') = e
    BY <1>8 DEF e
  <2>6. CASE Doubled(g_cwd)
    BY <1>4, <1>8, <2>1, <2>3, <2>4, <2>5, <2>6 DEF d, s, to, stuck
  <2>7. CASE ~Doubled(g_cwd) /\ d = <<>>
    BY <1>2, <1>4, <1>8, <2>1, <2>2, <2>3, <2>4, <2>5, <2>7 DEF d, s, to, stuck
  <2>8. CASE ~Doubled(g_cwd) /\ d # <<>>
    <3>1. PICK n \in Text : d = Append(e, n)
      BY <2>4, <2>8
    <3>2. e \in Seq(Text)
      BY <2>3 DEF e
    <3>3. SubSeq(Append(e, n), 1, Len(Append(e, n)) - 1) = e
      BY <3>2
    <3>4. to = e
      BY <2>2, <2>8, <3>1, <3>3 DEF Front
    <3>5. <<e, "dir">> \in tree
      BY <1>2, <3>1, <3>2 DEF CmdInv
    <3> QED BY <1>4, <1>8, <2>1, <2>3, <2>5, <2>8, <3>4, <3>5 DEF d, s, to, stuck
  <2> QED BY <2>6, <2>7, <2>8
<1>9. CASE /\ name \notin {<<".">>, <<".", ".">>} /\ UNCHANGED tree
           /\ g_cwd' = IF fat_dir_open(p) THEN p ELSE g_cwd
  <2>1. OnVolume(p) /\ Below(p) = to
    <3>1. CASE name[1] = "/"
      <4>1. p = VOLUME_PREFIX \o name
        BY <3>1 DEF p
      <4>2. OnVolume(p) /\ Below(p) = subpaths(name)
        <5> HIDE DEF name
        <5> QED BY <1>1, <3>1, <4>1, RootPath
      <4>3. to = subpaths(s)
        <5>1. s = <<>> \/ Head(s) = "/"
          BY <1>6, <3>1
        <5> QED BY <1>5, <1>6, <1>9, <5>1 DEF meant
      <4>4. subpaths(name) = subpaths(s)
        <5>1. subpaths(<<"/">>) = <<>> /\ subpaths(<<>>) = <<>>
          <6>1. <<>> \in Text /\ \A i \in 1 .. Len(<<>>) : <<>>[i] # "/"
            BY DEF Text
          <6> QED BY <6>1, ASlash, OneName
        <5> QED BY <5>1
      <4> QED BY <4>2, <4>3, <4>4
    <3>2. CASE name[1] # "/"
      <4>1. name = s /\ s # <<>> /\ Head(s) # "/"
        BY <1>5, <1>6, <3>2
      <4>2. p = build_path(s)
        BY <3>2, <4>1 DEF p
      <4>3. OnVolume(p) /\ Below(p) = d \o subpaths(s)
        BY <1>1, <1>2, <4>2, BuildPath DEF d
      <4>4. to = d \o subpaths(s)
        BY <1>9, <4>1 DEF meant
      <4> QED BY <4>3, <4>4
    <3> QED BY <3>1, <3>2
  <2>2. fat_dir_open(p) <=> <<to, "dir">> \in tree
    BY <2>1, OpensOnVolume
  <2>3. ~stuck
    <3>1. s # <<".", ".">>
      BY <1>5, <1>9
    <3> QED BY <1>4, <3>1
  <2> HIDE DEF to, name
  <2> QED BY <1>2, <1>9, <2>1, <2>2, <2>3 DEF d, s, to, stuck
<1> QED BY <1>3, <1>7, <1>8, <1>9

(* The word that a command begins with. *)
LEMMA Words ==
  ASSUME NEW r, r.cmd \in Text, NEW w
  PROVE  /\ is(r, w) => Head(r.cmd) = w
         /\ starts(r, w) => Head(r.cmd) = w
<1>1. is(r, w) => Head(r.cmd) = w
  <2>1. Head(<<w>>) = w
    OBVIOUS
  <2> QED BY <2>1 DEF is
<1>2. ASSUME starts(r, w) PROVE Head(r.cmd) = w
  <2> DEFINE c == r.cmd
  <2>0. c \in Seq(Characters)
    BY DEF Text
  <2>1. Len(c) > 1 /\ SubSeq(c, 1, 2) = <<w, " ">> /\ c \in Seq(Characters)
    BY <1>2, <2>0 DEF starts
  <2> HIDE DEF c
  <2>2. Len(c) \in Nat /\ 2 <= Len(c) /\ c # <<>>
    <3>1. Len(<<>>) = 0
      OBVIOUS
    <3>2. Len(c) \in Nat
      BY <2>0
    <3>3. 2 <= Len(c)
      <4>1. Len(c) > 1
        BY <2>1
      <4> QED BY <3>2, <4>1
    <3>4. c # <<>>
      BY <3>1, <3>2, <3>3
    <3> QED BY <3>2, <3>3, <3>4
  <2>3. SubSeq(c, 1, 2)[1] = c[1]
    <3>1. 2 \in Nat /\ 1 \in 1 .. 2
      OBVIOUS
    <3> QED BY <2>1, <2>2, <3>1, Prefix
  <2>4. <<w, " ">>[1] = w
    OBVIOUS
  <2>5. Head(c) = c[1]
    BY <2>1, <2>2, HeadTail
  <2> QED BY <2>1, <2>3, <2>4, <2>5 DEF c
<1> QED BY <1>1, <1>2

(* A line consists of characters. *)
LEMMA LineIsText ==
  ASSUME NEW s \in Lines
  PROVE  s \in Text
<1>1. s \in Seq(STRING)
  BY CommandsAssumption
<1>2. \A S, T : S \subseteq T => \A q \in Seq(S) : q \in Seq(T)
  OBVIOUS
<1> QED BY <1>1, <1>2 DEF Text, Characters

(* A command that calls the driver with a path below the current one. *)
LEMMA BelowStep ==
  ASSUME CmdInv, ran'.cmd \in Text, NEW p, NEW w, NEW s \in Text,
         w \in {"ls", "cat", "echo", "touch", "mkdir"}, Head(ran'.cmd) = w,
         asked' = p, OnVolume(p), Below(p) = Below(g_cwd) \o subpaths(s),
         LET a == IF w = "echo" THEN ran'.file ELSE arg(ran') IN
           s \in {a, trim_whitespace(a)},
         \A e \in tree' \ tree : e[1] = Below(p), UNCHANGED g_cwd
  PROVE  CdLeads /\ ArgumentBelow
<1>1. ~is(ran', "cd") /\ ~starts(ran', "cd")
  <2>1. Head(ran'.cmd) # "cd"
    OBVIOUS
  <2> QED BY <2>1, Words
<1>2. cwd = Below(g_cwd) /\ cwd' = Below(g_cwd)
  BY DEF cwd, Below
<1>3. CdLeads
  BY <1>1, <1>2 DEF CdLeads
<1>4. volume(p) /\ Tail(subpaths(p)) = Below(p)
  BY BelowType DEF Below
<1>5. ArgumentBelow
  BY <1>2, <1>4 DEF ArgumentBelow
<1> QED BY <1>3, <1>5

(* A command that does nothing. *)
LEMMA IdleStep ==
  ASSUME CmdInv, ~is(ran', "cd") /\ ~starts(ran', "cd"), none, UNCHANGED g_cwd
  PROVE  CmdInv' /\ CdLeads /\ ArgumentBelow
<1>1. UNCHANGED tree /\ asked' = NoPath
  BY DEF none, asks
<1>2. CmdInv'
  BY <1>1, Moves DEF CmdInv
<1>3. cwd' = cwd
  BY DEF cwd
<1> QED BY <1>1, <1>2, <1>3 DEF CdLeads, ArgumentBelow

(* Every command keeps the invariant and does what is promised. *)
LEMMA CommandStep ==
  ASSUME CmdInv, NEW line \in Lines, process_command(line)
  PROVE  CmdInv' /\ CdLeads /\ ArgumentBelow
<1> DEFINE r == parse_redirection(line)
<1>1. /\ r.cmd \in Text /\ (r.file = NoFile \/ r.file \in Text)
      /\ ran' = r /\ arg(r) \in Text /\ trim_whitespace(arg(r)) \in Text
  BY LineIsText, RedirectionType, ArgType, TrimType DEF process_command
<1>2. \/ cmd_ls(r) \/ cmd_cat(r) \/ cmd_echo(r) \/ cmd_touch(r) \/ cmd_mkdir(r)
      \/ cmd_cd(r) \/ other(r)
  BY DEF process_command
<1>3. OnVolume(g_cwd) /\ Below(g_cwd) \in Seq(Text)
  BY BelowType DEF CmdInv
<1> HIDE DEF r
<1>4. CASE cmd_ls(r)
  <2>1. r.cmd = <<"ls">> /\ asked' = g_cwd /\ UNCHANGED <<tree, g_cwd>> /\ Head(r.cmd) = "ls"
    BY <1>1, <1>4, Words DEF cmd_ls, is, asks
  <2>2. arg(r) = <<>>
    <3>1. Len(<<"ls">>) = 1 /\ SubSeq(<<"ls">>, 3, 1) = <<>>
      OBVIOUS
    <3> QED BY <2>1, <3>1 DEF arg
  <2>3. subpaths(<<>>) = <<>> /\ <<>> \in Text
    <3>1. <<>> \in Text /\ \A i \in 1 .. Len(<<>>) : <<>>[i] # "/"
      BY DEF Text
    <3> QED BY <3>1, OneName
  <2>4. Below(g_cwd) = Below(g_cwd) \o subpaths(<<>>)
    BY <1>3, <2>3
  <2>5. CmdInv'
    BY <2>1, Moves DEF CmdInv
  <2> QED BY <1>1, <1>3, <2>1, <2>2, <2>3, <2>4, <2>5, BelowStep
<1>5. CASE cmd_cat(r)
  <2> DEFINE s == trim_whitespace(arg(r))
             p == build_path(s)
  <2>1. Head(r.cmd) = "cat" /\ asked' = p /\ UNCHANGED <<tree, g_cwd>>
    BY <1>1, <1>5, Words DEF cmd_cat, asks
  <2>2. s \in Text /\ OnVolume(p) /\ Below(p) = Below(g_cwd) \o subpaths(s)
    BY <1>1, <1>3, BuildPath
  <2>3. CmdInv'
    BY <2>1, Moves DEF CmdInv
  <2> HIDE DEF p
  <2>4. CdLeads /\ ArgumentBelow
    BY <1>1, <2>1, <2>2, BelowStep
  <2> QED BY <2>3, <2>4
<1>6. CASE cmd_echo(r)
  <2>1. Head(r.cmd) = "echo" /\ UNCHANGED g_cwd
    BY <1>1, <1>6, Words DEF cmd_echo
  <2>2. CASE r.file \in {NoFile, <<>>} /\ none
    <3>1. ~is(ran', "cd") /\ ~starts(ran', "cd")
      <4>1. Head(ran'.cmd) # "cd" /\ ran'.cmd \in Text
        BY <1>1, <2>1
      <4> QED BY <4>1, Words
    <3> QED BY <2>1, <2>2, <3>1, IdleStep
  <2>3. CASE r.file \notin {NoFile, <<>>} /\ creates(build_path(r.file), "file")
    <3> DEFINE s == r.file
               p == build_path(s)
    <3>1. s \in Text /\ OnVolume(p) /\ Below(p) = Below(g_cwd) \o subpaths(s)
      BY <1>1, <1>3, <2>3, BuildPath
    <3>2. creates(p, "file")
      BY <2>3
    <3> HIDE DEF p
    <3>3. CmdInv' /\ asked' = p /\ \A e \in tree' \ tree : e[1] = Below(p)
      BY <2>1, <3>1, <3>2, Creates
    <3>4. CdLeads /\ ArgumentBelow
      BY <1>1, <2>1, <3>1, <3>3, BelowStep
    <3> QED BY <3>3, <3>4
  <2> QED BY <1>6, <2>2, <2>3 DEF cmd_echo
<1>7. CASE cmd_touch(r) \/ cmd_mkdir(r)
  <2> DEFINE s == arg(r)
             p == build_path(s)
  <2>1. PICK w \in {"touch", "mkdir"}, kind \in {"file", "dir"} :
          Head(r.cmd) = w /\ creates(p, kind) /\ UNCHANGED g_cwd
    BY <1>1, <1>7, Words DEF cmd_touch, cmd_mkdir
  <2>2. s \in Text /\ OnVolume(p) /\ Below(p) = Below(g_cwd) \o subpaths(s)
    BY <1>1, <1>3, BuildPath
  <2> HIDE DEF p
  <2>3. CmdInv' /\ asked' = p /\ \A e \in tree' \ tree : e[1] = Below(p)
    BY <2>1, <2>2, Creates
  <2>4. CdLeads /\ ArgumentBelow
    BY <1>1, <2>1, <2>2, <2>3, BelowStep
  <2> QED BY <2>3, <2>4
<1>8. CASE cmd_cd(r)
  <2> DEFINE s == trim_whitespace(arg(r))
             to == meant(Below(g_cwd), s)
             stuck == s = <<".", ".">> /\ IsSuffix(<<"/", "/">>, g_cwd)
  <2>1. is(r, "cd") \/ starts(r, "cd")
    BY <1>8 DEF cmd_cd
  <2>2. /\ OnVolume(g_cwd') /\ UNCHANGED tree
        /\ Below(g_cwd') = IF ~stuck /\ <<to, "dir">> \in tree THEN to ELSE Below(g_cwd)
    BY <1>1, <1>8, CdLeadsThere
  <2>3. CmdInv'
    <3>1. <<Below(g_cwd'), "dir">> \in tree
      BY <2>2 DEF CmdInv
    <3> QED BY <2>2, <3>1, Moves
  <2>4. cwd = Below(g_cwd) /\ cwd' = Below(g_cwd')
    BY DEF cwd, Below
  <2>5. CdLeads
    BY <1>1, <2>1, <2>2, <2>4 DEF CdLeads
  <2>6. ArgumentBelow
    <3>1. Head(ran'.cmd) = "cd"
      BY <1>1, <2>1, Words
    <3> QED BY <3>1 DEF ArgumentBelow
  <2> QED BY <2>3, <2>5, <2>6
<1>9. CASE other(r)
  <2>1. ~is(r, "cd") /\ ~starts(r, "cd") /\ none /\ UNCHANGED g_cwd
    BY <1>9 DEF other
  <2> QED BY <1>1, <2>1, IdleStep
<1> QED BY <1>2, <1>4, <1>5, <1>6, <1>7, <1>8, <1>9

(* The shell begins in the root. *)
LEMMA CmdInitially == CommandsInit => CmdInv
<1> SUFFICES ASSUME CommandsInit PROVE CmdInv
  OBVIOUS
<1>1. g_cwd = VOLUME_PREFIX /\ tree = {<<<<>>, "dir">>}
  BY DEF CommandsInit
<1>2. OnVolume(g_cwd) /\ Below(g_cwd) = <<>>
  BY <1>1, PrefixOnVolume
<1>3. \A names \in Seq(Text) : \A n \in Text : Append(names, n) # <<>>
  <2> TAKE names \in Seq(Text)
  <2> TAKE n \in Text
  <2>1. Len(Append(names, n)) = Len(names) + 1 /\ Len(names) \in Nat
    OBVIOUS
  <2>2. Len(<<>>) = 0
    OBVIOUS
  <2> QED BY <2>1, <2>2
<1> QED BY <1>1, <1>2, <1>3 DEF CmdInv

LEMMA CommandsAlways ==
  CommandsSpec => [](CmdInv /\ CwdOpens) /\ [][CdLeads /\ ArgumentBelow]_commandsVars
<1>1. CmdInv => CwdOpens
  BY OpensOnVolume DEF CmdInv, CwdOpens
<1>2. CmdInv /\ [CommandsNext]_commandsVars => CmdInv'
  <2> SUFFICES ASSUME CmdInv, [CommandsNext]_commandsVars PROVE CmdInv'
    OBVIOUS
  <2>1. CASE CommandsNext
    BY <2>1, CommandStep DEF CommandsNext
  <2>2. CASE UNCHANGED commandsVars
    BY <2>2, Moves DEF commandsVars, CmdInv
  <2> QED BY <2>1, <2>2
<1>3. CmdInv /\ [CommandsNext]_commandsVars => [CdLeads /\ ArgumentBelow]_commandsVars
  BY CommandStep DEF CommandsNext
<1> QED BY <1>1, <1>2, <1>3, CmdInitially, PTL DEF CommandsSpec

(* Whatever is typed, the current path is one that ls opens (commands.c). *)
THEOREM CwdAlwaysOpens == CommandsSpec => []CwdOpens
BY CommandsAlways, PTL

(* cd leads where its argument says, wherever the slashes of the current path and
   of the argument are, or nowhere. *)
THEOREM CdLeadsAsMeant == CommandsSpec => CdAsMeant
BY CommandsAlways, PTL DEF CdAsMeant

(* What touch, mkdir, echo, cat and ls are about is below the current directory,
   under the names of the argument. *)
THEOREM ArgumentsStayBelow == CommandsSpec => ArgumentsBelowCwd
BY CommandsAlways, PTL DEF ArgumentsBelowCwd

=============================================================================

--------------------------- MODULE KeyboardProofs ---------------------------
(* What the ring of the keyboard driver delivers, for every size of the ring, set
   of keys and number of scancodes, however interrupts fall between the reads
   and writes of the kernel thread. *)
EXTENDS Keyboard, SequenceTheorems, TLAPS

-----------------------------------------------------------------------------
(* The inductive invariant, in parts. *)

Slots == 0 .. (Size - 1)

(* Between the check and the release of a slot the ring is not empty, so that
   the handler never stores into the slot the thread is reading. *)
RingInv ==
  /\ buffer_read \in Slots /\ buffer_write \in Slots
  /\ keyboard_buffer \in [Slots -> Char \cup {NoChar}]
  /\ pc \in {"kmain", "check", "hlt", "asleep", "load", "advance"}
  /\ ~installed => pc = "kmain" /\ buffer_read = 0 /\ buffer_write = 0
  /\ pc = "kmain" => ~installed
  /\ pc \in {"load", "advance"} => buffer_read # buffer_write
  /\ pc = "advance" => c = keyboard_buffer[buffer_read]

(* Each character is one that the user meant, and no press comes twice. *)
Faithful(s) ==
  /\ \A i \in 1 .. Len(s) : s[i].n \in 1 .. Len(meant) /\ s[i] = meant[s[i].n]
  /\ \A i, j \in 1 .. Len(s) : i < j => s[i].n < s[j].n

ShellInv ==
  /\ typed \in 0 .. MaxTyped /\ Len(meant) <= typed
  /\ meant \in Seq(Char) /\ \A i \in 1 .. Len(meant) : meant[i].n = i
  /\ got \in Seq(Char) /\ Queued \in Seq(Char)
  /\ Faithful(got \o Queued)

(* The scancodes that the driver has not read yet. *)
Make == [kind : {"make"}, key : Keys, n : 1 .. MaxTyped]
Code == Make \cup [kind : {"other", "shift up", "shift down"}]

after(kind, shift) ==
  IF kind = "shift down" THEN TRUE ELSE IF kind = "shift up" THEN FALSE ELSE shift

(* Where the shift key will be, by the driver's book, when it comes to each of
   them: in the end where the user holds it. *)
ShiftRun(f) ==
  /\ f[1] = shift_pressed /\ f[Len(scancodes) + 1] = shift_held
  /\ \A i \in 1 .. Len(scancodes) :
       /\ f[i + 1] = after(scancodes[i].kind, f[i])
       /\ scancodes[i].kind = "make" =>
            /\ scancodes[i].n \in 1 .. Len(meant)
            /\ meant[scancodes[i].n] =
                 [key |-> scancodes[i].key, shifted |-> f[i], n |-> scancodes[i].n]

PortInv ==
  /\ scancodes \in Seq(Code)
  /\ shift_pressed \in BOOLEAN /\ shift_held \in BOOLEAN
  /\ raised => scancodes # <<>>
  /\ irq1 => raised
  /\ \E f \in [1 .. (Len(scancodes) + 1) -> BOOLEAN] : ShiftRun(f)

(* They are of later presses than what is in the ring, in their order. *)
OrderInv ==
  /\ \A i, j \in 1 .. Len(scancodes) :
       i < j /\ scancodes[i].kind = "make" /\ scancodes[j].kind = "make" =>
         scancodes[i].n < scancodes[j].n
  /\ \A i \in 1 .. Len(scancodes), j \in 1 .. Len(got \o Queued) :
       scancodes[i].kind = "make" => (got \o Queued)[j].n < scancodes[i].n

KeyInv == RingInv /\ ShellInv /\ PortInv /\ OrderInv

-----------------------------------------------------------------------------
(* Arithmetic of the ring, and sequences. *)

(* The remainders that the driver and Queued take. *)
LEMMA RingArithmetic ==
  /\ Size \in Nat /\ Size > 1
  /\ \A k \in Slots : k % Size = k
  /\ \A k \in Slots : (k + Size) % Size = k
  /\ \A k \in Slots : (k - Size) % Size = k
<1>1. Size \in Nat /\ Size > 1
  BY KeyboardAssumption
<1>2. \A k \in Slots : k % Size = k
  BY <1>1 DEF Slots
<1>3. \A k \in Slots : (k + Size) % Size = k
  BY <1>1 DEF Slots
<1>4. \A k \in Slots : (k - Size) % Size = k
  BY <1>1 DEF Slots
<1> QED BY <1>1, <1>2, <1>3, <1>4

(* The slot of the i-th character that waits in a ring that is read from r. *)
slot(r, i) == IF r + i - 1 < Size THEN r + i - 1 ELSE r + i - 1 - Size

(* How many characters wait between two indices. *)
between(r, w) == IF r <= w THEN w - r ELSE w - r + Size

(* Queued, without remainders. *)
LEMMA QueuedFacts ==
  ASSUME buffer_read \in Slots, buffer_write \in Slots
  PROVE  /\ Waiting = between(buffer_read, buffer_write) /\ Waiting \in 0 .. (Size - 1)
         /\ Queued = [i \in 1 .. Waiting |-> keyboard_buffer[slot(buffer_read, i)]]
         /\ \A i \in 1 .. Waiting : slot(buffer_read, i) \in Slots
<1>1. Size \in Nat /\ Size > 1 /\ buffer_read \in Nat /\ buffer_write \in Nat
      /\ buffer_read < Size /\ buffer_write < Size
  BY RingArithmetic DEF Slots
<1>2. Waiting = between(buffer_read, buffer_write)
  <2>1. CASE buffer_read <= buffer_write
    <3>1. buffer_write - buffer_read \in Slots
      BY <1>1, <2>1 DEF Slots
    <3> QED BY <2>1, <3>1, RingArithmetic DEF Waiting, between
  <2>2. CASE ~(buffer_read <= buffer_write)
    <3>1. buffer_write - buffer_read + Size \in Slots
      BY <1>1, <2>2 DEF Slots
    <3>2. (buffer_write - buffer_read + Size) - Size = buffer_write - buffer_read
      BY <1>1
    <3> QED BY <2>2, <3>1, <3>2, RingArithmetic DEF Waiting, between
  <2> QED BY <2>1, <2>2
<1>3. Waiting \in 0 .. (Size - 1)
  BY <1>1, <1>2 DEF between
<1>4. ASSUME NEW i \in 1 .. Waiting
      PROVE  /\ slot(buffer_read, i) \in Slots
             /\ (buffer_read + i - 1) % Size = slot(buffer_read, i)
  <2>1. i \in Nat /\ i >= 1 /\ i < Size
    BY <1>1, <1>3
  <2>2. slot(buffer_read, i) \in Slots
    BY <1>1, <2>1 DEF slot, Slots
  <2>3. CASE buffer_read + i - 1 < Size
    BY <2>2, <2>3, RingArithmetic DEF slot
  <2>4. CASE ~(buffer_read + i - 1 < Size)
    <3> DEFINE k == buffer_read + i - 1 - Size
    <3>1. k \in Slots /\ k + Size = buffer_read + i - 1 /\ k = slot(buffer_read, i)
      BY <1>1, <2>1, <2>2, <2>4 DEF slot
    <3> HIDE DEF k
    <3> QED BY <2>2, <3>1, RingArithmetic
  <2> QED BY <2>2, <2>3, <2>4
<1>5. Queued = [i \in 1 .. Waiting |-> keyboard_buffer[slot(buffer_read, i)]]
  BY <1>4 DEF Queued
<1> QED BY <1>2, <1>3, <1>4, <1>5

(* The slot that the handler stores into next, and the one that is released. *)
LEMMA NextSlot ==
  ASSUME NEW r \in Slots
  PROVE  /\ (r + 1) % Size \in Slots
         /\ (r + 1) % Size = IF r + 1 < Size THEN r + 1 ELSE 0
<1>1. Size \in Nat /\ Size > 1 /\ r \in Nat /\ r < Size
  BY RingArithmetic DEF Slots
<1>2. CASE r + 1 < Size
  <2>1. r + 1 \in Slots
    BY <1>1, <1>2 DEF Slots
  <2> QED BY <1>2, <2>1, RingArithmetic
<1>3. CASE ~(r + 1 < Size)
  <2>1. r + 1 = 0 + Size /\ 0 \in Slots
    BY <1>1, <1>3 DEF Slots
  <2>2. (0 + Size) % Size = 0
    BY <2>1, RingArithmetic
  <2> QED BY <1>3, <2>1, <2>2
<1> QED BY <1>2, <1>3

(* Appending to a sequence. *)
LEMMA AppendFacts ==
  ASSUME NEW S, NEW s \in Seq(S), NEW e \in S
  PROVE  /\ Append(s, e) \in Seq(S) /\ Len(Append(s, e)) = Len(s) + 1
         /\ Len(s) \in Nat
         /\ Append(s, e)[Len(s) + 1] = e
         /\ \A i \in 1 .. Len(s) : Append(s, e)[i] = s[i]
OBVIOUS

(* A function over the first numbers is a sequence. *)
LEMMA TupleFacts ==
  ASSUME NEW S, NEW n \in Nat, NEW f \in [1 .. n -> S]
  PROVE  f \in Seq(S) /\ Len(f) = n
OBVIOUS

(* What is handed out and what waits make one sequence, which a character that
   is stored extends and one that is released does not change. *)
LEMMA MoveFacts ==
  ASSUME NEW S, NEW s \in Seq(S), NEW t \in Seq(S), NEW e \in S
  PROVE  /\ s \o Append(t, e) = Append(s \o t, e)
         /\ t # <<>> => Append(s, Head(t)) \o Tail(t) = s \o t
<1>1. s \o Append(t, e) = Append(s \o t, e)
  <2>1. /\ s \o t \in Seq(S) /\ Append(t, e) \in Seq(S) /\ s \o Append(t, e) \in Seq(S)
        /\ Append(s \o t, e) \in Seq(S)
        /\ Len(s) \in Nat /\ Len(t) \in Nat
        /\ Len(s \o Append(t, e)) = Len(s) + (Len(t) + 1)
        /\ Len(Append(s \o t, e)) = (Len(s) + Len(t)) + 1
    BY ConcatProperties, AppendFacts
  <2>2. ASSUME NEW i \in 1 .. (Len(s) + (Len(t) + 1))
        PROVE  (s \o Append(t, e))[i] = Append(s \o t, e)[i]
    <3>1. (s \o Append(t, e))[i] = IF i <= Len(s) THEN s[i] ELSE Append(t, e)[i - Len(s)]
      <4> DEFINE a == Append(t, e)
      <4>1. i \in 1 .. (Len(s) + Len(a)) /\ a \in Seq(S)
        BY AppendFacts
      <4> HIDE DEF a
      <4>2. (s \o a)[i] = IF i <= Len(s) THEN s[i] ELSE a[i - Len(s)]
        BY <4>1, ConcatProperties
      <4> QED BY <4>2 DEF a
    <3>2. CASE i = Len(s) + Len(t) + 1
      <4>1. i - Len(s) = Len(t) + 1 /\ ~(i <= Len(s)) /\ i = Len(s \o t) + 1
        BY <2>1, <3>2, ConcatProperties
      <4>2. Append(t, e)[Len(t) + 1] = e /\ Append(s \o t, e)[Len(s \o t) + 1] = e
        BY <2>1, AppendFacts
      <4> QED BY <3>1, <4>1, <4>2
    <3>3. CASE i # Len(s) + Len(t) + 1
      <4>1. i \in 1 .. Len(s \o t) /\ Len(s \o t) = Len(s) + Len(t)
        BY <2>1, <3>3, ConcatProperties
      <4>2. Append(s \o t, e)[i] = (s \o t)[i]
        BY <2>1, <4>1, AppendFacts
      <4>3. (s \o t)[i] = IF i <= Len(s) THEN s[i] ELSE t[i - Len(s)]
        BY <4>1, ConcatProperties
      <4>4. ~(i <= Len(s)) => i - Len(s) \in 1 .. Len(t)
        BY <2>1, <4>1
      <4>5. ~(i <= Len(s)) => Append(t, e)[i - Len(s)] = t[i - Len(s)]
        BY <4>4, AppendFacts
      <4> QED BY <3>1, <4>2, <4>3, <4>5
    <3> QED BY <3>2, <3>3
  <2> QED BY <2>1, <2>2, SeqEqual
<1>2. ASSUME t # <<>> PROVE Append(s, Head(t)) \o Tail(t) = s \o t
  <2>1. /\ Head(t) \in S /\ Tail(t) \in Seq(S) /\ Len(Tail(t)) = Len(t) - 1
        /\ \A i \in 1 .. Len(Tail(t)) : Tail(t)[i] = t[i + 1]
        /\ Len(t) \in Nat /\ Len(s) \in Nat /\ Len(t) >= 1 /\ Head(t) = t[1]
    BY <1>2, HeadTailProperties, EmptySeq, LenProperties
  <2> DEFINE u == Append(s, Head(t))
  <2>2. u \in Seq(S) /\ Len(u) = Len(s) + 1
    BY <2>1, AppendFacts
  <2>3. /\ u \o Tail(t) \in Seq(S) /\ s \o t \in Seq(S)
        /\ Len(u \o Tail(t)) = Len(s) + Len(t) /\ Len(s \o t) = Len(s) + Len(t)
    <3>1. Len(u \o Tail(t)) = Len(u) + Len(Tail(t))
      BY <2>1, <2>2, ConcatProperties
    <3> HIDE DEF u
    <3> QED BY <2>1, <2>2, <3>1, ConcatProperties
  <2>4. ASSUME NEW i \in 1 .. (Len(s) + Len(t))
        PROVE  (u \o Tail(t))[i] = (s \o t)[i]
    <3>1. (s \o t)[i] = IF i <= Len(s) THEN s[i] ELSE t[i - Len(s)]
      BY ConcatProperties
    <3>2. (u \o Tail(t))[i] = IF i <= Len(u) THEN u[i] ELSE Tail(t)[i - Len(u)]
      <4>1. Len(u) + Len(Tail(t)) = Len(s) + Len(t)
        BY <2>1, <2>2
      <4> HIDE DEF u
      <4> QED BY <2>1, <2>2, <4>1, ConcatProperties
    <3>3. CASE i <= Len(s)
      BY <2>1, <2>2, <3>1, <3>2, <3>3, AppendFacts
    <3>4. CASE i = Len(s) + 1
      <4>1. u[Len(s) + 1] = Head(t) /\ i - Len(s) = 1
        BY <2>1, <3>4, AppendFacts
      <4> QED BY <2>1, <2>2, <3>1, <3>2, <3>4, <4>1
    <3>5. CASE i > Len(s) + 1
      <4>1. /\ i - Len(u) \in 1 .. Len(Tail(t)) /\ (i - Len(u)) + 1 = i - Len(s)
            /\ ~(i <= Len(u)) /\ ~(i <= Len(s))
        BY <2>1, <2>2, <3>5
      <4>2. Tail(t)[i - Len(u)] = t[(i - Len(u)) + 1]
        BY <2>1, <4>1
      <4> QED BY <3>1, <3>2, <4>1, <4>2
    <3> QED BY <2>1, <3>3, <3>4, <3>5
  <2> HIDE DEF u
  <2>5. u \o Tail(t) = s \o t
    BY <2>3, <2>4, SeqEqual
  <2> QED BY <2>5 DEF u
<1> QED BY <1>1, <1>2

-----------------------------------------------------------------------------
(* What a step does to the queue. *)

(* Queued is the slots from the one that is read to the one that is written. *)
QueueIs ==
  /\ Queued \in Seq(Char \cup {NoChar})
  /\ Len(Queued) = between(buffer_read, buffer_write)
  /\ Len(Queued) \in 0 .. (Size - 1)
  /\ \A i \in 1 .. Len(Queued) : Queued[i] = keyboard_buffer[slot(buffer_read, i)]
  /\ Queued = <<>> <=> buffer_read = buffer_write

(* It is a sequence. *)
LEMMA QueuedTyped == RingInv => QueueIs
<1> SUFFICES ASSUME RingInv PROVE QueueIs
  OBVIOUS
<1>1. /\ Waiting = between(buffer_read, buffer_write) /\ Waiting \in 0 .. (Size - 1)
      /\ Queued = [i \in 1 .. Waiting |-> keyboard_buffer[slot(buffer_read, i)]]
      /\ \A i \in 1 .. Waiting : slot(buffer_read, i) \in Slots
  BY QueuedFacts DEF RingInv
<1>2. Waiting \in Nat
  BY <1>1, RingArithmetic
<1>3. Queued \in [1 .. Waiting -> Char \cup {NoChar}]
  BY <1>1 DEF RingInv
<1>4. Queued \in Seq(Char \cup {NoChar}) /\ Len(Queued) = Waiting
  BY <1>2, <1>3, TupleFacts
<1>5. Waiting = 0 <=> buffer_read = buffer_write
  BY <1>1, RingArithmetic DEF between, RingInv, Slots
<1>6. Queued = <<>> <=> Waiting = 0
  BY <1>4, EmptySeq
<1> QED BY <1>1, <1>4, <1>5, <1>6 DEF QueueIs

(* The queue stays if the ring and its indices do. *)
LEMMA QueuedKept ==
  ASSUME UNCHANGED <<keyboard_buffer, buffer_read, buffer_write>>
  PROVE  Queued' = Queued
BY DEF Queued, Waiting

(* A character that finds room goes to the end of the queue; the ring is full
   when Size - 1 wait. *)
LEMMA StoreFacts ==
  ASSUME RingInv, RingInv', NEW STATE ch, ch \in Char, store(ch), buffer_read' = buffer_read
  PROVE  \/ Len(Queued) < Size - 1 /\ Queued' = Append(Queued, ch)
         \/ Len(Queued) = Size - 1 /\ Queued' = Queued
<1> DEFINE r == buffer_read
           w == buffer_write
           next_write == (w + 1) % Size
           n == Len(Queued)
<1>1. /\ Size \in Nat /\ Size > 1 /\ r \in Nat /\ w \in Nat /\ r < Size /\ w < Size
      /\ next_write \in Slots /\ next_write = IF w + 1 < Size THEN w + 1 ELSE 0
      /\ n = between(r, w) /\ n \in Nat
  <2>1. r \in Slots /\ w \in Slots
    BY DEF RingInv
  <2>2. next_write \in Slots /\ next_write = IF w + 1 < Size THEN w + 1 ELSE 0
    BY <2>1, NextSlot
  <2>3. n = between(r, w) /\ n \in Nat
    BY QueuedTyped DEF QueueIs
  <2> HIDE DEF r, w, next_write, n
  <2> QED BY <2>1, <2>2, <2>3, RingArithmetic DEF Slots
<1>2. CASE next_write # r
  <2>1. /\ keyboard_buffer' = [keyboard_buffer EXCEPT ![w] = ch]
        /\ buffer_write' = next_write
    BY <1>2 DEF store
  <2>2. n < Size - 1 /\ between(r, next_write) = n + 1
    <3> HIDE DEF r, w, next_write, n
    <3> QED BY <1>1, <1>2 DEF between
  <2>3. /\ Queued' \in Seq(Char \cup {NoChar}) /\ Len(Queued') = n + 1
        /\ \A i \in 1 .. (n + 1) : Queued'[i] = keyboard_buffer'[slot(r, i)]
    <3>1. /\ Queued' \in Seq(Char \cup {NoChar})
          /\ Len(Queued') = between(buffer_read', buffer_write')
          /\ \A i \in 1 .. Len(Queued') : Queued'[i] = keyboard_buffer'[slot(buffer_read', i)]
      <4>1. QueueIs'
        BY QueuedTyped, PTL
      <4> QED BY <4>1 DEF QueueIs
    <3> QED BY <2>1, <2>2, <3>1
  <2>4. slot(r, n + 1) = w /\ \A i \in 1 .. n : slot(r, i) # w /\ slot(r, i) \in Slots
    <3> HIDE DEF r, w, next_write, n
    <3> QED BY <1>1, <2>2 DEF between, slot, Slots
  <2>5. Append(Queued, ch) \in Seq(Char \cup {NoChar}) /\ Len(Append(Queued, ch)) = n + 1
        /\ Append(Queued, ch)[n + 1] = ch
        /\ \A i \in 1 .. n : Append(Queued, ch)[i] = Queued[i]
    BY QueuedTyped, AppendFacts DEF QueueIs
  <2>6. ASSUME NEW i \in 1 .. (n + 1) PROVE Queued'[i] = Append(Queued, ch)[i]
    <3>1. CASE i = n + 1
      <4>1. keyboard_buffer'[w] = ch
        BY <2>1 DEF RingInv
      <4> QED BY <2>3, <2>4, <2>5, <3>1, <4>1
    <3>2. CASE i # n + 1
      <4>1. i \in 1 .. n
        <5> HIDE DEF n
        <5> QED BY <1>1, <3>2
      <4>2. keyboard_buffer'[slot(r, i)] = keyboard_buffer[slot(r, i)]
        BY <2>1, <2>4, <4>1 DEF RingInv
      <4>3. Queued[i] = keyboard_buffer[slot(r, i)]
        BY <4>1, QueuedTyped DEF QueueIs
      <4> QED BY <2>3, <2>5, <4>1, <4>2, <4>3
    <3> QED BY <3>1, <3>2
  <2>7. Queued' = Append(Queued, ch)
    BY <2>3, <2>5, <2>6, SeqEqual
  <2> QED BY <2>2, <2>7
<1>3. CASE next_write = r
  <2>1. Queued' = Queued
    BY <1>3, QueuedKept DEF store
  <2>2. n = Size - 1
    <3> HIDE DEF r, w, next_write, n
    <3> QED BY <1>1, <1>3 DEF between
  <2> QED BY <2>1, <2>2
<1> QED BY <1>2, <1>3

(* The slot that is released held the first character. *)
LEMMA ReleaseFacts ==
  ASSUME RingInv, RingInv', buffer_read # buffer_write,
         buffer_read' = (buffer_read + 1) % Size,
         UNCHANGED <<keyboard_buffer, buffer_write>>
  PROVE  /\ Queued # <<>> /\ Head(Queued) = keyboard_buffer[buffer_read]
         /\ Queued' = Tail(Queued)
<1> DEFINE r == buffer_read
           w == buffer_write
           s == (r + 1) % Size
           n == Len(Queued)
<1>1. /\ Size \in Nat /\ Size > 1 /\ r \in Nat /\ w \in Nat /\ r < Size /\ w < Size
      /\ s \in Slots /\ s = IF r + 1 < Size THEN r + 1 ELSE 0
      /\ n = between(r, w) /\ n \in Nat /\ r # w /\ Queued # <<>>
  <2>1. r \in Slots /\ w \in Slots
    BY DEF RingInv
  <2>2. s \in Slots /\ s = IF r + 1 < Size THEN r + 1 ELSE 0
    BY <2>1, NextSlot
  <2>3. n = between(r, w) /\ n \in Nat /\ r # w /\ Queued # <<>>
    BY QueuedTyped DEF QueueIs
  <2> HIDE DEF r, w, s, n
  <2> QED BY <2>1, <2>2, <2>3, RingArithmetic DEF Slots
<1>2. n >= 1 /\ between(s, w) = n - 1 /\ slot(r, 1) = r
      /\ \A i \in 1 .. (n - 1) : slot(s, i) = slot(r, i + 1)
  <2> HIDE DEF r, w, s, n
  <2> QED BY <1>1 DEF between, slot
<1>3. /\ Tail(Queued) \in Seq(Char \cup {NoChar}) /\ Len(Tail(Queued)) = n - 1
      /\ \A i \in 1 .. (n - 1) : Tail(Queued)[i] = Queued[i + 1]
      /\ Head(Queued) = Queued[1]
  BY <1>1, QueuedTyped, HeadTailProperties DEF QueueIs
<1>4. /\ Queued' \in Seq(Char \cup {NoChar}) /\ Len(Queued') = n - 1
      /\ \A i \in 1 .. (n - 1) : Queued'[i] = keyboard_buffer[slot(s, i)]
  <2>1. /\ Queued' \in Seq(Char \cup {NoChar})
        /\ Len(Queued') = between(buffer_read', buffer_write')
        /\ \A i \in 1 .. Len(Queued') : Queued'[i] = keyboard_buffer'[slot(buffer_read', i)]
    <3>1. QueueIs'
      BY QueuedTyped, PTL
    <3> QED BY <3>1 DEF QueueIs
  <2> QED BY <1>2, <2>1
<1>5. \A i \in 1 .. n : Queued[i] = keyboard_buffer[slot(r, i)]
  BY QueuedTyped DEF QueueIs
<1>6. ASSUME NEW i \in 1 .. (n - 1) PROVE Queued'[i] = Tail(Queued)[i]
  <2>1. i + 1 \in 1 .. n
    <3> HIDE DEF n
    <3> QED BY <1>1
  <2> QED BY <1>2, <1>3, <1>4, <1>5, <2>1
<1>7. Queued' = Tail(Queued)
  BY <1>3, <1>4, <1>6, SeqEqual
<1>8. 1 \in 1 .. n
  <2> HIDE DEF n
  <2> QED BY <1>1, <1>2
<1> QED BY <1>1, <1>2, <1>3, <1>5, <1>7, <1>8

-----------------------------------------------------------------------------
(* The ring. *)

(* The scancode that the handler reads, and the character it makes of it. *)
LEMMA HandlerFacts ==
  ASSUME ShellInv, PortInv, Irq1, installed
  PROVE  /\ scancodes # <<>> /\ Len(scancodes) \in Nat /\ Len(scancodes) >= 1
         /\ Head(scancodes) = scancodes[1] /\ scancodes[1] \in Code
         /\ scancodes' = Tail(scancodes) /\ scancodes' \in Seq(Code)
         /\ Len(scancodes') = Len(scancodes) - 1
         /\ \A i \in 1 .. (Len(scancodes) - 1) : scancodes'[i] = scancodes[i + 1]
         /\ shift_pressed' = after(scancodes[1].kind, shift_pressed)
         /\ UNCHANGED <<buffer_read, installed, c, got, meant, shift_held, typed>>
         /\ scancodes[1].kind = "make" =>
              LET ch == [key |-> scancodes[1].key, shifted |-> shift_pressed,
                         n |-> scancodes[1].n]
              IN  /\ ch \in Char /\ store(ch)
                  /\ ch.n \in 1 .. Len(meant) /\ ch = meant[ch.n]
         /\ scancodes[1].kind # "make" => UNCHANGED <<keyboard_buffer, buffer_write>>
<1>1. scancodes # <<>> /\ scancodes \in Seq(Code)
  BY DEF PortInv, Irq1
<1>2. /\ Len(scancodes) \in Nat /\ Len(scancodes) >= 1
      /\ Head(scancodes) = scancodes[1] /\ scancodes[1] \in Code
      /\ Tail(scancodes) \in Seq(Code) /\ Len(Tail(scancodes)) = Len(scancodes) - 1
      /\ \A i \in 1 .. (Len(scancodes) - 1) : Tail(scancodes)[i] = scancodes[i + 1]
  BY <1>1, HeadTailProperties, EmptySeq, LenProperties
<1>3. /\ scancodes' = Tail(scancodes)
      /\ shift_pressed' = after(scancodes[1].kind, shift_pressed)
      /\ scancodes[1].kind = "make" =>
           store([key |-> scancodes[1].key, shifted |-> shift_pressed, n |-> scancodes[1].n])
      /\ scancodes[1].kind # "make" => UNCHANGED <<keyboard_buffer, buffer_write>>
      /\ UNCHANGED <<buffer_read, installed, c, got, meant, shift_held, typed>>
  BY <1>2 DEF Irq1, keyboard_irq_handler, shift_after, after, userVars
<1>4. ASSUME scancodes[1].kind = "make"
      PROVE  LET ch == [key |-> scancodes[1].key, shifted |-> shift_pressed,
                        n |-> scancodes[1].n]
             IN  ch \in Char /\ ch.n \in 1 .. Len(meant) /\ ch = meant[ch.n]
  <2>1. PICK f \in [1 .. (Len(scancodes) + 1) -> BOOLEAN] : ShiftRun(f)
    BY DEF PortInv
  <2>2. 1 \in 1 .. Len(scancodes) /\ f[1] = shift_pressed
    BY <1>2, <2>1 DEF ShiftRun
  <2>3. /\ scancodes[1].n \in 1 .. Len(meant)
        /\ meant[scancodes[1].n] =
             [key |-> scancodes[1].key, shifted |-> shift_pressed, n |-> scancodes[1].n]
    BY <1>4, <2>1, <2>2 DEF ShiftRun
  <2>4. meant[scancodes[1].n] \in Char
    BY <2>3, ElementOfSeq DEF ShellInv
  <2> QED BY <2>3, <2>4
<1> QED BY <1>1, <1>2, <1>3, <1>4

(* Interrupts never touch the slot that the thread is about to release. *)
LEMMA RingStep ==
  ASSUME RingInv, ShellInv, PortInv, Next
  PROVE  RingInv'
<1> USE DEF RingInv
<1>0. Size \in Nat /\ Size > 1 /\ 0 \in Slots
  BY RingArithmetic DEF Slots
<1>1. CASE User \/ Raise \/ Irq0 \/ (Irq1 /\ ~installed)
  <2>1. UNCHANGED <<keyboard_buffer, buffer_read, buffer_write, installed, c>>
        /\ (pc' = pc \/ (pc = "asleep" /\ pc' = "check"))
    <3>1. CASE User
      <4>1. ASSUME NEW code, Sends(code)
            PROVE  UNCHANGED <<keyboard_buffer, buffer_read, buffer_write, installed, c, pc>>
        BY <4>1 DEF Sends, ringVars
      <4> QED BY <3>1, <4>1, Zenon DEF User, Press, Other, Shift
    <3>2. CASE Raise \/ Irq0
      BY <3>2 DEF Raise, Irq0, ringVars
    <3>3. CASE Irq1 /\ ~installed
      BY <3>3 DEF Irq1, ringVars, woken
    <3> QED BY <1>1, <3>1, <3>2, <3>3
  <2> QED BY <2>1
<1>2. CASE Irq1 /\ installed
  <2>1. /\ buffer_read' = buffer_read /\ installed' = installed /\ c' = c
        /\ pc' = (IF pc = "asleep" THEN "check" ELSE pc)
    BY <1>2, HandlerFacts DEF Irq1, woken
  <2>2. CASE UNCHANGED <<keyboard_buffer, buffer_write>>
    BY <1>2, <2>1, <2>2
  <2>3. ASSUME NEW ch \in Char, store(ch), ~UNCHANGED <<keyboard_buffer, buffer_write>>
        PROVE  RingInv'
    <3>1. /\ buffer_write' # buffer_read /\ buffer_write' = (buffer_write + 1) % Size
          /\ keyboard_buffer' = [keyboard_buffer EXCEPT ![buffer_write] = ch]
      BY <2>3 DEF store
    <3>2. buffer_write' \in Slots
      BY <3>1, NextSlot
    <3>3. /\ keyboard_buffer' \in [Slots -> Char \cup {NoChar}]
          /\ buffer_read # buffer_write => keyboard_buffer'[buffer_read] = keyboard_buffer[buffer_read]
      BY <3>1
    <3> QED BY <1>2, <2>1, <3>1, <3>2, <3>3
  <2> QED BY <1>2, <2>2, <2>3, HandlerFacts
<1>3. CASE InitIrq
  BY <1>0, <1>3 DEF InitIrq
<1>4. CASE Check \/ Hlt \/ Load
  BY <1>4 DEF Check, Hlt, Load, ringVars
<1>5. CASE Advance
  BY <1>5, NextSlot DEF Advance
<1> QED BY <1>1, <1>2, <1>3, <1>4, <1>5 DEF Next, Thread

-----------------------------------------------------------------------------
(* The queue that the driver implements. *)

(* The steps that neither store nor release a character. *)
LEMMA QueueFrame ==
  ASSUME RingInv, Next, ~(Irq1 /\ installed), ~Advance
  PROVE  Queued' = Queued /\ got' = got
<1>1. UNCHANGED <<keyboard_buffer, buffer_read, buffer_write, got>>
  BY DEF RingInv, Next, User, Press, Other, Shift, Sends, Raise, Irq0, Irq1, Thread, InitIrq,
     Check, Hlt, Load, ringVars
<1> QED BY <1>1, QueuedKept

(* keyboard_getchar returns the first character of the queue. *)
LEMMA TakeStep ==
  ASSUME RingInv, RingInv', Advance
  PROVE  /\ Queued # <<>> /\ Queued' = Tail(Queued) /\ got' = Append(got, Head(Queued))
         /\ UNCHANGED <<meant, typed, scancodes, shift_pressed, shift_held, raised, irq1>>
<1>1. /\ pc = "advance" /\ buffer_read # buffer_write /\ c = keyboard_buffer[buffer_read]
      /\ buffer_read' = (buffer_read + 1) % Size /\ got' = Append(got, c)
      /\ UNCHANGED <<keyboard_buffer, buffer_write>>
  BY DEF RingInv, Advance
<1>2. /\ Queued # <<>> /\ Head(Queued) = keyboard_buffer[buffer_read]
      /\ Queued' = Tail(Queued)
  BY <1>1, ReleaseFacts
<1> QED BY <1>1, <1>2 DEF Advance, deviceVars, userVars

(* The handler stores at the end of the queue, unless it is full. *)
LEMMA PutStep ==
  ASSUME RingInv, RingInv', ShellInv, PortInv, Irq1, installed
  PROVE  /\ got' = got
         /\ \/ Queued' = Queued
            \/ LET ch == [key |-> scancodes[1].key, shifted |-> shift_pressed,
                          n |-> scancodes[1].n]
               IN  /\ scancodes[1].kind = "make" /\ ch \in Char
                   /\ Len(Queued) < Size - 1 /\ Queued' = Append(Queued, ch)
<1> DEFINE ch == [key |-> scancodes[1].key, shifted |-> shift_pressed, n |-> scancodes[1].n]
<1>1. CASE scancodes[1].kind = "make"
  <2>1. ch \in Char /\ store(ch) /\ buffer_read' = buffer_read /\ got' = got
    BY <1>1, HandlerFacts
  <2> HIDE DEF ch
  <2>2. \/ Len(Queued) < Size - 1 /\ Queued' = Append(Queued, ch)
        \/ Queued' = Queued
    BY <2>1, StoreFacts
  <2> QED BY <1>1, <2>1, <2>2 DEF ch
<1>2. CASE scancodes[1].kind # "make"
  BY <1>2, HandlerFacts, QueuedKept
<1> QED BY <1>1, <1>2

-----------------------------------------------------------------------------
(* What the shell gets. *)

(* A faithful sequence is extended by a later press. *)
LEMMA FaithfulAppend ==
  ASSUME NEW s \in Seq(Char), Faithful(s), NEW e \in Char,
         e.n \in 1 .. Len(meant), e = meant[e.n], \A i \in 1 .. Len(s) : s[i].n < e.n
  PROVE  Faithful(Append(s, e))
<1> DEFINE t == Append(s, e)
<1>1. /\ t \in Seq(Char) /\ Len(t) = Len(s) + 1 /\ t[Len(s) + 1] = e /\ Len(s) \in Nat
      /\ \A i \in 1 .. Len(s) : t[i] = s[i]
  BY AppendFacts
<1> HIDE DEF t
<1>2. ASSUME NEW i \in 1 .. Len(t)
      PROVE  i \in 1 .. Len(s) \/ i = Len(s) + 1
  BY <1>1
<1>3. \A i \in 1 .. Len(t) : t[i].n \in 1 .. Len(meant) /\ t[i] = meant[t[i].n]
  BY <1>1, <1>2 DEF Faithful
<1>4. ASSUME NEW i \in 1 .. Len(t), NEW j \in 1 .. Len(t), i < j
      PROVE  t[i].n < t[j].n
  <2>1. i \in 1 .. Len(s)
    BY <1>1, <1>4
  <2> QED BY <1>1, <1>2, <2>1, <1>4 DEF Faithful
<1> QED BY <1>3, <1>4 DEF Faithful, t

(* The characters that wait or have been handed out, before and after a step. *)
LEMMA AllAfter ==
  ASSUME RingInv, RingInv', ShellInv, PortInv, Next
  PROVE  /\ got' \in Seq(Char) /\ Queued' \in Seq(Char)
         /\ \/ got' \o Queued' = got \o Queued
            \/ LET ch == [key |-> scancodes[1].key, shifted |-> shift_pressed,
                          n |-> scancodes[1].n]
               IN  /\ Irq1 /\ installed /\ scancodes[1].kind = "make" /\ ch \in Char
                   /\ got' \o Queued' = Append(got \o Queued, ch)
<1>1. got \in Seq(Char) /\ Queued \in Seq(Char)
  BY DEF ShellInv
<1>2. CASE Irq1 /\ installed
  <2> DEFINE ch == [key |-> scancodes[1].key, shifted |-> shift_pressed, n |-> scancodes[1].n]
  <2>1. /\ got' = got
        /\ \/ Queued' = Queued
           \/ scancodes[1].kind = "make" /\ ch \in Char /\ Queued' = Append(Queued, ch)
    BY <1>2, PutStep
  <2> HIDE DEF ch
  <2>2. CASE Queued' = Queued
    BY <1>1, <2>1, <2>2
  <2>3. CASE scancodes[1].kind = "make" /\ ch \in Char /\ Queued' = Append(Queued, ch)
    <3>1. Append(Queued, ch) \in Seq(Char)
      BY <1>1, <2>3, AppendFacts
    <3>2. got \o Append(Queued, ch) = Append(got \o Queued, ch)
      BY <1>1, <2>3, MoveFacts
    <3> QED BY <1>1, <1>2, <2>1, <2>3, <3>1, <3>2 DEF ch
  <2> QED BY <2>1, <2>2, <2>3
<1>3. CASE Advance
  <2>1. Queued # <<>> /\ Queued' = Tail(Queued) /\ got' = Append(got, Head(Queued))
    BY <1>3, TakeStep
  <2>2. Head(Queued) \in Char /\ Tail(Queued) \in Seq(Char)
    BY <1>1, <2>1, HeadTailProperties
  <2>3. Append(got, Head(Queued)) \in Seq(Char)
    BY <1>1, <2>2, AppendFacts
  <2>4. Append(got, Head(Queued)) \o Tail(Queued) = got \o Queued
    BY <1>1, <2>1, <2>2, MoveFacts
  <2> QED BY <2>1, <2>2, <2>3, <2>4
<1>4. CASE ~(Irq1 /\ installed) /\ ~Advance
  BY <1>1, <1>4, QueueFrame
<1> QED BY <1>2, <1>3, <1>4

(* What the user means grows by one with each press. *)
LEMMA MeantAfter ==
  ASSUME ShellInv, PortInv, Next
  PROVE  /\ typed' \in 0 .. MaxTyped /\ Len(meant') <= typed'
         /\ meant' \in Seq(Char) /\ Len(meant) \in Nat /\ Len(meant') \in Nat
         /\ Len(meant) <= Len(meant')
         /\ \A i \in 1 .. Len(meant') : meant'[i].n = i
         /\ \A i \in 1 .. Len(meant) : meant'[i] = meant[i]
<1>1. /\ typed \in Nat /\ typed <= MaxTyped /\ MaxTyped \in Nat
      /\ meant \in Seq(Char) /\ Len(meant) \in Nat /\ Len(meant) <= typed
      /\ \A i \in 1 .. Len(meant) : meant[i].n = i
  BY KeyboardAssumption, LenProperties DEF ShellInv
<1>2. ASSUME NEW k \in Keys, Press(k)
      PROVE  /\ typed' \in 0 .. MaxTyped /\ Len(meant') <= typed'
             /\ meant' \in Seq(Char) /\ Len(meant') = Len(meant) + 1
             /\ \A i \in 1 .. Len(meant') : meant'[i].n = i
             /\ \A i \in 1 .. Len(meant) : meant'[i] = meant[i]
  <2> DEFINE ch == [key |-> k, shifted |-> shift_held, n |-> Len(meant) + 1]
  <2>1. typed < MaxTyped /\ typed' = typed + 1 /\ meant' = Append(meant, ch)
    BY <1>2 DEF Press, Sends
  <2>2. ch \in Char /\ ch.n = Len(meant) + 1
    <3>1. Len(meant) + 1 \in 1 .. MaxTyped
      BY <1>1, <2>1
    <3> QED BY <3>1 DEF Char, PortInv
  <2> HIDE DEF ch
  <2>3. /\ meant' \in Seq(Char) /\ Len(meant') = Len(meant) + 1
        /\ meant'[Len(meant) + 1] = ch
        /\ \A i \in 1 .. Len(meant) : meant'[i] = meant[i]
    BY <1>1, <2>1, <2>2, AppendFacts
  <2>4. \A i \in 1 .. Len(meant') : i \in 1 .. Len(meant) \/ i = Len(meant) + 1
    BY <1>1, <2>3
  <2>5. typed' \in 0 .. MaxTyped /\ Len(meant') <= typed'
    BY <1>1, <2>1, <2>3
  <2> QED BY <1>1, <2>2, <2>3, <2>4, <2>5
<1>3. CASE Other \/ Shift
  <2>1. typed < MaxTyped /\ typed' = typed + 1 /\ meant' = meant
    BY <1>3 DEF Other, Shift, Sends
  <2> QED BY <1>1, <2>1
<1>4. CASE ~User
  <2>1. typed' = typed /\ meant' = meant
    BY <1>4 DEF Next, Raise, Irq1, Irq0, Thread, InitIrq, Check, Hlt, Load, Advance, userVars
  <2> QED BY <1>1, <2>1
<1> QED BY <1>1, <1>2, <1>3, <1>4 DEF User

(* The shell gets what the user meant. *)
LEMMA ShellStep ==
  ASSUME KeyInv, RingInv', Next
  PROVE  ShellInv'
<1> USE DEF KeyInv
<1> DEFINE all == got \o Queued
<1>1. /\ typed' \in 0 .. MaxTyped /\ Len(meant') <= typed'
      /\ meant' \in Seq(Char) /\ Len(meant) \in Nat /\ Len(meant') \in Nat
      /\ Len(meant) <= Len(meant')
      /\ \A i \in 1 .. Len(meant') : meant'[i].n = i
      /\ \A i \in 1 .. Len(meant) : meant'[i] = meant[i]
  BY MeantAfter
<1>2. all \in Seq(Char) /\ Faithful(all)
  BY ConcatProperties DEF ShellInv
<1>3. ASSUME NEW s, Faithful(s)
      PROVE  /\ \A i \in 1 .. Len(s) : s[i].n \in 1 .. Len(meant') /\ s[i] = meant'[s[i].n]
             /\ \A i, j \in 1 .. Len(s) : i < j => s[i].n < s[j].n
  BY <1>1, <1>3 DEF Faithful
<1>4. Faithful(got' \o Queued')
  <2> DEFINE ch == [key |-> scancodes[1].key, shifted |-> shift_pressed, n |-> scancodes[1].n]
  <2>1. \/ got' \o Queued' = all
        \/ /\ Irq1 /\ installed /\ scancodes[1].kind = "make" /\ ch \in Char
           /\ got' \o Queued' = Append(all, ch)
    BY AllAfter
  <2>2. CASE Irq1 /\ installed /\ scancodes[1].kind = "make" /\ ch \in Char
    <3>1. ch.n \in 1 .. Len(meant) /\ ch = meant[ch.n]
      BY <2>2, HandlerFacts
    <3>2. \A i \in 1 .. Len(all) : all[i].n < ch.n
      <4>1. 1 \in 1 .. Len(scancodes)
        BY <2>2, HandlerFacts
      <4> QED BY <2>2, <4>1 DEF OrderInv
    <3> HIDE DEF ch, all
    <3>3. Faithful(Append(all, ch))
      BY <1>2, <2>2, <3>1, <3>2, FaithfulAppend
    <3> QED BY <1>2, <2>1, <3>3 DEF all
  <2> HIDE DEF ch, all
  <2> QED BY <1>2, <2>1, <2>2
<1>5. got' \in Seq(Char) /\ Queued' \in Seq(Char)
  BY AllAfter
<1> HIDE DEF all
<1> QED BY <1>1, <1>3, <1>4, <1>5 DEF ShellInv, Faithful

(* The scancode that the user causes, and what it means. *)
LEMMA UserSends ==
  ASSUME ShellInv, PortInv, User
  PROVE  \E code \in Code :
           /\ scancodes' = Append(scancodes, code)
           /\ shift_held' = after(code.kind, shift_held)
           /\ UNCHANGED <<raised, irq1, shift_pressed>>
           /\ \/ /\ code.kind = "make" /\ code.n = Len(meant) + 1
                 /\ meant' = Append(meant, [key |-> code.key, shifted |-> shift_held,
                                           n |-> code.n])
              \/ code.kind # "make" /\ meant' = meant
<1>1. ASSUME NEW code, Sends(code)
      PROVE  /\ typed < MaxTyped /\ scancodes' = Append(scancodes, code)
             /\ UNCHANGED <<raised, irq1, shift_pressed>>
  BY <1>1 DEF Sends, ringVars
<1>2. ASSUME NEW k \in Keys, Press(k)
      PROVE  \E code \in Code :
               /\ Sends(code) /\ shift_held' = after(code.kind, shift_held)
               /\ code.kind = "make" /\ code.n = Len(meant) + 1
               /\ meant' = Append(meant, [key |-> code.key, shifted |-> shift_held,
                                         n |-> code.n])
  <2> DEFINE code == [kind |-> "make", key |-> k, n |-> Len(meant) + 1]
  <2>1. Sends(code) /\ shift_held' = shift_held
        /\ meant' = Append(meant, [key |-> k, shifted |-> shift_held, n |-> Len(meant) + 1])
    BY <1>2 DEF Press
  <2>2. Len(meant) + 1 \in 1 .. MaxTyped
    BY <1>1, <2>1, KeyboardAssumption, LenProperties DEF ShellInv
  <2>3. code \in Code /\ code.kind = "make" /\ code.key = k /\ code.n = Len(meant) + 1
    BY <2>2 DEF Code, Make
  <2> HIDE DEF code
  <2>4. shift_held' = after(code.kind, shift_held)
    BY <2>1, <2>3 DEF after
  <2> QED BY <2>1, <2>3, <2>4
<1>3. ASSUME Other \/ Shift
      PROVE  \E code \in Code :
               /\ Sends(code) /\ shift_held' = after(code.kind, shift_held)
               /\ code.kind # "make" /\ meant' = meant
  <2>1. CASE Other
    <3> DEFINE code == [kind |-> "other"]
    <3>1. Sends(code) /\ shift_held' = shift_held /\ meant' = meant
      BY <2>1 DEF Other
    <3>2. code \in Code /\ code.kind = "other"
      BY DEF Code
    <3> HIDE DEF code
    <3> QED BY <3>1, <3>2 DEF after
  <2>2. CASE Shift
    <3> DEFINE code == [kind |-> IF shift_held THEN "shift up" ELSE "shift down"]
    <3>1. Sends(code) /\ shift_held' = ~shift_held /\ meant' = meant
      BY <2>2 DEF Shift
    <3>2. code \in Code /\ code.kind = IF shift_held THEN "shift up" ELSE "shift down"
      BY DEF Code
    <3> HIDE DEF code
    <3>3. after(code.kind, shift_held) = ~shift_held
      BY <3>2 DEF after, PortInv
    <3> QED BY <3>1, <3>2, <3>3
  <2> QED BY <1>3, <2>1, <2>2
<1> QED BY <1>1, <1>2, <1>3 DEF User

(* The steps that neither send a scancode nor read one. *)
LEMMA PortFrame ==
  ASSUME Next, ~User, ~(Irq1 /\ installed)
  PROVE  UNCHANGED <<scancodes, shift_pressed, shift_held, meant>>
BY DEF Next, Raise, Irq1, Irq0, Thread, InitIrq, Check, Hlt, Load, Advance, ringVars,
   userVars, deviceVars

(* The driver's book of the shift key never loses a scancode. *)
LEMMA PortStep ==
  ASSUME KeyInv, Next
  PROVE  PortInv'
<1> USE DEF KeyInv
<1>1. /\ Len(meant) \in Nat /\ Len(meant') \in Nat /\ Len(meant) <= Len(meant')
      /\ \A i \in 1 .. Len(meant) : meant'[i] = meant[i]
  BY MeantAfter
<1>2. scancodes \in Seq(Code) /\ Len(scancodes) \in Nat
      /\ shift_pressed \in BOOLEAN /\ shift_held \in BOOLEAN
  BY LenProperties DEF PortInv
<1>3. PICK f \in [1 .. (Len(scancodes) + 1) -> BOOLEAN] : ShiftRun(f)
  BY DEF PortInv
<1>4. /\ f[1] = shift_pressed /\ f[Len(scancodes) + 1] = shift_held
      /\ \A i \in 1 .. Len(scancodes) : f[i + 1] = after(scancodes[i].kind, f[i])
      /\ \A i \in 1 .. Len(scancodes) : scancodes[i].kind = "make" =>
           /\ scancodes[i].n \in 1 .. Len(meant)
           /\ meant[scancodes[i].n] =
                [key |-> scancodes[i].key, shifted |-> f[i], n |-> scancodes[i].n]
  BY <1>3 DEF ShiftRun
<1>5. \A i \in 1 .. Len(scancodes) : scancodes[i].kind = "make" =>
           /\ scancodes[i].n \in 1 .. Len(meant')
           /\ meant'[scancodes[i].n] =
                [key |-> scancodes[i].key, shifted |-> f[i], n |-> scancodes[i].n]
  BY <1>1, <1>4
<1>6. CASE User
  <2>1. PICK code \in Code :
           /\ scancodes' = Append(scancodes, code)
           /\ shift_held' = after(code.kind, shift_held)
           /\ UNCHANGED <<raised, irq1, shift_pressed>>
           /\ \/ /\ code.kind = "make" /\ code.n = Len(meant) + 1
                 /\ meant' = Append(meant, [key |-> code.key, shifted |-> shift_held,
                                           n |-> code.n])
              \/ code.kind # "make" /\ meant' = meant
    BY <1>6, UserSends
  <2> DEFINE n == Len(scancodes)
  <2>2. /\ scancodes' \in Seq(Code) /\ Len(scancodes') = n + 1 /\ scancodes'[n + 1] = code
        /\ \A i \in 1 .. n : scancodes'[i] = scancodes[i]
    BY <1>2, <2>1, AppendFacts
  <2>3. scancodes' # <<>>
    BY <1>2, <2>2, EmptySeq
  <2>4. after(code.kind, f[n + 1]) \in BOOLEAN /\ shift_held' \in BOOLEAN
    BY <1>2, <1>4, <2>1 DEF after
  <2>5. PICK g \in [1 .. (n + 2) -> BOOLEAN] :
             (\A i \in 1 .. (n + 1) : g[i] = f[i]) /\ g[n + 2] = after(code.kind, f[n + 1])
    <3> DEFINE h == [i \in 1 .. (n + 2) |->
                       IF i <= n + 1 THEN f[i] ELSE after(code.kind, f[n + 1])]
    <3>1. /\ h \in [1 .. (n + 2) -> BOOLEAN] /\ \A i \in 1 .. (n + 1) : h[i] = f[i]
          /\ h[n + 2] = after(code.kind, f[n + 1])
      BY <1>2, <1>3, <2>4
    <3> HIDE DEF h
    <3> QED BY <3>1
  <2>6. code.kind = "make" =>
          /\ code.n \in 1 .. Len(meant')
          /\ meant'[code.n] = [key |-> code.key, shifted |-> shift_held, n |-> code.n]
    <3> DEFINE ch == [key |-> code.key, shifted |-> shift_held, n |-> code.n]
    <3>1. CASE code.kind = "make"
      <4>1. ch \in Char
        <5>1. code \in Make
          BY <3>1 DEF Code
        <5> QED BY <1>2, <5>1 DEF Make, Char
      <4>2. code.n = Len(meant) + 1 /\ meant' = Append(meant, ch)
        BY <2>1, <3>1
      <4> HIDE DEF ch
      <4>3. Len(meant') = Len(meant) + 1 /\ meant'[Len(meant) + 1] = ch
        BY <4>1, <4>2, AppendFacts DEF ShellInv
      <4> QED BY <1>1, <4>2, <4>3 DEF ch
    <3> QED BY <3>1
  <2>7. ASSUME NEW i \in 1 .. (n + 1)
        PROVE  /\ g[i + 1] = after(scancodes'[i].kind, g[i])
               /\ scancodes'[i].kind = "make" =>
                   /\ scancodes'[i].n \in 1 .. Len(meant')
                   /\ meant'[scancodes'[i].n] =
                        [key |-> scancodes'[i].key, shifted |-> g[i], n |-> scancodes'[i].n]
    <3>1. CASE i = n + 1
      BY <1>2, <1>4, <2>2, <2>5, <2>6, <3>1
    <3>2. CASE i # n + 1
      <4>1. i \in 1 .. n /\ i + 1 \in 1 .. (n + 1) /\ i \in 1 .. (n + 1)
        BY <1>2, <3>2
      <4>2. g[i] = f[i] /\ g[i + 1] = f[i + 1] /\ scancodes'[i] = scancodes[i]
        BY <2>2, <2>5, <4>1
      <4> QED BY <1>4, <1>5, <4>1, <4>2
    <3> QED BY <3>1, <3>2
  <2>8. g[1] = shift_pressed' /\ g[n + 2] = shift_held'
    BY <1>2, <1>4, <2>1, <2>5
  <2>9. ShiftRun(g)'
    <3>1. Len(scancodes') + 1 = n + 2
      BY <1>2, <2>2
    <3> QED BY <2>2, <2>7, <2>8, <3>1 DEF ShiftRun
  <2>10. g \in [1 .. (Len(scancodes') + 1) -> BOOLEAN]
    BY <1>2, <2>2, <2>5
  <2>11. (raised' => scancodes' # <<>>) /\ (irq1' => raised') /\ shift_pressed' \in BOOLEAN
    BY <1>2, <2>1, <2>3 DEF PortInv
  <2> QED BY <2>2, <2>4, <2>9, <2>10, <2>11 DEF PortInv
<1>7. CASE Irq1 /\ installed
  <2> DEFINE n == Len(scancodes)
  <2>1. /\ scancodes' \in Seq(Code) /\ n >= 1 /\ Len(scancodes') = n - 1
        /\ \A i \in 1 .. (n - 1) : scancodes'[i] = scancodes[i + 1]
        /\ shift_pressed' = after(scancodes[1].kind, shift_pressed)
        /\ UNCHANGED <<meant, shift_held>>
    BY <1>7, HandlerFacts
  <2>2. raised' = FALSE /\ irq1' = FALSE
    BY <1>7 DEF Irq1, keyboard_irq_handler
  <2>3. PICK g \in [1 .. n -> BOOLEAN] : \A i \in 1 .. n : g[i] = f[i + 1]
    <3> DEFINE h == [i \in 1 .. n |-> f[i + 1]]
    <3>1. h \in [1 .. n -> BOOLEAN] /\ \A i \in 1 .. n : h[i] = f[i + 1]
      BY <1>2, <1>3
    <3> HIDE DEF h
    <3> QED BY <3>1
  <2>4. g[1] = shift_pressed' /\ g[n] = shift_held' /\ shift_pressed' \in BOOLEAN
    <3>1. 1 \in 1 .. n /\ n \in 1 .. n
      BY <1>2, <2>1
    <3> QED BY <1>2, <1>4, <2>1, <2>3, <3>1 DEF after
  <2>5. ASSUME NEW i \in 1 .. (n - 1)
        PROVE  /\ g[i + 1] = after(scancodes'[i].kind, g[i])
               /\ scancodes'[i].kind = "make" =>
                   /\ scancodes'[i].n \in 1 .. Len(meant')
                   /\ meant'[scancodes'[i].n] =
                        [key |-> scancodes'[i].key, shifted |-> g[i], n |-> scancodes'[i].n]
    <3>1. i \in 1 .. n /\ i + 1 \in 1 .. n
      BY <1>2, <2>1
    <3> QED BY <1>4, <1>5, <2>1, <2>3, <3>1
  <2>6. Len(scancodes') + 1 = n
    BY <1>2, <2>1
  <2> HIDE DEF n
  <2>7. ShiftRun(g)'
    BY <2>1, <2>4, <2>5, <2>6 DEF ShiftRun
  <2> QED BY <1>2, <2>1, <2>2, <2>3, <2>4, <2>6, <2>7 DEF PortInv
<1>8. CASE ~User /\ ~(Irq1 /\ installed)
  <2>1. UNCHANGED <<scancodes, shift_pressed, shift_held, meant>>
    BY <1>8, PortFrame
  <2>2. (raised' => scancodes' # <<>>) /\ (irq1' => raised')
    BY <1>8, <2>1 DEF PortInv, Next, Raise, Irq1, Irq0, Thread, InitIrq, Check, Hlt, Load,
       Advance, deviceVars
  <2>3. ShiftRun(f)'
    BY <1>4, <2>1 DEF ShiftRun
  <2> QED BY <1>2, <1>3, <2>1, <2>2, <2>3 DEF PortInv
<1> QED BY <1>6, <1>7, <1>8


(* A scancode comes after those that came before it. *)
LEMMA OrderStep ==
  ASSUME KeyInv, RingInv', Next
  PROVE  OrderInv'
<1> USE DEF KeyInv
<1> DEFINE all == got \o Queued
           Made(i) == scancodes[i].kind = "make"
<1>1. /\ scancodes \in Seq(Code) /\ Len(scancodes) \in Nat /\ Len(meant) \in Nat
      /\ all \in Seq(Char) /\ Len(all) \in Nat
  BY LenProperties, ConcatProperties DEF PortInv, ShellInv
<1>2. /\ \A i, j \in 1 .. Len(scancodes) :
            i < j /\ Made(i) /\ Made(j) => scancodes[i].n < scancodes[j].n
      /\ \A i \in 1 .. Len(scancodes), j \in 1 .. Len(all) :
            Made(i) => all[j].n < scancodes[i].n
  BY DEF OrderInv
<1>3. \A i \in 1 .. Len(scancodes) : Made(i) => scancodes[i].n \in 1 .. Len(meant)
  BY DEF PortInv, ShiftRun
<1>4. \A j \in 1 .. Len(all) : all[j].n \in 1 .. Len(meant)
  BY DEF ShellInv, Faithful
<1>5. CASE Irq1 /\ installed
  <2> DEFINE n == Len(scancodes)
             ch == [key |-> scancodes[1].key, shifted |-> shift_pressed, n |-> scancodes[1].n]
  <2>1. /\ n >= 1 /\ Len(scancodes') = n - 1
        /\ \A i \in 1 .. (n - 1) : scancodes'[i] = scancodes[i + 1]
    BY <1>5, HandlerFacts
  <2>2. \A i \in 1 .. (n - 1) : i + 1 \in 1 .. n /\ 1 \in 1 .. n /\ 1 < i + 1
    BY <1>1, <2>1
  <2>3. \A i, j \in 1 .. Len(scancodes') :
          i < j /\ scancodes'[i].kind = "make" /\ scancodes'[j].kind = "make" =>
            scancodes'[i].n < scancodes'[j].n
    <3>1. \A i, j \in 1 .. (n - 1) : i < j => i + 1 < j + 1
      BY <1>1
    <3> QED BY <1>2, <2>1, <2>2, <3>1
  <2>4. \/ got' \o Queued' = all
        \/ scancodes[1].kind = "make" /\ ch \in Char /\ got' \o Queued' = Append(all, ch)
    BY AllAfter
  <2>5. ch.n = scancodes[1].n
    OBVIOUS
  <2> HIDE DEF ch, all
  <2>6. ASSUME NEW i \in 1 .. Len(scancodes'), NEW j \in 1 .. Len(got' \o Queued'),
               scancodes'[i].kind = "make"
        PROVE  (got' \o Queued')[j].n < scancodes'[i].n
    <3>1. /\ i \in 1 .. (n - 1) /\ i + 1 \in 1 .. n /\ 1 \in 1 .. n /\ 1 < i + 1
          /\ scancodes'[i] = scancodes[i + 1] /\ Made(i + 1)
      BY <2>1, <2>2, <2>6
    <3>2. CASE got' \o Queued' = all
      BY <1>2, <2>6, <3>1, <3>2
    <3>3. CASE Made(1) /\ ch \in Char /\ got' \o Queued' = Append(all, ch)
      <4>1. /\ Len(Append(all, ch)) = Len(all) + 1 /\ Append(all, ch)[Len(all) + 1] = ch
            /\ \A k \in 1 .. Len(all) : Append(all, ch)[k] = all[k]
        BY <1>1, <3>3, AppendFacts
      <4>2. CASE j = Len(all) + 1
        BY <1>2, <2>5, <3>1, <3>3, <4>1, <4>2
      <4>3. CASE j # Len(all) + 1
        <5>1. j \in 1 .. Len(all)
          BY <1>1, <2>6, <3>3, <4>1, <4>3
        <5> QED BY <1>2, <3>1, <3>3, <4>1, <5>1
      <4> QED BY <4>2, <4>3
    <3> QED BY <2>4, <3>2, <3>3
  <2> QED BY <2>3, <2>6 DEF OrderInv
<1>6. CASE ~(Irq1 /\ installed)
  <2>1. got' \o Queued' = all
    BY <1>6, AllAfter
  <2>2. CASE User
    <3>1. PICK code \in Code :
             /\ scancodes' = Append(scancodes, code)
             /\ code.kind = "make" => code.n = Len(meant) + 1
      BY <2>2, UserSends
    <3> DEFINE n == Len(scancodes)
    <3>2. /\ Len(scancodes') = n + 1 /\ scancodes'[n + 1] = code
          /\ \A i \in 1 .. n : scancodes'[i] = scancodes[i]
      BY <1>1, <3>1, AppendFacts
    <3>3. \A i \in 1 .. Len(scancodes') : i \in 1 .. n \/ i = n + 1
      BY <1>1, <3>2
    <3>4. ASSUME NEW i \in 1 .. Len(scancodes'), NEW j \in 1 .. Len(scancodes'), i < j,
                 scancodes'[i].kind = "make", scancodes'[j].kind = "make"
          PROVE  scancodes'[i].n < scancodes'[j].n
      <4>1. i \in 1 .. n
        BY <1>1, <3>2, <3>4
      <4>2. CASE j = n + 1
        BY <1>1, <1>3, <3>1, <3>2, <3>4, <4>1, <4>2
      <4>3. CASE j # n + 1
        BY <1>2, <3>2, <3>3, <3>4, <4>1, <4>3
      <4> QED BY <4>2, <4>3
    <3>5. ASSUME NEW i \in 1 .. Len(scancodes'), NEW j \in 1 .. Len(all),
                 scancodes'[i].kind = "make"
          PROVE  all[j].n < scancodes'[i].n
      <4>1. CASE i = n + 1
        <5>1. scancodes'[i].n = Len(meant) + 1
          BY <3>1, <3>2, <3>5, <4>1
        <5>2. all[j].n \in 1 .. Len(meant)
          BY <1>4, <3>5
        <5> HIDE DEF all
        <5> QED BY <1>1, <5>1, <5>2
      <4>2. CASE i # n + 1
        BY <1>2, <3>2, <3>3, <3>5, <4>2
      <4> QED BY <4>1, <4>2
    <3> HIDE DEF all
    <3> QED BY <2>1, <3>4, <3>5 DEF OrderInv
  <2>3. CASE ~User
    <3>1. scancodes' = scancodes
      BY <1>6, <2>3, PortFrame
    <3> HIDE DEF all
    <3> QED BY <1>2, <2>1, <3>1 DEF OrderInv
  <2> QED BY <2>2, <2>3
<1> QED BY <1>5, <1>6

-----------------------------------------------------------------------------
(* The theorems. *)

(* The driver starts with an empty ring and no handler. *)
LEMMA InitKey == Init => KeyInv
<1> SUFFICES ASSUME Init PROVE KeyInv
  OBVIOUS
<1>1. RingInv
  <2>1. 0 \in Slots
    BY RingArithmetic DEF Slots
  <2> QED BY <2>1 DEF Init, RingInv, Slots
<1>2. Queued = <<>>
  BY <1>1, QueuedTyped DEF QueueIs, Init
<1>3. got = <<>> /\ meant = <<>> /\ scancodes = <<>> /\ got \o Queued = <<>>
  BY <1>2 DEF Init
<1>4. \A i \in 1 .. 0 : FALSE
  OBVIOUS
<1>5. Len(<<>>) = 0 /\ \A S : <<>> \in Seq(S)
  OBVIOUS
<1>6. ShellInv
  BY <1>2, <1>3, <1>4, <1>5, KeyboardAssumption DEF Init, ShellInv, Faithful
<1>7. PortInv
  <2> DEFINE h == [i \in 1 .. (Len(scancodes) + 1) |-> FALSE]
  <2>1. h \in [1 .. (Len(scancodes) + 1) -> BOOLEAN] /\ h[1] = FALSE
        /\ Len(scancodes) + 1 = 1
    BY <1>3, <1>5
  <2> HIDE DEF h
  <2>2. ShiftRun(h)
    BY <1>3, <1>4, <1>5, <2>1 DEF Init, ShiftRun
  <2> QED BY <1>3, <1>5, <2>1, <2>2 DEF Init, PortInv
<1>8. OrderInv
  BY <1>3, <1>4, <1>5 DEF OrderInv
<1> QED BY <1>1, <1>6, <1>7, <1>8 DEF KeyInv

(* Every step of the user, the devices, the handler and the thread keeps the
   invariant. *)
LEMMA KeyStep == KeyInv /\ [Next]_vars => KeyInv'
<1>1. ASSUME KeyInv, Next PROVE KeyInv'
  <2>1. RingInv'
    BY <1>1, RingStep DEF KeyInv
  <2> QED BY <1>1, <2>1, ShellStep, PortStep, OrderStep DEF KeyInv
<1>2. ASSUME KeyInv, UNCHANGED vars PROVE KeyInv'
  <2>1. Queued' = Queued
    BY <1>2, QueuedKept DEF vars
  <2>2. RingInv'
    BY <1>2 DEF KeyInv, RingInv, vars
  <2>3. ShellInv'
    BY <1>2, <2>1 DEF KeyInv, ShellInv, Faithful, vars
  <2>4. PortInv'
    BY <1>2 DEF KeyInv, PortInv, ShiftRun, vars
  <2>5. OrderInv'
    BY <1>2, <2>1 DEF KeyInv, OrderInv, vars
  <2> QED BY <2>2, <2>3, <2>4, <2>5 DEF KeyInv
<1> QED BY <1>1, <1>2

(* The invariant holds in every state. *)
LEMMA KeyAlways == Spec => []KeyInv
BY InitKey, KeyStep, PTL DEF Spec

(* Whatever the interleaving of interrupts and thread, the shell gets the
   characters that the user meant, with the shift key as it was held when each
   key went down, in the order of the presses and none of them twice. *)
THEOREM ShellGetsWhatWasMeant == Spec => []AsMeant
<1>1. KeyInv => AsMeant
  <2> SUFFICES ASSUME KeyInv PROVE AsMeant
    OBVIOUS
  <2>1. got \o Queued \in Seq(Char) /\ Faithful(got \o Queued)
    BY ConcatProperties DEF KeyInv, ShellInv
  <2>2. DOMAIN (got \o Queued) = 1 .. Len(got \o Queued)
    BY <2>1, LenProperties
  <2> QED BY <2>1, <2>2 DEF AsMeant, Faithful
<1> QED BY <1>1, KeyAlways, PTL

(* The ring and its indices are a first-in first-out queue of Size - 1 places:
   the safety part of IsQueue. *)
THEOREM RingIsQueue == Spec => Queue!Init /\ [][Queue!Next]_(Queue!queueVars)
<1>1. Init => Queue!Init
  <2> SUFFICES ASSUME Init PROVE Queue!Init
    OBVIOUS
  <2> QED BY InitKey, QueuedTyped DEF QueueIs, Init, KeyInv, Queue!Init
<1>2. ASSUME KeyInv, KeyInv', Next
      PROVE  Queue!Next \/ UNCHANGED Queue!queueVars
  <2>1. CASE Irq1 /\ installed
    <3> DEFINE ch == [key |-> scancodes[1].key, shifted |-> shift_pressed,
                      n |-> scancodes[1].n]
    <3>1. /\ got' = got
          /\ \/ Queued' = Queued
             \/ ch \in Char /\ Len(Queued) < Size - 1 /\ Queued' = Append(Queued, ch)
      BY <1>2, <2>1, PutStep DEF KeyInv
    <3> HIDE DEF ch
    <3> QED BY <3>1 DEF Queue!Next, Queue!Put, Queue!queueVars
  <2>2. CASE Advance
    BY <1>2, <2>2, TakeStep DEF KeyInv, Queue!Next, Queue!Take
  <2>3. CASE ~(Irq1 /\ installed) /\ ~Advance
    BY <1>2, <2>3, QueueFrame DEF KeyInv, Queue!queueVars
  <2> QED BY <2>1, <2>2, <2>3
<1>3. ASSUME UNCHANGED vars PROVE UNCHANGED Queue!queueVars
  BY <1>3, QueuedKept DEF vars, Queue!queueVars
<1>4. KeyInv /\ KeyInv' /\ [Next]_vars => [Queue!Next]_(Queue!queueVars)
  BY <1>2, <1>3
<1> QED BY <1>1, <1>4, KeyAlways, PTL DEF Spec

(* The handler drops a press only when Size - 1 characters wait: no slot is given
   up to an interrupt that comes between the load and the release of another. *)
THEOREM OnlyFullLoses == Spec => LosesOnlyWhenFull
<1>1. ASSUME KeyInv, RingInv', Irq1, installed, Head(scancodes).kind = "make"
      PROVE  \/ Len(Queued) = Size - 1
             \/ /\ Queued' = Append(Queued, meant[Head(scancodes).n])
                /\ Queued'[Len(Queued')].key = Head(scancodes).key
  <2> DEFINE ch == [key |-> scancodes[1].key, shifted |-> shift_pressed,
                    n |-> scancodes[1].n]
  <2>1. /\ Head(scancodes) = scancodes[1] /\ ch \in Char /\ store(ch)
        /\ ch = meant[scancodes[1].n] /\ buffer_read' = buffer_read
    BY <1>1, HandlerFacts DEF KeyInv
  <2>2. ch.key = scancodes[1].key
    OBVIOUS
  <2> HIDE DEF ch
  <2>3. Len(Queued) = Size - 1 \/ Queued' = Append(Queued, ch)
    BY <1>1, <2>1, StoreFacts DEF KeyInv
  <2>4. Len(Append(Queued, ch)) = Len(Queued) + 1 /\ Append(Queued, ch)[Len(Queued) + 1] = ch
    BY <1>1, <2>1, AppendFacts DEF KeyInv, ShellInv
  <2> QED BY <2>1, <2>2, <2>3, <2>4
<1> DEFINE Kept == Irq1 /\ installed /\ Head(scancodes).kind = "make" =>
                     \/ Len(Queued) = Size - 1
                     \/ /\ Queued' = Append(Queued, meant[Head(scancodes).n])
                        /\ Queued'[Len(Queued')].key = Head(scancodes).key
<1>2. KeyInv /\ KeyInv' /\ [Next]_vars => [Kept]_vars
  BY <1>1 DEF KeyInv
<1> QED BY <1>2, KeyAlways, PTL DEF Spec, LosesOnlyWhenFull

=============================================================================

------------------------------- MODULE KHeap -------------------------------
(***************************************************************************)
(* The kernel heap, src/src/mm/kheap.c: a list of blocks in address order, *)
(* each a header of HEADER bytes and the bytes it governs.  kmalloc takes  *)
(* the first free block that is large enough and splits it; kfree marks a  *)
(* block free and merges adjacent free blocks from the head of the list.   *)
(* Each turn of their loops is an action.                                  *)
(*                                                                         *)
(* Addresses are offsets from HEAP_START, so NULL is not one of them.  The *)
(* callers free only what they hold, and write only what they asked for.   *)
(***************************************************************************)
EXTENDS Integers, FiniteSets, Functions

CONSTANTS
  HEAP_SIZE,
  HEADER,       \* sizeof(heap_block_t)
  Word,         \* one more than the largest size_t
  Requests      \* the sizes that callers ask for

(* HEADER is 12, HEAP_SIZE 0x100000 and Word 2^32. *)
ASSUME KHeapAssumption ==
  /\ HEAP_SIZE \in Nat /\ HEADER \in Nat \ {0} /\ HEADER <= HEAP_SIZE
  /\ Word \in Nat /\ Word % 8 = 0 /\ Word > HEAP_SIZE + 8
  /\ Requests \subseteq 1 .. (Word - 1)

Address == 0 .. (HEAP_SIZE - 1)
NULL == -1

VARIABLES
  heap_head,
  heap,         \* [addresses of the blocks in the list -> heap_block_t]
  pc,           \* idle, in kmalloc's loop or in kfree's
  current,
  size,         \* kmalloc's argument, rounded up
  asked,        \* kmalloc's argument
  held          \* history: the pointers callers have, with what they may use

heapVars == <<heap_head, heap, pc, current, size, asked, held>>

heap_block_t == [size : 0 .. (HEAP_SIZE - HEADER), is_free : BOOLEAN, next : Address \cup {NULL}]

HeapInit ==
  /\ heap_head = NULL
  /\ heap = [a \in {} |-> 0]
  /\ pc = "idle" /\ current = NULL /\ size = 0 /\ asked = 0
  /\ held = [p \in {} |-> 0]

kheap_init ==
  /\ pc = "idle" /\ heap_head = NULL
  /\ heap_head' = 0
  /\ heap' = [a \in {0} |-> [size |-> HEAP_SIZE - HEADER, is_free |-> TRUE, next |-> NULL]]
  /\ UNCHANGED <<pc, current, size, asked, held>>

(* (n + 7) & ~7, in a size_t: sizes above Word - 8 become 0. *)
rounded(n) == (((n + 7) % Word) \div 8) * 8

(* The bytes a caller who asked for n may count on. *)
usable(n) == IF n <= Word - 8 THEN n ELSE 0

kmalloc(n) ==
  /\ pc = "idle"
  /\ pc' = "kmalloc"
  /\ current' = heap_head
  /\ size' = rounded(n)
  /\ asked' = n
  /\ UNCHANGED <<heap_head, heap, held>>

(* Mutant: a block large enough without the header is large enough. *)
fits_loosely(a) == heap[a].is_free /\ heap[a].size + HEADER >= size

fits(a) == heap[a].is_free /\ heap[a].size >= size

splits(a) == heap[a].size >= size + HEADER + 8

(* Mutant: the rest keeps the bytes of its own header. *)
split_in_place(a) ==
  LET b == a + HEADER + size
  IN  [x \in DOMAIN heap \cup {b} |->
        CASE x = a -> [size |-> size, is_free |-> FALSE, next |-> b]
          [] x = b -> [size |-> heap[a].size - size, is_free |-> TRUE, next |-> heap[a].next]
          [] OTHER -> heap[x]]

(* The list when block a is taken and the rest of it becomes a block of its own. *)
split(a) ==
  LET b == a + HEADER + size
  IN  [x \in DOMAIN heap \cup {b} |->
        CASE x = a -> [size |-> size, is_free |-> FALSE, next |-> b]
          [] x = b -> [size |-> heap[a].size - size - HEADER, is_free |-> TRUE,
                       next |-> heap[a].next]
          [] OTHER -> heap[x]]

(* The locals are gone. *)
Return == pc' = "idle" /\ current' = NULL /\ size' = 0 /\ asked' = 0

Skip ==
  /\ pc = "kmalloc" /\ current # NULL /\ ~fits(current)
  /\ current' = heap[current].next
  /\ UNCHANGED <<heap_head, heap, pc, size, asked, held>>

Grant ==
  /\ pc = "kmalloc" /\ current # NULL /\ fits(current)
  /\ heap' = IF splits(current) THEN split(current)
             ELSE [heap EXCEPT ![current].is_free = FALSE]
  /\ held' = [p \in DOMAIN held \cup {current + HEADER} |->
               IF p = current + HEADER THEN usable(asked) ELSE held[p]]
  /\ Return
  /\ UNCHANGED heap_head

ReturnNull ==
  /\ pc = "kmalloc" /\ current = NULL
  /\ Return
  /\ UNCHANGED <<heap_head, heap, held>>

kfree(p) ==
  /\ pc = "idle" /\ p \in DOMAIN held
  /\ heap' = [heap EXCEPT ![p - HEADER].is_free = TRUE]
  /\ held' = Restrict(held, DOMAIN held \ {p})
  /\ current' = heap_head
  /\ pc' = "kfree"
  /\ UNCHANGED <<heap_head, size, asked>>

merges(a) ==
  /\ heap[a].is_free
  /\ heap[a].next # NULL
  /\ heap[heap[a].next].is_free

(* The block takes in the next one, and is looked at again. *)
Merge ==
  /\ pc = "kfree" /\ current # NULL /\ merges(current)
  /\ LET b == heap[current].next
     IN  heap' = [x \in DOMAIN heap \ {b} |->
                   IF x = current
                   THEN [heap[x] EXCEPT !.size = @ + HEADER + heap[b].size, !.next = heap[b].next]
                   ELSE heap[x]]
  /\ UNCHANGED <<heap_head, pc, current, size, asked, held>>

(* Mutant: having merged once, the loop is over. *)
AdvanceToEnd ==
  /\ pc = "kfree" /\ current # NULL /\ ~merges(current)
  /\ current' = IF heap[current].is_free THEN NULL ELSE heap[current].next
  /\ UNCHANGED <<heap_head, heap, pc, size, asked, held>>

Advance ==
  /\ pc = "kfree" /\ current # NULL /\ ~merges(current)
  /\ current' = heap[current].next
  /\ UNCHANGED <<heap_head, heap, pc, size, asked, held>>

Merged ==
  /\ pc = "kfree" /\ current = NULL
  /\ Return
  /\ UNCHANGED <<heap_head, heap, held>>

Step == Skip \/ Grant \/ ReturnNull \/ Merge \/ Advance \/ Merged

HeapNext ==
  \/ kheap_init
  \/ \E n \in Requests : kmalloc(n)
  \/ \E p \in DOMAIN held : kfree(p)
  \/ Step

HeapSpec == HeapInit /\ [][HeapNext]_heapVars

-----------------------------------------------------------------------------
(* Properties. *)

end(a) == a + HEADER + heap[a].size

(* The list covers the heap: each block ends where the next begins, the last one
   where the heap ends, whatever was split and merged, in which order, and no
   block's size wraps below zero. *)
Tiled ==
  heap_head # NULL =>
    \A a \in DOMAIN heap :
      heap[a] \in heap_block_t /\
      IF heap[a].next = NULL THEN end(a) = HEAP_SIZE
      ELSE heap[a].next \in DOMAIN heap /\ end(a) = heap[a].next

(* The memory of every caller is in a block of its own, with room for what it
   asked for, until the caller frees it; requests that the rounding wraps to 0
   get no byte at all (kheap.c:29). *)
Callers == INSTANCE Allocator WITH
             HeapBytes <- HEAP_SIZE, Requests <- {usable(n) : n \in Requests}
IsAllocator == Callers!Spec

Used == UNION {a .. (end(a) - 1) : a \in {b \in DOMAIN heap : ~heap[b].is_free}}

(* kmalloc fails only if nowhere in the heap so many bytes, with a header, are
   free in one piece: what kfree gets back is merged with all that is free
   around it before the next call. *)
FailsOnlyIfFull ==
  [][pc = "kmalloc" /\ pc' = "idle" /\ held' = held /\ heap_head # NULL =>
       \A a \in 0 .. (HEAP_SIZE - HEADER - size) :
         (a .. (a + HEADER + size - 1)) \cap Used # {}]_heapVars

=============================================================================

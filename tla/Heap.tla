------------------------------- MODULE Heap -------------------------------
(***************************************************************************)
(* nilos::MemoryManager: a first-fit allocator over a doubly linked list   *)
(* of headers that live in the memory they describe.                       *)
(*                                                                         *)
(* A header is the record the code writes at the head of a chunk, and the  *)
(* heap is the function from header addresses to records; the flag         *)
(* `allocated' is kept as the set of chunks that have it.  A header that   *)
(* is merged away leaves the function: nothing points to it any more.      *)
(* Addresses and sizes are size_t, so every sum and difference the code    *)
(* takes goes through Wrap.                                                *)
(*                                                                         *)
(* The search of malloc is one step per turn of its loop; what follows the *)
(* loop is one step, and so is free.  One call is in flight at a time.     *)
(*                                                                         *)
(* A definition introduced as a fault is the next definition with a slip   *)
(* in it: the checks of the project must notice when it takes its place.   *)
(***************************************************************************)
EXTENDS Integers, TLC

CONSTANTS
  Start,      \* start_offset, the address of the first header
  Size,       \* size, in bytes, of the memory managed
  Header,     \* sizeof(MemoryChunk)
  Word,       \* 2^32, the number of values of a size_t
  Requests    \* the sizes malloc is called with

ASSUME HeapAssumption ==
  /\ Start \in Nat \ {0}
  /\ Size \in Nat
  /\ Header \in Nat \ {0}
  /\ Word \in Nat
  /\ Start + Size <= Word
  /\ Requests \subseteq 0 .. Word - 1

NULL == 0

VARIABLES
  first,       \* MemoryManager::first
  chunk,       \* header address -> its next, prev and size
  allocated,   \* the chunks whose flag `allocated' is set
  call,        \* the call of malloc in flight: size asked, cursor of the loop
  held         \* what the callers hold: pointer -> the size they asked for

vars == <<first, chunk, allocated, call, held>>

Chunks == DOMAIN chunk

Idle == [op |-> "none", size |-> 0, at |-> NULL]

Wrap(n) == n % Word

(* A call `malloc(n)' that has reached the chunk (or the NULL) c.          *)
Searching(n, c) == [op |-> "malloc", size |-> n, at |-> c]
-----------------------------------------------------------------------------
(* The constructor.  A region too small for one header holds no chunk.     *)
Init ==
  /\ first = IF Size < Header THEN NULL ELSE Start
  /\ chunk = [c \in IF Size < Header THEN {} ELSE {Start} |->
                [next |-> NULL, prev |-> NULL, size |-> Wrap(Size - Header)]]
  /\ allocated = {}
  /\ call = Idle
  /\ held = [p \in {} |-> 0]

(* Faults: the test of the flag, or of the size, is forgotten.             *)
FitsTaken(c, n) == chunk[c].size > n
FitsAnySize(c, n) == c \notin allocated

(* The test of the loop: free, and strictly larger than the request.       *)
Fits(c, n) == chunk[c].size > n /\ c \notin allocated

(* Fault: the loop moves on before its first test.                         *)
MallocSkipsFirst(n) ==
  /\ call = Idle
  /\ call' = Searching(n, IF first = NULL THEN NULL ELSE chunk[first].next)
  /\ UNCHANGED <<first, chunk, allocated, held>>

(* malloc is called: the loop starts at the head of the list.              *)
Malloc(n) ==
  /\ call = Idle
  /\ call' = Searching(n, first)
  /\ UNCHANGED <<first, chunk, allocated, held>>

(* Fault: the loop steps on from a free chunk only.                        *)
SkipFreeOnly ==
  /\ call.op = "malloc"
  /\ call.at # NULL
  /\ ~Fits(call.at, call.size)
  /\ call' = Searching(call.size, IF call.at \in allocated
                                  THEN call.at ELSE chunk[call.at].next)
  /\ UNCHANGED <<first, chunk, allocated, held>>

(* One turn of the loop over a chunk that will not do.                     *)
Skip ==
  /\ call.op = "malloc"
  /\ call.at # NULL
  /\ ~Fits(call.at, call.size)
  /\ call' = Searching(call.size, chunk[call.at].next)
  /\ UNCHANGED <<first, chunk, allocated, held>>

(* Fault: the old right neighbour still points back at c (59-60 lost).     *)
SplitKeepsBackLink(c, n) ==
  LET temp == Wrap(c + Header + n)
      old  == chunk[c]
  IN  [chunk EXCEPT ![c].next = temp, ![c].size = n] @@
      (temp :> [next |-> old.next, prev |-> c,
                size |-> Wrap(old.size - n - Header)])

(* Fault: the new header is placed without room for the old one.           *)
SplitForgetsHeader(c, n) ==
  LET temp == Wrap(c + n)
      old  == chunk[c]
  IN  [chunk EXCEPT ![c].next = temp, ![c].size = n] @@
      (temp :> [next |-> old.next, prev |-> c,
                size |-> Wrap(old.size - n - Header)])

(* The list with c cut down to n bytes and a new free chunk behind it.     *)
Split(c, n) ==
  LET temp == Wrap(c + Header + n)
      old  == chunk[c]
  IN  [a \in Chunks \cup {temp} |->
         IF a = c
         THEN [next |-> temp, prev |-> old.prev, size |-> n]
         ELSE IF a = temp
         THEN [next |-> old.next, prev |-> c,
               size |-> Wrap(old.size - n - Header)]
         ELSE [next |-> chunk[a].next, size |-> chunk[a].size,
               prev |-> IF a = old.next THEN temp ELSE chunk[a].prev]]

(* Fault: room for the header of the new chunk is not asked for.           *)
SplitsAlways(c, n) == chunk[c].size >= n

(* There is room behind n bytes for a header and at least one byte.        *)
Splits(c, n) == chunk[c].size >= Wrap(n + Header + 1)

(* The pointer malloc returns for the chunk c, and the way back in free.   *)
DataOf(c) == Wrap(c + Header)
ChunkOf(p) == Wrap(p - Header)

(* The loop ends with a chunk that fits: split it if it is worth it, mark  *)
(* it and return the address behind its header.                            *)
Found ==
  LET c == call.at
      n == call.size
  IN  /\ call.op = "malloc"
      /\ c # NULL
      /\ Fits(c, n)
      /\ chunk' = IF Splits(c, n) THEN Split(c, n) ELSE chunk
      /\ allocated' = allocated \cup {c}
      /\ held' = [p \in DOMAIN held \cup {DataOf(c)} |->
                    IF p = DataOf(c) THEN n ELSE held[p]]
      /\ call' = Idle
      /\ UNCHANGED first

(* The loop ends with no chunk: malloc returns 0.                          *)
Fail ==
  /\ call.op = "malloc"
  /\ call.at = NULL
  /\ call' = Idle
  /\ UNCHANGED <<first, chunk, allocated, held>>

(* Fault: the bytes of the header merged away are lost.                    *)
AbsorbLosesHeader(f, l, r) ==
  [a \in DOMAIN f \ {r} |->
     IF a = l
     THEN [next |-> f[r].next, prev |-> f[l].prev,
           size |-> Wrap(f[l].size + f[r].size)]
     ELSE [next |-> f[a].next, size |-> f[a].size,
           prev |-> IF a = f[r].next THEN l ELSE f[a].prev]]

(* The list f with the chunk r absorbed by the chunk l in front of it.     *)
Absorb(f, l, r) ==
  [a \in DOMAIN f \ {r} |->
     IF a = l
     THEN [next |-> f[r].next, prev |-> f[l].prev,
           size |-> Wrap(f[l].size + f[r].size + Header)]
     ELSE [next |-> f[a].next, size |-> f[a].size,
           prev |-> IF a = f[r].next THEN l ELSE f[a].prev]]

(* free merges to the left first: the chunk that remains, and the list.    *)
JoinsLeft(c) == chunk[c].prev # NULL /\ chunk[c].prev \notin allocated
LeftOf(c) == IF JoinsLeft(c) THEN chunk[c].prev ELSE c
JoinLeft(c) == IF JoinsLeft(c) THEN Absorb(chunk, chunk[c].prev, c) ELSE chunk

(* Fault: only the left side is merged.                                    *)
JoinRightNever(f, d) == f

(* Then the chunk d that remains absorbs the free chunk on its right.      *)
JoinRight(f, d) ==
  IF f[d].next # NULL /\ f[d].next \notin allocated
  THEN Absorb(f, d, f[d].next)
  ELSE f

(* Fault: the flag is cleared after merging, in the header that remains.   *)
FreeMarksLate(p) ==
  LET c == ChunkOf(p)
  IN  /\ call = Idle
      /\ p \in DOMAIN held
      /\ chunk' = JoinRight(JoinLeft(c), LeftOf(c))
      /\ allocated' = allocated \ {LeftOf(c)}
      /\ held' = [q \in DOMAIN held \ {p} |-> held[q]]
      /\ UNCHANGED <<first, call>>

(* free(p), for a pointer malloc returned and nobody has freed yet.        *)
Free(p) ==
  LET c == ChunkOf(p)
  IN  /\ call = Idle
      /\ p \in DOMAIN held
      /\ chunk' = JoinRight(JoinLeft(c), LeftOf(c))
      /\ allocated' = allocated \ {c}
      /\ held' = [q \in DOMAIN held \ {p} |-> held[q]]
      /\ UNCHANGED <<first, call>>

Next ==
  \/ \E n \in Requests : Malloc(n)
  \/ Skip
  \/ Found
  \/ Fail
  \/ \E p \in DOMAIN held : Free(p)

(* The processor keeps executing a call of malloc once it is made.         *)
Fairness == WF_vars(Skip \/ Found \/ Fail)

Spec == Init /\ [][Next]_vars /\ Fairness
-----------------------------------------------------------------------------
(* One past the last byte of the chunk c of the list f.                    *)
End(f, c) == c + Header + f[c].size

(* A list of headers that all fit in the heap, linked among themselves.    *)
ListType(f) ==
  /\ DOMAIN f \subseteq Start .. Start + Size - Header
  /\ f \in [DOMAIN f -> [next : DOMAIN f \cup {NULL},
                         prev : DOMAIN f \cup {NULL},
                         size : 0 .. Size - Header]]

(* TypeOK: pointers point at headers of the heap or are 0, sizes fit.      *)
TypeOK ==
  /\ first \in Chunks \cup {NULL}
  /\ ListType(chunk)
  /\ allocated \subseteq Chunks
  /\ call \in {Idle} \cup [op : {"malloc"}, size : Requests,
                          at : Chunks \cup {NULL}]
  /\ held \in [DOMAIN held -> Requests]

(* The links of f agree with its sizes: next is where the chunk ends, or   *)
(* the chunk is the last one and ends with the heap; prev undoes next; and *)
(* no two chunks share a byte.                                             *)
LinksAgree(f) ==
  \A c \in DOMAIN f :
    /\ IF f[c].next = NULL
       THEN End(f, c) = Start + Size
       ELSE /\ f[c].next \in DOMAIN f
            /\ f[c].next = End(f, c)
            /\ f[f[c].next].prev = c
    /\ IF f[c].prev = NULL
       THEN c = Start
       ELSE f[c].prev \in DOMAIN f /\ f[f[c].prev].next = c

Disjoint(f) ==
  \A c, d \in DOMAIN f : c < d => End(f, c) <= d

(* The list tiles the heap: whatever the calls were, walking the list from *)
(* `first' meets every byte of [Start, Start + Size) exactly once, so no   *)
(* memory leaks out of the list and no chunk is reached twice.  This is    *)
(* what the pointer surgery of malloc (lines 53-63) and of free (79-96)    *)
(* has to keep.                                                            *)
ListTilesHeap ==
  /\ first = IF Size < Header THEN NULL ELSE Start
  /\ first # NULL => Start \in Chunks
  /\ LinksAgree(chunk)
  /\ Disjoint(chunk)

(* free merges to both sides, so two neighbours are never both free: a     *)
(* request that the free memory between two blocks could hold is never     *)
(* refused because that memory is in two pieces.                           *)
NoAdjacentFree ==
  \A c \in Chunks :
    chunk[c].next # NULL => c \in allocated \/ chunk[c].next \in allocated

(* The bytes a caller asked for lie inside the heap, meet no header of the *)
(* list (a caller that fills its block leaves the allocator intact) and no *)
(* byte of another block.                                                  *)
BlocksAreDisjoint ==
  \A p \in DOMAIN held :
    /\ Start + Header <= p /\ p + held[p] <= Start + Size
    /\ \A c \in Chunks : c + Header <= p \/ p + held[p] <= c
    /\ \A q \in DOMAIN held \ {p} : p + held[p] <= q \/ q + held[q] <= p

(* The flags and the callers agree: a chunk is marked allocated exactly    *)
(* when someone holds its pointer, and it is no smaller than asked for.    *)
HeldMatchesFlags ==
  /\ DOMAIN held = {c + Header : c \in allocated}
  /\ \A c \in allocated : held[c + Header] <= chunk[c].size

(* The search of malloc is first-fit: it has passed over no chunk that     *)
(* would have done, so 0 is returned only when no chunk of the heap is     *)
(* free and larger than the request.                                       *)
SearchMissesNothing ==
  call.op = "malloc" =>
    \A c \in Chunks :
      Fits(c, call.size) => call.at # NULL /\ call.at <= c

(* When everything handed out has been freed the heap is one free chunk    *)
(* again, of the size it had at the start: no sequence of calls wears the  *)
(* heap out.                                                               *)
FreedHeapIsWhole ==
  DOMAIN held = {} /\ Header <= Size =>
    /\ Chunks = {Start}
    /\ chunk[Start].size = Size - Header

(* Blocks do not move or shrink: no call changes the place or the size of  *)
(* a chunk that stays allocated across it (malloc and free rewrite links   *)
(* and sizes of neighbours only).                                          *)
AllocatedChunksStay ==
  [][\A c \in allocated \cap allocated' :
       c \in Chunks' /\ chunk'[c].size = chunk[c].size]_vars

(* Every call of malloc returns: its loop follows `next' and cannot cycle. *)
MallocReturns == call.op = "malloc" ~> call.op = "none"

(* The heap implements the allocator its callers rely on.                  *)
Promise == INSTANCE Allocator
             WITH Low <- Start, High <- Start + Size, blocks <- held
ImplementsAllocator == Promise!Spec

(* What memorymanagement.cpp:35 says malloc does: find a chunk that is not *)
(* allocated and is big enough to hold the requested size.  A chunk of     *)
(* exactly that size is big enough.                                        *)
RefusedOnlyWhenTooSmall ==
  [][Fail => \A c \in Chunks \ allocated : chunk[c].size < call.size]_vars
=============================================================================

---------------------------- MODULE HeapProofs ----------------------------
(***************************************************************************)
(* Proofs about nilos::MemoryManager for every heap, header size and set   *)
(* of requests that HeapAssumption allows.                                 *)
(*                                                                         *)
(* The inductive invariant IInv is the conjunction of the invariants that  *)
(* TLC checks: that the list tiles the heap needs the types, that merging  *)
(* leaves no two free neighbours needs the tiling, and that a returned     *)
(* block is free memory needs all of them.  The file goes from facts about *)
(* one well-formed list, to what Absorb and Split do to such a list, to    *)
(* one lemma per operation, to the theorems.                               *)
(***************************************************************************)
EXTENDS Heap, TLAPS

(* Arithmetic modulo 2^32 is plain arithmetic while it stays in range.     *)
LEMMA WrapInRange ==
  ASSUME NEW n \in 0 .. Word - 1
  PROVE  Wrap(n) = n
BY HeapAssumption DEF Wrap

(* A requested size is a number below 2^32.                                *)
LEMMA RequestsAreNumbers ==
  ASSUME NEW n \in Requests
  PROVE  n \in Nat /\ n \in 0 .. Word - 1
<1>1. n \in 0 .. Word - 1
  BY HeapAssumption
<1> QED
  BY <1>1, HeapAssumption

(* A list of headers whose types, links and extents are in order.          *)
WellFormed(f) == ListType(f) /\ LinksAgree(f) /\ Disjoint(f)

(* What WellFormed says of one chunk, and what its links then satisfy.     *)
LEMMA ChunkFacts ==
  ASSUME NEW f, WellFormed(f), NEW c \in DOMAIN f
  PROVE  /\ c \in Int /\ 0 < c /\ Start <= c
         /\ f[c].size \in Int /\ 0 <= f[c].size
         /\ f[c].next \in DOMAIN f \cup {NULL}
         /\ f[c].prev \in DOMAIN f \cup {NULL}
<1> USE HeapAssumption
<1>1. f[c] \in [next : DOMAIN f \cup {NULL},
                prev : DOMAIN f \cup {NULL},
                size : 0 .. Size - Header]
  BY DEF WellFormed, ListType
<1>2. c \in Start .. Start + Size - Header
  BY DEF WellFormed, ListType
<1> QED
  BY <1>1, <1>2

(* No chunk of a well-formed list reaches past the end of the heap.        *)
LEMMA EndInHeap ==
  ASSUME NEW f, WellFormed(f), NEW c \in DOMAIN f
  PROVE  /\ End(f, c) \in Int
         /\ c + Header <= End(f, c)
         /\ End(f, c) <= Start + Size
BY HeapAssumption, ChunkFacts DEF WellFormed, ListType, LinksAgree, End, NULL

(* A link that is not NULL leads to the neighbour, whose link leads back.  *)
LEMMA LinkFacts ==
  ASSUME NEW f, WellFormed(f), NEW c \in DOMAIN f
  PROVE  /\ f[c].next # NULL =>
              /\ f[c].next \in DOMAIN f
              /\ f[c].next = c + Header + f[c].size
              /\ c < f[c].next
              /\ f[f[c].next].prev = c
         /\ f[c].next = NULL => c + Header + f[c].size = Start + Size
         /\ f[c].prev # NULL =>
              /\ f[c].prev \in DOMAIN f
              /\ f[c].prev < c
              /\ f[f[c].prev].next = c
         /\ f[c].prev = NULL => c = Start
<1> USE HeapAssumption
<1>1. f[c].next # NULL =>
        /\ f[c].next \in DOMAIN f
        /\ f[c].next = c + Header + f[c].size
        /\ f[f[c].next].prev = c
  BY DEF WellFormed, LinksAgree, End
<1>2. f[c].prev # NULL =>
        /\ f[c].prev \in DOMAIN f
        /\ f[f[c].prev].next = c
  BY DEF WellFormed, LinksAgree
<1>3. f[c].next = NULL => c + Header + f[c].size = Start + Size
  BY DEF WellFormed, LinksAgree, End
<1>4. f[c].prev = NULL => c = Start
  BY DEF WellFormed, LinksAgree
<1>5. f[c].next # NULL => c < f[c].next
  BY <1>1, ChunkFacts
<1>6. ASSUME f[c].prev # NULL
      PROVE  f[c].prev < c
  <2> DEFINE p == f[c].prev
  <2>1. p \in DOMAIN f /\ f[p].next = c /\ c # NULL
    BY <1>2, <1>6, ChunkFacts DEF NULL
  <2>2. c = p + Header + f[p].size
    BY <2>1 DEF WellFormed, LinksAgree, End
  <2> QED
    BY <2>1, <2>2, ChunkFacts
<1> QED
  BY <1>1, <1>2, <1>3, <1>4, <1>5, <1>6

(* Absorbing the right neighbour keeps a list well formed.                 *)
LEMMA AbsorbWellFormed ==
  ASSUME NEW f, WellFormed(f),
         NEW l \in DOMAIN f, NEW r \in DOMAIN f, f[l].next = r
  PROVE  WellFormed(Absorb(f, l, r))
<1> DEFINE g == Absorb(f, l, r)
<1> USE HeapAssumption
<1>0. /\ l \in Int /\ r \in Int /\ 0 < l /\ 0 < r /\ Start <= l
      /\ f[l].size \in Int /\ 0 <= f[l].size
      /\ f[r].size \in Int /\ 0 <= f[r].size
  BY ChunkFacts
<1>1. /\ r = l + Header + f[l].size /\ l < r /\ f[r].prev = l
  BY <1>0, LinkFacts DEF NULL
<1>2. r + Header + f[r].size <= Start + Size
  BY <1>0, EndInHeap DEF End
<1>3. /\ f[l].size + f[r].size + Header \in 0 .. Word - 1
      /\ f[l].size + f[r].size + Header <= Size - Header
  BY <1>0, <1>1, <1>2
<1>4. Wrap(f[l].size + f[r].size + Header) = f[l].size + f[r].size + Header
  BY <1>3, WrapInRange
<1>5. /\ DOMAIN g = DOMAIN f \ {r}
      /\ l \in DOMAIN g
      /\ g[l] = [next |-> f[r].next, prev |-> f[l].prev,
                 size |-> f[l].size + f[r].size + Header]
      /\ \A a \in DOMAIN g : a # l =>
           g[a] = [next |-> f[a].next, size |-> f[a].size,
                   prev |-> IF a = f[r].next THEN l ELSE f[a].prev]
      /\ g = [a \in DOMAIN g |-> g[a]]
  BY <1>0, <1>1, <1>4 DEF Absorb
<1> HIDE DEF g
<1>6. /\ f[r].next # NULL =>
           /\ f[r].next \in DOMAIN g
           /\ f[r].next = r + Header + f[r].size
           /\ r < f[r].next /\ f[r].next # l
      /\ f[r].next = NULL => r + Header + f[r].size = Start + Size
  BY <1>0, <1>1, <1>5, LinkFacts, ChunkFacts
<1>7. /\ f[l].prev # NULL =>
           /\ f[l].prev \in DOMAIN g
           /\ f[l].prev # l
           /\ g[f[l].prev].next = l
      /\ f[l].prev = NULL => l = Start
  BY <1>0, <1>1, <1>5, LinkFacts, ChunkFacts
<1>8. ASSUME NEW a \in DOMAIN g, a # l
      PROVE  /\ a \in DOMAIN f /\ a # r
             /\ g[a].next = f[a].next /\ g[a].size = f[a].size
             /\ f[a].next # r
             /\ f[a].next # NULL => f[a].next \in DOMAIN g
             /\ a = f[r].next => g[a].prev = l
             /\ a # f[r].next =>
                  /\ g[a].prev = f[a].prev
                  /\ f[a].prev # r
                  /\ f[a].prev # NULL => f[a].prev \in DOMAIN g /\ f[a].prev # l
  <2>1. a \in DOMAIN f /\ a # r
    BY <1>5
  <2>2. /\ g[a].next = f[a].next /\ g[a].size = f[a].size
        /\ g[a].prev = IF a = f[r].next THEN l ELSE f[a].prev
    BY <1>5, <1>8
  <2>3. f[a].next # r
    BY <2>1, <1>0, <1>1, <1>8, LinkFacts DEF NULL
  <2>4. f[a].prev = r => a = f[r].next
    BY <2>1, <1>0, LinkFacts DEF NULL
  <2>5. f[a].prev = l => a = r
    BY <2>1, <1>0, LinkFacts DEF NULL
  <2> QED
    BY <2>1, <2>2, <2>3, <2>4, <2>5, <1>5, LinkFacts
<1>9. ListType(g)
  <2>1. DOMAIN g \subseteq Start .. Start + Size - Header
    BY <1>5 DEF WellFormed, ListType
  <2>2. ASSUME NEW a \in DOMAIN g
        PROVE  g[a] \in [next : DOMAIN g \cup {NULL},
                         prev : DOMAIN g \cup {NULL},
                         size : 0 .. Size - Header]
    <3>1. CASE a = l
      <4>1. f[r].next \in DOMAIN g \cup {NULL}
        BY <1>6
      <4>2. f[l].prev \in DOMAIN g \cup {NULL}
        BY <1>7
      <4>3. f[l].size + f[r].size + Header \in 0 .. Size - Header
        BY <1>0, <1>3
      <4> QED
        BY <1>5, <3>1, <4>1, <4>2, <4>3
    <3>2. CASE a # l
      <4>1. f[a].next \in DOMAIN g \cup {NULL}
        BY <1>8, <3>2
      <4>2. (IF a = f[r].next THEN l ELSE f[a].prev) \in DOMAIN g \cup {NULL}
        BY <1>5, <1>8, <3>2
      <4>3. f[a].size \in 0 .. Size - Header
        BY <1>8, <3>2 DEF WellFormed, ListType
      <4> QED
        BY <1>5, <3>2, <4>1, <4>2, <4>3
    <3> QED
      BY <3>1, <3>2
  <2> QED
    BY <2>1, <2>2, <1>5 DEF ListType
<1>10. LinksAgree(g)
  <2> SUFFICES ASSUME NEW a \in DOMAIN g
               PROVE  /\ IF g[a].next = NULL
                         THEN End(g, a) = Start + Size
                         ELSE /\ g[a].next \in DOMAIN g
                              /\ g[a].next = End(g, a)
                              /\ g[g[a].next].prev = a
                      /\ IF g[a].prev = NULL
                         THEN a = Start
                         ELSE /\ g[a].prev \in DOMAIN g
                              /\ g[g[a].prev].next = a
    BY DEF LinksAgree
  <2>1. CASE a = l
    <3>1. g[a].next = f[r].next /\ g[a].prev = f[l].prev
      BY <1>5, <2>1
    <3>2. End(g, a) = r + Header + f[r].size
      BY <1>0, <1>1, <1>5, <2>1 DEF End
    <3>3. f[r].next # NULL => g[f[r].next].prev = l
      BY <1>6, <1>8
    <3> QED
      BY <3>1, <3>2, <3>3, <1>6, <1>7, <2>1
  <2>2. CASE a # l
    <3>1. End(g, a) = a + Header + f[a].size
      BY <1>8, <2>2 DEF End
    <3>2. f[a].next # NULL => g[f[a].next].prev = a
      <4> SUFFICES ASSUME f[a].next # NULL
                   PROVE  g[f[a].next].prev = a
        OBVIOUS
      <4> DEFINE b == f[a].next
      <4>1. /\ b \in DOMAIN g /\ b \in DOMAIN f /\ f[b].prev = a
        BY <1>5, <1>8, <2>2, LinkFacts
      <4>2. CASE b = l
        BY <4>1, <4>2, <1>5
      <4>3. CASE b # l
        <5>1. b # f[r].next
          BY <4>1, <1>0, <1>8, <2>2, LinkFacts
        <5> QED
          BY <4>1, <4>3, <5>1, <1>8
      <4> QED
        BY <4>2, <4>3
    <3>3. CASE a = f[r].next
      BY <3>1, <3>2, <3>3, <1>0, <1>5, <1>8, <2>2, LinkFacts DEF NULL
    <3>4. CASE a # f[r].next
      <4>1. f[a].prev # NULL => g[f[a].prev].next = a
        BY <1>8, <2>2, <3>4, LinkFacts
      <4> QED
        BY <3>1, <3>2, <3>4, <4>1, <1>8, <2>2, LinkFacts
    <3> QED
      BY <3>3, <3>4
  <2> QED
    BY <2>1, <2>2
<1>11. Disjoint(g)
  <2> SUFFICES ASSUME NEW c \in DOMAIN g, NEW d \in DOMAIN g, c < d
               PROVE  End(g, c) <= d
    BY DEF Disjoint
  <2>1. \A x, y \in DOMAIN f : x < y => x + Header + f[x].size <= y
    BY DEF WellFormed, Disjoint, End
  <2>2. d \in Int /\ d # r /\ d \in DOMAIN f
    BY <1>5, ChunkFacts
  <2>3. CASE c = l
    <3>1. r < d
      BY <2>1, <2>2, <2>3, <1>0, <1>1
    <3>2. r + Header + f[r].size <= d
      BY <2>1, <2>2, <3>1
    <3> QED
      BY <3>2, <2>3, <1>0, <1>1, <1>5 DEF End
  <2>4. CASE c # l
    BY <2>1, <2>2, <2>4, <1>8 DEF End
  <2> QED
    BY <2>3, <2>4
<1> QED
  BY <1>9, <1>10, <1>11 DEF WellFormed, g

(* The arithmetic of Split does not wrap around for a chunk that fits: in  *)
(* particular the test for room behind the block (line 50) is the one the  *)
(* code means.                                                             *)
LEMMA NoOverflow ==
  ASSUME WellFormed(chunk), NEW c \in Chunks, NEW n \in Nat, n < chunk[c].size
  PROVE  /\ Wrap(n + Header + 1) = n + Header + 1
         /\ Wrap(c + Header + n) = c + Header + n
         /\ n + Header + 1 <= chunk[c].size =>
              Wrap(chunk[c].size - n - Header) = chunk[c].size - n - Header
<1> USE HeapAssumption
<1>1. /\ c \in Int /\ Start <= c /\ chunk[c].size \in Int
      /\ c + Header + chunk[c].size <= Start + Size
  BY ChunkFacts, EndInHeap DEF End, Chunks
<1>2. /\ n + Header + 1 \in 0 .. Word - 1
      /\ c + Header + n \in 0 .. Word - 1
      /\ n + Header + 1 <= chunk[c].size =>
           chunk[c].size - n - Header \in 0 .. Word - 1
  BY <1>1
<1> QED
  BY <1>2, WrapInRange

(* Splitting a chunk keeps the list well formed.                           *)
LEMMA SplitWellFormed ==
  ASSUME WellFormed(chunk), NEW c \in Chunks, NEW n \in Nat,
         n + Header + 1 <= chunk[c].size,
         NEW g, g = Split(c, n), NEW t, t = c + Header + n
  PROVE  /\ WellFormed(g)
         /\ t \notin Chunks
         /\ DOMAIN g = Chunks \cup {t}
         /\ g[c].size = n
         /\ g[t].next = chunk[c].next
         /\ \A a \in Chunks : a # c =>
              g[a].next = chunk[a].next /\ g[a].size = chunk[a].size
<1> DEFINE f == chunk
           s == f[c].size - n - Header
<1> USE HeapAssumption
<1>0. /\ c \in Int /\ 0 < c /\ Start <= c /\ f[c].size \in Int
      /\ c + Header + f[c].size <= Start + Size /\ n < f[c].size
      /\ c \in DOMAIN f /\ WellFormed(f)
  BY ChunkFacts, EndInHeap DEF End, Chunks
<1>1. /\ Wrap(c + Header + n) = t /\ Wrap(f[c].size - n - Header) = s
      /\ s \in Int /\ 1 <= s /\ t \in Int /\ c < t
      /\ t + Header + s = c + Header + f[c].size
  BY <1>0, NoOverflow
<1>2. \A x, y \in DOMAIN f : x < y => x + Header + f[x].size <= y
  BY <1>0 DEF WellFormed, Disjoint, End
<1>3. t \notin DOMAIN f
  BY <1>0, <1>1, <1>2
<1>4. /\ DOMAIN g = DOMAIN f \cup {t}
      /\ g[c] = [next |-> t, prev |-> f[c].prev, size |-> n]
      /\ g[t] = [next |-> f[c].next, prev |-> c, size |-> s]
      /\ \A a \in DOMAIN f \ {c} :
           g[a] = [next |-> f[a].next, size |-> f[a].size,
                   prev |-> IF a = f[c].next THEN t ELSE f[a].prev]
      /\ g = [a \in DOMAIN g |-> g[a]]
  BY <1>0, <1>1, <1>3 DEF Split, Chunks
<1> HIDE DEF s
<1>5. /\ f[c].next \in DOMAIN f \cup {NULL} /\ f[c].next # c
      /\ f[c].next # NULL => /\ f[c].next = t + Header + s
                             /\ f[f[c].next].prev = c
      /\ f[c].next = NULL => t + Header + s = Start + Size
  BY <1>0, <1>1, LinkFacts, ChunkFacts DEF NULL
<1>6. /\ f[c].prev \in DOMAIN f \cup {NULL}
      /\ f[c].prev # NULL => f[c].prev # c /\ f[f[c].prev].next = c
      /\ f[c].prev = NULL => c = Start
  BY <1>0, LinkFacts, ChunkFacts
<1>7. ASSUME NEW a \in DOMAIN f, a # c
      PROVE  /\ g[a].next = f[a].next /\ g[a].size = f[a].size
             /\ a = f[c].next => g[a].prev = t
             /\ a # f[c].next => g[a].prev = f[a].prev /\ f[a].prev # c
  <2>1. f[a].prev = c => a = f[c].next
    BY <1>0, LinkFacts DEF NULL
  <2> QED
    BY <1>4, <1>7, <2>1
<1>8. ListType(g)
  <2>1. DOMAIN g \subseteq Start .. Start + Size - Header
    BY <1>0, <1>1, <1>4 DEF WellFormed, ListType
  <2>2. ASSUME NEW a \in DOMAIN g
        PROVE  g[a] \in [next : DOMAIN g \cup {NULL},
                         prev : DOMAIN g \cup {NULL},
                         size : 0 .. Size - Header]
    <3>1. CASE a = c
      <4>1. n \in 0 .. Size - Header
        BY <1>0, <1>1
      <4> QED
        BY <1>4, <1>6, <3>1, <4>1
    <3>2. CASE a = t
      <4>1. s \in 0 .. Size - Header
        BY <1>0, <1>1
      <4> QED
        BY <1>0, <1>4, <1>5, <3>2, <4>1
    <3>3. CASE a \in DOMAIN f \ {c}
      <4>1. f[a].next \in DOMAIN g \cup {NULL}
        BY <1>0, <1>4, <3>3, ChunkFacts
      <4>2. (IF a = f[c].next THEN t ELSE f[a].prev) \in DOMAIN g \cup {NULL}
        BY <1>0, <1>4, <3>3, ChunkFacts
      <4>3. f[a].size \in 0 .. Size - Header
        BY <1>0, <3>3 DEF WellFormed, ListType
      <4> QED
        BY <1>4, <3>3, <4>1, <4>2, <4>3
    <3> QED
      BY <3>1, <3>2, <3>3, <1>4
  <2> QED
    BY <2>1, <2>2, <1>4 DEF ListType
<1>9. LinksAgree(g)
  <2> SUFFICES ASSUME NEW a \in DOMAIN g
               PROVE  /\ IF g[a].next = NULL
                         THEN End(g, a) = Start + Size
                         ELSE /\ g[a].next \in DOMAIN g
                              /\ g[a].next = End(g, a)
                              /\ g[g[a].next].prev = a
                      /\ IF g[a].prev = NULL
                         THEN a = Start
                         ELSE /\ g[a].prev \in DOMAIN g
                              /\ g[g[a].prev].next = a
    BY DEF LinksAgree
  <2>1. CASE a = c
    <3>1. g[a].next = t /\ t # NULL /\ t = End(g, a) /\ g[t].prev = a
      BY <1>0, <1>1, <1>4, <2>1 DEF End, NULL
    <3>2. g[a].prev = f[c].prev
      BY <1>4, <2>1
    <3>3. f[c].prev # NULL => g[f[c].prev].next = c
      BY <1>6, <1>7
    <3> QED
      BY <3>1, <3>2, <3>3, <1>4, <1>6, <2>1
  <2>2. CASE a = t
    <3>1. /\ g[a].next = f[c].next /\ g[a].prev = c
          /\ End(g, a) = t + Header + s
          /\ g[c].next = a /\ c # NULL
      BY <1>0, <1>4, <2>2 DEF End, NULL
    <3>2. f[c].next # NULL => g[f[c].next].prev = t
      BY <1>5, <1>7
    <3> QED
      BY <3>1, <3>2, <1>0, <1>4, <1>5, <2>2
  <2>3. CASE a \in DOMAIN f \ {c}
    <3>1. /\ End(g, a) = a + Header + f[a].size /\ g[a].next = f[a].next
      BY <1>7, <2>3 DEF End
    <3>2. f[a].next # NULL => g[f[a].next].prev = a
      <4> SUFFICES ASSUME f[a].next # NULL
                   PROVE  g[f[a].next].prev = a
        OBVIOUS
      <4> DEFINE b == f[a].next
      <4>1. b \in DOMAIN f /\ f[b].prev = a
        BY <1>0, <2>3, LinkFacts
      <4>2. CASE b = c
        BY <4>1, <4>2, <1>4
      <4>3. CASE b # c
        <5>1. b # f[c].next
          BY <4>1, <1>5, <2>3
        <5> QED
          BY <4>1, <4>3, <5>1, <1>7
      <4> QED
        BY <4>2, <4>3
    <3>3. CASE a = f[c].next
      BY <3>1, <3>2, <3>3, <1>0, <1>1, <1>4, <1>7, <2>3, LinkFacts DEF NULL
    <3>4. CASE a # f[c].next
      <4>1. f[a].prev # NULL => g[f[a].prev].next = a
        BY <1>0, <1>7, <2>3, <3>4, LinkFacts
      <4> QED
        BY <3>1, <3>2, <3>4, <4>1, <1>0, <1>4, <1>7, <2>3, LinkFacts
    <3> QED
      BY <3>3, <3>4
  <2> QED
    BY <2>1, <2>2, <2>3, <1>4
<1>10. Disjoint(g)
  <2> SUFFICES ASSUME NEW x \in DOMAIN g, NEW y \in DOMAIN g, x < y
               PROVE  End(g, x) <= y
    BY DEF Disjoint
  <2>0. \A a \in DOMAIN f : a \in Int /\ f[a].size \in Int /\ 0 <= f[a].size
    BY <1>0, ChunkFacts
  <2>1. CASE x = c /\ y = t
    BY <1>0, <1>1, <1>4, <2>1 DEF End
  <2>2. CASE x = c /\ y \in DOMAIN f
    <3>1. c + Header + f[c].size <= y
      BY <1>0, <1>2, <2>2
    <3>2. End(g, x) = c + Header + n
      BY <1>4, <2>2 DEF End
    <3> QED
      BY <3>1, <3>2, <1>0, <2>0, <2>2
  <2>3. CASE x = t /\ y \in DOMAIN f
    <3>1. c + Header + f[c].size <= y
      BY <1>0, <1>1, <1>2, <2>0, <2>3
    <3>2. End(g, x) = t + Header + s
      BY <1>4, <2>3 DEF End
    <3> QED
      BY <3>1, <3>2, <1>1
  <2>4. CASE x \in DOMAIN f \ {c} /\ y \in DOMAIN f
    BY <1>2, <1>7, <2>4 DEF End
  <2>5. CASE x \in DOMAIN f \ {c} /\ y = t
    <3>1. x < c
      BY <1>0, <1>1, <1>2, <2>0, <2>5
    <3>2. x + Header + f[x].size <= c
      BY <3>1, <1>0, <1>2, <2>5
    <3> QED
      BY <3>2, <1>0, <1>1, <1>7, <2>0, <2>5 DEF End
  <2> QED
    BY <2>1, <2>2, <2>3, <2>4, <2>5, <1>4, <1>1
<1> QED
  BY <1>3, <1>4, <1>7, <1>8, <1>9, <1>10 DEF WellFormed, Chunks
-----------------------------------------------------------------------------
(* The invariant that every step keeps.  Each part needs the others: the   *)
(* search is right because the list is ordered, free finds its chunk       *)
(* because the callers' pointers are the flags, and merging leaves no pair *)
(* of free neighbours because there was none before.                       *)
IInv ==
  /\ TypeOK
  /\ ListTilesHeap
  /\ NoAdjacentFree
  /\ HeldMatchesFlags
  /\ SearchMissesNothing

(* Under the invariant, the list of the heap is well formed.               *)
LEMMA ChunksWellFormed ==
  ASSUME IInv
  PROVE  WellFormed(chunk)
BY DEF IInv, TypeOK, ListTilesHeap, WellFormed, Chunks

(* The chunk a caller's pointer belongs to.                                *)
LEMMA HeldFacts ==
  ASSUME IInv, NEW p \in DOMAIN held
  PROVE  /\ ChunkOf(p) \in allocated
         /\ ChunkOf(p) \in Chunks
         /\ p = ChunkOf(p) + Header
         /\ held[p] \in Nat
         /\ held[p] <= chunk[ChunkOf(p)].size
<1> USE HeapAssumption
<1>1. PICK c \in allocated : p = c + Header
  BY DEF IInv, HeldMatchesFlags
<1>2. c \in Chunks /\ c \in Int /\ c \in 0 .. Word - 1
  BY <1>1, ChunksWellFormed DEF IInv, TypeOK, WellFormed, ListType, Chunks
<1>3. p - Header = c
  BY <1>1, <1>2
<1>4. ChunkOf(p) = c
  BY <1>2, <1>3, WrapInRange DEF ChunkOf
<1>5. held[p] \in Nat
  <2>1. held[p] \in Requests
    BY DEF IInv, TypeOK
  <2> QED
    BY <2>1, RequestsAreNumbers
<1>6. held[c + Header] <= chunk[c].size
  BY DEF IInv, HeldMatchesFlags
<1> QED
  BY <1>1, <1>2, <1>4, <1>5, <1>6

(* Initially the heap is one free chunk, or none.                          *)
LEMMA InitIInv == Init => IInv
<1> SUFFICES ASSUME Init PROVE IInv
  OBVIOUS
<1> USE HeapAssumption DEF Init, Chunks, NULL
<1>1. CASE Size < Header
  <2>1. /\ first = NULL /\ DOMAIN chunk = {} /\ allocated = {}
        /\ call = Idle /\ DOMAIN held = {}
    BY <1>1
  <2>2. TypeOK
    <3>1. ListType(chunk)
      BY <1>1 DEF ListType
    <3>2. held \in [DOMAIN held -> Requests]
      BY <2>1
    <3> QED
      BY <2>1, <3>1, <3>2 DEF TypeOK
  <2>3. ListTilesHeap
    BY <1>1, <2>1 DEF ListTilesHeap, LinksAgree, Disjoint
  <2>4. NoAdjacentFree /\ HeldMatchesFlags /\ SearchMissesNothing
    BY <2>1 DEF NoAdjacentFree, HeldMatchesFlags, SearchMissesNothing, Idle
  <2> QED
    BY <2>2, <2>3, <2>4 DEF IInv
<1>2. CASE ~(Size < Header)
  <2>1. /\ Size - Header \in 0 .. Word - 1
        /\ Wrap(Size - Header) = Size - Header
    BY <1>2, WrapInRange
  <2>2. /\ first = Start /\ DOMAIN chunk = {Start}
        /\ chunk[Start] = [next |-> 0, prev |-> 0, size |-> Size - Header]
        /\ chunk = [c \in DOMAIN chunk |-> chunk[c]]
        /\ allocated = {} /\ call = Idle /\ DOMAIN held = {}
    BY <1>2, <2>1
  <2>3. TypeOK
    <3>1. ListType(chunk)
      <4>1. DOMAIN chunk \subseteq Start .. Start + Size - Header
        BY <1>2, <2>2
      <4>2. chunk[Start] \in [next : DOMAIN chunk \cup {NULL},
                              prev : DOMAIN chunk \cup {NULL},
                              size : 0 .. Size - Header]
        BY <2>1, <2>2
      <4> QED
        BY <2>2, <4>1, <4>2 DEF ListType
    <3>2. held \in [DOMAIN held -> Requests]
      BY <2>2
    <3> QED
      BY <2>2, <3>1, <3>2 DEF TypeOK
  <2>4. ListTilesHeap
    BY <1>2, <2>2 DEF ListTilesHeap, LinksAgree, Disjoint, End
  <2>5. NoAdjacentFree /\ HeldMatchesFlags /\ SearchMissesNothing
    BY <2>2 DEF NoAdjacentFree, HeldMatchesFlags, SearchMissesNothing, Idle
  <2> QED
    BY <2>3, <2>4, <2>5 DEF IInv
<1> QED
  BY <1>1, <1>2

(* Calling malloc, one turn of its loop, and giving up: only the cursor    *)
(* moves, and it moves past nothing that fits.                             *)
LEMMA SearchIInv ==
  ASSUME IInv, (\E n \in Requests : Malloc(n)) \/ Skip \/ Fail
  PROVE  IInv'
<1> USE HeapAssumption
<1>1. UNCHANGED <<first, chunk, allocated, held>>
  BY DEF Malloc, Skip, Fail
<1>2. ListTilesHeap' /\ NoAdjacentFree' /\ HeldMatchesFlags'
  BY <1>1 DEF IInv, ListTilesHeap, NoAdjacentFree, HeldMatchesFlags,
              LinksAgree, Disjoint, End, Chunks
<1>3. TypeOK' /\ SearchMissesNothing'
  <2>0. /\ first' \in Chunks' \cup {NULL} /\ ListType(chunk)'
        /\ (allocated \subseteq Chunks)' /\ (held \in [DOMAIN held -> Requests])'
    BY <1>1 DEF IInv, TypeOK, ListType, Chunks
  <2>1. CASE \E n \in Requests : Malloc(n)
    <3>1. PICK n \in Requests : call' = Searching(n, first)
      BY <2>1 DEF Malloc
    <3>2. TypeOK'
      BY <2>0, <3>1, <1>1 DEF TypeOK, Searching
    <3>3. \A c \in Chunks : first # NULL /\ first <= c
      BY ChunksWellFormed, ChunkFacts DEF IInv, ListTilesHeap, WellFormed,
         ListType, Chunks, NULL
    <3> QED
      BY <3>1, <3>2, <3>3, <1>1 DEF SearchMissesNothing, Searching, Chunks
  <2>2. CASE Skip
    <3> DEFINE c == call.at
               n == call.size
    <3>1. /\ call \in [op : {"malloc"}, size : Requests, at : Chunks \cup {NULL}]
          /\ c \in Chunks /\ n \in Requests /\ call' = Searching(n, chunk[c].next)
          /\ ~Fits(c, n)
      BY <2>2 DEF Skip, IInv, TypeOK, Idle
    <3>2. chunk[c].next \in Chunks \cup {NULL}
      BY <3>1, ChunksWellFormed, ChunkFacts DEF Chunks
    <3>3. TypeOK'
      BY <2>0, <3>1, <3>2, <1>1 DEF TypeOK, Searching, Chunks
    <3>4. ASSUME NEW d \in Chunks, Fits(d, n)
          PROVE  chunk[c].next # NULL /\ chunk[c].next <= d
      <4>1. c <= d /\ d # c
        BY <3>1, <3>4 DEF IInv, SearchMissesNothing, Searching
      <4>2. c < d
        BY <4>1, <3>1, ChunksWellFormed, ChunkFacts DEF Chunks
      <4>3. c + Header + chunk[c].size <= d
        BY <4>2, <3>1 DEF IInv, ListTilesHeap, Disjoint, End, Chunks
      <4>4. /\ d \in Int /\ d + Header <= Start + Size
            /\ c \in Int /\ chunk[c].size \in Int
        BY <3>1, ChunksWellFormed, ChunkFacts
           DEF WellFormed, ListType, Chunks
      <4> QED
        BY <3>1, <4>3, <4>4, ChunksWellFormed, LinkFacts DEF Chunks
    <3>5. SearchMissesNothing'
      BY <3>1, <3>4, <1>1 DEF SearchMissesNothing, Searching, Fits, Chunks
    <3> QED
      BY <3>3, <3>5
  <2>3. CASE Fail
    BY <2>0, <2>3 DEF Fail, TypeOK, SearchMissesNothing, Idle
  <2> QED
    BY <2>1, <2>2, <2>3
<1> QED
  BY <1>2, <1>3 DEF IInv

(* malloc succeeds: the chunk found is split or taken whole, and marked.   *)
LEMMA FoundIInv ==
  ASSUME IInv, Found
  PROVE  IInv'
<1> DEFINE c == call.at
           n == call.size
           t == c + Header + n
<1> USE HeapAssumption
<1>1. /\ c \in Chunks /\ n \in Requests /\ n \in Nat
      /\ n < chunk[c].size /\ c \notin allocated
      /\ WellFormed(chunk) /\ c \in DOMAIN chunk
      /\ c \in Int /\ Start <= c /\ chunk[c].size \in Int
      /\ c + Header + chunk[c].size <= Start + Size
  <2>1. call \in [op : {"malloc"}, size : Requests, at : Chunks \cup {NULL}]
    BY DEF Found, IInv, TypeOK, Idle
  <2>2. c \in Chunks /\ n \in Requests /\ n \in Nat
    BY <2>1, RequestsAreNumbers DEF Found
  <2>3. WellFormed(chunk)
    BY ChunksWellFormed
  <2>4. c \in Int /\ Start <= c /\ chunk[c].size \in Int
    BY <2>2, <2>3, ChunkFacts DEF Chunks
  <2>5. c + Header + chunk[c].size <= Start + Size
    BY <2>2, <2>3, EndInHeap DEF Chunks, End
  <2>6. n < chunk[c].size /\ c \notin allocated
    BY <2>2, <2>4 DEF Found, Fits
  <2> QED
    BY <2>2, <2>3, <2>4, <2>5, <2>6 DEF Chunks
<1>2. /\ DataOf(c) = c + Header
      /\ Splits(c, n) <=> n + Header + 1 <= chunk[c].size
  <2>1. c + Header \in 0 .. Word - 1
    BY <1>1
  <2> QED
    BY <1>1, <2>1, WrapInRange, NoOverflow DEF DataOf, Splits
<1>3. /\ first' = first /\ call' = Idle
      /\ allocated' = allocated \cup {c}
      /\ held' = [p \in DOMAIN held \cup {c + Header} |->
                   IF p = c + Header THEN n ELSE held[p]]
      /\ chunk' = IF Splits(c, n) THEN Split(c, n) ELSE chunk
  BY <1>2 DEF Found
(* Split or not, the list is well formed, the chunks there were keep their *)
(* size (c: at least n), and a new chunk is the free right neighbour of c. *)
<1>4. /\ WellFormed(chunk')
      /\ Chunks \subseteq DOMAIN chunk'
      /\ n <= chunk'[c].size
      /\ \A a \in Chunks \ {c} : /\ chunk'[a].next = chunk[a].next
                                 /\ chunk'[a].size = chunk[a].size
      /\ \A a \in DOMAIN chunk' \ Chunks : chunk'[a].next = chunk[c].next
  <2>1. CASE Splits(c, n)
    <3>1. chunk' = Split(c, n) /\ n + Header + 1 <= chunk[c].size
      BY <1>2, <1>3, <2>1
    <3>2. t = c + Header + n
      OBVIOUS
    <3>4. WellFormed(chunk) /\ c \in Chunks /\ n \in Nat
      BY <1>1
    <3> HIDE DEF c, n, t
    <3>3. /\ WellFormed(chunk')
          /\ DOMAIN chunk' = Chunks \cup {t}
          /\ chunk'[c].size = n
          /\ chunk'[t].next = chunk[c].next
          /\ \A a \in Chunks : a # c =>
               chunk'[a].next = chunk[a].next /\ chunk'[a].size = chunk[a].size
      BY <3>1, <3>2, <3>4, SplitWellFormed
    <3> QED
      BY <1>1, <3>3
  <2>2. CASE ~Splits(c, n)
    BY <1>1, <1>3, <2>2 DEF Chunks
  <2> QED
    BY <2>1, <2>2
<1> HIDE DEF c, n
<1>5. TypeOK'
  <2>1. first' \in Chunks' \cup {NULL}
    BY <1>3, <1>4 DEF IInv, TypeOK, Chunks
  <2>2. ListType(chunk')
    BY <1>4 DEF WellFormed
  <2>3. allocated' \subseteq Chunks'
    BY <1>1, <1>3, <1>4 DEF IInv, TypeOK, Chunks
  <2>4. held' \in [DOMAIN held' -> Requests]
    BY <1>1, <1>3 DEF IInv, TypeOK
  <2> QED
    BY <1>3, <2>1, <2>2, <2>3, <2>4 DEF TypeOK
<1>6. ListTilesHeap'
  BY <1>3, <1>4 DEF IInv, ListTilesHeap, WellFormed, Chunks
<1>7. NoAdjacentFree'
  <2> SUFFICES ASSUME NEW a \in DOMAIN chunk', chunk'[a].next # NULL
               PROVE  a \in allocated' \/ chunk'[a].next \in allocated'
    BY DEF NoAdjacentFree, Chunks
  <2>1. CASE a = c
    BY <1>3, <2>1
  <2>2. CASE a \in Chunks \ {c}
    BY <1>3, <1>4, <2>2 DEF IInv, NoAdjacentFree
  <2>3. CASE a \notin Chunks
    BY <1>1, <1>3, <1>4, <2>3 DEF IInv, NoAdjacentFree
  <2> QED
    BY <2>1, <2>2, <2>3
<1>8. HeldMatchesFlags'
  <2>1. DOMAIN held' = {a + Header : a \in allocated'}
    BY <1>3 DEF IInv, HeldMatchesFlags
  <2>2. ASSUME NEW a \in allocated'
        PROVE  held'[a + Header] <= chunk'[a].size
    <3>1. CASE a = c
      BY <1>3, <1>4, <3>1
    <3>2. CASE a # c
      <4>1. a \in allocated /\ a \in Chunks /\ a \in Int
        BY <1>1, <1>3, <3>2, ChunkFacts DEF IInv, TypeOK, Chunks
      <4>2. held'[a + Header] = held[a + Header]
        BY <1>1, <1>3, <4>1, <3>2 DEF IInv, HeldMatchesFlags
      <4> QED
        BY <1>4, <3>2, <4>1, <4>2 DEF IInv, HeldMatchesFlags
    <3> QED
      BY <3>1, <3>2
  <2> QED
    BY <2>1, <2>2 DEF HeldMatchesFlags
<1>9. SearchMissesNothing'
  BY <1>3 DEF SearchMissesNothing, Idle
<1> QED
  BY <1>5, <1>6, <1>7, <1>8, <1>9 DEF IInv

(* Merging two free neighbours changes only the links between them.        *)
LEMMA AbsorbFacts ==
  ASSUME NEW f, NEW l \in DOMAIN f, NEW r \in DOMAIN f, l # r,
         NEW g, g = Absorb(f, l, r)
  PROVE  /\ DOMAIN g = DOMAIN f \ {r}
         /\ g[l].next = f[r].next
         /\ \A a \in DOMAIN f : a # l /\ a # r =>
              g[a].next = f[a].next /\ g[a].size = f[a].size
BY DEF Absorb

(* free merges with the left neighbour: what remains is a well-formed list *)
(* whose only free neighbours, if any, are LeftOf(c) and the chunk on its  *)
(* right.                                                                  *)
LEMMA JoinLeftFacts ==
  ASSUME IInv, NEW c \in allocated
  PROVE  /\ WellFormed(JoinLeft(c))
         /\ LeftOf(c) \in DOMAIN JoinLeft(c)
         /\ DOMAIN JoinLeft(c) \subseteq Chunks
         /\ Start \in DOMAIN JoinLeft(c)
         /\ LeftOf(c) \notin allocated \ {c}
         /\ c \in DOMAIN JoinLeft(c) => c = LeftOf(c)
         /\ \A a \in allocated \ {c} :
              /\ a \in DOMAIN JoinLeft(c)
              /\ JoinLeft(c)[a].size = chunk[a].size
         /\ \A a \in DOMAIN JoinLeft(c) \ {LeftOf(c)} :
              JoinLeft(c)[a].next # NULL =>
                \/ a \in allocated \ {c}
                \/ JoinLeft(c)[a].next \in allocated \ {c}
<1>1. /\ WellFormed(chunk) /\ c \in Chunks /\ Start \in Chunks
      /\ allocated \subseteq Chunks
  <2>1. WellFormed(chunk) /\ allocated \subseteq Chunks
    BY ChunksWellFormed DEF IInv, TypeOK
  <2>2. c \in Start .. Start + Size - Header
    BY <2>1 DEF WellFormed, ListType, Chunks
  <2>3. first = Start
    BY <2>2, HeapAssumption DEF IInv, ListTilesHeap
  <2> QED
    BY <2>1, <2>3, HeapAssumption DEF IInv, ListTilesHeap, NULL
<1>2. ASSUME NEW a \in Chunks, chunk[a].next # NULL
      PROVE  /\ a \in allocated \/ chunk[a].next \in allocated
             /\ chunk[a].next = c => chunk[c].prev = a
  BY <1>1, <1>2, LinkFacts DEF IInv, NoAdjacentFree, Chunks
<1>3. CASE JoinsLeft(c)
  <2> DEFINE l == chunk[c].prev
  <2>1. /\ JoinLeft(c) = Absorb(chunk, l, c) /\ LeftOf(c) = l
        /\ l \notin allocated /\ l \in Chunks
        /\ l < c /\ chunk[l].next = c
    BY <1>1, <1>3, LinkFacts DEF JoinsLeft, JoinLeft, LeftOf, Chunks
  <2>2. Start <= l /\ l \in Int /\ Start \in Int /\ c \in Int
    BY <1>1, <2>1, ChunkFacts, HeapAssumption DEF Chunks
  <2>3. WellFormed(Absorb(chunk, l, c))
    BY <1>1, <2>1, AbsorbWellFormed DEF Chunks
  <2>4. l # c /\ Start # c
    BY <2>1, <2>2
  <2>5. /\ DOMAIN JoinLeft(c) = Chunks \ {c}
        /\ \A a \in Chunks : a # l /\ a # c =>
             /\ JoinLeft(c)[a].next = chunk[a].next
             /\ JoinLeft(c)[a].size = chunk[a].size
    <3>1. l \in DOMAIN chunk /\ c \in DOMAIN chunk
      BY <1>1, <2>1 DEF Chunks
    <3>2. l # c /\ JoinLeft(c) = Absorb(chunk, l, c)
      BY <2>1, <2>4
    <3> HIDE DEF l
    <3>3. /\ DOMAIN JoinLeft(c) = DOMAIN chunk \ {c}
          /\ \A a \in DOMAIN chunk : a # l /\ a # c =>
               /\ JoinLeft(c)[a].next = chunk[a].next
               /\ JoinLeft(c)[a].size = chunk[a].size
      BY <3>1, <3>2 DEF Absorb
    <3> QED
      BY <3>3 DEF Chunks
  <2>6. ASSUME NEW a \in Chunks \ {l, c}, chunk[a].next # NULL
        PROVE  a \in allocated \ {c} \/ chunk[a].next \in allocated \ {c}
    BY <1>2, <2>6
  <2> HIDE DEF l
  <2> QED
    BY <1>1, <2>1, <2>3, <2>4, <2>5, <2>6
<1>4. CASE ~JoinsLeft(c)
  <2>1. JoinLeft(c) = chunk /\ LeftOf(c) = c
    BY <1>4 DEF JoinLeft, LeftOf
  <2>2. ASSUME NEW a \in Chunks \ {c}, chunk[a].next # NULL
        PROVE  a \in allocated \ {c} \/ chunk[a].next \in allocated \ {c}
    <3>1. CASE chunk[a].next = c
      <4>1. chunk[c].prev = a /\ a # NULL
        BY <1>1, <1>2, <2>2, <3>1, ChunkFacts DEF Chunks, NULL
      <4> QED
        BY <1>4, <4>1 DEF JoinsLeft
    <3>2. CASE chunk[a].next # c
      BY <1>2, <2>2, <3>2
    <3> QED
      BY <3>1, <3>2
  <2> QED
    BY <1>1, <2>1, <2>2 DEF Chunks
<1> QED
  BY <1>3, <1>4

(* ... and merging with the right neighbour removes that pair.             *)
LEMMA CoalesceFacts ==
  ASSUME IInv, NEW c \in allocated,
         NEW g, g = JoinRight(JoinLeft(c), LeftOf(c)),
         NEW rest, rest = allocated \ {c}
  PROVE  /\ WellFormed(g)
         /\ Start \in DOMAIN g
         /\ DOMAIN g \subseteq Chunks
         /\ \A a \in rest : a \in DOMAIN g /\ g[a].size = chunk[a].size
         /\ \A a \in DOMAIN g :
              g[a].next # NULL => a \in rest \/ g[a].next \in rest
<1> DEFINE f == JoinLeft(c)
           d == LeftOf(c)
           e == f[d].next
<1>1. /\ WellFormed(f) /\ d \in DOMAIN f /\ DOMAIN f \subseteq Chunks
      /\ Start \in DOMAIN f /\ d \notin rest
      /\ c \in DOMAIN f => c = d
      /\ \A a \in rest : a \in DOMAIN f /\ f[a].size = chunk[a].size
      /\ \A a \in DOMAIN f \ {d} :
           f[a].next # NULL => a \in rest \/ f[a].next \in rest
  BY JoinLeftFacts
<1>2. g = IF e # NULL /\ e \notin allocated THEN Absorb(f, d, e) ELSE f
  BY DEF JoinRight
<1> HIDE DEF f, d
<1>3. e # NULL => e \in DOMAIN f /\ d < e /\ d # e /\ e # c
  <2>1. e # NULL => e \in DOMAIN f /\ d < e
    BY <1>1, LinkFacts
  <2>2. \A a \in DOMAIN f : a \in Int
    BY <1>1, ChunkFacts
  <2> QED
    BY <1>1, <2>1, <2>2
<1>4. CASE e # NULL /\ e \notin allocated
  <2>1. g = Absorb(f, d, e)
    BY <1>2, <1>4
  <2>2. WellFormed(g)
    BY <1>1, <1>3, <1>4, <2>1, AbsorbWellFormed
  <2>3. /\ DOMAIN g = DOMAIN f \ {e}
        /\ g[d].next = f[e].next
        /\ \A a \in DOMAIN f : a # d /\ a # e =>
             g[a].next = f[a].next /\ g[a].size = f[a].size
    <3>1. d \in DOMAIN f /\ e \in DOMAIN f /\ d # e
      BY <1>1, <1>3, <1>4
    <3> HIDE DEF e
    <3> QED
      BY <3>1, <2>1, AbsorbFacts
  <2>4. Start # e
    BY <1>1, <1>3, <1>4, ChunkFacts, HeapAssumption
  <2>5. f[e].next # NULL => f[e].next \in rest
    BY <1>1, <1>3, <1>4
  <2> HIDE DEF e
  <2> QED
    BY <1>1, <1>4, <2>2, <2>3, <2>4, <2>5
<1>5. CASE ~(e # NULL /\ e \notin allocated)
  <2>1. g = f
    BY <1>2, <1>5
  <2>2. e # NULL => e \in rest
    BY <1>3, <1>5
  <2> QED
    BY <1>1, <2>1, <2>2
<1> QED
  BY <1>4, <1>5

(* free keeps the invariant: both merges, then the flag and the pointer.   *)
LEMMA FreeIInv ==
  ASSUME IInv, NEW p \in DOMAIN held, Free(p)
  PROVE  IInv'
<1> DEFINE c == ChunkOf(p)
<1>1. c \in allocated /\ p = c + Header /\ allocated \subseteq Chunks
  BY HeldFacts DEF IInv, TypeOK
<1>2. /\ first' = first /\ call = Idle /\ call' = Idle
      /\ allocated' = allocated \ {c}
      /\ held' = [q \in DOMAIN held \ {p} |-> held[q]]
      /\ chunk' = JoinRight(JoinLeft(c), LeftOf(c))
  BY DEF Free
<1>3. /\ WellFormed(chunk')
      /\ Start \in DOMAIN chunk'
      /\ \A a \in allocated' : a \in DOMAIN chunk' /\ chunk'[a].size = chunk[a].size
      /\ \A a \in DOMAIN chunk' :
           chunk'[a].next # NULL => a \in allocated' \/ chunk'[a].next \in allocated'
  <2> DEFINE rest == allocated \ {c}
  <2>0. rest = allocated \ {c}
    OBVIOUS
  <2> HIDE DEF c, rest
  <2>1. /\ WellFormed(chunk')
        /\ Start \in DOMAIN chunk'
        /\ \A a \in rest : a \in DOMAIN chunk' /\ chunk'[a].size = chunk[a].size
        /\ \A a \in DOMAIN chunk' :
             chunk'[a].next # NULL => a \in rest \/ chunk'[a].next \in rest
    BY <1>1, <1>2, <2>0, CoalesceFacts
  <2> QED
    BY <1>2, <2>0, <2>1
<1>4. first' = Start
  <2>1. c \in Start .. Start + Size - Header
    BY <1>1, ChunksWellFormed DEF WellFormed, ListType, Chunks
  <2> QED
    BY <1>2, <2>1, HeapAssumption DEF IInv, ListTilesHeap
<1>5. TypeOK'
  <2>1. held' \in [DOMAIN held' -> Requests]
    BY <1>2 DEF IInv, TypeOK
  <2>2. ListType(chunk') /\ first' \in Chunks' \cup {NULL} /\ allocated' \subseteq Chunks'
    BY <1>3, <1>4 DEF WellFormed, Chunks
  <2> QED
    BY <1>2, <2>1, <2>2 DEF TypeOK
<1>6. ListTilesHeap'
  BY <1>2, <1>3, <1>4 DEF IInv, ListTilesHeap, WellFormed, Chunks
<1>7. NoAdjacentFree' /\ SearchMissesNothing'
  BY <1>2, <1>3 DEF NoAdjacentFree, SearchMissesNothing, Idle, Chunks
<1>8. HeldMatchesFlags'
  <2>1. \A a \in allocated : a \in Int
    BY <1>1, ChunksWellFormed, ChunkFacts DEF Chunks
  <2>2. DOMAIN held' = {a + Header : a \in allocated'}
    BY <1>1, <1>2, <2>1, HeapAssumption DEF IInv, HeldMatchesFlags
  <2>3. ASSUME NEW a \in allocated'
        PROVE  held'[a + Header] <= chunk'[a].size
    BY <1>2, <1>3, <2>2, <2>3 DEF IInv, HeldMatchesFlags
  <2> QED
    BY <2>2, <2>3 DEF HeldMatchesFlags
<1> QED
  BY <1>5, <1>6, <1>7, <1>8 DEF IInv

(* Every step keeps the invariant: one lemma per operation.                *)
LEMMA StepIInv == IInv /\ [Next]_vars => IInv'
<1> SUFFICES ASSUME IInv, [Next]_vars PROVE IInv'
  OBVIOUS
<1>1. CASE (\E n \in Requests : Malloc(n)) \/ Skip \/ Fail
  BY <1>1, SearchIInv
<1>2. CASE Found
  BY <1>2, FoundIInv
<1>3. CASE \E p \in DOMAIN held : Free(p)
  BY <1>3, FreeIInv
<1>4. CASE UNCHANGED vars
  BY <1>4 DEF vars, IInv, TypeOK, ListType, ListTilesHeap, LinksAgree,
     Disjoint, End, NoAdjacentFree, HeldMatchesFlags, SearchMissesNothing,
     Fits, Chunks
<1> QED
  BY <1>1, <1>2, <1>3, <1>4 DEF Next
-----------------------------------------------------------------------------
(* The chunks of two different addresses share no byte.                    *)
LEMMA ChunksApart ==
  ASSUME IInv, NEW c \in Chunks, NEW d \in Chunks, c # d
  PROVE  c + Header + chunk[c].size <= d \/ d + Header + chunk[d].size <= c
<1>1. c \in Int /\ d \in Int
  BY ChunksWellFormed, ChunkFacts DEF Chunks
<1>2. c < d \/ d < c
  BY <1>1
<1> QED
  BY <1>2 DEF IInv, ListTilesHeap, Disjoint, End, Chunks

(* The bytes a caller asked for lie inside its own chunk, so they meet no  *)
(* header and no other block.                                              *)
LEMMA IInvBlocks == IInv => BlocksAreDisjoint
<1> SUFFICES ASSUME IInv, NEW p \in DOMAIN held
             PROVE  /\ Start + Header <= p /\ p + held[p] <= Start + Size
                    /\ \A c \in Chunks : c + Header <= p \/ p + held[p] <= c
                    /\ \A q \in DOMAIN held \ {p} :
                         p + held[p] <= q \/ q + held[q] <= p
  BY DEF BlocksAreDisjoint
<1> DEFINE b == ChunkOf(p)
<1> USE HeapAssumption
<1>1. \A c \in Chunks : /\ c \in Int /\ Start <= c
                        /\ chunk[c].size \in Int /\ 0 <= chunk[c].size
                        /\ c + Header + chunk[c].size <= Start + Size
  BY ChunksWellFormed, ChunkFacts, EndInHeap DEF End, Chunks
<1>2. /\ b \in Chunks /\ p = b + Header
      /\ held[p] \in Nat /\ held[p] <= chunk[b].size
  BY HeldFacts
<1> HIDE DEF b
<1>3. ASSUME NEW c \in Chunks
      PROVE  c + Header <= p \/ p + held[p] <= c
  <2>1. CASE c = b
    BY <1>1, <1>2, <2>1
  <2>2. CASE c # b
    BY <1>1, <1>2, <2>2, ChunksApart
  <2> QED
    BY <2>1, <2>2
<1>4. ASSUME NEW q \in DOMAIN held \ {p}
      PROVE  p + held[p] <= q \/ q + held[q] <= p
  <2>1. PICK d \in Chunks : /\ q = d + Header
                           /\ held[q] \in Nat /\ held[q] <= chunk[d].size
    BY HeldFacts
  <2>2. d # b
    BY <1>2, <1>4, <2>1
  <2> QED
    BY <1>1, <1>2, <2>1, <2>2, ChunksApart
<1>5. Start + Header <= p /\ p + held[p] <= Start + Size
  BY <1>1, <1>2
<1> QED
  BY <1>3, <1>4, <1>5

(* With nothing handed out every chunk is free, so no chunk has a right    *)
(* neighbour: the first one reaches the end of the heap.                   *)
LEMMA IInvWhole == IInv => FreedHeapIsWhole
<1> SUFFICES ASSUME IInv, DOMAIN held = {}, Header <= Size
             PROVE  Chunks = {Start} /\ chunk[Start].size = Size - Header
  BY DEF FreedHeapIsWhole
<1> USE HeapAssumption
<1>1. /\ WellFormed(chunk) /\ Start \in Chunks /\ allocated = {}
  BY ChunksWellFormed DEF IInv, ListTilesHeap, HeldMatchesFlags, NULL
<1>2. \A c \in Chunks : chunk[c].next = NULL
  BY <1>1 DEF IInv, NoAdjacentFree
<1>3. ASSUME NEW c \in Chunks
      PROVE  c = Start
  <2>1. c # NULL
    BY <1>1, ChunkFacts DEF Chunks, NULL
  <2>2. chunk[c].prev = NULL
    BY <1>1, <1>2, <2>1, LinkFacts DEF Chunks
  <2> QED
    BY <1>1, <2>2, LinkFacts DEF Chunks
<1>4. Start + Header + chunk[Start].size = Start + Size /\ chunk[Start].size \in Int
  BY <1>1, <1>2, LinkFacts, ChunkFacts DEF Chunks
<1>5. Chunks = {Start}
  BY <1>1, <1>3
<1>6. chunk[Start].size = Size - Header
  BY <1>4
<1> QED
  BY <1>5, <1>6

(* No call moves or resizes a chunk that stays allocated across it.        *)
LEMMA StepKeepsAllocated ==
  ASSUME IInv, [Next]_vars
  PROVE  \A c \in allocated \cap allocated' :
           c \in Chunks' /\ chunk'[c].size = chunk[c].size
<1> SUFFICES ASSUME NEW a \in allocated, a \in allocated'
             PROVE  a \in Chunks' /\ chunk'[a].size = chunk[a].size
  OBVIOUS
<1>0. allocated \subseteq Chunks
  BY DEF IInv, TypeOK
<1>1. CASE UNCHANGED chunk
  BY <1>0, <1>1 DEF Chunks
<1>2. CASE Found
  <2> DEFINE c == call.at
             n == call.size
             t == c + Header + n
  <2>1. /\ call \in [op : {"malloc"}, size : Requests, at : Chunks \cup {NULL}]
        /\ WellFormed(chunk)
    BY <1>2, ChunksWellFormed DEF Found, IInv, TypeOK, Idle
  <2>2. /\ c \in Chunks /\ n \in Nat /\ Fits(c, n)
        /\ chunk' = IF Splits(c, n) THEN Split(c, n) ELSE chunk
    BY <1>2, <2>1, RequestsAreNumbers DEF Found
  <2>3. chunk[c].size \in Int /\ n < chunk[c].size /\ c \notin allocated
    BY <2>1, <2>2, ChunkFacts DEF Fits, Chunks
  <2>4. Splits(c, n) <=> n + Header + 1 <= chunk[c].size
    BY <2>1, <2>2, <2>3, NoOverflow, HeapAssumption DEF Splits
  <2>5. t = c + Header + n
    OBVIOUS
  <2> HIDE DEF c, n, t
  <2>6. CASE Splits(c, n)
    <3>1. /\ WellFormed(chunk) /\ c \in Chunks /\ n \in Nat
          /\ n + Header + 1 <= chunk[c].size /\ chunk' = Split(c, n)
      BY <2>1, <2>2, <2>4, <2>6
    <3>2. /\ DOMAIN chunk' = Chunks \cup {t}
          /\ \A x \in Chunks : x # c =>
               chunk'[x].next = chunk[x].next /\ chunk'[x].size = chunk[x].size
      BY <3>1, <2>5, SplitWellFormed
    <3> QED
      BY <1>0, <2>3, <3>2 DEF Chunks
  <2>7. CASE ~Splits(c, n)
    BY <1>1, <2>2, <2>7
  <2> QED
    BY <2>6, <2>7
<1>3. CASE \E p \in DOMAIN held : Free(p)
  <2>1. PICK p \in DOMAIN held : Free(p)
    BY <1>3
  <2> DEFINE c == ChunkOf(p)
             rest == allocated \ {c}
  <2>2. /\ c \in allocated /\ rest = allocated \ {c} /\ allocated' = rest
        /\ chunk' = JoinRight(JoinLeft(c), LeftOf(c))
    BY <2>1, HeldFacts DEF Free
  <2> HIDE DEF c, rest
  <2>3. \A x \in rest : x \in DOMAIN chunk' /\ chunk'[x].size = chunk[x].size
    BY <2>2, CoalesceFacts
  <2> QED
    BY <2>2, <2>3 DEF Chunks
<1> QED
  BY <1>1, <1>2, <1>3 DEF Next, Malloc, Skip, Fail, vars
-----------------------------------------------------------------------------
(* The invariant holds of every behaviour.                                 *)
THEOREM Invariance == Spec => []IInv
BY InitIInv, StepIInv, PTL DEF Spec

(* Types: pointers of the heap point at headers or are 0, sizes fit.       *)
THEOREM TypeCorrect == Spec => []TypeOK
<1>1. IInv => TypeOK
  BY DEF IInv
<1> QED
  BY <1>1, Invariance, PTL

(* Whatever the calls were, the list tiles the heap (the pointer surgery   *)
(* of malloc and free, memorymanagement.cpp:53-63 and 79-96, is right).    *)
THEOREM TilesHeap == Spec => []ListTilesHeap
<1>1. IInv => ListTilesHeap
  BY DEF IInv
<1> QED
  BY <1>1, Invariance, PTL

(* free leaves no two free neighbours (lines 79-96).                       *)
THEOREM Coalesced == Spec => []NoAdjacentFree
<1>1. IInv => NoAdjacentFree
  BY DEF IInv
<1> QED
  BY <1>1, Invariance, PTL

(* A chunk is marked allocated exactly while its pointer is held, and is   *)
(* no smaller than was asked for, also where malloc splits a chunk and     *)
(* free joins it with its neighbours (lines 46-63 and 72-96).              *)
THEOREM FlagsAgree == Spec => []HeldMatchesFlags
<1>1. IInv => HeldMatchesFlags
  BY DEF IInv
<1> QED
  BY <1>1, Invariance, PTL

(* The loop of malloc (lines 41-43) passes over nothing that would do.     *)
THEOREM FirstFit == Spec => []SearchMissesNothing
<1>1. IInv => SearchMissesNothing
  BY DEF IInv
<1> QED
  BY <1>1, Invariance, PTL

(* The blocks callers hold overlap neither each other nor a header.        *)
THEOREM Disjointness == Spec => []BlocksAreDisjoint
BY Invariance, IInvBlocks, PTL

(* A heap whose blocks were all freed is one chunk again.                  *)
THEOREM NoFragmentation == Spec => []FreedHeapIsWhole
BY Invariance, IInvWhole, PTL

(* Blocks stay where they are while they are held.                         *)
THEOREM BlocksStay == Spec => AllocatedChunksStay
<1>1. IInv /\ [Next]_vars =>
        [\A c \in allocated \cap allocated' :
           c \in Chunks' /\ chunk'[c].size = chunk[c].size]_vars
  BY StepKeepsAllocated
<1> QED
  BY <1>1, Invariance, PTL DEF Spec, AllocatedChunksStay
-----------------------------------------------------------------------------
(* A step of the heap is a step of the allocator or leaves it alone.       *)
LEMMA StepRefines == IInv /\ IInv' /\ [Next]_vars => [Promise!Next]_held
<1> SUFFICES ASSUME IInv, IInv', [Next]_vars, held' # held
             PROVE  Promise!Next
  OBVIOUS
<1> USE HeapAssumption
<1>1. CASE Found
  <2> DEFINE c == call.at
             n == call.size
             p == c + Header
  <2>1. /\ call \in [op : {"malloc"}, size : Requests, at : Chunks \cup {NULL}]
        /\ WellFormed(chunk)
    BY <1>1, ChunksWellFormed DEF Found, IInv, TypeOK, Idle
  <2>2. /\ c \in Chunks /\ n \in Requests /\ n \in Nat /\ c \notin allocated
        /\ c \in Int /\ Start <= c /\ chunk[c].size \in Int
        /\ c + Header + chunk[c].size <= Start + Size /\ n < chunk[c].size
    BY <1>1, <2>1, RequestsAreNumbers, ChunkFacts, EndInHeap
       DEF Found, Fits, Chunks, End
  <2>3. DataOf(c) = p
    <3>1. c + Header \in 0 .. Word - 1
      BY <2>2
    <3> QED
      BY <3>1, WrapInRange DEF DataOf
  <2>4. held' = [q \in DOMAIN held \cup {p} |-> IF q = p THEN n ELSE held[q]]
    BY <1>1, <2>3 DEF Found
  <2>5. p \notin DOMAIN held
    <3>1. SUFFICES ASSUME p \in DOMAIN held PROVE FALSE
      OBVIOUS
    <3>2. ChunkOf(p) \in allocated /\ p = ChunkOf(p) + Header /\ ChunkOf(p) \in Chunks
      BY <3>1, HeldFacts
    <3>3. ChunkOf(p) \in Int
      BY <3>2, <2>1, ChunkFacts DEF Chunks
    <3> QED
      BY <2>2, <3>2, <3>3
  <2>6. /\ p \in Start .. Start + Size /\ p + n <= Start + Size
    BY <2>2
  <2>7. ASSUME NEW q \in DOMAIN held
        PROVE  p + n <= q \/ q + held[q] <= p
    <3>1. q \in DOMAIN held' \ {p} /\ p \in DOMAIN held' /\ held'[p] = n /\ held'[q] = held[q]
      BY <2>4, <2>5
    <3>2. BlocksAreDisjoint'
      BY IInvBlocks, PTL
    <3> QED
      BY <3>1, <3>2 DEF BlocksAreDisjoint
  <2>8. Promise!Malloc(n)
    BY <2>4, <2>5, <2>6, <2>7 DEF Promise!Malloc, Promise!Apart
  <2> QED
    BY <2>2, <2>8 DEF Promise!Next
<1>2. CASE \E p \in DOMAIN held : Free(p)
  BY <1>2 DEF Free, Promise!Free, Promise!Next
<1> QED
  BY <1>1, <1>2 DEF Next, Malloc, Skip, Fail, vars

(* The heap implements the allocator its callers rely on.                  *)
THEOREM Refinement == Spec => ImplementsAllocator
<1>1. Init => Promise!Init
  BY DEF Init, Promise!Init
<1> QED
  BY <1>1, StepRefines, Invariance, PTL
     DEF Spec, ImplementsAllocator, Promise!Spec
=============================================================================

----------------------------- MODULE Allocator -----------------------------
(***************************************************************************)
(* What MemoryManager promises its callers, with no word about how it is   *)
(* done: the blocks handed out lie inside the managed range and never      *)
(* overlap, malloc adds one block (or answers 0 and changes nothing) and   *)
(* free takes exactly the block it is given away.                          *)
(***************************************************************************)
EXTENDS Integers

CONSTANTS
  Low, High,   \* the managed bytes are Low .. High - 1
  Requests     \* the sizes malloc is asked for

VARIABLE blocks   \* the blocks handed out: first byte -> size asked for

(* p .. p + n - 1 meets no byte of the block that starts at q.             *)
Apart(p, n, q) == p + n <= q \/ q + blocks[q] <= p

Init == blocks = [p \in {} |-> 0]

Malloc(n) ==
  \E p \in Low .. High :
    /\ p \notin DOMAIN blocks
    /\ p + n <= High
    /\ \A q \in DOMAIN blocks : Apart(p, n, q)
    /\ blocks' = [q \in DOMAIN blocks \cup {p} |->
                    IF q = p THEN n ELSE blocks[q]]

Free(p) ==
  /\ p \in DOMAIN blocks
  /\ blocks' = [q \in DOMAIN blocks \ {p} |-> blocks[q]]

Next ==
  \/ \E n \in Requests : Malloc(n)
  \/ \E p \in DOMAIN blocks : Free(p)

Spec == Init /\ [][Next]_blocks
=============================================================================

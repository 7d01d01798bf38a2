-------------------------------- MODULE Gdt --------------------------------
(***************************************************************************)
(* The segment descriptors of the GlobalDescriptorTable: the eight bytes   *)
(* a base and a limit are encoded in, and the way back.  And the region    *)
(* kernelMain gives to its MemoryManager.  Both are arithmetic on uint32_t *)
(* that the processor relies on before anything else runs.                 *)
(***************************************************************************)
EXTENDS Integers, TLAPS

Word == 65536 * 65536   \* 2^32

(* Granularity of a limit: bytes up to 64 KiB, pages of 4 KiB beyond.      *)
InBytes(limit) == limit <= 65536

(* Pages are counted so that the last one counted is inside the limit: one *)
(* less than the pages begun unless the last page is full.                 *)
InPages(limit) ==
  IF limit % 4096 # 4095 THEN (limit \div 4096) - 1 ELSE limit \div 4096

EncodedLimit(limit) == IF InBytes(limit) THEN limit ELSE InPages(limit)

(* The constructor of SegmentDescriptor; a pair of bytes is one field, as  *)
(* in the class.                                                           *)
SegmentDescriptor(base, limit, type) ==
  LET encoded == EncodedLimit(limit)
  IN  [limit_lo |-> encoded % 65536,
       base_lo  |-> base % 65536,
       base_hi  |-> (base \div 65536) % 256,
       type     |-> type,
       limit_hi |-> (IF InBytes(limit) THEN 64 ELSE 192)
                      + ((encoded \div 65536) % 16),
       base_vhi |-> (base \div 16777216) % 256]

(* Base() and Limit() of a descriptor: what its bytes stand for.           *)
Base(d) == (d.base_vhi * 256 + d.base_hi) * 65536 + d.base_lo

Limit(d) ==
  LET encoded == (d.limit_hi % 16) * 65536 + d.limit_lo
  IN  IF d.limit_hi \div 64 = 3 THEN encoded * 4096 + 4095 ELSE encoded

(* kernel.cpp: where the heap starts, and its size for `memupper' KiB of   *)
(* memory above the first MiB.                                             *)
heap == 10 * 1024 * 1024
HeapSize(memupper) == (((memupper * 1024) % Word) - heap - 10 * 1024) % Word
-----------------------------------------------------------------------------
(* The base of a segment survives being taken apart into four bytes that   *)
(* are not next to each other.                                             *)
THEOREM BaseIsKept ==
  ASSUME NEW base \in Nat, base < Word, NEW limit \in Nat, limit < Word,
         NEW type \in 0 .. 255
  PROVE  Base(SegmentDescriptor(base, limit, type)) = base
<1> DEFINE d == SegmentDescriptor(base, limit, type)
<1>1. /\ d.base_vhi = (base \div 16777216) % 256
      /\ d.base_hi = (base \div 65536) % 256
      /\ d.base_lo = base % 65536
  BY SMT DEF SegmentDescriptor
<1>2. /\ base = 65536 * (base \div 65536) + (base % 65536)
      /\ base \div 65536 =
           256 * (base \div 16777216) + ((base \div 65536) % 256)
      /\ (base \div 16777216) % 256 = base \div 16777216
  BY SMT DEF Word
<1> HIDE DEF d
<1>3. (d.base_vhi * 256 + d.base_hi) * 65536 + d.base_lo = base
  BY SMT, <1>1, <1>2 DEF Word
<1> QED
  BY SMT, <1>3 DEF Base, d

(* gdt.cpp:48-52: a segment is never longer than asked for, so it cannot   *)
(* reach into another, and falls short of it by 4095 bytes at most.        *)
THEOREM LimitIsTight ==
  ASSUME NEW base \in Nat, base < Word, NEW limit \in Nat, limit < Word,
         NEW type \in 0 .. 255
  PROVE  /\ Limit(SegmentDescriptor(base, limit, type)) <= limit
         /\ limit - Limit(SegmentDescriptor(base, limit, type)) <= 4095
<1> DEFINE e == EncodedLimit(limit)
           d == SegmentDescriptor(base, limit, type)
           g == IF InBytes(limit) THEN 64 ELSE 192
<1>1. e \in Nat /\ e < 1048576
  BY SMT DEF EncodedLimit, InBytes, InPages, Word
<1>2. d.limit_lo = e % 65536 /\ d.limit_hi = g + ((e \div 65536) % 16)
  BY SMT DEF SegmentDescriptor
<1>3. g \in {64, 192} /\ (g = 192 <=> ~InBytes(limit))
  BY SMT
<1>4. Limit(d) = IF d.limit_hi \div 64 = 3
                 THEN ((d.limit_hi % 16) * 65536 + d.limit_lo) * 4096 + 4095
                 ELSE (d.limit_hi % 16) * 65536 + d.limit_lo
  BY SMT DEF Limit
<1>5. Limit(d) = IF InBytes(limit) THEN e ELSE e * 4096 + 4095
  <2> HIDE DEF e, d, g
  <2>1. /\ e = 65536 * (e \div 65536) + (e % 65536)
        /\ (e \div 65536) % 16 = e \div 65536
        /\ e \div 65536 \in Nat /\ e \div 65536 < 16
    BY SMT, <1>1
  <2>2. /\ d.limit_hi % 16 = e \div 65536
        /\ d.limit_hi \div 64 = 3 <=> g = 192
    BY SMT, <2>1, <1>2, <1>3
  <2> QED
    BY SMT, <2>1, <2>2, <1>1, <1>2, <1>3, <1>4
<1>6. CASE InBytes(limit)
  BY SMT, <1>5, <1>6 DEF EncodedLimit, InBytes
<1>7. CASE ~InBytes(limit)
  BY SMT, <1>5, <1>7 DEF EncodedLimit, InPages, InBytes, Word
<1> QED
  BY SMT, <1>6, <1>7

(* With 10,250 KiB of memory above the first MiB, or more, the region that *)
(* MemoryManager is given meets what it relies on: it does not begin at    *)
(* address 0 and ends, padding included, with the memory counted and in    *)
(* the address space.  (With less, the difference wraps round.)            *)
THEOREM HeapIsInMemory ==
  ASSUME NEW memupper \in Nat, 10250 <= memupper, memupper < 4194304
  PROVE  /\ heap \in Nat \ {0} /\ HeapSize(memupper) \in Nat
         /\ heap + HeapSize(memupper) + 10 * 1024 = memupper * 1024
         /\ heap + HeapSize(memupper) <= Word
<1>1. (memupper * 1024) % Word = memupper * 1024
  BY SMT DEF Word
<1>2. /\ memupper * 1024 - heap - 10 * 1024 \in Nat
      /\ memupper * 1024 - heap - 10 * 1024 < Word
  BY SMT DEF Word, heap
<1>3. HeapSize(memupper) = memupper * 1024 - heap - 10 * 1024
  BY SMT, <1>1, <1>2 DEF HeapSize, Word
<1> QED
  BY SMT, <1>2, <1>3 DEF heap, Word
=============================================================================

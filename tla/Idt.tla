-------------------------------- MODULE Idt --------------------------------
(***************************************************************************)
(* The interrupt descriptor table the constructor of InterruptManager      *)
(* fills: which assembler stub a vector leads to, and the number that stub *)
(* passes on.  The constructor places the stubs by its parameter           *)
(* hardwareInterruptOffset, the stubs know only their own IRQ_BASE.        *)
(***************************************************************************)
EXTENDS Integers

(* interruptstubs.s:1                                                      *)
IRQ_BASE == 32

Stub == [kind : {"exception", "request", "ignore"}, num : 0 .. 255]

(* Gates are written for exceptions 0x00 - 0x13, then for the requests at  *)
(* the offset, over what is there; an index of the table is a uint8_t.     *)
StubOf(offset, vector) ==
  LET n == (vector - offset) % 256
  IN  IF n < 16 THEN [kind |-> "request", num |-> n]
      ELSE IF vector < 20 THEN [kind |-> "exception", num |-> vector]
      ELSE [kind |-> "ignore", num |-> 0]

(* The interrupt number the stub stores for HandleInterrupt; the stub of   *)
(* an ignored vector returns at once and stores none.                      *)
Passed(stub) ==
  IF stub.kind = "request" THEN (stub.num + IRQ_BASE) % 256 ELSE stub.num

(* SetInterruptDescriptorTableEntry: an address goes into two halves, and  *)
(* the access byte says present, privilege level and type.                 *)
GateDescriptor(handler, codeSegment, level, type) ==
  [handlerAddressLowBits   |-> handler % 65536,
   gdt_codeSegmentSelector |-> codeSegment,
   reserved                |-> 0,
   access                  |-> 128 + (level % 4) * 32 + type,
   handlerAddressHighBits  |-> (handler \div 65536) % 65536]

(* 0xE: the processor turns interrupts off when it goes through the gate.  *)
IDT_INTERRUPT_GATE == 14

(* How the processor reads a gate.                                         *)
HandlerOf(gate) ==
  gate.handlerAddressHighBits * 65536 + gate.handlerAddressLowBits
Present(gate) == gate.access >= 128
TypeOf(gate) == gate.access % 32
=============================================================================

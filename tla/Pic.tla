------------------------------- MODULE Pic -------------------------------
(***************************************************************************)
(* The pair of 8259 interrupt controllers, as far as InterruptManager      *)
(* programs and uses them: edge triggered, fully nested, the slave on line *)
(* 2 of the master, acknowledged with the non-specific command 0x20.       *)
(*                                                                         *)
(* A controller pair is a record of two sets of lines: irr, the lines that *)
(* ask for service, and isr, the lines in service.  Lines 0 - 7 belong to  *)
(* the master and 8 - 15 to the slave; 2 is in isr while the master serves *)
(* the slave.  This is hardware: the module is modelled from the commands  *)
(* interrupts.cpp writes to the ports and the vectors it expects back.     *)
(***************************************************************************)
EXTENDS Integers, FiniteSetsExt

Master == 0 .. 7
Slave == 8 .. 15
Cascade == 2
Timer == 0

(* What the words 0x11 ... 0x01 of the constructor leave behind.           *)
PicReset == [irr |-> {}, isr |-> {}]

RaiseLine(pic, l) == [pic EXCEPT !.irr = @ \cup {l}]

(* A chip lets a line through that is above everything it has in service.  *)
Above(l, isr) == \A s \in isr : l < s

SlaveAsks(pic) ==
  {l \in pic.irr \cap Slave : Above(l, pic.isr \cap Slave)}

MasterAsks(pic) ==
  LET lines == (pic.irr \cap Master) \cup
               (IF SlaveAsks(pic) = {} THEN {} ELSE {Cascade})
  IN  {l \in lines : Above(l, pic.isr \cap Master)}

(* The signal to the processor.                                            *)
Interrupting(pic) == MasterAsks(pic) # {}

(* The line the acknowledge cycle of the processor selects.                *)
Selected(pic) ==
  LET l == Min(MasterAsks(pic))
  IN  IF l = Cascade THEN Min(SlaveAsks(pic)) ELSE l

(* The bits a line occupies in isr while it is served.                     *)
ServiceBits(l) == IF l \in Slave THEN {Cascade, l} ELSE {l}

TakeLine(pic, l) ==
  [irr |-> pic.irr \ {l}, isr |-> pic.isr \cup ServiceBits(l)]

(* The line drops before the acknowledge cycle is over: the chip that is   *)
(* asked answers with its line 7, which it does not put in service.        *)
SpuriousLine(l) == IF l \in Slave THEN 15 ELSE 7

DropLine(pic, l) ==
  [irr |-> pic.irr \ {l},
   isr |-> IF l \in Slave THEN pic.isr \cup {Cascade} ELSE pic.isr]

(* The command 0x20: the highest line in service on that chip is done.     *)
EndOfInterrupt(pic, lines) ==
  LET served == pic.isr \cap lines
  IN  IF served = {} THEN pic
      ELSE [pic EXCEPT !.isr = @ \ {Min(served)}]
=============================================================================

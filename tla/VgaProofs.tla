----------------------------- MODULE VgaProofs -----------------------------
(***************************************************************************)
(* Proofs about the screen: the mode it is in, the addresses of pixels,    *)
(* and the picture.                                                        *)
(*                                                                         *)
(* The mode.  The drawing loop and the interrupts of Screen leave the chip *)
(* alone, so ModeIsSet is proved of Screen's specification with the steps  *)
(* of SetMode only.  The invariant says what each loop has achieved so     *)
(* far.  The timing registers have to be unprotected in it, and stay so    *)
(* because bit 7 of the value for register 17 was cleared in the table;    *)
(* the picture has to be off while the palette is written, and is because  *)
(* every index the loop writes is below 32.                                *)
(*                                                                         *)
(* The picture.  For as long as nothing moves, what a pass has painted is  *)
(* the beginning of DrawOrder with each widget where it is now, and fields *)
(* never move inside their window: that is the invariant.  That the search *)
(* for a press reaches what was painted last at a pixel is then a fact     *)
(* about two orders of the same widgets: behind a window the loop paints   *)
(* its fields and windows in front of it, and a search that ends there has *)
(* asked these first.  The order of drawing is flattened from sequences of *)
(* any length, one for each window; what it holds is proved by taking the  *)
(* first place at which it would not, and thus without a theorem of        *)
(* induction.                                                              *)
(***************************************************************************)
EXTENDS Screen, DesktopProofs, SequenceTheorems

(* The groups of registers that are written when SetMode is at a place.    *)
Before(at) ==
  CASE at \in {"misc", "sequencer"} -> {}
    [] at \in {"unlock", "crtc"} -> {"sequencer"}
    [] at = "graphics" -> {"sequencer", "crtc"}
    [] at = "attribute" -> {"sequencer", "crtc", "graphics"}
    [] OTHER -> Group

(* A chip as the proof needs it: numbers in the registers of each group.   *)
Registers == UNION {[Index(g) -> Nat] : g \in Group}

Sound ==
  {chip \in [misc : Nat, expects : {"index", "value"}, index : Nat,
             on : BOOLEAN, reg : [Group -> Registers]] :
     \A g \in Group : chip.reg[g] \in [Index(g) -> Nat]}

PlaceOK ==
  /\ mode = [at |-> mode.at, i |-> mode.i]
  /\ mode.at \in {"misc", "unlock", "on", "set"} \cup Group
  /\ mode.at \in Group => mode.i \in Index(mode.at)

Achieved ==
  /\ mode.at # "misc" => vga.misc = Misc
  /\ \A g \in Before(mode.at) : \A i \in Index(g) : vga.reg[g][i] = ValueOf(g, i)
  /\ mode.at \in Group =>
       \A i \in 0 .. mode.i - 1 : vga.reg[mode.at][i] = ValueOf(mode.at, i)
  /\ mode.at = "crtc" => ~Protected(vga)
  /\ mode.at = "attribute" /\ mode.i > 0 => ~vga.on
  /\ mode.at = "set" => vga.on

ChipInv == vga \in Sound /\ PlaceOK /\ Achieved
-----------------------------------------------------------------------------
LEMMA Groups ==
  /\ Group = {"sequencer", "crtc", "graphics", "attribute"}
  /\ Index("sequencer") = 0 .. 4
  /\ Index("crtc") = 0 .. 24
  /\ Index("graphics") = 0 .. 8
  /\ Index("attribute") = 0 .. 20
BY DEF Group, Index, Size, Table

LEMMA Values ==
  /\ \A g \in Group : \A i \in Index(g) : ValueOf(g, i) \in Nat
  /\ ValueOf("crtc", 17) < 128
<1>1. ASSUME NEW g \in Group, NEW i \in Index(g)
      PROVE  Table[g][i + 1] \in Nat
  <2>1. CASE g = "sequencer"
    BY <2>1, Groups DEF Table
  <2>2. CASE g = "crtc"
    BY <2>2, Groups DEF Table
  <2>3. CASE g = "graphics"
    BY <2>3, Groups DEF Table
  <2>4. CASE g = "attribute"
    BY <2>4, Groups DEF Table
  <2> QED
    BY <2>1, <2>2, <2>3, <2>4, Groups
<1>2. ASSUME NEW n \in Nat
      PROVE  WithTopBit(n) \in Nat /\ WithoutTopBit(n) \in Nat /\ WithoutTopBit(n) < 128
  BY DEF WithTopBit, WithoutTopBit
<1>3. ASSUME NEW g \in Group, NEW i \in Index(g)
      PROVE  ValueOf(g, i) \in Nat
  BY <1>1, <1>2 DEF ValueOf
<1>4. ValueOf("crtc", 17) = WithoutTopBit(Table["crtc"][18])
  BY DEF ValueOf
<1>5. Table["crtc"][18] \in Nat
  BY <1>1, Groups
<1> QED
  BY <1>2, <1>3, <1>4, <1>5

(* A register that may be written is written, and nothing else.            *)
LEMMA WriteIndexedFacts ==
  ASSUME NEW chip \in Sound, NEW g \in Group, NEW i \in Index(g),
         NEW value \in Nat, ~(g = "crtc" /\ i <= 7 /\ Protected(chip))
  PROVE  LET next == WriteIndexed(chip, g, i, value)
         IN  /\ next \in Sound
             /\ next.misc = chip.misc /\ next.on = chip.on
             /\ next.expects = chip.expects
             /\ next.reg[g][i] = value
             /\ \A h \in Group, j \in Nat :
                  <<h, j>> # <<g, i>> => next.reg[h][j] = chip.reg[h][j]
<1> DEFINE next == [chip EXCEPT !.reg[g][i] = value]
<1>1. WriteIndexed(chip, g, i, value) = next
  BY DEF WriteIndexed
<1>2. /\ chip \in [misc : Nat, expects : {"index", "value"}, index : Nat,
                   on : BOOLEAN, reg : [Group -> Registers]]
      /\ \A h \in Group : chip.reg[h] \in [Index(h) -> Nat]
  BY DEF Sound
<1>3. next = [chip EXCEPT !.reg = [chip.reg EXCEPT ![g] = [chip.reg[g] EXCEPT ![i] = value]]]
  OBVIOUS
<1>4. [chip.reg[g] EXCEPT ![i] = value] \in [Index(g) -> Nat]
  BY <1>2
<1>5. [Index(g) -> Nat] \subseteq Registers
  BY DEF Registers
<1>6. next.reg = [chip.reg EXCEPT ![g] = [chip.reg[g] EXCEPT ![i] = value]]
  BY <1>2, <1>3
<1>7. next.reg \in [Group -> Registers]
  BY <1>2, <1>4, <1>5, <1>6
<1>8. \A h \in Group : next.reg[h] \in [Index(h) -> Nat]
  BY <1>2, <1>4, <1>6
<1>9. /\ next.misc = chip.misc /\ next.on = chip.on
      /\ next.expects = chip.expects
      /\ next \in [misc : Nat, expects : {"index", "value"}, index : Nat,
                   on : BOOLEAN, reg : [Group -> Registers]]
  BY <1>2, <1>3, <1>4, <1>6, <1>7
<1>10. /\ next.reg[g][i] = value
       /\ \A h \in Group, j \in Nat :
            <<h, j>> # <<g, i>> => next.reg[h][j] = chip.reg[h][j]
  BY <1>2, <1>6
<1> HIDE DEF next
<1> QED
  BY <1>1, <1>8, <1>9, <1>10 DEF Sound

(* After unlocking, the first eight timing registers can be written.       *)
LEMMA UnlockedFacts ==
  ASSUME NEW chip \in Sound
  PROVE  LET next == Unlocked(chip)
         IN  /\ next \in Sound /\ next.misc = chip.misc
             /\ ~Protected(next)
             /\ \A j \in Nat : next.reg["sequencer"][j] = chip.reg["sequencer"][j]
<1> DEFINE three == WithTopBit(ReadTiming(chip, 3))
           seen == WriteIndexed(chip, "crtc", 3, three)
           seventeen == WithoutTopBit(ReadTiming(seen, 17))
<1>1. "crtc" \in Group /\ 3 \in Index("crtc") /\ 17 \in Index("crtc")
  BY Groups
<1>2. ASSUME NEW c \in Sound, NEW i \in {3, 17}
      PROVE  ReadTiming(c, i) \in Nat
  BY <1>1 DEF ReadTiming, Sound
<1>3. three \in Nat
  BY <1>2 DEF WithTopBit
<1>4. /\ seen \in Sound /\ seen.misc = chip.misc
      /\ \A j \in Nat : seen.reg["sequencer"][j] = chip.reg["sequencer"][j]
  <2>1. CASE Protected(chip)
    BY <2>1 DEF WriteIndexed
  <2>2. CASE ~Protected(chip)
    <3> HIDE DEF three
    <3> QED
      BY <2>2, <1>1, <1>3, Groups, WriteIndexedFacts
  <2> QED
    BY <2>1, <2>2
<1>5. seventeen \in Nat /\ seventeen < 128
  BY <1>2, <1>4 DEF WithoutTopBit
<1> HIDE DEF three, seen, seventeen
<1>6. Unlocked(chip) = WriteIndexed(seen, "crtc", 17, seventeen)
  BY DEF Unlocked, seen, seventeen, three
<1>7. ~(17 <= 7)
  OBVIOUS
<1> DEFINE next == WriteIndexed(seen, "crtc", 17, seventeen)
<1>8. /\ next \in Sound /\ next.misc = seen.misc
      /\ next.reg["crtc"][17] = seventeen
      /\ \A h \in Group, j \in Nat :
           <<h, j>> # <<"crtc", 17>> => next.reg[h][j] = seen.reg[h][j]
  BY <1>1, <1>4, <1>5, <1>7, WriteIndexedFacts
<1>9. ~Protected(next)
  BY <1>5, <1>8 DEF Protected
<1> QED
  BY <1>4, <1>6, <1>8, <1>9, Groups

(* A pair of writes to the attribute port after it was told to expect an   *)
(* index writes that register and leaves the picture off.                  *)
LEMMA WriteAttributeFacts ==
  ASSUME NEW chip \in Sound, NEW i \in Index("attribute"), NEW value \in Nat
  PROVE  LET next == WriteAttribute(chip, i, value)
         IN  /\ next \in Sound /\ next.misc = chip.misc
             /\ ~next.on
             /\ next.reg["attribute"][i] = value
             /\ \A h \in Group, j \in Nat :
                  <<h, j>> # <<"attribute", i>> => next.reg[h][j] = chip.reg[h][j]
<1> DEFINE first == WriteAttributePort(ExpectIndex(chip), i)
           regs == [chip.reg EXCEPT !["attribute"] = [@ EXCEPT ![i] = value]]
<1>1. /\ chip \in [misc : Nat, expects : {"index", "value"}, index : Nat,
                   on : BOOLEAN, reg : [Group -> Registers]]
      /\ \A h \in Group : chip.reg[h] \in [Index(h) -> Nat]
  BY DEF Sound
<1>2. /\ i \in Nat /\ i % 32 = i /\ ~((i \div 32) % 2 = 1)
      /\ "attribute" \in Group
  BY Groups
<1>3. /\ ExpectIndex(chip).expects = "index"
      /\ ExpectIndex(chip) = [chip EXCEPT !.expects = "index"]
  BY <1>1 DEF ExpectIndex
<1>4. first = [chip EXCEPT !.expects = "value", !.index = i, !.on = FALSE]
  BY <1>1, <1>2, <1>3 DEF WriteAttributePort
<1>5. /\ first.expects = "value" /\ first.index = i /\ first.on = FALSE
      /\ first.misc = chip.misc /\ first.reg = chip.reg
  BY <1>1, <1>4
<1>6. WriteAttribute(chip, i, value) = [first EXCEPT !.expects = "index", !.reg = regs]
  <2> HIDE DEF first
  <2>1. WriteAttribute(chip, i, value)
          = [first EXCEPT !.expects = "index",
                          !.reg["attribute"] = [@ EXCEPT ![first.index] = value]]
    BY <1>5 DEF WriteAttribute, WriteAttributePort, first
  <2> QED
    BY <2>1, <1>1, <1>4, <1>5
<1> DEFINE next == [chip EXCEPT !.expects = "index", !.index = i, !.on = FALSE,
                                !.reg = regs]
<1>7. WriteAttribute(chip, i, value) = next
  BY <1>1, <1>4, <1>6
<1>8. [chip.reg["attribute"] EXCEPT ![i] = value] \in [Index("attribute") -> Nat]
  BY <1>1, <1>2
<1>9. regs \in [Group -> Registers] /\ \A h \in Group : regs[h] \in [Index(h) -> Nat]
  <2>1. [Index("attribute") -> Nat] \subseteq Registers
    BY <1>2 DEF Registers
  <2> QED
    BY <2>1, <1>1, <1>2, <1>8
<1>10. next \in Sound /\ next.misc = chip.misc /\ ~next.on /\ next.reg = regs
  <2> HIDE DEF regs
  <2> QED
    BY <1>1, <1>2, <1>9 DEF Sound
<1>11. /\ regs["attribute"][i] = value
       /\ \A h \in Group, j \in Nat :
            <<h, j>> # <<"attribute", i>> => regs[h][j] = chip.reg[h][j]
  BY <1>1, <1>2
<1> HIDE DEF next, regs
<1> QED
  BY <1>7, <1>10, <1>11

-----------------------------------------------------------------------------
LEMMA ChipBegins == VgaInit => ChipInv
<1> SUFFICES ASSUME VgaInit PROVE ChipInv
  OBVIOUS
<1>1. vga \in Chip /\ mode = [at |-> "misc", i |-> 0]
  BY VgaAssumption DEF VgaInit
<1>2. Byte \subseteq Nat /\ 0 .. 31 \subseteq Nat
  BY DEF Byte
<1>3. \A g \in Group : vga.reg[g] \in [Index(g) -> Byte]
  BY <1>1, Groups DEF Chip
<1>4. \A g \in Group : vga.reg[g] \in [Index(g) -> Nat]
  BY <1>2, <1>3
<1>5. vga.reg = [g \in Group |-> vga.reg[g]]
  BY <1>1, Groups DEF Chip
<1>6. vga.reg \in [Group -> Registers]
  BY <1>4, <1>5 DEF Registers
<1>7. vga \in [misc : Nat, expects : {"index", "value"}, index : Nat,
               on : BOOLEAN, reg : [Group -> Registers]]
  BY <1>1, <1>2, <1>6 DEF Chip
<1>8. vga \in Sound
  BY <1>4, <1>7 DEF Sound
<1> QED
  BY <1>1, <1>8, Groups DEF ChipInv, PlaceOK, Achieved, Before

(* A turn of a loop that writes register i of group g where it ought to.   *)
LEMMA LoopPreserves ==
  ASSUME ChipInv, NEW g \in Group, mode.at = g,
         vga' \in Sound, vga'.misc = vga.misc,
         vga'.reg[g][mode.i] = ValueOf(g, mode.i),
         \A h \in Group, j \in Nat :
           <<h, j>> # <<g, mode.i>> => vga'.reg[h][j] = vga.reg[h][j],
         g = "attribute" => ~vga'.on,
         IF mode.i + 1 < Size(g) THEN mode' = [mode EXCEPT !.i = @ + 1]
                                 ELSE Then(Following(g))
  PROVE  ChipInv'
<1> DEFINE i == mode.i
<1>1. /\ i \in Index(g) /\ i \in Nat /\ Size(g) \in Nat
      /\ Index(g) = 0 .. Size(g) - 1
  BY Groups DEF ChipInv, PlaceOK, Index, Size, Table
<1>2. \A j \in 0 .. i : vga'.reg[g][j] = ValueOf(g, j)
  BY <1>1 DEF ChipInv, Achieved
<1>3. /\ g \notin Before(g)
      /\ Before(g) \subseteq Group
      /\ \A h \in Before(g) : \A j \in Index(h) : vga'.reg[h][j] = ValueOf(h, j)
  <2>1. g \notin Before(g) /\ Before(g) \subseteq Group
    BY Groups DEF Before
  <2>2. ASSUME NEW h \in Before(g), NEW j \in Index(h)
        PROVE  vga'.reg[h][j] = ValueOf(h, j)
    <3>1. h \in Group /\ h # g /\ j \in Nat
      BY <2>1, Groups
    <3>2. <<h, j>> # <<g, mode.i>>
      BY <3>1
    <3> QED
      BY <3>1, <3>2 DEF ChipInv, Achieved
  <2> QED
    BY <2>1, <2>2
<1>4. vga'.misc = Misc
  BY Groups DEF ChipInv, Achieved
<1>5. g = "crtc" => ~Protected(vga')
  <2> SUFFICES ASSUME g = "crtc" PROVE ~Protected(vga')
    OBVIOUS
  <2>1. CASE i = 17
    <3>1. ValueOf("crtc", 17) \in Nat /\ ValueOf("crtc", 17) < 128
      BY Values, Groups
    <3>2. vga'.reg["crtc"][17] = ValueOf("crtc", 17)
      BY <2>1
    <3>3. ~(vga'.reg["crtc"][17] >= 128)
      BY <3>1, <3>2, SMT
    <3> QED
      BY <3>3 DEF Protected
  <2>2. CASE i # 17
    <3>1. vga'.reg["crtc"][17] = vga.reg["crtc"][17]
      BY <2>2
    <3> QED
      BY <3>1 DEF ChipInv, Achieved, Protected
  <2> QED
    BY <2>1, <2>2
<1>6. CASE i + 1 < Size(g)
  <2>1. mode' = [mode EXCEPT !.i = i + 1]
    BY <1>6
  <2>2. mode'.at = g /\ mode'.i = i + 1 /\ mode' = [at |-> g, i |-> i + 1]
    BY <2>1 DEF ChipInv, PlaceOK
  <2>3. PlaceOK'
    BY <2>2, <1>1, <1>6 DEF PlaceOK
  <2>4. \A j \in 0 .. mode'.i - 1 : vga'.reg[g][j] = ValueOf(g, j)
    BY <2>2, <1>1, <1>2
  <2>5. Achieved'
    BY <2>2, <2>4, <1>3, <1>4, <1>5, Groups DEF Achieved
  <2> QED
    BY <2>3, <2>5 DEF ChipInv
<1>7. CASE ~(i + 1 < Size(g))
  <2>1. mode' = [at |-> Following(g), i |-> 0]
    BY <1>7 DEF Then
  <2>2. \A j \in Index(g) : vga'.reg[g][j] = ValueOf(g, j)
    BY <1>1, <1>2, <1>7
  <2>3. Before(Following(g)) = Before(g) \cup {g}
    BY Groups DEF Before, Following
  <2>4. \A h \in Before(mode'.at) : \A j \in Index(h) : vga'.reg[h][j] = ValueOf(h, j)
    BY <2>1, <2>2, <2>3, <1>3
  <2>5. /\ mode'.at \in {"unlock", "graphics", "attribute", "on"}
        /\ mode'.i = 0
    BY <2>1, Groups DEF Following
  <2>6. PlaceOK'
    BY <2>1, <2>5, Groups DEF PlaceOK
  <2>7. Achieved'
    BY <2>4, <2>5, <1>4 DEF Achieved
  <2> QED
    BY <2>6, <2>7 DEF ChipInv
<1> QED
  BY <1>6, <1>7

LEMMA ChipStays == ChipInv /\ [SetMode]_vgaVars => ChipInv'
<1> SUFFICES ASSUME ChipInv, [SetMode]_vgaVars PROVE ChipInv'
  OBVIOUS
<1>1. CASE WriteMisc
  <2>1. /\ vga' = [vga EXCEPT !.misc = Misc] /\ mode' = [at |-> "sequencer", i |-> 0]
    BY <1>1 DEF WriteMisc, Then
  <2>2. vga' \in Sound /\ vga'.misc = Misc
    BY <2>1 DEF ChipInv, Sound, Misc
  <2> QED
    BY <2>1, <2>2, Groups DEF ChipInv, PlaceOK, Achieved, Before
<1>2. CASE Unlock
  <2>1. mode.at = "unlock" /\ vga' = Unlocked(vga) /\ mode' = [at |-> "crtc", i |-> 0]
    BY <1>2 DEF Unlock, Then
  <2>2. /\ vga' \in Sound /\ vga'.misc = vga.misc /\ ~Protected(vga')
        /\ \A j \in Nat : vga'.reg["sequencer"][j] = vga.reg["sequencer"][j]
    BY <2>1, UnlockedFacts DEF ChipInv
  <2>3. /\ vga.misc = Misc
        /\ \A j \in Index("sequencer") :
             vga.reg["sequencer"][j] = ValueOf("sequencer", j)
    BY <2>1 DEF ChipInv, Achieved, Before
  <2>4. \A j \in Index("sequencer") : vga'.reg["sequencer"][j] = ValueOf("sequencer", j)
    BY <2>2, <2>3, Groups
  <2>5. PlaceOK'
    BY <2>1, Groups DEF PlaceOK
  <2>6. mode'.at = "crtc" /\ mode'.i = 0
    BY <2>1
  <2>7. Before(mode'.at) = {"sequencer"}
    BY <2>6 DEF Before
  <2> HIDE DEF ChipInv
  <2>8. Achieved'
    BY <2>2, <2>3, <2>4, <2>6, <2>7 DEF Achieved
  <2> QED
    BY <2>2, <2>5, <2>8 DEF ChipInv
<1>3. ASSUME NEW g \in Group, WriteRegister(g)
      PROVE  ChipInv'
  <2>1. /\ mode.at = g /\ mode.i \in Index(g)
        /\ ValueOf(g, mode.i) \in Nat /\ vga \in Sound
    BY <1>3, Values DEF WriteRegister, ChipInv, PlaceOK
  <2>2. CASE g = "attribute"
    <3>1. vga' = WriteAttribute(vga, mode.i, ValueOf(g, mode.i))
      BY <2>2, <1>3 DEF WriteRegister
    <3>2. /\ vga' \in Sound /\ vga'.misc = vga.misc /\ ~vga'.on
          /\ vga'.reg[g][mode.i] = ValueOf(g, mode.i)
          /\ \A h \in Group, j \in Nat :
               <<h, j>> # <<g, mode.i>> => vga'.reg[h][j] = vga.reg[h][j]
      BY <2>1, <2>2, <3>1, WriteAttributeFacts
    <3> QED
      BY <2>1, <3>2, <1>3, LoopPreserves DEF WriteRegister
  <2>3. CASE g # "attribute"
    <3>1. vga' = WriteIndexed(vga, g, mode.i, ValueOf(g, mode.i))
      BY <2>3, <1>3 DEF WriteRegister
    <3>2. ~(g = "crtc" /\ mode.i <= 7 /\ Protected(vga))
      BY <2>1 DEF ChipInv, Achieved
    <3>3. /\ vga' \in Sound /\ vga'.misc = vga.misc
          /\ vga'.reg[g][mode.i] = ValueOf(g, mode.i)
          /\ \A h \in Group, j \in Nat :
               <<h, j>> # <<g, mode.i>> => vga'.reg[h][j] = vga.reg[h][j]
      BY <2>1, <3>1, <3>2, WriteIndexedFacts
    <3> QED
      BY <2>1, <2>3, <3>3, <1>3, LoopPreserves DEF WriteRegister
  <2> QED
    BY <2>2, <2>3
<1>4. CASE TurnOn
  <2>1. /\ mode.at = "on" /\ mode' = [at |-> "set", i |-> 0]
        /\ vga' = WriteAttributePort(ExpectIndex(vga), 32)
    BY <1>4 DEF TurnOn, Then
  <2>2. vga' = [vga EXCEPT !.expects = "value", !.index = 0, !.on = TRUE]
    <3>1. /\ ExpectIndex(vga) = [vga EXCEPT !.expects = "index"]
          /\ ExpectIndex(vga).expects = "index"
      BY DEF ChipInv, Sound, ExpectIndex
    <3>2. 32 % 32 = 0 /\ ((32 \div 32) % 2 = 1) = TRUE
      OBVIOUS
    <3>3. ASSUME NEW chip, chip.expects = "index"
          PROVE  WriteAttributePort(chip, 32)
                   = [chip EXCEPT !.expects = "value", !.index = 32 % 32,
                                  !.on = ((32 \div 32) % 2 = 1)]
      BY <3>3 DEF WriteAttributePort
    <3>4. vga' = [ExpectIndex(vga) EXCEPT !.expects = "value", !.index = 0, !.on = TRUE]
      BY <2>1, <3>1, <3>2, <3>3
    <3> QED
      BY <3>1, <3>4 DEF ChipInv, Sound
  <2>3. /\ vga' \in Sound /\ vga'.misc = vga.misc /\ vga'.reg = vga.reg /\ vga'.on
    BY <2>2 DEF ChipInv, Sound
  <2>4. Before("on") = Group /\ Before("set") = Group
    BY Groups DEF Before
  <2> QED
    BY <2>1, <2>3, <2>4, Groups DEF ChipInv, PlaceOK, Achieved
<1>5. CASE UNCHANGED vgaVars
  BY <1>5 DEF ChipInv, PlaceOK, Achieved, vgaVars
<1> QED
  BY <1>1, <1>2, <1>3, <1>4, <1>5 DEF SetMode

(* When SetMode has returned, the chip is in the mode of its table,        *)
(* whatever bytes and flags the boot loader left in it, and stays so while *)
(* the desktop is drawn and interrupted.                                   *)
THEOREM ModeReached == ScreenSpec => []ModeIsSet
<1>1. ScreenInit => ChipInv
  BY ChipBegins DEF ScreenInit
<1>2. ChipInv /\ [ScreenNext]_screenVars => ChipInv'
  <2> SUFFICES ASSUME ChipInv, [ScreenNext]_screenVars PROVE [SetMode]_vgaVars
    BY ChipStays
  <2> QED
    BY DEF ScreenNext, Prepare, Draw, DrawBackground, ReadAcross, DrawWidget,
           Interrupt, screenVars, vgaVars
<1>3. ChipInv => ModeIsSet
  BY DEF ChipInv, Achieved, Before, ModeIsSet
<1> QED
  BY <1>1, <1>2, <1>3, PTL DEF ScreenSpec

(* Once the mode is set every pixel has a byte of its own, inside the 64   *)
(* KiB of video memory from 0xA0000.                                       *)
THEOREM PixelsHaveBytes ==
  ASSUME ModeIsSet, mode.at = "set"
  PROVE  /\ GetFrameBufferSegment(vga) = 640 * 1024
         /\ \A x \in 0 .. 319, y \in 0 .. 199 :
              /\ GetFrameBufferSegment(vga) <= PixelAddress(vga, x, y)
              /\ PixelAddress(vga, x, y) < GetFrameBufferSegment(vga) + 64 * 1024
         /\ \A x, u \in 0 .. 319, y, v \in 0 .. 199 :
              PixelAddress(vga, u, v) = PixelAddress(vga, x, y) => u = x /\ v = y
<1>1. vga.reg["graphics"][6] = 5
  BY Groups DEF ModeIsSet, ValueOf, Table
<1>2. GetFrameBufferSegment(vga) = 640 * 1024
  BY <1>1, SMT DEF GetFrameBufferSegment
<1>3. GetFrameBufferSegment(vga) \in Nat
  BY <1>2, SMT
<1>4. \A x \in 0 .. 319, y \in 0 .. 199 :
        /\ GetFrameBufferSegment(vga) <= PixelAddress(vga, x, y)
        /\ PixelAddress(vga, x, y) < GetFrameBufferSegment(vga) + 64 * 1024
  BY <1>3, SMT DEF PixelAddress
<1>5. \A x, u \in 0 .. 319, y, v \in 0 .. 199 :
        PixelAddress(vga, u, v) = PixelAddress(vga, x, y) => u = x /\ v = y
  BY <1>3, SMT DEF PixelAddress
<1> QED
  BY <1>2, <1>4, <1>5, Zenon
-----------------------------------------------------------------------------
(* Flattening joins the sequences one after the other.                     *)
LEMMA FlattenSteps ==
  ASSUME NEW S, NEW seqs \in Seq(Seq(S)), Len(seqs) > 0
  PROVE  \E f \in [1 .. Len(seqs) -> Seq(S)] :
           /\ f[1] = seqs[1]
           /\ \A i \in 2 .. Len(seqs) : f[i] = f[i - 1] \o seqs[i]
           /\ FlattenSeq(seqs) = f[Len(seqs)]
<1> DEFINE n == Len(seqs)
           Joins(f, m) == /\ f \in [1 .. m -> Seq(S)]
                          /\ f[1] = seqs[1]
                          /\ \A i \in 2 .. m : f[i] = f[i - 1] \o seqs[i]
           Failing == {m \in 1 .. n : ~\E f : Joins(f, m)}
<1>1. n \in Nat /\ n > 0 /\ \A i \in 1 .. n : seqs[i] \in Seq(S)
  OBVIOUS
<1> HIDE DEF n
<1>2. Failing = {}
  <2> SUFFICES ASSUME Failing # {} PROVE FALSE
    OBVIOUS
  <2>1. Failing \in SUBSET Nat
    <3>1. Failing \subseteq 1 .. n
      OBVIOUS
    <3> HIDE DEF Failing
    <3> QED
      BY <1>1, <3>1
  <2>2. PICK m \in Failing : \A k \in Failing : m <= k
    <3> HIDE DEF Failing
    <3> QED
      BY <2>1, Smallest
  <2>3. m \in 1 .. n /\ ~\E f : Joins(f, m)
    OBVIOUS
  <2>4. CASE m = 1
    <3>1. Joins([i \in 1 .. 1 |-> seqs[1]], 1)
      BY <1>1
    <3> QED
      BY <2>3, <2>4, <3>1
  <2>5. CASE m # 1
    <3>1. m - 1 \in 1 .. n /\ ~(m <= m - 1)
      BY <1>1, <2>3, <2>5
    <3>2. PICK g : Joins(g, m - 1)
      BY <2>2, <3>1
    <3> DEFINE f == [i \in 1 .. m |-> IF i = m THEN g[m - 1] \o seqs[m] ELSE g[i]]
    <3>3. m - 1 \in 1 .. m - 1 /\ 1 \in 1 .. m - 1 /\ m \in 2 .. m
      BY <1>1, <2>3, <2>5
    <3>4. f[m] \in Seq(S)
      BY <1>1, <2>3, <3>2, <3>3, ConcatProperties
    <3>5. f \in [1 .. m -> Seq(S)]
      <4>1. \A i \in 1 .. m : i # m => i \in 1 .. m - 1
        BY <1>1, <2>3
      <4> QED
        BY <3>2, <3>4, <4>1
    <3>6. f[1] = seqs[1]
      BY <2>5, <3>2, <3>3
    <3>7. \A i \in 2 .. m : f[i] = f[i - 1] \o seqs[i]
      <4> SUFFICES ASSUME NEW i \in 2 .. m PROVE f[i] = f[i - 1] \o seqs[i]
        OBVIOUS
      <4>1. i - 1 \in 1 .. m /\ i - 1 # m /\ i \in 1 .. m
        BY <1>1, <2>3
      <4>2. f[i - 1] = g[i - 1]
        BY <4>1
      <4>3. CASE i = m
        BY <4>1, <4>2, <4>3
      <4>4. CASE i # m
        <5>1. i \in 2 .. m - 1
          BY <1>1, <2>3, <4>4
        <5> QED
          BY <3>2, <4>1, <4>2, <4>4, <5>1
      <4> QED
        BY <4>3, <4>4
    <3>8. Joins(f, m)
      <4> HIDE DEF f
      <4> QED
        BY <3>5, <3>6, <3>7
    <3> HIDE DEF Joins
    <3> QED
      BY <2>3, <3>8
  <2> QED
    BY <2>4, <2>5
<1>3. PICK g : Joins(g, n)
  <2>1. n \in 1 .. n
    BY <1>1
  <2>2. n \notin Failing
    BY <1>2
  <2> QED
    BY <2>1, <2>2
<1> DEFINE Body(h) == [i \in 1 .. n |-> IF i = 1 THEN seqs[i] ELSE h[i - 1] \o seqs[i]]
           flatten == CHOOSE h : h = Body(h)
<1>4. g = Body(g)
  <2>1. \A i \in 1 .. n : g[i] = Body(g)[i]
    <3>1. \A i \in 1 .. n : i # 1 => i \in 2 .. n
      BY <1>1
    <3> QED
      BY <1>3, <3>1
  <2>2. g \in [1 .. n -> Seq(S)]
    BY <1>3
  <2> QED
    BY <2>1, <2>2
<1>5. flatten = Body(flatten)
  <2> HIDE DEF Body
  <2> QED
    BY <1>4
<1>6. FlattenSeq(seqs) = flatten[n]
  <2>1. Len(seqs) # 0
    OBVIOUS
  <2> QED
    BY <2>1, Zenon DEF FlattenSeq, n
<1> DEFINE Differing == {i \in 1 .. n : flatten[i] # g[i]}
<1> HIDE DEF flatten
<1>7. Differing = {}
  <2> SUFFICES ASSUME Differing # {} PROVE FALSE
    OBVIOUS
  <2>1. PICK i \in Differing : \A k \in Differing : i <= k
    <3>1. Differing \subseteq 1 .. n
      OBVIOUS
    <3> HIDE DEF Differing
    <3>2. Differing \in SUBSET Nat
      BY <1>1, <3>1
    <3> QED
      BY <3>2, Smallest
  <2>2. /\ i \in 1 .. n
        /\ flatten[i] = IF i = 1 THEN seqs[i] ELSE flatten[i - 1] \o seqs[i]
        /\ g[i] = IF i = 1 THEN seqs[i] ELSE g[i - 1] \o seqs[i]
    BY <1>4, <1>5
  <2>3. i # 1 /\ flatten[i - 1] # g[i - 1]
    BY <2>1, <2>2
  <2>4. i - 1 \in Differing /\ ~(i <= i - 1)
    BY <1>1, <2>2, <2>3
  <2> QED
    BY <2>1, <2>4
<1>8. flatten[n] = g[n]
  <2>1. n \in 1 .. n
    BY <1>1
  <2> QED
    BY <1>7, <2>1
<1> QED
  BY <1>3, <1>6, <1>8 DEF n
(* The elements of the first n sequences of seqs, and nothing else, each   *)
(* with only later ones behind it.                                         *)
InOrder(s, seqs, n) ==
  /\ \A q \in 1 .. Len(s) :
       \E m \in 1 .. n : \E k \in 1 .. Len(seqs[m]) : s[q] = seqs[m][k]
  /\ \A m \in 1 .. n : \A k \in 1 .. Len(seqs[m]) :
       \E q \in 1 .. Len(s) :
         /\ s[q] = seqs[m][k]
         /\ \A r \in q + 1 .. Len(s) :
              \/ \E l \in k + 1 .. Len(seqs[m]) : s[r] = seqs[m][l]
              \/ \E o \in m + 1 .. n : \E l \in 1 .. Len(seqs[o]) : s[r] = seqs[o][l]

LEMMA OneMore ==
  ASSUME NEW S, NEW seqs \in Seq(Seq(S)), NEW n \in 1 .. Len(seqs),
         NEW s \in Seq(S), InOrder(s, seqs, n - 1)
  PROVE  InOrder(s \o seqs[n], seqs, n)
<1> DEFINE t == s \o seqs[n]
           a == Len(s)
           b == Len(seqs[n])
<1>1. /\ seqs[n] \in Seq(S) /\ a \in Nat /\ b \in Nat /\ n \in Nat /\ n > 0
      /\ \A m \in 1 .. n : m = n \/ m \in 1 .. n - 1
  OBVIOUS
<1>2. Len(t) = a + b
  BY <1>1, ConcatProperties
<1>3. \A i \in 1 .. a + b : t[i] = IF i <= a THEN s[i] ELSE seqs[n][i - a]
  BY <1>1, ConcatProperties, Zenon
<1> HIDE DEF t
<1>4. ASSUME NEW q \in 1 .. Len(t)
      PROVE  \E m \in 1 .. n : \E k \in 1 .. Len(seqs[m]) : t[q] = seqs[m][k]
  <2>1. CASE q <= a
    <3>1. q \in 1 .. a /\ q \in 1 .. a + b
      BY <1>1, <1>2, <2>1
    <3>2. PICK m \in 1 .. n - 1 : \E k \in 1 .. Len(seqs[m]) : s[q] = seqs[m][k]
      BY <3>1 DEF InOrder
    <3>3. m \in 1 .. n /\ t[q] = s[q]
      BY <1>1, <1>3, <2>1, <3>1
    <3> QED
      BY <3>2, <3>3
  <2>2. CASE ~(q <= a)
    <3>1. q - a \in 1 .. b /\ q \in 1 .. a + b
      BY <1>1, <1>2, <2>2
    <3>2. t[q] = seqs[n][q - a] /\ n \in 1 .. n
      BY <1>1, <1>3, <2>2, <3>1
    <3> QED
      BY <3>1, <3>2
  <2> QED
    BY <2>1, <2>2
<1>5. ASSUME NEW m \in 1 .. n, NEW k \in 1 .. Len(seqs[m])
      PROVE  \E q \in 1 .. Len(t) :
               /\ t[q] = seqs[m][k]
               /\ \A r \in q + 1 .. Len(t) :
                    \/ \E l \in k + 1 .. Len(seqs[m]) : t[r] = seqs[m][l]
                    \/ \E o \in m + 1 .. n : \E l \in 1 .. Len(seqs[o]) :
                         t[r] = seqs[o][l]
  <2>1. CASE m = n
    <3>1. a + k \in 1 .. Len(t) /\ a + k \in 1 .. a + b /\ ~(a + k <= a)
          /\ (a + k) - a = k
      BY <1>1, <1>2, <2>1
    <3>2. t[a + k] = seqs[m][k]
      BY <1>3, <2>1, <3>1
    <3>3. ASSUME NEW r \in a + k + 1 .. Len(t)
          PROVE  \E l \in k + 1 .. Len(seqs[m]) : t[r] = seqs[m][l]
      <4>1. r \in 1 .. a + b /\ ~(r <= a) /\ r - a \in k + 1 .. Len(seqs[m])
        BY <1>1, <1>2, <2>1
      <4>2. t[r] = seqs[m][r - a]
        BY <1>3, <2>1, <4>1
      <4> QED
        BY <4>1, <4>2
    <3> QED
      BY <3>1, <3>2, <3>3
  <2>2. CASE m # n
    <3>1. m \in 1 .. n - 1
      BY <1>1, <2>2
    <3>2. PICK q \in 1 .. a :
            /\ s[q] = seqs[m][k]
            /\ \A r \in q + 1 .. a :
                 \/ \E l \in k + 1 .. Len(seqs[m]) : s[r] = seqs[m][l]
                 \/ \E o \in m + 1 .. n - 1 : \E l \in 1 .. Len(seqs[o]) :
                      s[r] = seqs[o][l]
      BY <3>1, Zenon DEF InOrder
    <3>3. q \in 1 .. Len(t) /\ q \in 1 .. a + b /\ q <= a
      BY <1>1, <1>2
    <3>4. t[q] = seqs[m][k]
      BY <1>3, <3>2, <3>3
    <3>5. ASSUME NEW r \in q + 1 .. Len(t)
          PROVE  \/ \E l \in k + 1 .. Len(seqs[m]) : t[r] = seqs[m][l]
                 \/ \E o \in m + 1 .. n : \E l \in 1 .. Len(seqs[o]) :
                      t[r] = seqs[o][l]
      <4>1. CASE r <= a
        <5>1. r \in q + 1 .. a /\ r \in 1 .. a + b
          BY <1>1, <1>2, <4>1
        <5>2. t[r] = s[r] /\ \A o \in m + 1 .. n - 1 : o \in m + 1 .. n
          BY <1>1, <1>3, <4>1, <5>1
        <5> QED
          BY <3>2, <5>1, <5>2
      <4>2. CASE ~(r <= a)
        <5>1. r - a \in 1 .. b /\ r \in 1 .. a + b /\ n \in m + 1 .. n
          BY <1>1, <1>2, <3>1, <4>2
        <5>2. t[r] = seqs[n][r - a]
          BY <1>3, <4>2, <5>1
        <5> QED
          BY <5>1, <5>2
      <4> QED
        BY <4>1, <4>2
    <3> QED
      BY <3>3, <3>4, <3>5
  <2> QED
    BY <2>1, <2>2
<1> QED
  BY <1>4, <1>5 DEF InOrder, t

LEMMA FlattenOrder ==
  ASSUME NEW S, NEW seqs \in Seq(Seq(S))
  PROVE  FlattenSeq(seqs) \in Seq(S) /\ InOrder(FlattenSeq(seqs), seqs, Len(seqs))
<1>1. CASE Len(seqs) = 0
  <2>1. seqs = << >>
    BY <1>1, EmptySeq
  <2>2. FlattenSeq(seqs) = << >>
    BY <1>1, <2>1 DEF FlattenSeq
  <2>3. << >> \in Seq(S) /\ Len(<< >>) = 0 /\ 1 .. 0 = {}
    OBVIOUS
  <2> QED
    BY <1>1, <2>2, <2>3 DEF InOrder
<1>2. CASE Len(seqs) # 0
  <2>1. Len(seqs) \in Nat /\ Len(seqs) > 0 /\ seqs[1] \in Seq(S) /\ 1 \in 1 .. Len(seqs)
    BY <1>2
  <2>2. PICK f \in [1 .. Len(seqs) -> Seq(S)] :
          /\ f[1] = seqs[1]
          /\ \A i \in 2 .. Len(seqs) : f[i] = f[i - 1] \o seqs[i]
          /\ FlattenSeq(seqs) = f[Len(seqs)]
    BY <2>1, FlattenSteps
  <2> DEFINE Failing == {i \in 1 .. Len(seqs) : ~InOrder(f[i], seqs, i)}
  <2>3. Failing = {}
    <3> SUFFICES ASSUME Failing # {} PROVE FALSE
      OBVIOUS
    <3>1. PICK i \in Failing : \A k \in Failing : i <= k
      <4>1. Failing \subseteq 1 .. Len(seqs)
        OBVIOUS
      <4> HIDE DEF Failing
      <4>2. Failing \in SUBSET Nat
        BY <2>1, <4>1
      <4> QED
        BY <4>2, Smallest
    <3>2. i \in 1 .. Len(seqs) /\ ~InOrder(f[i], seqs, i)
      OBVIOUS
    <3>3. CASE i = 1
      <4>1. InOrder(<< >>, seqs, 1 - 1)
        <5>1. Len(<< >>) = 0 /\ 1 .. 0 = {} /\ 1 - 1 = 0
          OBVIOUS
        <5> QED
          BY <5>1 DEF InOrder
      <4>2. << >> \in Seq(S)
        OBVIOUS
      <4>3. InOrder(<< >> \o seqs[1], seqs, 1)
        BY <2>1, <4>1, <4>2, OneMore
      <4>4. << >> \o seqs[1] = seqs[1]
        BY <2>1, ConcatEmptySeq
      <4> QED
        BY <2>2, <3>2, <3>3, <4>3, <4>4
    <3>4. CASE i # 1
      <4>1. i - 1 \in 1 .. Len(seqs) /\ i \in 2 .. Len(seqs) /\ ~(i <= i - 1)
        BY <2>1, <3>2, <3>4
      <4>2. InOrder(f[i - 1], seqs, i - 1)
        BY <3>1, <4>1
      <4>3. f[i - 1] \in Seq(S)
        BY <2>2, <4>1
      <4>4. InOrder(f[i - 1] \o seqs[i], seqs, i)
        BY <3>2, <4>2, <4>3, OneMore
      <4> QED
        BY <2>2, <3>2, <4>1, <4>4
    <3> QED
      BY <3>3, <3>4
  <2>4. Len(seqs) \in 1 .. Len(seqs)
    BY <2>1
  <2> QED
    BY <2>2, <2>3, <2>4
<1> QED
  BY <1>1, <1>2
-----------------------------------------------------------------------------
(* The i-th child of the desktop, and whether a widget is that child or    *)
(* one of its fields.                                                      *)
Nth(i) == Children[Root][i]
Belongs(k, i) == k = Nth(i) \/ k \in Range(Children[Nth(i)])

LEMMA NthFacts ==
  /\ Len(Children[Root]) \in Nat
  /\ \A i \in 1 .. Len(Children[Root]) :
       /\ Nth(i) \in Window
       /\ Children[Nth(i)] \in Seq(Field)
       /\ Children[Nth(i)] \in Seq(Window \cup Field)
  /\ \A w \in Window : \E i \in 1 .. Len(Children[Root]) : w = Nth(i)
<1>1. Children[Root] \in Seq(Window \cup Field) /\ Range(Children[Root]) = Window
  BY DesktopAssumption
<1>2. Len(Children[Root]) \in Nat /\ DOMAIN Children[Root] = 1 .. Len(Children[Root])
  BY <1>1
<1>3. ASSUME NEW i \in 1 .. Len(Children[Root])
      PROVE  /\ Nth(i) \in Window
             /\ Children[Nth(i)] \in Seq(Field)
             /\ Children[Nth(i)] \in Seq(Window \cup Field)
  <2>1. Nth(i) \in Window
    BY <1>1, <1>2 DEF Range, Nth
  <2>2. /\ Children[Nth(i)] \in Seq(Window \cup Field)
        /\ Range(Children[Nth(i)]) \subseteq Field
    BY <2>1, DesktopAssumption
  <2>3. \A j \in 1 .. Len(Children[Nth(i)]) : Children[Nth(i)][j] \in Field
    BY <2>2 DEF Range
  <2>4. Children[Nth(i)] \in Seq(Field)
    BY <2>2, <2>3
  <2> QED
    BY <2>1, <2>2, <2>4
<1>4. \A w \in Window : \E i \in 1 .. Len(Children[Root]) : w = Nth(i)
  BY <1>1, <1>2 DEF Range, Nth
<1> QED
  BY <1>2, <1>3, <1>4

(* One child of the desktop as it is drawn: itself, then its children,     *)
(* last one first.                                                         *)
Drawing(w) == <<w>> \o Reverse(Children[w])

LEMMA DrawingFacts ==
  ASSUME NEW i \in 1 .. Len(Children[Root])
  PROVE  LET w == Nth(i)
         IN  /\ Drawing(w) \in Seq(Window \cup Field)
             /\ Len(Drawing(w)) = 1 + Len(Children[w])
             /\ Drawing(w)[1] = w
             /\ \A k \in 2 .. Len(Drawing(w)) :
                  /\ Len(Children[w]) - k + 2 \in 1 .. Len(Children[w])
                  /\ Drawing(w)[k] = Children[w][Len(Children[w]) - k + 2]
<1> DEFINE w == Nth(i)
           c == Len(Children[w])
           S == Window \cup Field
           s == Reverse(Children[w])
<1>1. w \in S /\ Children[w] \in Seq(S) /\ c \in Nat
  BY NthFacts
<1>2. /\ s \in Seq(S) /\ Len(s) = c
      /\ \A k \in 1 .. c : s[k] = Children[w][c - k + 1]
  BY <1>1 DEF Reverse
<1>3. <<w>> \in Seq(S) /\ Len(<<w>>) = 1 /\ <<w>>[1] = w
  BY <1>1
<1> HIDE DEF w, s, S, c
<1>4. <<w>> \o s \in Seq(S) /\ Len(<<w>> \o s) = 1 + c
  BY <1>1, <1>2, <1>3, ConcatProperties
<1>5. \A k \in 1 .. 1 + c : (<<w>> \o s)[k] = IF k <= 1 THEN <<w>>[k] ELSE s[k - 1]
  <2> DEFINE one == <<w>>
  <2>1. one \in Seq(S) /\ s \in Seq(S) /\ Len(one) = 1
    BY <1>2, <1>3
  <2> HIDE DEF one
  <2>2. \A k \in 1 .. Len(one) + Len(s) :
          (one \o s)[k] = IF k <= Len(one) THEN one[k] ELSE s[k - Len(one)]
    BY <2>1, ConcatProperties
  <2>3. \A k \in 1 .. 1 + c : (one \o s)[k] = IF k <= 1 THEN one[k] ELSE s[k - 1]
    BY <1>2, <2>1, <2>2
  <2> QED
    BY <2>3 DEF one
<1>6. (<<w>> \o s)[1] = w
  BY <1>1, <1>3, <1>5
<1>7. ASSUME NEW k \in 2 .. 1 + c
      PROVE  c - k + 2 \in 1 .. c /\ (<<w>> \o s)[k] = Children[w][c - k + 2]
  <2>1. k \in 1 .. 1 + c /\ ~(k <= 1) /\ k - 1 \in 1 .. c
        /\ c - (k - 1) + 1 = c - k + 2 /\ c - k + 2 \in 1 .. c
    BY <1>1
  <2> QED
    BY <1>2, <1>5, <2>1
<1>8. Drawing(w) = <<w>> \o s
  BY DEF Drawing, s
<1> QED
  BY <1>4, <1>6, <1>7, <1>8 DEF w, c, S

(* A pass draws the widgets of the desktop and nothing else; after a       *)
(* window it draws its fields and what belongs to windows in front of it,  *)
(* after a field the fields in front of it and what belongs to windows     *)
(* in front.                                                               *)
LEMMA DrawnBackToFront ==
  LET n == Len(Children[Root])
      D == DrawOrder
  IN  /\ D \in Seq(Window \cup Field)
      /\ \A q \in 1 .. Len(D) : \E i \in 1 .. n : Belongs(D[q], i)
      /\ \A i \in 1 .. n :
           \E q \in 1 .. Len(D) :
             /\ D[q] = Nth(i)
             /\ \A r \in q + 1 .. Len(D) :
                  \/ D[r] \in Range(Children[Nth(i)])
                  \/ \E j \in 1 .. i - 1 : Belongs(D[r], j)
      /\ \A i \in 1 .. n : \A f \in 1 .. Len(Children[Nth(i)]) :
           \E q \in 1 .. Len(D) :
             /\ D[q] = Children[Nth(i)][f]
             /\ \A r \in q + 1 .. Len(D) :
                  \/ \E g \in 1 .. f - 1 : D[r] = Children[Nth(i)][g]
                  \/ \E j \in 1 .. i - 1 : Belongs(D[r], j)
<1> DEFINE n == Len(Children[Root])
           S == Window \cup Field
           seqs == [i \in 1 .. n |-> Drawing(Nth(n - i + 1))]
           D == FlattenSeq(seqs)
           C(i) == Children[Nth(i)]
<1>1. n \in Nat /\ \A i \in 1 .. n : n - i + 1 \in 1 .. n
  BY NthFacts
<1>2. DrawOrder = D
  <2>1. DOMAIN Children[Root] = 1 .. n
    BY DesktopAssumption
  <2>2. \A i \in 1 .. n : Reverse(Children[Root])[i] = Nth(n - i + 1)
    BY DEF Reverse, Nth
  <2>3. [i \in DOMAIN Children[Root] |-> LET w == Reverse(Children[Root])[i]
                                       IN  <<w>> \o Reverse(Children[w])] = seqs
    BY <2>1, <2>2 DEF Drawing
  <2> QED
    BY <2>3 DEF DrawOrder
<1>3. seqs \in Seq(Seq(S)) /\ Len(seqs) = n
  <2>1. \A i \in 1 .. n : Drawing(Nth(n - i + 1)) \in Seq(S)
    BY <1>1, DrawingFacts
  <2> HIDE DEF n, S
  <2> QED
    BY <1>1, <2>1
<1>4. D \in Seq(S) /\ InOrder(D, seqs, n)
  <2> HIDE DEF n, S, seqs
  <2> QED
    BY <1>3, FlattenOrder
<1>5. ASSUME NEW m \in 1 .. n
      PROVE  LET i == n - m + 1
             IN  /\ i \in 1 .. n /\ Len(C(i)) \in Nat
                 /\ Len(seqs[m]) = 1 + Len(C(i))
                 /\ seqs[m][1] = Nth(i)
                 /\ \A k \in 2 .. Len(seqs[m]) :
                      /\ Len(C(i)) - k + 2 \in 1 .. Len(C(i))
                      /\ seqs[m][k] = C(i)[Len(C(i)) - k + 2]
  <2> DEFINE i == n - m + 1
             w == Nth(i)
  <2>1. i \in 1 .. n /\ Len(C(i)) \in Nat
    BY <1>1, NthFacts
  <2>2. seqs[m] = Drawing(w)
    OBVIOUS
  <2>3. /\ Len(Drawing(w)) = 1 + Len(Children[w])
        /\ Drawing(w)[1] = w
        /\ \A k \in 2 .. Len(Drawing(w)) :
             /\ Len(Children[w]) - k + 2 \in 1 .. Len(Children[w])
             /\ Drawing(w)[k] = Children[w][Len(Children[w]) - k + 2]
    BY <2>1, DrawingFacts
  <2> HIDE DEF seqs, i, n
  <2> QED
    BY <2>1, <2>2, <2>3 DEF i
<1> HIDE DEF D, S, seqs, n
<1>6. ASSUME NEW m \in 1 .. n, NEW k \in 2 .. Len(seqs[m])
      PROVE  seqs[m][k] \in Range(C(n - m + 1))
  <2> DEFINE i == n - m + 1
  <2>1. DOMAIN C(i) = 1 .. Len(C(i))
    BY <1>5, NthFacts DEF n
  <2> QED
    BY <1>5, <2>1 DEF Range
<1>7. ASSUME NEW m \in 1 .. n, NEW k \in 1 .. Len(seqs[m])
      PROVE  Belongs(seqs[m][k], n - m + 1)
  <2>1. CASE k = 1
    BY <1>5, <2>1 DEF Belongs
  <2>2. CASE k # 1
    <3>1. k \in 2 .. Len(seqs[m])
      BY <1>5, <2>2
    <3> QED
      BY <1>6, <3>1 DEF Belongs
  <2> QED
    BY <2>1, <2>2
<1>8. ASSUME NEW q \in 1 .. Len(D)
      PROVE  \E i \in 1 .. n : Belongs(D[q], i)
  <2>1. PICK m \in 1 .. n : \E k \in 1 .. Len(seqs[m]) : D[q] = seqs[m][k]
    BY <1>4 DEF InOrder
  <2> QED
    BY <1>1, <1>7, <2>1
<1>9. ASSUME NEW i \in 1 .. n, NEW k \in 1 .. 1 + Len(C(i))
      PROVE  \E q \in 1 .. Len(D) :
               /\ D[q] = seqs[n - i + 1][k]
               /\ \A r \in q + 1 .. Len(D) :
                    \/ \E l \in k + 1 .. 1 + Len(C(i)) : D[r] = seqs[n - i + 1][l]
                    \/ \E j \in 1 .. i - 1 : Belongs(D[r], j)
  <2> DEFINE m == n - i + 1
  <2>1. m \in 1 .. n /\ n - m + 1 = i
    BY <1>1
  <2>2. Len(seqs[m]) = 1 + Len(C(i))
    BY <1>5, <2>1
  <2> HIDE DEF m
  <2>3. PICK q \in 1 .. Len(D) :
          /\ D[q] = seqs[m][k]
          /\ \A r \in q + 1 .. Len(D) :
               \/ \E l \in k + 1 .. Len(seqs[m]) : D[r] = seqs[m][l]
               \/ \E o \in m + 1 .. n : \E l \in 1 .. Len(seqs[o]) : D[r] = seqs[o][l]
    <3>1. k \in 1 .. Len(seqs[m])
      BY <2>2
    <3> QED
      BY <1>4, <2>1, <3>1, Zenon DEF InOrder
  <2>4. ASSUME NEW o \in m + 1 .. n, NEW l \in 1 .. Len(seqs[o])
        PROVE  \E j \in 1 .. i - 1 : Belongs(seqs[o][l], j)
    <3>1. o \in 1 .. n /\ n - o + 1 \in 1 .. i - 1
      BY <1>1, <2>1
    <3> QED
      BY <1>7, <3>1
  <2>5. \A r \in q + 1 .. Len(D) :
          \/ \E l \in k + 1 .. 1 + Len(C(i)) : D[r] = seqs[m][l]
          \/ \E j \in 1 .. i - 1 : Belongs(D[r], j)
    BY <2>2, <2>3, <2>4
  <2> QED
    BY <2>3, <2>5 DEF m
<1>10. ASSUME NEW i \in 1 .. n
       PROVE  \E q \in 1 .. Len(D) :
                /\ D[q] = Nth(i)
                /\ \A r \in q + 1 .. Len(D) :
                     \/ D[r] \in Range(C(i))
                     \/ \E j \in 1 .. i - 1 : Belongs(D[r], j)
  <2> DEFINE m == n - i + 1
  <2>1. m \in 1 .. n /\ n - m + 1 = i
    BY <1>1
  <2>2. Len(seqs[m]) = 1 + Len(C(i)) /\ seqs[m][1] = Nth(i) /\ Len(C(i)) \in Nat
    BY <1>5, <2>1
  <2>3. 1 \in 1 .. 1 + Len(C(i)) /\ 1 + 1 = 2
    BY <2>2
  <2>4. PICK q \in 1 .. Len(D) :
          /\ D[q] = seqs[m][1]
          /\ \A r \in q + 1 .. Len(D) :
               \/ \E l \in 2 .. 1 + Len(C(i)) : D[r] = seqs[m][l]
               \/ \E j \in 1 .. i - 1 : Belongs(D[r], j)
    BY <1>9, <2>3
  <2>5. \A l \in 2 .. 1 + Len(C(i)) : seqs[m][l] \in Range(C(i))
    BY <1>6, <2>1, <2>2
  <2> HIDE DEF m
  <2> QED
    BY <2>2, <2>4, <2>5
<1>11. ASSUME NEW i \in 1 .. n, NEW f \in 1 .. Len(C(i))
       PROVE  \E q \in 1 .. Len(D) :
                /\ D[q] = C(i)[f]
                /\ \A r \in q + 1 .. Len(D) :
                     \/ \E g \in 1 .. f - 1 : D[r] = C(i)[g]
                     \/ \E j \in 1 .. i - 1 : Belongs(D[r], j)
  <2> DEFINE m == n - i + 1
             k == Len(C(i)) - f + 2
  <2>1. m \in 1 .. n /\ n - m + 1 = i
    BY <1>1
  <2>2. /\ Len(seqs[m]) = 1 + Len(C(i)) /\ Len(C(i)) \in Nat
        /\ \A l \in 2 .. 1 + Len(C(i)) :
             seqs[m][l] = C(i)[Len(C(i)) - l + 2]
    <3>1. /\ Len(seqs[m]) = 1 + Len(C(i)) /\ Len(C(i)) \in Nat
          /\ \A l \in 2 .. Len(seqs[m]) :
               seqs[m][l] = C(i)[Len(C(i)) - l + 2]
      <4> HIDE DEF m, C
      <4> QED
        BY <1>5, <2>1
    <3> HIDE DEF m, C
    <3> QED
      BY <3>1
  <2> HIDE DEF C
  <2>3. k \in 1 .. 1 + Len(C(i)) /\ k \in 2 .. 1 + Len(C(i))
        /\ Len(C(i)) - k + 2 = f
    BY <2>2
  <2>4. PICK q \in 1 .. Len(D) :
          /\ D[q] = seqs[m][k]
          /\ \A r \in q + 1 .. Len(D) :
               \/ \E l \in k + 1 .. 1 + Len(C(i)) : D[r] = seqs[m][l]
               \/ \E j \in 1 .. i - 1 : Belongs(D[r], j)
    <3> HIDE DEF k
    <3> QED
      BY <1>9, <2>3
  <2>5. ASSUME NEW l \in k + 1 .. 1 + Len(C(i))
        PROVE  \E g \in 1 .. f - 1 : seqs[m][l] = C(i)[g]
    <3>1. l \in 2 .. 1 + Len(C(i)) /\ Len(C(i)) - l + 2 \in 1 .. f - 1
      BY <2>2, <2>3
    <3> QED
      BY <2>2, <3>1
  <2>6. D[q] = C(i)[f]
    BY <2>2, <2>3, <2>4
  <2> HIDE DEF m, k
  <2> QED
    BY <2>4, <2>5, <2>6
<1> QED
  BY <1>2, <1>4, <1>8, <1>10, <1>11 DEF n, S
-----------------------------------------------------------------------------
(* Where widgets are drawn: windows at their place, the fields of a window *)
(* at theirs inside it.                                                    *)
LEMMA PlacesOnScreen ==
  ASSUME NEW u \in Widgets
  PROVE  /\ \A w \in Window : ModelToScreen(u, w) = u.at[w] /\ u.at[w] \in Point
         /\ \A w \in Window : \A f \in Range(Children[w]) :
              /\ f \in Field /\ f \notin Window /\ u.at[f] \in Point
              /\ ModelToScreen(u, f) = Plus(u.at[w], u.at[f])
<1>1. u.at \in [Window \cup Field -> Point]
  BY DEF Widgets
<1>2. ASSUME NEW w \in Window
      PROVE  ModelToScreen(u, w) = u.at[w] /\ u.at[w] \in Point
  BY <1>1 DEF ModelToScreen
<1>3. ASSUME NEW w \in Window, NEW f \in Range(Children[w])
      PROVE  /\ f \in Field /\ f \notin Window /\ u.at[f] \in Point
             /\ ModelToScreen(u, f) = Plus(u.at[w], u.at[f])
  <2>1. f \in Field /\ f \notin Window
    BY DesktopAssumption, PictureAssumption
  <2> DEFINE Has(c) == \E i \in DOMAIN Children[c] : Children[c][i] = f
  <2>2. Has(w)
    BY DEF Range
  <2>3. ASSUME NEW c \in {Root} \cup Window, Has(c)
        PROVE  c = w
    <3>1. f \in Range(Children[c])
      BY <2>3 DEF Range
    <3>2. c # Root
      BY <2>1, <3>1, DesktopAssumption
    <3>3. Range(Children[c]) \cap Range(Children[w]) # {}
      BY <3>1
    <3> QED
      BY <3>2, <3>3, PictureAssumption
  <2> HIDE DEF Has
  <2>4. (CHOOSE c \in {Root} \cup Window : Has(c)) = w
    BY <2>2, <2>3
  <2>5. ParentOf(f) = w
    BY <2>4 DEF ParentOf, Has
  <2> QED
    BY <1>1, <2>1, <2>5 DEF ModelToScreen
<1> QED
  BY <1>2, <1>3

LEMMA Extents ==
  \A k \in Window \cup Field : \A i \in 1 .. 2 :
    /\ Extent[k][i] \in Nat \ {0} /\ Extent[Root][i] \in Nat
    /\ Extent[Root][i] + Extent[k][i] <= Word /\ Word \in Nat
<1>1. \A k \in {Root} \cup Window \cup Field :
        Extent[k] \in (Nat \ {0}) \X (Nat \ {0})
  BY DesktopAssumption
<1>2. \A e \in (Nat \ {0}) \X (Nat \ {0}) : \A i \in 1 .. 2 : e[i] \in Nat \ {0}
  OBVIOUS
<1> QED
  BY <1>1, <1>2, PictureAssumption, ScreenAssumption

(* Pixels that are filled lie in the rectangle; those of a rectangle that  *)
(* begins on the screen are filled.                                        *)
LEMMA FilledFacts ==
  ASSUME NEW start \in Int, NEW length \in Nat \ {0}, NEW edge \in Nat,
         edge + length <= Word, NEW n \in 0 .. edge - 1
  PROVE  /\ n \in Filled(start, length) => start <= n /\ n < start + length
         /\ 0 <= start /\ start <= n /\ n < start + length
              => n \in Filled(start, length)
<1>1. n \in Filled(start, length) => start <= n /\ n < start + length
  BY DEF Filled
<1>2. ASSUME 0 <= start, start <= n, n < start + length
      PROVE  n \in Filled(start, length)
  <2>1. \A m, w \in Nat : m < w => m % w = m
    BY SMT
  <2>2. Word \in Nat /\ start + length \in Nat /\ start + length < Word
    BY <1>2, ScreenAssumption
  <2>3. ASSUME NEW m \in start .. n
        PROVE  Unsigned(m) < Unsigned(start + length)
    <3>1. m \in Nat /\ m < start + length /\ m < Word
      BY <1>2, <2>2
    <3>2. m % Word = m /\ (start + length) % Word = start + length
      BY <2>1, <2>2, <3>1
    <3> QED
      BY <3>1, <3>2 DEF Unsigned
  <2>4. n \in start .. start + length - 1
    BY <1>2
  <2> QED
    BY <2>3, <2>4 DEF Filled
<1> QED
  BY <1>1, <1>2

LEMMA CoversFacts ==
  ASSUME NEW d, d.widget \in Window \cup Field, d.place \in Point,
         NEW p \in Columns \X Rows
  PROVE  /\ Covers(d, p) => ContainsCoordinate(d.place, Extent[d.widget], p)
         /\ /\ ContainsCoordinate(d.place, Extent[d.widget], p)
            /\ \A i \in 1 .. 2 : d.place[i] >= 0
            => Covers(d, p)
<1> DEFINE k == d.widget
<1>1. ASSUME NEW i \in 1 .. 2
      PROVE  /\ p[i] \in Filled(d.place[i], Extent[k][i])
                  => d.place[i] <= p[i] /\ p[i] < d.place[i] + Extent[k][i]
             /\ /\ d.place[i] >= 0
                /\ d.place[i] <= p[i] /\ p[i] < d.place[i] + Extent[k][i]
                => p[i] \in Filled(d.place[i], Extent[k][i])
  <2>1. /\ Extent[k][i] \in Nat \ {0} /\ Extent[Root][i] \in Nat
        /\ Extent[Root][i] + Extent[k][i] <= Word
    BY Extents
  <2>2. d.place[i] \in Int /\ p[i] \in 0 .. Extent[Root][i] - 1
    BY DEF Point, Columns, Rows
  <2>3. d.place[i] >= 0 <=> 0 <= d.place[i]
    BY <2>2
  <2> QED
    BY <2>1, <2>2, <2>3, FilledFacts
<1> QED
  BY <1>1 DEF Covers, ContainsCoordinate

(* A point of a field, in the coordinates of its window, is a point of the *)
(* rectangle it is drawn as, and one of its window.                        *)
LEMMA FieldsInside ==
  ASSUME NEW u \in Widgets, NEW w \in Window, NEW f \in Range(Children[w]),
         u.at[f] = Place[f], NEW p \in Int \X Int
  PROVE  LET held == ContainsCoordinate(ModelToScreen(u, f), Extent[f], p)
         IN  /\ held <=> ContainsCoordinate(u.at[f], Extent[f], Minus(p, u.at[w]))
             /\ held => ContainsCoordinate(u.at[w], Extent[w], p)
<1>1. /\ f \in Field /\ u.at[w] \in Point /\ u.at[f] \in Point
      /\ ModelToScreen(u, f) = Plus(u.at[w], u.at[f])
  BY PlacesOnScreen
<1>2. \A a, b \in Point : \A i \in 1 .. 2 :
        Plus(a, b)[i] = a[i] + b[i] /\ Minus(a, b)[i] = a[i] - b[i]
  BY DEF Plus, Minus
<1>3. ASSUME NEW i \in 1 .. 2
      PROVE  LET left == Plus(u.at[w], u.at[f])[i]
                 in == left <= p[i] /\ p[i] < left + Extent[f][i]
             IN  /\ in <=> /\ u.at[f][i] <= Minus(p, u.at[w])[i]
                          /\ Minus(p, u.at[w])[i] < u.at[f][i] + Extent[f][i]
                 /\ in => u.at[w][i] <= p[i] /\ p[i] < u.at[w][i] + Extent[w][i]
  <2>1. u.at[w][i] \in Int /\ u.at[f][i] \in Int /\ p[i] \in Int
    BY <1>1 DEF Point
  <2>2. Extent[f][i] \in Nat /\ Extent[w][i] \in Nat
    BY <1>1, Extents
  <2>3. 0 <= u.at[f][i] /\ u.at[f][i] + Extent[f][i] <= Extent[w][i]
    BY PictureAssumption
  <2>4. /\ Plus(u.at[w], u.at[f])[i] = u.at[w][i] + u.at[f][i]
        /\ Minus(p, u.at[w])[i] = p[i] - u.at[w][i]
    BY <1>1, <1>2 DEF Point
  <2>5. \A a, b, x, e, g \in Int :
          /\ a + b <= x /\ x < a + b + e <=> b <= x - a /\ x - a < b + e
          /\ 0 <= b /\ b + e <= g /\ a + b <= x /\ x < a + b + e => a <= x /\ x < a + g
    OBVIOUS
  <2> QED
    BY <2>1, <2>2, <2>3, <2>4, <2>5
<1> QED
  BY <1>1, <1>3 DEF ContainsCoordinate

(* What is seen is what was painted last.                                  *)
LEMMA SeenLast ==
  ASSUME Len(drawn) \in Nat, NEW p
  PROVE  /\ (\A q \in 1 .. Len(drawn) : ~Covers(drawn[q], p))
              => Seen(p) = Shows(vga, GetColorIndex(Paint[Root]))
         /\ \A q \in 1 .. Len(drawn) :
              /\ Covers(drawn[q], p)
              /\ \A r \in q + 1 .. Len(drawn) : ~Covers(drawn[r], p)
              => Seen(p) = Shows(vga, GetColorIndex(Paint[drawn[q].widget]))
<1> DEFINE n == Len(drawn)
           Hit(q) == Covers(drawn[q], p)
           I == {q \in 1 .. n : Hit(q)}
           last == IF I # {} THEN Max(I) ELSE 0
           k == IF last = 0 THEN Root ELSE drawn[last].widget
<1>1. Seen(p) = Shows(vga, GetColorIndex(Paint[k]))
  BY DEF Seen, SelectLastInSeq
<1> HIDE DEF Hit, n
<1>2. ASSUME \A q \in 1 .. n : ~Hit(q)
      PROVE  k = Root
  BY <1>2
<1>3. ASSUME NEW q \in 1 .. n, Hit(q), \A r \in q + 1 .. n : ~Hit(r)
      PROVE  k = drawn[q].widget
  <2>1. n \in Nat
    BY DEF n
  <2>2. q \in I /\ q # 0 /\ q \in Nat
    BY <1>3, <2>1
  <2>3. \A r \in I : r <= q /\ r \in Nat
    BY <1>3, <2>1
  <2> HIDE DEF I
  <2>4. Max(I) = q
    <3>1. \A r \in I : q >= r
      BY <2>2, <2>3
    <3>2. \A x \in I : (\A r \in I : x >= r) => x = q
      BY <2>2, <2>3
    <3> QED
      BY <2>2, <3>1, <3>2 DEF Max
  <2> QED
    BY <2>2, <2>4
<1> HIDE DEF k
<1> QED
  BY <1>1, <1>2, <1>3 DEF n, Hit

(* The palette holds each colour of the table at its index.                *)
LEMMA Colours ==
  ASSUME ModeIsSet, mode.at = "set", NEW k \in {Root} \cup Window \cup Field
  PROVE  Shows(vga, GetColorIndex(Paint[k])) = Paint[k]
<1>1. \A i \in 0 .. 15 : vga.reg["attribute"][i] = i
  <2>1. /\ "attribute" \in Group /\ \A i \in 0 .. 15 : i \in Index("attribute")
    BY Groups
  <2>2. \A i \in 0 .. 15 : vga.reg["attribute"][i] = ValueOf("attribute", i)
    BY <2>1 DEF ModeIsSet
  <2>3. \A i \in 0 .. 15 : Table["attribute"][i + 1] = i
    BY DEF Table
  <2> QED
    BY <2>2, <2>3 DEF ValueOf
<1>2. GetColorIndex(Paint[k]) \in {0, 1, 2, 4, 63}
  BY DEF GetColorIndex
<1>3. ASSUME NEW byte \in {0, 1, 2, 4, 63}
      PROVE  Shows(vga, byte) = Colour(byte)
  <2>1. /\ byte \in Nat /\ byte % 16 \in 0 .. 15 /\ (byte % 16) % 16 = byte % 16
        /\ (byte \div 16) * 16 + (byte % 16) = byte
    BY SMT
  <2>2. vga.reg["attribute"][byte % 16] = byte % 16
    BY <1>1, <2>1
  <2> QED
    BY <2>1, <2>2 DEF Shows
<1> QED
  BY <1>2, <1>3, PictureAssumption
-----------------------------------------------------------------------------
FieldsStay == \A f \in Field : ui.at[f] = Place[f]

(* A pass so far: the first widgets of the order, where they are as long   *)
(* as nothing has moved.                                                   *)
Painted ==
  /\ drawn \in Seq([widget : Window \cup Field, place : Point])
  /\ Len(drawn) <= Len(DrawOrder)
  /\ \A q \in 1 .. Len(drawn) :
       /\ drawn[q].widget = DrawOrder[q]
       /\ still => drawn[q].place = ModelToScreen(ui, DrawOrder[q])

(* The coordinate read of the next widget.                                 *)
HalfRead ==
  across # << >> =>
    /\ ~Done
    /\ across[1] \in Int
    /\ still => across[1] = ModelToScreen(ui, NextDrawn)[1]

(* What covers a pixel, of all that is drawn when nothing has moved.       *)
LEMMA CoveredPixels ==
  ASSUME Typed, FieldsStay, Painted, Done, still, NEW p \in Columns \X Rows
  PROVE  LET Within(w) == ContainsCoordinate(ui.at[w], Extent[w], p)
             Holds(w, f) == ContainsCoordinate(ui.at[f], Extent[f], Minus(p, ui.at[w]))
         IN  \A q \in 1 .. Len(drawn), j \in 1 .. Len(Children[Root]) :
               /\ Belongs(DrawOrder[q], j) /\ Covers(drawn[q], p) => Within(Nth(j))
               /\ DrawOrder[q] \in Range(Children[Nth(j)]) /\ Covers(drawn[q], p)
                    => Holds(Nth(j), DrawOrder[q])
               /\ /\ \/ DrawOrder[q] = Nth(j) /\ Within(Nth(j))
                     \/ /\ DrawOrder[q] \in Range(Children[Nth(j)])
                        /\ Holds(Nth(j), DrawOrder[q])
                  /\ Paintable(DrawOrder[q])
                  => Covers(drawn[q], p)
<1> SUFFICES ASSUME NEW q \in 1 .. Len(drawn), NEW j \in 1 .. Len(Children[Root])
    PROVE  LET Within(w) == ContainsCoordinate(ui.at[w], Extent[w], p)
               Holds(w, f) == ContainsCoordinate(ui.at[f], Extent[f], Minus(p, ui.at[w]))
           IN  /\ Belongs(DrawOrder[q], j) /\ Covers(drawn[q], p) => Within(Nth(j))
               /\ DrawOrder[q] \in Range(Children[Nth(j)]) /\ Covers(drawn[q], p)
                    => Holds(Nth(j), DrawOrder[q])
               /\ /\ \/ DrawOrder[q] = Nth(j) /\ Within(Nth(j))
                     \/ /\ DrawOrder[q] \in Range(Children[Nth(j)])
                        /\ Holds(Nth(j), DrawOrder[q])
                  /\ Paintable(DrawOrder[q])
                  => Covers(drawn[q], p)
  BY Zenon
<1> DEFINE k == DrawOrder[q]
           w == Nth(j)
           Hit == ContainsCoordinate(ModelToScreen(ui, k), Extent[k], p)
<1>1. /\ drawn[q].widget = k /\ drawn[q].place = ModelToScreen(ui, k)
      /\ drawn[q].widget \in Window \cup Field /\ drawn[q].place \in Point
  <2>1. drawn[q] \in [widget : Window \cup Field, place : Point]
    <3>1. drawn \in Seq([widget : Window \cup Field, place : Point])
      BY DEF Painted
    <3> QED
      BY <3>1, ElementOfSeq
  <2> QED
    BY <2>1 DEF Painted
<1>2. w \in Window /\ p \in Int \X Int
  BY NthFacts, Constants DEF Columns, Rows
<1>3. Covers(drawn[q], p) => Hit
  BY <1>1, CoversFacts
<1>4. Hit /\ Paintable(k) => Covers(drawn[q], p)
  <2>1. k # Root
    BY <1>1, DesktopAssumption, PictureAssumption
  <2>2. Paintable(k) => \A i \in 1 .. 2 : ModelToScreen(ui, k)[i] >= 0
    BY <2>1 DEF Paintable
  <2> QED
    BY <1>1, <2>2, CoversFacts
<1>5. k = w => (Hit <=> ContainsCoordinate(ui.at[w], Extent[w], p))
  BY <1>2, PlacesOnScreen DEF Typed
<1>6. k \in Range(Children[w]) =>
        /\ Hit <=> ContainsCoordinate(ui.at[k], Extent[k], Minus(p, ui.at[w]))
        /\ Hit => ContainsCoordinate(ui.at[w], Extent[w], p)
  <2> SUFFICES ASSUME k \in Range(Children[w])
      PROVE  /\ Hit <=> ContainsCoordinate(ui.at[k], Extent[k], Minus(p, ui.at[w]))
             /\ Hit => ContainsCoordinate(ui.at[w], Extent[w], p)
    OBVIOUS
  <2>1. k \in Field
    BY <1>2, DesktopAssumption
  <2>2. ui.at[k] = Place[k] /\ ui \in Widgets
    BY <2>1 DEF FieldsStay, Typed
  <2> HIDE DEF k, w
  <2> QED
    BY <1>2, <2>2, FieldsInside
<1> HIDE DEF Hit
<1> QED
  BY <1>3, <1>4, <1>5, <1>6 DEF Belongs

(* Search and picture agree on a pixel.                                    *)
LEMMA PixelAgrees ==
  ASSUME Typed, FieldsStay, Painted, Done, still, ModeIsSet, mode.at = "set",
         NEW p \in Columns \X Rows, Paintable(Reached(p))
  PROVE  Seen(p) = Paint[Reached(p)]
<1> DEFINE n == Len(Children[Root])
           D == DrawOrder
           C(i) == Children[Nth(i)]
           Within(w) == ContainsCoordinate(ui.at[w], Extent[w], p)
           Holds(w, f) == ContainsCoordinate(ui.at[f], Extent[f], Minus(p, ui.at[w]))
           SeenAs(q) == Seen(p) = Shows(vga, GetColorIndex(Paint[drawn[q].widget]))
<1>1. Len(drawn) = Len(D) /\ Len(drawn) \in Nat
      /\ \A q \in 1 .. Len(drawn) : drawn[q].widget = D[q]
  BY DEF Painted, Done
<1>2. /\ D \in Seq(Window \cup Field)
      /\ \A q \in 1 .. Len(D) : \E i \in 1 .. n : Belongs(D[q], i)
      /\ \A i \in 1 .. n :
           \E q \in 1 .. Len(D) :
             /\ D[q] = Nth(i)
             /\ \A r \in q + 1 .. Len(D) :
                  \/ D[r] \in Range(Children[Nth(i)])
                  \/ \E j \in 1 .. i - 1 : Belongs(D[r], j)
      /\ \A i \in 1 .. n : \A f \in 1 .. Len(Children[Nth(i)]) :
           \E q \in 1 .. Len(D) :
             /\ D[q] = Children[Nth(i)][f]
             /\ \A r \in q + 1 .. Len(D) :
                  \/ \E g \in 1 .. f - 1 : D[r] = Children[Nth(i)][g]
                  \/ \E j \in 1 .. i - 1 : Belongs(D[r], j)
  BY DrawnBackToFront
<1>3. \A q \in 1 .. Len(drawn), j \in 1 .. n :
        /\ Belongs(D[q], j) /\ Covers(drawn[q], p) => Within(Nth(j))
        /\ D[q] \in Range(C(j)) /\ Covers(drawn[q], p) => Holds(Nth(j), D[q])
        /\ /\ \/ D[q] = Nth(j) /\ Within(Nth(j))
              \/ D[q] \in Range(C(j)) /\ Holds(Nth(j), D[q])
           /\ Paintable(D[q])
           => Covers(drawn[q], p)
  BY CoveredPixels
<1>4. /\ (\A q \in 1 .. Len(drawn) : ~Covers(drawn[q], p))
           => Seen(p) = Shows(vga, GetColorIndex(Paint[Root]))
      /\ \A q \in 1 .. Len(drawn) :
           /\ Covers(drawn[q], p)
           /\ \A r \in q + 1 .. Len(drawn) : ~Covers(drawn[r], p)
           => SeenAs(q)
  BY <1>1, SeenLast
<1>5. \/ /\ ChildAt(ui, Root, p) = Nobody
         /\ \A i \in 1 .. n : ~Within(Nth(i))
      \/ \E i \in 1 .. n :
           /\ ChildAt(ui, Root, p) = Nth(i) /\ Within(Nth(i))
           /\ \A j \in 1 .. i - 1 : ~Within(Nth(j))
  BY FirstFound DEF Nth
<1>6. n \in Nat /\ \A i \in 1 .. n : \A j \in 1 .. i - 1 : j \in 1 .. n
  BY NthFacts
<1> HIDE DEF D, Contains, Holds, n
<1>7. CASE /\ ChildAt(ui, Root, p) = Nobody
           /\ \A i \in 1 .. n : ~Within(Nth(i))
  <2>1. Reached(p) = Root
    BY <1>7 DEF Reached
  <2>2. \A q \in 1 .. Len(drawn) : ~Covers(drawn[q], p)
    BY <1>1, <1>2, <1>3, <1>7
  <2>3. Root \in {Root} \cup Window \cup Field
    OBVIOUS
  <2> QED
    BY <1>4, <2>1, <2>2, <2>3, Colours
<1>8. ASSUME NEW i \in 1 .. n,
             ChildAt(ui, Root, p) = Nth(i), Within(Nth(i)),
             \A j \in 1 .. i - 1 : ~Within(Nth(j))
      PROVE  Seen(p) = Paint[Reached(p)]
  <2> DEFINE w == Nth(i)
  <2>1. w \in Window /\ w # Nobody /\ DOMAIN C(i) = 1 .. Len(C(i)) /\ Len(C(i)) \in Nat
    BY NthFacts, DesktopAssumption DEF n
  <2>2. Reached(p) = IF FieldAt(ui, w, p) = Nobody THEN w ELSE FieldAt(ui, w, p)
    BY <1>8, <2>1 DEF Reached
  <2>3. \/ /\ FieldAt(ui, w, p) = Nobody
           /\ \A f \in 1 .. Len(C(i)) : ~Holds(w, C(i)[f])
        \/ \E f \in 1 .. Len(C(i)) :
             /\ FieldAt(ui, w, p) = C(i)[f] /\ Holds(w, C(i)[f])
             /\ \A g \in 1 .. f - 1 : ~Holds(w, C(i)[g])
    BY <2>1, FirstFound DEF FieldAt, Holds
  <2>4. ASSUME NEW r \in 1 .. Len(drawn), NEW j \in 1 .. i - 1, Belongs(D[r], j)
        PROVE  ~Covers(drawn[r], p)
    BY <1>3, <1>6, <1>8, <2>4
  <2>5. CASE /\ FieldAt(ui, w, p) = Nobody
             /\ \A f \in 1 .. Len(C(i)) : ~Holds(w, C(i)[f])
    <3>1. PICK q \in 1 .. Len(D) :
            /\ D[q] = w
            /\ \A r \in q + 1 .. Len(D) :
                 D[r] \in Range(C(i)) \/ \E j \in 1 .. i - 1 : Belongs(D[r], j)
      BY <1>2
    <3>2. Reached(p) = w
      BY <2>2, <2>5
    <3>3. q \in 1 .. Len(drawn) /\ Covers(drawn[q], p)
      BY <1>1, <1>3, <1>8, <3>1, <3>2
    <3>4. ASSUME NEW r \in q + 1 .. Len(drawn)
          PROVE  ~Covers(drawn[r], p)
      <4>1. r \in 1 .. Len(drawn) /\ r \in q + 1 .. Len(D)
        BY <1>1, <3>1
      <4>2. CASE D[r] \in Range(C(i))
        <5>1. PICK f \in 1 .. Len(C(i)) : D[r] = C(i)[f]
          BY <2>1, <4>2 DEF Range
        <5> QED
          BY <1>3, <2>5, <4>1, <4>2, <5>1
      <4> QED
        BY <2>4, <3>1, <4>1, <4>2
    <3>5. SeenAs(q)
      BY <1>4, <3>3, <3>4
    <3> QED
      BY <1>1, <2>1, <3>1, <3>2, <3>3, <3>5, Colours
  <2>6. ASSUME NEW f \in 1 .. Len(C(i)),
               FieldAt(ui, w, p) = C(i)[f], Holds(w, C(i)[f]),
               \A g \in 1 .. f - 1 : ~Holds(w, C(i)[g])
        PROVE  Seen(p) = Paint[Reached(p)]
    <3>1. PICK q \in 1 .. Len(D) :
            /\ D[q] = C(i)[f]
            /\ \A r \in q + 1 .. Len(D) :
                 \/ \E g \in 1 .. f - 1 : D[r] = C(i)[g]
                 \/ \E j \in 1 .. i - 1 : Belongs(D[r], j)
      BY <1>2
    <3>2. C(i)[f] \in Range(C(i)) /\ C(i)[f] \in Field
      BY <2>1, NthFacts DEF Range, n
    <3>3. Reached(p) = C(i)[f]
      BY <2>2, <2>6, <3>2, DesktopAssumption
    <3>4. q \in 1 .. Len(drawn) /\ Covers(drawn[q], p)
      BY <1>1, <1>3, <2>6, <3>1, <3>2, <3>3
    <3>5. ASSUME NEW r \in q + 1 .. Len(drawn)
          PROVE  ~Covers(drawn[r], p)
      <4>1. r \in 1 .. Len(drawn) /\ r \in q + 1 .. Len(D)
        BY <1>1, <3>1
      <4>2. ASSUME NEW g \in 1 .. f - 1, D[r] = C(i)[g]
            PROVE  ~Covers(drawn[r], p)
        <5>1. g \in 1 .. Len(C(i))
          BY <2>1
        <5>2. D[r] \in Range(C(i))
          BY <2>1, <4>2, <5>1 DEF Range
        <5> QED
          BY <1>3, <2>6, <4>1, <4>2, <5>2
      <4> QED
        BY <2>4, <3>1, <4>1, <4>2
    <3>6. SeenAs(q)
      BY <1>4, <3>4, <3>5
    <3> QED
      BY <1>1, <3>1, <3>2, <3>3, <3>4, <3>6, Colours
  <2> QED
    BY <2>3, <2>5, <2>6
<1> QED
  BY <1>5, <1>7, <1>8
-----------------------------------------------------------------------------
Picture ==
  /\ Typed /\ KeysReachLastPressed /\ FieldsStay
  /\ Painted /\ HalfRead /\ still \in BOOLEAN

(* Where the next widget is, as long as there is one.                      *)
LEMMA NextPlace ==
  ASSUME Typed, Painted, ~Done
  PROVE  /\ Len(drawn) + 1 \in 1 .. Len(DrawOrder)
         /\ NextDrawn \in Window \cup Field
         /\ ModelToScreen(ui, NextDrawn) \in Point
<1> DEFINE n == Len(drawn)
           k == NextDrawn
<1>1. DrawOrder \in Seq(Window \cup Field) /\ Len(DrawOrder) \in Nat
  BY DrawnBackToFront
<1>2. n \in Nat /\ n <= Len(DrawOrder) /\ n # Len(DrawOrder)
  BY DEF Painted, Done
<1>3. n + 1 \in 1 .. Len(DrawOrder)
  BY <1>1, <1>2
<1>4. PICK j \in 1 .. Len(Children[Root]) : Belongs(k, j)
  BY <1>3, DrawnBackToFront DEF NextDrawn
<1>5. Nth(j) \in Window /\ ui \in Widgets
  BY NthFacts DEF Typed
<1> HIDE DEF k
<1>6. CASE k = Nth(j)
  BY <1>3, <1>5, <1>6, PlacesOnScreen DEF k
<1>7. CASE k \in Range(Children[Nth(j)])
  <2>1. /\ k \in Field /\ ui.at[k] \in Point /\ ui.at[Nth(j)] \in Point
        /\ ModelToScreen(ui, k) = Plus(ui.at[Nth(j)], ui.at[k])
    BY <1>5, <1>7, PlacesOnScreen
  <2> QED
    BY <1>3, <2>1, Arithmetic DEF k
<1> QED
  BY <1>4, <1>6, <1>7 DEF Belongs

LEMMA PictureBegins == ScreenInit => Picture
<1> SUFFICES ASSUME ScreenInit PROVE Picture
  OBVIOUS
<1>1. Typed /\ KeysReachLastPressed
  BY InitHolds DEF ScreenInit
<1>2. FieldsStay
  BY DEF ScreenInit, Init, FieldsStay
<1>3. drawn = << >> /\ still = TRUE /\ across = << >>
  BY DEF ScreenInit
<1>4. DrawOrder \in Seq(Window \cup Field)
  BY DrawnBackToFront
<1>5. Painted
  <2>1. << >> \in Seq([widget : Window \cup Field, place : Point])
    OBVIOUS
  <2>2. Len(<< >>) = 0 /\ Len(DrawOrder) \in Nat /\ 1 .. 0 = {}
    BY <1>4
  <2> QED
    BY <1>3, <2>1, <2>2 DEF Painted
<1> QED
  BY <1>1, <1>2, <1>3, <1>5 DEF Picture, HalfRead

LEMMA PictureStays == Picture /\ [ScreenNext]_screenVars => Picture'
<1> SUFFICES ASSUME Picture, [ScreenNext]_screenVars PROVE Picture'
  OBVIOUS
<1> DEFINE Painting == [widget : Window \cup Field, place : Point]
<1>1. /\ Typed /\ KeysReachLastPressed /\ FieldsStay
      /\ Painted /\ HalfRead /\ still \in BOOLEAN
      /\ drawn \in Seq(Painting) /\ Len(drawn) \in Nat /\ Len(drawn) <= Len(DrawOrder)
  BY DEF Picture, Painted
<1>2. DrawOrder \in Seq(Window \cup Field) /\ Len(DrawOrder) \in Nat
  BY DrawnBackToFront
<1>3. ASSUME UNCHANGED vars
      PROVE  Typed' /\ KeysReachLastPressed' /\ FieldsStay'
  BY <1>1, <1>3 DEF vars, Typed, KeysReachLastPressed, OnKeyDown, FieldsStay
<1>4. CASE UNCHANGED <<vars, drawn, across, still>>
  <2>1. ui' = ui /\ drawn' = drawn /\ across' = across /\ still' = still
    BY <1>4 DEF vars
  <2>2. Painted' /\ HalfRead'
    BY <1>1, <2>1 DEF Painted, HalfRead, NextDrawn, Done
  <2> QED
    BY <1>1, <1>3, <1>4, <2>1, <2>2 DEF Picture
<1>5. CASE DrawBackground
  <2>1. /\ drawn' = << >> /\ still' = TRUE /\ across' = across
        /\ UNCHANGED vars /\ Done
    BY <1>5 DEF DrawBackground
  <2>2. << >> \in Seq(Painting) /\ Len(<< >>) = 0 /\ 1 .. 0 = {}
    OBVIOUS
  <2>3. Painted'
    BY <1>2, <2>1, <2>2 DEF Painted
  <2>4. HalfRead'
    BY <1>1, <2>1 DEF HalfRead
  <2> QED
    BY <1>3, <2>1, <2>3, <2>4 DEF Picture
<1>6. CASE ReadAcross
  <2>1. /\ ~Done /\ across' = <<ModelToScreen(ui, NextDrawn)[1]>>
        /\ UNCHANGED vars /\ drawn' = drawn /\ still' = still
    BY <1>6 DEF ReadAcross
  <2>2. ui' = ui
    BY <2>1 DEF vars
  <2>3. ModelToScreen(ui, NextDrawn)[1] \in Int
    BY <1>1, <2>1, NextPlace DEF Point
  <2>4. NextDrawn' = NextDrawn
    BY <2>1 DEF NextDrawn
  <2>5. Painted'
    BY <1>1, <2>1, <2>2 DEF Painted
  <2>6. across'[1] = ModelToScreen(ui, NextDrawn)[1]
    BY <2>1
  <2>7. HalfRead'
    BY <2>1, <2>2, <2>3, <2>4, <2>6 DEF HalfRead, Done
  <2> QED
    BY <1>1, <1>3, <2>1, <2>5, <2>7 DEF Picture
<1>7. CASE DrawWidget
  <2> DEFINE n == Len(drawn)
             k == NextDrawn
             place == <<across[1], ModelToScreen(ui, k)[2]>>
             new == [widget |-> k, place |-> place]
  <2>1. /\ drawn' = Append(drawn, new) /\ across' = << >>
        /\ UNCHANGED vars /\ still' = still /\ ~Done /\ across # << >>
    BY <1>7 DEF DrawWidget
  <2>2. /\ n + 1 \in 1 .. Len(DrawOrder)
        /\ k \in Window \cup Field /\ ModelToScreen(ui, k) \in Point
    BY <1>1, <2>1, NextPlace
  <2>3. across[1] \in Int /\ (still => across[1] = ModelToScreen(ui, k)[1])
    BY <1>1, <2>1 DEF HalfRead
  <2>4. k = DrawOrder[n + 1]
    BY DEF NextDrawn
  <2> HIDE DEF k
  <2>5. place \in Point /\ (still => place = ModelToScreen(ui, k))
    BY <2>2, <2>3 DEF Point
  <2> HIDE DEF place
  <2>6. new \in Painting /\ new.widget = k /\ new.place = place
    BY <2>2, <2>5
  <2> HIDE DEF new
  <2>7. /\ drawn' \in Seq(Painting) /\ Len(drawn') = n + 1
        /\ \A q \in 1 .. n : drawn'[q] = drawn[q]
        /\ drawn'[n + 1] = new
    BY <1>1, <2>1, <2>6, AppendProperties
  <2>8. ASSUME NEW q \in 1 .. n + 1
        PROVE  /\ drawn'[q].widget = DrawOrder[q]
               /\ still => drawn'[q].place = ModelToScreen(ui, DrawOrder[q])
    <3>1. CASE q = n + 1
      BY <2>4, <2>5, <2>6, <2>7, <3>1
    <3>2. CASE q # n + 1
      <4>1. q \in 1 .. n
        BY <1>1, <3>2
      <4> QED
        BY <1>1, <2>7, <4>1 DEF Painted
    <3> QED
      BY <3>1, <3>2
  <2>9. n + 1 <= Len(DrawOrder)
    BY <1>1, <1>2, <2>2
  <2>10. ui' = ui
    BY <2>1 DEF vars
  <2>11. Painted'
    <3> HIDE DEF n
    <3> QED
      BY <2>1, <2>7, <2>8, <2>9, <2>10 DEF Painted
  <2>12. HalfRead'
    BY <2>1 DEF HalfRead
  <2> QED
    BY <1>1, <1>3, <2>1, <2>11, <2>12 DEF Picture
<1>8. CASE Interrupt
  <2>1. /\ Next /\ still' = (still /\ ui' = ui)
        /\ drawn' = drawn /\ across' = across
    BY <1>8 DEF Interrupt
  <2>2. /\ Typed' /\ KeysReachLastPressed'
        /\ \A f \in Field \ Window : ui'.at[f] = ui.at[f]
    BY <1>1, <2>1, StepPreserves DEF IInv
  <2>3. FieldsStay'
    BY <1>1, <2>2, PictureAssumption DEF FieldsStay
  <2>4. Painted'
    BY <1>1, <2>1 DEF Painted
  <2>5. HalfRead'
    BY <1>1, <2>1 DEF HalfRead, NextDrawn, Done
  <2> QED
    BY <2>1, <2>2, <2>3, <2>4, <2>5 DEF Picture
<1> QED
  BY <1>4, <1>5, <1>6, <1>7, <1>8 DEF ScreenNext, Prepare, Draw, screenVars

(* Setting the mode and drawing never change the widgets: the graphical    *)
(* kernelMain behaves, to the mouse, as the desktop alone, and all that is *)
(* proved of Desktop holds while the screen is drawn.                      *)
THEOREM DrawingIsUnseen == ScreenSpec => Spec
<1>1. ScreenInit => Init
  BY DEF ScreenInit
<1>2. [ScreenNext]_screenVars => [Next]_vars
  BY DEF ScreenNext, Prepare, Draw, DrawBackground, ReadAcross, DrawWidget,
         Interrupt, screenVars
<1> QED
  BY <1>1, <1>2, PTL DEF ScreenSpec, Spec

(* Every finished pass during which nothing moved shows, at a pixel of the *)
(* screen, the colour of what a press of a button would reach there, for   *)
(* any number of windows and fields however they overlap: at every pixel   *)
(* but those whose reached widget begins left of or above the screen, for  *)
(* FillRectangle paints nothing of such a one, and before the cross of the *)
(* pointer is drawn over it.                                               *)
THEOREM PictureIsReached == ScreenSpec => []SeenIsReached
<1>1. ScreenInit => Picture
  BY PictureBegins
<1>2. Picture /\ [ScreenNext]_screenVars => Picture'
  BY PictureStays
<1>3. Picture /\ ModeIsSet => SeenIsReached
  BY PixelAgrees DEF Picture, SeenIsReached, PictureAgrees
<1>4. ScreenSpec => []ModeIsSet
  BY ModeReached
<1> QED
  BY <1>1, <1>2, <1>3, <1>4, PTL DEF ScreenSpec
=============================================================================

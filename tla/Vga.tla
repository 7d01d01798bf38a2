-------------------------------- MODULE Vga --------------------------------
(***************************************************************************)
(* VideoGraphicsArray: SetMode writes some sixty registers behind index    *)
(* and data ports, a turn of one of its loops at a time, into a chip of    *)
(* which nothing is known: whether its timing registers are protected,     *)
(* whether the one port of the attribute controller expects an index or a  *)
(* value, whether the picture is on.  Then PutPixel.                       *)
(*                                                                         *)
(* A definition introduced as a fault is the next definition with a slip   *)
(* in it: the checks of the project must notice when it takes its place.   *)
(***************************************************************************)
EXTENDS Integers, Sequences

CONSTANT
  Left        \* the states the boot loader may have left the chip in

VARIABLES
  vga,        \* the chip: its registers, and the port of the attributes
  mode        \* where SetMode is: the loop and its variable

vgaVars == <<vga, mode>>

(* The table of SetMode.                                                   *)
Misc == 99
Table ==
  [sequencer |-> <<3, 1, 15, 0, 14>>,
   crtc |-> <<95, 79, 80, 130, 84, 128, 191, 31, 0, 65, 0, 0, 0, 0, 0, 0,
              156, 14, 143, 40, 64, 150, 185, 163, 255>>,
   graphics |-> <<0, 0, 0, 0, 0, 64, 5, 15, 255>>,
   attribute |-> <<0, 1, 2, 3, 4, 5, 6, 7, 8, 9, 10, 11, 12, 13, 14, 15,
                   65, 0, 15, 0, 0>>]

Group == DOMAIN Table
Size(g) == Len(Table[g])
Index(g) == 0 .. Size(g) - 1

WithTopBit(byte) == 128 + (byte % 128)
WithoutTopBit(byte) == byte % 128

(* The value written in a turn of a loop: the table is changed so that the *)
(* timing registers stay accessible.                                       *)
ValueOf(g, i) ==
  LET value == Table[g][i + 1]
  IN  CASE g = "crtc" /\ i = 3  -> WithTopBit(value)
        [] g = "crtc" /\ i = 17 -> WithoutTopBit(value)
        [] OTHER -> value
-----------------------------------------------------------------------------
(* The chip.  Bit 7 of timing register 17 protects the first eight; the    *)
(* palette can only be written while the picture is off.                   *)
Protected(chip) == chip.reg["crtc"][17] >= 128

WriteIndexed(chip, g, i, value) ==
  IF g = "crtc" /\ i <= 7 /\ Protected(chip) THEN chip
  ELSE [chip EXCEPT !.reg[g][i] = value]

(* Bit 7 of register 3 shows register 17, and not that of a light pen.     *)
ReadTiming(chip, i) ==
  IF i = 17 /\ chip.reg["crtc"][3] < 128 THEN 0 ELSE chip.reg["crtc"][i]

(* The port of the attribute controller takes an index and a value in      *)
(* turns; reading another port makes it expect an index.                   *)
ExpectIndex(chip) == [chip EXCEPT !.expects = "index"]

WriteAttributePort(chip, byte) ==
  IF chip.expects = "index"
  THEN [chip EXCEPT !.expects = "value", !.index = byte % 32,
                    !.on = ((byte \div 32) % 2 = 1)]
  ELSE [chip EXCEPT !.expects = "index",
                    !.reg["attribute"] =
                       IF chip.index \in Index("attribute")
                            /\ (chip.index < 16 => ~chip.on)
                       THEN [@ EXCEPT ![chip.index] = byte] ELSE @]

(* Any byte may be in a register.                                          *)
Byte == 0 .. 255
Chip ==
  [misc : Byte, expects : {"index", "value"}, index : 0 .. 31, on : BOOLEAN,
   reg : [sequencer : [Index("sequencer") -> Byte],
          crtc      : [Index("crtc") -> Byte],
          graphics  : [Index("graphics") -> Byte],
          attribute : [Index("attribute") -> Byte]]]

ASSUME VgaAssumption == Left \subseteq Chip

VgaInit ==
  /\ mode = [at |-> "misc", i |-> 0]
  /\ vga \in Left
-----------------------------------------------------------------------------
Then(at) == mode' = [at |-> at, i |-> 0]

WriteMisc ==
  /\ mode.at = "misc"
  /\ vga' = [vga EXCEPT !.misc = Misc]
  /\ Then("sequencer")

(* Fault: the timing registers are left protected.                         *)
UnlockedHalf(chip) ==
  WriteIndexed(chip, "crtc", 3, WithTopBit(ReadTiming(chip, 3)))

(* The retrace registers are made accessible and the protection taken off. *)
Unlocked(chip) ==
  LET seen == WriteIndexed(chip, "crtc", 3, WithTopBit(ReadTiming(chip, 3)))
  IN  WriteIndexed(seen, "crtc", 17, WithoutTopBit(ReadTiming(seen, 17)))

Unlock ==
  /\ mode.at = "unlock"
  /\ vga' = Unlocked(vga)
  /\ Then("crtc")

(* Fault: a palette entry of 0 is taken to be there already.               *)
WriteAttributeUnlessZero(chip, i, value) ==
  IF value = 0 THEN chip
  ELSE WriteAttributePort(WriteAttributePort(ExpectIndex(chip), i), value)

WriteAttribute(chip, i, value) ==
  WriteAttributePort(WriteAttributePort(ExpectIndex(chip), i), value)

Following(g) ==
  CASE g = "sequencer" -> "unlock"
    [] g = "crtc"      -> "graphics"
    [] g = "graphics"  -> "attribute"
    [] g = "attribute" -> "on"

(* A turn of one of the four loops.                                        *)
WriteRegister(g) ==
  /\ mode.at = g
  /\ vga' = IF g = "attribute"
            THEN WriteAttribute(vga, mode.i, ValueOf(g, mode.i))
            ELSE WriteIndexed(vga, g, mode.i, ValueOf(g, mode.i))
  /\ IF mode.i + 1 < Size(g) THEN mode' = [mode EXCEPT !.i = @ + 1]
                             ELSE Then(Following(g))

(* The index 0x20 turns the picture on.                                    *)
TurnOn ==
  /\ mode.at = "on"
  /\ vga' = WriteAttributePort(ExpectIndex(vga), 32)
  /\ Then("set")

SetMode ==
  \/ WriteMisc
  \/ Unlock
  \/ \E g \in Group : WriteRegister(g)
  \/ TurnOn
-----------------------------------------------------------------------------
(* Where PutPixel writes: GetFrameBufferSegment reads graphics register 6. *)
GetFrameBufferSegment(chip) ==
  CASE (chip.reg["graphics"][6] \div 4) % 4 = 1 -> 655360
    [] (chip.reg["graphics"][6] \div 4) % 4 = 2 -> 720896
    [] (chip.reg["graphics"][6] \div 4) % 4 = 3 -> 753664
    [] OTHER -> 0

PixelAddress(chip, x, y) == GetFrameBufferSegment(chip) + 320 * y + x

(* The colours there is an index for; all others come out black.           *)
GetColorIndex(rgb) ==
  CASE rgb = <<0, 0, 168>> -> 1
    [] rgb = <<0, 168, 0>> -> 2
    [] rgb = <<168, 0, 0>> -> 4
    [] rgb = <<255, 255, 255>> -> 63
    [] OTHER -> 0

(* The way from a byte of video memory to the screen: four bits go through *)
(* the palette, and the colour table is as the BIOS left it.               *)
Colour(byte) ==
  CASE byte = 1 -> <<0, 0, 168>>
    [] byte = 2 -> <<0, 168, 0>>
    [] byte = 4 -> <<168, 0, 0>>
    [] byte = 63 -> <<255, 255, 255>>
    [] OTHER -> <<0, 0, 0>>

Shows(chip, byte) ==
  Colour((byte \div 16) * 16 + (chip.reg["attribute"][byte % 16] % 16))
-----------------------------------------------------------------------------
(* When SetMode returns, the chip is in the mode of the table, whatever    *)
(* state it was in: no write was ignored because registers were protected  *)
(* or the picture was on, none taken for an index, and the picture is on.  *)
ModeIsSet ==
  mode.at = "set" =>
    /\ vga.misc = Misc
    /\ \A g \in Group : \A i \in Index(g) : vga.reg[g][i] = ValueOf(g, i)
    /\ vga.on
=============================================================================

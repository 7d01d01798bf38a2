------------------------------ MODULE Console ------------------------------
(***************************************************************************)
(* The text screen: printf writes characters at its cursor, MouseToConsole *)
(* swaps the colours of the cell under the mouse, and both write the same  *)
(* video memory.  kernelMain prints before it turns interrupts on, and     *)
(* later only interrupt handlers do, one at a time, so a character printed *)
(* and a movement of the mouse are one step each.                          *)
(*                                                                         *)
(* A cell is a character and whether its colours are swapped.              *)
(*                                                                         *)
(* A definition introduced as a fault is the next definition with a slip   *)
(* in it: the checks of the project must notice when it takes its place.   *)
(***************************************************************************)
EXTENDS Integers, Sequences, SequencesExt

CONSTANTS
  Width, Height,   \* of the screen, 80 by 25
  Half,            \* 2^7: an int8_t is between -Half and Half - 1
  Char,            \* the characters printed
  Newline, Blank,  \* '\n', which is printed too, and ' '
  Leftover         \* what the BIOS and the boot loader left on the screen

ASSUME ConsoleAssumption ==
  /\ Width \in Nat \ {0} /\ Height \in Nat \ {0}
  /\ Half \in Nat /\ Width <= Half /\ Height <= Half
  /\ {Newline, Blank, Leftover} \cap Char = {}

VARIABLES
  memory,     \* VideoMemory: place -> character and colours
  cursor,     \* the static x and y of printf
  mouse,      \* MouseToConsole::x and y
  text        \* what was printed since the screen was cleared, or since the
              \* beginning (nothing reads it)

vars == <<memory, cursor, mouse, text>>

Cell == 0 .. Width * Height - 1
CellAt(p) == Width * p[2] + p[1]

(* What is on the screen when printf is called for the first time.         *)
Boot == [c \in Cell |-> [char |-> Leftover, swapped |-> FALSE]]

(* Swapping the two halves of the colours.                                 *)
Flip(m, p) == [m EXCEPT ![CellAt(p)].swapped = ~@]

(* The constructor of MouseToConsole puts the mouse in the middle.  (Some  *)
(* text is printed before it runs; as printf leaves the colours alone and  *)
(* the constructor the characters, it may as well run first.)              *)
Init ==
  /\ mouse = <<Width \div 2, Height \div 2>>
  /\ memory = Flip(Boot, <<Width \div 2, Height \div 2>>)
  /\ cursor = <<0, 0>>
  /\ text = << >>

(* The new character, with the colours that were there.                    *)
Put(m, p, c) == [m EXCEPT ![CellAt(p)].char = c]

(* Fault: the test for the edge comes only after the character beyond it.  *)
WrappedLate(p) == IF p[1] > Width THEN <<0, p[2] + 1>> ELSE p

(* x >= 80: on to the next line.                                           *)
Wrapped(p) == IF p[1] >= Width THEN <<0, p[2] + 1>> ELSE p

(* Where the cursor is after c, before the bottom of the screen is tested. *)
Advanced(p, c) ==
  Wrapped(IF c = Newline THEN <<0, p[2] + 1>> ELSE <<p[1] + 1, p[2]>>)

(* Fault: blanks are written with the colours of an empty screen.          *)
ClearedWithColours(m) == [c \in Cell |-> [char |-> Blank, swapped |-> FALSE]]

(* The loops over the screen: blanks, with the colours that were there.    *)
Cleared(m) == [c \in Cell |-> [m[c] EXCEPT !.char = Blank]]

(* One turn of the loop of printf.                                         *)
PrintChar(c) ==
  LET written == IF c = Newline THEN memory ELSE Put(memory, cursor, c)
      next    == Advanced(cursor, c)
      full    == next[2] >= Height
  IN  /\ memory' = IF full THEN Cleared(written) ELSE written
      /\ cursor' = IF full THEN <<0, 0>> ELSE next
      /\ text' = IF full THEN << >> ELSE Append(text, c)
      /\ UNCHANGED mouse

(* An int8_t after n has been assigned to it.                              *)
Int8(n) == ((n + Half) % (2 * Half)) - Half

(* Fault: the tests for the two edges are off by one.                      *)
BoundedLoosely(n, bound) ==
  IF n > bound THEN bound ELSE IF n < 0 THEN 0 ELSE n

Bounded(n, bound) ==
  IF n >= bound THEN bound - 1 ELSE IF n < 0 THEN 0 ELSE n

(* MouseToConsole::OnMouseMove: the cell left is turned back, the cell     *)
(* reached is swapped.  The sum is cut to an int8_t before it is tested.   *)
OnMouseMove(d) ==
  LET to == <<Bounded(Int8(mouse[1] + d[1]), Width),
              Bounded(Int8(mouse[2] + d[2]), Height)>>
  IN  /\ mouse' = to
      /\ memory' = Flip(Flip(memory, mouse), to)
      /\ UNCHANGED <<cursor, text>>

(* The driver hands on (int8_t) x and -(int8_t) y, and no movement by 0.   *)
Movement == ((-Half .. Half - 1) \X (1 - Half .. Half)) \ {<<0, 0>>}

Next ==
  \/ \E c \in Char \cup {Newline} : PrintChar(c)
  \/ \E d \in Movement : OnMouseMove(d)

Spec == Init /\ [][Next]_vars
-----------------------------------------------------------------------------
TypeOK ==
  /\ memory \in [Cell -> [char : Char \cup {Blank, Leftover},
                          swapped : BOOLEAN]]
  /\ cursor \in (0 .. Width - 1) \X (0 .. Height - 1)
  /\ mouse \in (0 .. Width - 1) \X (0 .. Height - 1)

(* Whatever is printed, cleared or overflows, the cell under the mouse is  *)
(* the only one with swapped colours: the mouse leaves no trail.           *)
OneCellSwapped ==
  \A c \in Cell : memory[c].swapped <=> c = CellAt(mouse)

(* Where a text leads to, told from the text alone: a line ends with every *)
(* newline, one that follows a full line too, and with every Width-th      *)
(* character since the last newline.                                       *)
Newlines(s) == {i \in DOMAIN s : s[i] = Newline}
Stretch(s, i) == i - Max({0} \cup {j \in Newlines(s) : j < i})
LineEnds(s) == Newlines(s) \cup {i \in DOMAIN s : Stretch(s, i) % Width = 0}
Column(s, i) == (Stretch(s, i) - 1) % Width
Row(s, i) == Cardinality({j \in LineEnds(s) : j < i})

(* The screen shows the text printed since it was last cleared, every      *)
(* character at its line and column: none is overwritten, and none is left *)
(* over from the text before.                                              *)
Shown == DOMAIN text \ Newlines(text)
PlaceOf(i) == CellAt(<<Column(text, i), Row(text, i)>>)
ShowsText ==
  /\ \A i \in Shown : memory[PlaceOf(i)].char = text[i]
  /\ \A c \in Cell : memory[c].char \in Char => \E i \in Shown : c = PlaceOf(i)
=============================================================================

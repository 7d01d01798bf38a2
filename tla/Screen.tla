------------------------------- MODULE Screen -------------------------------
(***************************************************************************)
(* kernelMain in graphical mode: it sets the mode of the screen, turns     *)
(* interrupts on, and then draws the desktop again and again, while        *)
(* packets of the mouse interrupt it and move the widgets between any two  *)
(* of them being drawn.                                                    *)
(*                                                                         *)
(* A pass fills the screen with the desktop's colour and then paints the   *)
(* widgets over it.  Each reads its place on the screen, one coordinate    *)
(* after the other, and fills a rectangle there: an interrupt can come     *)
(* between two widgets and between the two coordinates of one.             *)
(* The cross of the pointer, painted last, is left out.                    *)
(***************************************************************************)
EXTENDS Desktop, Vga

CONSTANTS
  Word,       \* 2^32, the number of values of a uint32_t
  Paint       \* Root, window or field -> its r, g and b

ASSUME ScreenAssumption ==
  /\ Word \in Nat \ {0}
  /\ Paint \in [{Root} \cup Window \cup Field -> (0 .. 255) \X (0 .. 255) \X (0 .. 255)]

(* What is drawn: a widget is in one place, a field lies inside its window *)
(* (nothing clips the ones that stick out), a word holds every coordinate, *)
(* and there is an index for each colour.                                  *)
ASSUME PictureAssumption ==
  /\ Window \cap Field = {} /\ Root \notin Field
  /\ \A v, w \in Window :
       Range(Children[v]) \cap Range(Children[w]) # {} => v = w
  /\ \A w \in Window : \A f \in Range(Children[w]) : \A i \in 1 .. 2 :
       0 <= Place[f][i] /\ Place[f][i] + Extent[f][i] <= Extent[w][i]
  /\ \A k \in Window \cup Field : \A i \in 1 .. 2 :
       Extent[Root][i] + Extent[k][i] <= Word
  /\ \A k \in {Root} \cup Window \cup Field :
       Colour(GetColorIndex(Paint[k])) = Paint[k]

VARIABLES
  drawn,      \* the widgets painted in this pass, and where
  across,     \* the x of the next one, as a sequence: empty until it is read
  still       \* nothing has moved in this pass (nothing reads it)

screenVars == <<vars, vgaVars, drawn, across, still>>

Columns == 0 .. Extent[Root][1] - 1
Rows == 0 .. Extent[Root][2] - 1

ParentOf(k) ==
  CHOOSE c \in {Root} \cup Window :
    \E i \in DOMAIN Children[c] : Children[c][i] = k

(* Fault: the parent is not asked.                                         *)
ModelToScreenAlone(u, k) == u.at[k]

(* The place of a widget on the screen: its own, inside that of its parent.*)
ModelToScreen(u, k) ==
  IF k \in Window THEN u.at[k] ELSE Plus(u.at[ParentOf(k)], u.at[k])

(* Fault: the children of the desktop are drawn front one first.           *)
DrawOrderForwards ==
  FlattenSeq([i \in DOMAIN Children[Root] |->
                LET w == Children[Root][i] IN <<w>> \o Reverse(Children[w])])

(* CompositeWidget::Draw paints itself, then its children, last one first. *)
DrawOrder ==
  FlattenSeq([i \in DOMAIN Children[Root] |->
                LET w == Reverse(Children[Root])[i]
                IN  <<w>> \o Reverse(Children[w])])

ScreenInit ==
  /\ Init
  /\ VgaInit
  /\ drawn = << >>
  /\ across = << >>
  /\ still = TRUE

(* kernel.cpp:236: the mode is set before windows are made and interrupts  *)
(* come.                                                                   *)
Prepare ==
  /\ SetMode
  /\ UNCHANGED <<vars, drawn, across, still>>

(* A pass is over when every widget has been painted ...                   *)
Done == Len(drawn) = Len(DrawOrder)

(* ... and the next one starts with a screen in the desktop's colour.      *)
DrawBackground ==
  /\ mode.at = "set" /\ Done
  /\ drawn' = << >>
  /\ still' = TRUE
  /\ UNCHANGED <<vars, vgaVars, across>>

NextDrawn == DrawOrder[Len(drawn) + 1]

(* ModelToScreen adds up the x of a widget and its parent, and then the y. *)
(* (That a field's own are read after its window's makes no difference:    *)
(* they never change.)                                                     *)
ReadAcross ==
  /\ mode.at = "set" /\ ~Done
  /\ across = << >>
  /\ across' = <<ModelToScreen(ui, NextDrawn)[1]>>
  /\ UNCHANGED <<vars, vgaVars, drawn, still>>

DrawWidget ==
  /\ mode.at = "set" /\ ~Done
  /\ across # << >>
  /\ drawn' = Append(drawn, [widget |-> NextDrawn,
                            place  |-> <<across[1], ModelToScreen(ui, NextDrawn)[2]>>])
  /\ across' = << >>
  /\ UNCHANGED <<vars, vgaVars, still>>

(* kernel.cpp:248-253: the loop that draws.                                *)
Draw == DrawBackground \/ ReadAcross \/ DrawWidget

(* An interrupt of the mouse.                                              *)
Interrupt ==
  /\ mode.at = "set"
  /\ Next
  /\ still' = (still /\ ui' = ui)
  /\ UNCHANGED <<vgaVars, drawn, across>>

ScreenNext == Prepare \/ Draw \/ Interrupt

(* Interrupts come between passes and steps of the loop; they never stop   *)
(* it for ever.                                                            *)
ScreenSpec ==
  ScreenInit /\ [][ScreenNext]_screenVars /\ WF_screenVars(Prepare \/ Draw)
-----------------------------------------------------------------------------
Unsigned(n) == n % Word

(* The coordinates the loop of FillRectangle runs through: it counts in    *)
(* int32_t but compares in uint32_t, so that one that starts left of or    *)
(* above the screen ends at once, or never reaches it.                     *)
Filled(start, length) ==
  {n \in start .. start + length - 1 :
     \A m \in start .. n : Unsigned(m) < Unsigned(start + length)}

(* PutPixel keeps what lies on the screen.                                 *)
Covers(d, p) ==
  \A i \in 1 .. 2 : p[i] \in Filled(d.place[i], Extent[d.widget][i])

(* What is seen at a pixel: the colour of the last widget painted there,   *)
(* by way of its index and the chip.                                       *)
Seen(p) ==
  LET i == SelectLastInSeq(drawn, LAMBDA d : Covers(d, p))
      k == IF i = 0 THEN Root ELSE drawn[i].widget
  IN  Shows(vga, GetColorIndex(Paint[k]))

(* What a press of a button at p would reach.                              *)
Reached(p) ==
  LET w == ChildAt(ui, Root, p)
  IN  IF w = Nobody THEN Root
      ELSE IF FieldAt(ui, w, p) = Nobody THEN w ELSE FieldAt(ui, w, p)

(* A widget that begins left of or above the screen is not painted at all. *)
Paintable(k) ==
  k = Root \/ \A i \in 1 .. 2 : ModelToScreen(ui, k)[i] >= 0

PictureAgrees ==
  \A p \in Columns \X Rows : 
    Paintable(Reached(p)) => Seen(p) = Paint[Reached(p)]

(* What is seen at a pixel has the colour of what a press there reaches:   *)
(* the order of drawing, back to front, and the order of searching, front  *)
(* to back, the two ways of adding up coordinates, and the index of a      *)
(* colour and the palette agree.  (A widget partly off the left or the     *)
(* upper edge is reached and not seen.)                                    *)
SeenIsReached == mode.at = "set" /\ Done /\ still => PictureAgrees

(* A picture torn by a movement does not stay: unless something moves      *)
(* again and again, from some time on every finished pass is right.        *)
ScreenCatchesUp ==
  \/ []<><<ui' # ui>>_screenVars
  \/ []<>Done /\ <>[](Done => PictureAgrees)
=============================================================================

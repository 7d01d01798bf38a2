------------------------------ MODULE Desktop ------------------------------
(***************************************************************************)
(* The widgets of the graphical mode under the mouse: a Desktop, the       *)
(* Windows on it, front one first, and the plain Widgets inside them.      *)
(*                                                                         *)
(* A packet of the mouse is handled in one interrupt: the movement first,  *)
(* then each button that changed.  A handler is therefore an operator from *)
(* the state of the widgets to their next state, and a packet is the       *)
(* composition of the handlers the driver calls.                           *)
(*                                                                         *)
(* Coordinates are pairs.  The mouse is kept on the screen and a window    *)
(* moves only when the mouse is over it, so none of the int32_t sums can   *)
(* overflow and they are plain integers here.                              *)
(*                                                                         *)
(* A definition introduced as a fault is the next definition with a slip   *)
(* in it: the checks of the project must notice when it takes its place.   *)
(***************************************************************************)
EXTENDS Integers, SequencesExt

CONSTANTS
  Root,       \* the Desktop object
  Window,     \* the Window objects, children of the desktop
  Field,      \* the plain widgets, children of windows
  Children,   \* Root and windows -> their children, children[0] first
  Place,      \* window or field -> its x and y inside its parent at first
  Extent,     \* Root, window or field -> its w and h
  Button,     \* the buttons in use: 1 is the left one
  Moves,      \* the movements a packet can report: bytes, the y negated
  Nobody      \* the null Widget*

ASSUME DesktopAssumption ==
  /\ Children \in [{Root} \cup Window -> Seq(Window \cup Field)]
  /\ Root \notin Window /\ Nobody \notin Window \cup Field
  /\ Range(Children[Root]) = Window
  /\ \A w \in Window : Range(Children[w]) \subseteq Field
  /\ Place \in [Window \cup Field -> Int \X Int]
  /\ Extent \in [{Root} \cup Window \cup Field -> (Nat \ {0}) \X (Nat \ {0})]
  /\ Button \subseteq 1 .. 3
  /\ Moves \subseteq (-128 .. 127) \X (-127 .. 128)

VARIABLES
  ui,         \* the widgets: mouse, at, dragging and focus
  buttons,    \* MouseDriver::buttons
  past        \* what nothing reads: where the front window was taken hold
              \* of, and the field pressed last

vars == <<ui, buttons, past>>

FrontWindow == Children[Root][1]

Plus(p, q) == <<p[1] + q[1], p[2] + q[2]>>
Minus(p, q) == <<p[1] - q[1], p[2] - q[2]>>

(* C++ division: towards zero.                                             *)
Quarter(n) == IF n < 0 THEN -(-n \div 4) ELSE n \div 4

Clamped(n, bound) == IF n < 0 THEN 0 ELSE IF n >= bound THEN bound - 1 ELSE n
-----------------------------------------------------------------------------
Init ==
  /\ ui = [mouse |-> <<Extent[Root][1] \div 2, Extent[Root][2] \div 2>>,
           at |-> Place,
           dragging |-> [w \in Window |-> FALSE],
           focus |-> [c \in {Root} \cup Window |-> Nobody]]
  /\ buttons = {}
  /\ past = [grip |-> <<0, 0>>, pressed |-> Nobody]

ContainsCoordinate(place, extent, p) ==
  \A i \in 1 .. 2 : place[i] <= p[i] /\ p[i] < place[i] + extent[i]

(* The first child of c that contains the point p, in c's coordinates.     *)
ChildAt(u, c, p) ==
  LET i == SelectInSeq(Children[c],
                       LAMBDA k : ContainsCoordinate(u.at[k], Extent[k], p))
  IN  IF i = 0 THEN Nobody ELSE Children[c][i]

(* The field of the window w under the point p of the desktop.             *)
FieldAt(u, w, p) == ChildAt(u, w, Minus(p, u.at[w]))

(* Fault: the parent is not told.                                          *)
GetFocusHere(u, w, f) == [u EXCEPT !.focus[w] = f]

(* GetFocus(f) goes from a field to its window and on to the desktop.      *)
GetFocus(u, w, f) == [u EXCEPT !.focus[w] = f, !.focus[Root] = w]

(* Window::OnMouseDown, then CompositeWidget::OnMouseDown.                 *)
WindowDown(u, w, p, b) ==
  LET dragged == [u EXCEPT !.dragging[w] = (b = 1)]
      f == FieldAt(u, w, p)
  IN  IF f = Nobody THEN dragged ELSE GetFocus(dragged, w, f)

(* Desktop::OnMouseDown: to the front-most window under the pointer.       *)
OnMouseDown(u, b) ==
  LET w == ChildAt(u, Root, u.mouse)
  IN  IF w = Nobody THEN u ELSE WindowDown(u, w, u.mouse, b)

(* CompositeWidget::OnKeyDown, of the desktop and then of a window, passes *)
(* a key on to the focussed child: the widget that gets it, if any does.   *)
OnKeyDown(u) ==
  IF u.focus[Root] = Nobody THEN Nobody ELSE u.focus[u.focus[Root]]

(* Desktop::OnMouseUp and Window::OnMouseUp; a field ignores it.           *)
OnMouseUp(u, b) ==
  LET w == ChildAt(u, Root, u.mouse)
  IN  IF w = Nobody THEN u ELSE [u EXCEPT !.dragging[w] = FALSE]

(* Window::OnMouseMove; a field does nothing with it.                      *)
WindowMove(u, w, old, new) ==
  IF u.dragging[w] THEN [u EXCEPT !.at[w] = Plus(@, Minus(new, old))] ELSE u

(* Fault: the test that the window has not had the event is forgotten.     *)
ChildrenMoveTwice(u, old, new) ==
  LET a     == ChildAt(u, Root, old)
      moved == IF a = Nobody THEN u ELSE WindowMove(u, a, old, new)
      b     == ChildAt(moved, Root, new)
  IN  IF b = Nobody THEN moved ELSE WindowMove(moved, b, old, new)

(* CompositeWidget::OnMouseMove of the desktop: the window under the old   *)
(* point, and, when that has moved, the window under the new point, unless *)
(* it is the same.                                                         *)
ChildrenMove(u, old, new) ==
  LET a     == ChildAt(u, Root, old)
      moved == IF a = Nobody THEN u ELSE WindowMove(u, a, old, new)
      b     == ChildAt(moved, Root, new)
  IN  IF b \in {Nobody, a} THEN moved ELSE WindowMove(moved, b, old, new)

(* Fault: the pointer is not kept on the screen.                           *)
TargetUnclamped(u, d) ==
  [i \in 1 .. 2 |-> u.mouse[i] + Quarter(d[i])]

(* Where Desktop::OnMouseMove takes the pointer.                           *)
Target(u, d) ==
  [i \in 1 .. 2 |-> Clamped(u.mouse[i] + Quarter(d[i]), Extent[Root][i])]

(* Fault: the windows are moved before the pointer is stopped at the edge. *)
OnMouseMoveStopsLate(u, d) ==
  [ChildrenMove(u, u.mouse, TargetUnclamped(u, d))
     EXCEPT !.mouse = Target(u, d)]

(* Desktop::OnMouseMove                                                    *)
OnMouseMove(u, d) ==
  [ChildrenMove(u, u.mouse, Target(u, d)) EXCEPT !.mouse = Target(u, d)]

(* The loop of MouseDriver::HandleInterrupt over the buttons.              *)
ButtonEvent(u, b, down) ==
  IF b \in buttons /\ b \notin down THEN OnMouseUp(u, b)
  ELSE IF b \notin buttons /\ b \in down THEN OnMouseDown(u, b)
  ELSE u
ButtonEvents(u, down) ==
  ButtonEvent(ButtonEvent(ButtonEvent(u, 1, down), 2, down), 3, down)

(* A whole packet: a movement d and the buttons that are down.             *)
Packet(d, down) ==
  \E moved \in {IF d = <<0, 0>> THEN ui ELSE OnMouseMove(ui, d)} :
  \E over \in {ChildAt(moved, Root, moved.mouse)} :
  LET field == IF over = Nobody THEN Nobody
               ELSE FieldAt(moved, over, moved.mouse)
  IN  /\ ui' = ButtonEvents(moved, down)
      /\ buttons' = down
      /\ past' = [grip |-> IF over = FrontWindow /\ 1 \in down \ buttons
                           THEN Minus(moved.mouse, moved.at[FrontWindow])
                           ELSE past.grip,
                  pressed |-> IF down \subseteq buttons \/ field = Nobody
                              THEN past.pressed ELSE field]

Next ==
  \E d \in Moves \cup {<<0, 0>>} : \E down \in SUBSET Button : Packet(d, down)

Spec == Init /\ [][Next]_vars
-----------------------------------------------------------------------------
(* TypeOK: the pointer stays on the screen, whatever the mouse reports.    *)
TypeOK ==
  /\ ui.mouse \in (0 .. Extent[Root][1] - 1) \X (0 .. Extent[Root][2] - 1)
  /\ ui.at \in [Window \cup Field -> Int \X Int]
  /\ ui.dragging \in [Window -> BOOLEAN]
  /\ ui.focus \in [{Root} \cup Window -> Window \cup Field \cup {Nobody}]
  /\ buttons \subseteq Button

(* Only a window that is being dragged moves, and it moves with the        *)
(* pointer: by as much, which the edge of the screen may stop, and once    *)
(* for one packet, though desktop and window are entered for the old and   *)
(* for the new point.  A dragged one that is found under the pointer moves *)
(* for certain.  (Two can move in one packet: a drag that was not ended    *)
(* goes on when the pointer comes back, see DragsOnlyWithLeftButton.)      *)
MovedWithPointer(u, v) ==
  \A w \in Window :
    \/ /\ v.at[w] = u.at[w]
       /\ u.dragging[w] /\ ChildAt(u, Root, u.mouse) = w => v.mouse = u.mouse
    \/ /\ u.dragging[w]
       /\ v.at[w] = Plus(u.at[w], Minus(v.mouse, u.mouse))

WindowsMoveWithMouse == [][MovedWithPointer(ui, ui')]_vars

(* While the front window is dragged it stays under the pointer at the     *)
(* place it was taken hold of, the left button is down, and it is the one  *)
(* to get the release: it can neither slip away nor stick to the pointer.  *)
FrontDragHolds ==
  ui.dragging[FrontWindow] =>
    /\ 1 \in buttons
    /\ Minus(ui.mouse, ui.at[FrontWindow]) = past.grip
    /\ ChildAt(ui, Root, ui.mouse) = FrontWindow

(* A key goes down the chain of focussed children and reaches the field    *)
(* that was pressed last, whichever window it is in.                       *)
KeysReachLastPressed == OnKeyDown(ui) = past.pressed

(* window.cpp:21: "dragging allowed when left mouse button is pressed".    *)
DragsOnlyWithLeftButton ==
  \A w \in Window : ui.dragging[w] => 1 \in buttons
=============================================================================

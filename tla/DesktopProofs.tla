--------------------------- MODULE DesktopProofs ---------------------------
(***************************************************************************)
(* Proofs about Desktop, for any windows and fields, in any places, on a   *)
(* screen of any size, and for any movements a packet can report.          *)
(***************************************************************************)
EXTENDS Desktop, WellFoundedInduction, TLAPS

Point == Int \X Int

(* The state of the widgets, as a record.                                  *)
Widgets ==
  [mouse    : (0 .. Extent[Root][1] - 1) \X (0 .. Extent[Root][2] - 1),
   at       : [Window \cup Field -> Point],
   dragging : [Window -> BOOLEAN],
   focus    : [{Root} \cup Window -> Window \cup Field \cup {Nobody}]]
-----------------------------------------------------------------------------
LEMMA Arithmetic ==
  /\ \A p, q \in Point : Plus(p, q) \in Point /\ Minus(p, q) \in Point
  /\ \A n \in Int : Quarter(n) \in Int
  /\ \A n \in Int, bound \in Nat \ {0} : Clamped(n, bound) \in 0 .. bound - 1
<1>1. ASSUME NEW p \in Point, NEW q \in Point
      PROVE  Plus(p, q) \in Point /\ Minus(p, q) \in Point
  BY DEF Point, Plus, Minus
<1>2. ASSUME NEW n \in Int
      PROVE  Quarter(n) \in Int
  BY SMT DEF Quarter
<1>3. ASSUME NEW n \in Int, NEW bound \in Nat \ {0}
      PROVE  Clamped(n, bound) \in 0 .. bound - 1
  BY SMT DEF Clamped
<1> QED
  BY <1>1, <1>2, <1>3

(* What is moved with the pointer keeps its distance from it.              *)
LEMMA MovedAlong ==
  ASSUME NEW p \in Point, NEW old \in Point, NEW new \in Point
  PROVE  Minus(new, Plus(p, Minus(new, old))) = Minus(old, p)
BY DEF Point, Plus, Minus

LEMMA Smallest ==
  ASSUME NEW S \in SUBSET Nat, S # {}
  PROVE  Min(S) \in S /\ \A s \in S : Min(S) <= s
<1>1. PICK n \in S : \A s \in S : <<s, n>> \notin OpToRel(<, Nat)
  BY NatLessThanWellFounded, WFMin
<1>2. \A s \in S : ~(s < n)
  BY <1>1, Zenon DEF OpToRel
<1>3. n \in S /\ \A s \in S : n <= s
  BY <1>2, SMT
<1> QED
  BY <1>3 DEF Min

(* A search finds the first child that contains the point, or nobody when  *)
(* there is none.                                                          *)
LEMMA FirstFound ==
  ASSUME NEW u, NEW p, NEW c \in {Root} \cup Window
  PROVE  LET Holds(i) == ContainsCoordinate(u.at[Children[c][i]],
                                            Extent[Children[c][i]], p)
         IN  \/ /\ ChildAt(u, c, p) = Nobody
                /\ \A i \in 1 .. Len(Children[c]) : ~Holds(i)
             \/ \E i \in 1 .. Len(Children[c]) :
                  /\ ChildAt(u, c, p) = Children[c][i] /\ Holds(i)
                  /\ \A j \in 1 .. i - 1 : ~Holds(j)
<1> DEFINE n == Len(Children[c])
           Holds(i) == ContainsCoordinate(u.at[Children[c][i]],
                                          Extent[Children[c][i]], p)
           I == {i \in 1 .. n : Holds(i)}
           first == Min(I)
<1>1. n \in Nat
  BY DesktopAssumption
<1>2. ChildAt(u, c, p) = IF I # {} /\ first # 0 THEN Children[c][first] ELSE Nobody
  BY DEF ChildAt, SelectInSeq
<1>3. ASSUME I # {}
      PROVE  first \in I /\ \A i \in I : first <= i
  <2>1. I \in SUBSET Nat
    BY <1>1
  <2> HIDE DEF I
  <2> QED
    BY <1>3, <2>1, Smallest
<1> HIDE DEF first, n, Holds
<1>4. CASE I = {}
  <2>1. ChildAt(u, c, p) = Nobody /\ \A i \in 1 .. n : ~Holds(i)
    BY <1>2, <1>4
  <2> QED
    BY <2>1 DEF n, Holds
<1>5. CASE I # {}
  <2>1. first \in 1 .. n /\ Holds(first) /\ first # 0
    BY <1>1, <1>3, <1>5
  <2>2. \A j \in 1 .. first - 1 : ~Holds(j)
    BY <1>1, <1>3, <1>5, <2>1
  <2>3. ChildAt(u, c, p) = Children[c][first]
    BY <1>2, <1>5, <2>1
  <2> QED
    BY <2>1, <2>2, <2>3 DEF n, Holds
<1> QED
  BY <1>4, <1>5

(* In particular the first child is found wherever it is.                  *)
LEMMA ChildAtFound ==
  ASSUME NEW u, NEW p, NEW c \in {Root} \cup Window
  PROVE  /\ ChildAt(u, c, p) \in Range(Children[c]) \cup {Nobody}
         /\ ChildAt(u, c, p) # Nobody =>
              ContainsCoordinate(u.at[ChildAt(u, c, p)],
                                 Extent[ChildAt(u, c, p)], p)
         /\ Children[c] # << >>
              /\ ContainsCoordinate(u.at[Children[c][1]],
                                    Extent[Children[c][1]], p)
              => ChildAt(u, c, p) = Children[c][1]
<1> DEFINE n == Len(Children[c])
           Holds(i) == ContainsCoordinate(u.at[Children[c][i]],
                                          Extent[Children[c][i]], p)
<1>1. n \in Nat /\ DOMAIN Children[c] = 1 .. n /\ (Children[c] # << >> => n > 0)
  BY DesktopAssumption
<1>2. \/ /\ ChildAt(u, c, p) = Nobody
         /\ \A i \in 1 .. n : ~Holds(i)
      \/ \E i \in 1 .. n :
           /\ ChildAt(u, c, p) = Children[c][i] /\ Holds(i)
           /\ \A j \in 1 .. i - 1 : ~Holds(j)
  BY FirstFound
<1>3. CASE /\ ChildAt(u, c, p) = Nobody
           /\ \A i \in 1 .. n : ~Holds(i)
  <2> HIDE DEF n
  <2>1. Children[c] # << >> => ~Holds(1)
    BY <1>1, <1>3
  <2> QED
    BY <1>3, <2>1
<1>4. ASSUME NEW i \in 1 .. n,
             ChildAt(u, c, p) = Children[c][i], Holds(i),
             \A j \in 1 .. i - 1 : ~Holds(j)
      PROVE  /\ ChildAt(u, c, p) \in Range(Children[c])
             /\ ContainsCoordinate(u.at[ChildAt(u, c, p)],
                                   Extent[ChildAt(u, c, p)], p)
             /\ Holds(1) => ChildAt(u, c, p) = Children[c][1]
  <2> HIDE DEF n
  <2>1. Children[c][i] \in Range(Children[c])
    BY <1>1 DEF Range
  <2>2. ContainsCoordinate(u.at[ChildAt(u, c, p)],
                           Extent[ChildAt(u, c, p)], p)
    BY <1>4
  <2> HIDE DEF Holds
  <2>3. Holds(1) => i = 1
    BY <1>1, <1>4
  <2> QED
    BY <1>4, <2>1, <2>2, <2>3
<1> QED
  BY <1>2, <1>3, <1>4

(* Windows are children of the desktop, fields of windows, and both        *)
(* searches depend on nothing but where the widgets are.                   *)
LEMMA Searches ==
  /\ \A u, p : ChildAt(u, Root, p) \in Window \cup {Nobody}
  /\ \A u, p : \A w \in Window : FieldAt(u, w, p) \in Field \cup {Nobody}
  /\ \A u, v, p : u.at = v.at => ChildAt(u, Root, p) = ChildAt(v, Root, p)
  /\ \A u, v, p : \A w \in Window :
       u.at = v.at => FieldAt(u, w, p) = FieldAt(v, w, p)
<1>1. ASSUME NEW u, NEW p
      PROVE  ChildAt(u, Root, p) \in Window \cup {Nobody}
  BY ChildAtFound, DesktopAssumption
<1>2. ASSUME NEW u, NEW p, NEW w \in Window
      PROVE  FieldAt(u, w, p) \in Field \cup {Nobody}
  BY ChildAtFound, DesktopAssumption DEF FieldAt
<1>3. ASSUME NEW u, NEW v, NEW p, NEW c, u.at = v.at
      PROVE  ChildAt(u, c, p) = ChildAt(v, c, p)
  BY <1>3 DEF ChildAt
<1>4. ASSUME NEW u, NEW v, NEW p, NEW w \in Window, u.at = v.at
      PROVE  FieldAt(u, w, p) = FieldAt(v, w, p)
  BY <1>3, <1>4 DEF FieldAt
<1> QED
  BY <1>1, <1>2, <1>3, <1>4
-----------------------------------------------------------------------------
LEMMA Constants ==
  /\ Extent[Root] \in (Nat \ {0}) \X (Nat \ {0})
  /\ \A d \in Moves : d[1] \in Int /\ d[2] \in Int
  /\ Nobody \notin Window \cup Field /\ Root \notin Window
<1>1. Extent[Root] \in (Nat \ {0}) \X (Nat \ {0})
  BY DesktopAssumption
<1>2. ASSUME NEW d \in Moves
      PROVE  d[1] \in Int /\ d[2] \in Int
  <2>1. d \in (-128 .. 127) \X (-127 .. 128)
    BY DesktopAssumption
  <2> QED
    BY <2>1
<1>3. Nobody \notin Window \cup Field /\ Root \notin Window
  BY DesktopAssumption
<1> QED
  BY <1>1, <1>2, <1>3

(* The pointer is stopped at the edges of the screen.                      *)
LEMMA TargetOnScreen ==
  ASSUME NEW u \in Widgets, NEW d \in Moves
  PROVE  /\ Target(u, d) \in (0 .. Extent[Root][1] - 1) \X (0 .. Extent[Root][2] - 1)
         /\ Target(u, d) \in Point /\ u.mouse \in Point
<1>1. u.mouse \in (0 .. Extent[Root][1] - 1) \X (0 .. Extent[Root][2] - 1)
  BY DEF Widgets
<1>2. Extent[Root][1] \in Nat \ {0} /\ Extent[Root][2] \in Nat \ {0}
  BY Constants
<1>3. u.mouse \in Point
  BY <1>1, <1>2 DEF Point
<1>4. ASSUME NEW k \in 1 .. 2
      PROVE  u.mouse[k] + Quarter(d[k]) \in Int
  <2>1. u.mouse[k] \in Int /\ d[k] \in Int
    BY <1>3, Constants DEF Point
  <2> QED
    BY <2>1, Arithmetic
<1>5. Target(u, d)[1] \in 0 .. Extent[Root][1] - 1
      /\ Target(u, d)[2] \in 0 .. Extent[Root][2] - 1
  <2>1. 1 \in 1 .. 2 /\ 2 \in 1 .. 2
    OBVIOUS
  <2>2. /\ Clamped(u.mouse[1] + Quarter(d[1]), Extent[Root][1])
             \in 0 .. Extent[Root][1] - 1
        /\ Clamped(u.mouse[2] + Quarter(d[2]), Extent[Root][2])
             \in 0 .. Extent[Root][2] - 1
    BY <1>2, <1>4, <2>1, Arithmetic, Zenon
  <2> QED
    BY <2>1, <2>2, Zenon DEF Target
<1>6. Target(u, d) = <<Target(u, d)[1], Target(u, d)[2]>>
  BY DEF Target
<1>7. Target(u, d) \in (0 .. Extent[Root][1] - 1) \X (0 .. Extent[Root][2] - 1)
  BY <1>5, <1>6
<1> QED
  BY <1>2, <1>3, <1>7 DEF Point

(* What OnMouseMove of one window does.                                    *)
LEMMA WindowMoves ==
  ASSUME NEW u \in Widgets, NEW w \in Window,
         NEW old \in Point, NEW new \in Point
  PROVE  LET m == WindowMove(u, w, old, new)
         IN  /\ m \in Widgets
             /\ m.mouse = u.mouse /\ m.focus = u.focus
             /\ m.dragging = u.dragging
             /\ \A v \in Window \cup Field :
                  m.at[v] = IF v = w /\ u.dragging[w]
                            THEN Plus(u.at[v], Minus(new, old)) ELSE u.at[v]
<1>1. Minus(new, old) \in Point /\ u.at[w] \in Point
  BY Arithmetic DEF Widgets
<1>2. Plus(u.at[w], Minus(new, old)) \in Point
  BY <1>1, Arithmetic
<1> QED
  BY <1>2 DEF WindowMove, Widgets

(* What Desktop::OnMouseMove does: the pointer goes to its target, and a   *)
(* window stays or goes as far as the pointer, dragged ones only; fields   *)
(* stay where they are in their window.                                    *)
LEMMA DesktopMoves ==
  ASSUME NEW u \in Widgets, NEW d \in Moves
  PROVE  LET m == OnMouseMove(u, d)
             a == ChildAt(u, Root, u.mouse)
         IN  /\ m \in Widgets
             /\ m.focus = u.focus /\ m.dragging = u.dragging
             /\ \A w \in Window :
                  \/ m.at[w] = u.at[w]
                  \/ /\ u.dragging[w]
                     /\ m.at[w] = Plus(u.at[w], Minus(m.mouse, u.mouse))
             /\ a # Nobody /\ u.dragging[a] =>
                  m.at[a] = Plus(u.at[a], Minus(m.mouse, u.mouse))
             /\ \A f \in Field \ Window : m.at[f] = u.at[f]
<1> DEFINE new == Target(u, d)
           a == ChildAt(u, Root, u.mouse)
           first == IF a = Nobody THEN u ELSE WindowMove(u, a, u.mouse, new)
           b == ChildAt(first, Root, new)
           both == IF b \in {Nobody, a} THEN first
                   ELSE WindowMove(first, b, u.mouse, new)
           m == OnMouseMove(u, d)
           Moved(w) == Plus(u.at[w], Minus(new, u.mouse))
<1>1. new \in Point /\ u.mouse \in Point
      /\ new \in (0 .. Extent[Root][1] - 1) \X (0 .. Extent[Root][2] - 1)
  BY TargetOnScreen
<1>2. a \in Window \cup {Nobody} /\ b \in Window \cup {Nobody}
  BY Searches
<1>3. m = [both EXCEPT !.mouse = new]
  BY DEF OnMouseMove, ChildrenMove
<1> HIDE DEF new, a, b, m
<1>4. /\ first \in Widgets
      /\ first.focus = u.focus /\ first.dragging = u.dragging
      /\ \A w \in Window : first.at[w] = IF w = a /\ u.dragging[w]
                                         THEN Moved(w) ELSE u.at[w]
      /\ \A f \in Field \ Window : first.at[f] = u.at[f]
  <2>1. CASE a = Nobody
    BY <2>1, Constants
  <2>2. CASE a # Nobody
    BY <1>1, <1>2, <2>2, WindowMoves
  <2> QED
    BY <2>1, <2>2
<1> HIDE DEF first
<1>5. /\ both \in Widgets
      /\ both.focus = u.focus /\ both.dragging = u.dragging
      /\ \A w \in Window :
           both.at[w] = IF w # a /\ w = b /\ first.dragging[w]
                        THEN Plus(first.at[w], Minus(new, u.mouse))
                        ELSE first.at[w]
      /\ \A f \in Field \ Window : both.at[f] = first.at[f]
  <2>1. CASE b \in {Nobody, a}
    BY <1>4, <2>1, Constants
  <2>2. CASE b \notin {Nobody, a}
    <3>1. b \in Window
      BY <1>2, <2>2
    <3> QED
      BY <1>1, <1>4, <2>2, <3>1, WindowMoves
  <2> QED
    BY <2>1, <2>2
<1> HIDE DEF both
<1>6. /\ m \in Widgets
      /\ m.focus = u.focus /\ m.dragging = u.dragging
      /\ m.at = both.at /\ m.mouse = new
  BY <1>1, <1>3, <1>5 DEF Widgets
<1>7. ASSUME NEW w \in Window
      PROVE  \/ m.at[w] = u.at[w]
             \/ u.dragging[w] /\ m.at[w] = Moved(w)
  BY <1>4, <1>5, <1>6
<1>8. a # Nobody /\ u.dragging[a] => m.at[a] = Moved(a)
  BY <1>2, <1>4, <1>5, <1>6
<1>9. \A f \in Field \ Window : m.at[f] = u.at[f]
  BY <1>4, <1>5, <1>6
<1> QED
  BY <1>6, <1>7, <1>8, <1>9 DEF m, a
-----------------------------------------------------------------------------
(* The window and the field under the pointer, which a button event goes   *)
(* to.                                                                     *)
Over(u) == ChildAt(u, Root, u.mouse)
FieldOver(u) ==
  IF Over(u) = Nobody THEN Nobody ELSE FieldAt(u, Over(u), u.mouse)

Pressed(b, down) == b \notin buttons /\ b \in down
Released(b, down) == b \in buttons /\ b \notin down

(* What one button of a packet does: nothing moves; the window under the   *)
(* pointer is dragged after a press of the left button, and no longer      *)
(* after any other press or any release; and a press in a field gets it    *)
(* the keys.                                                               *)
LEMMA ButtonEventFacts ==
  ASSUME NEW u \in Widgets, NEW b, NEW down
  PROVE  LET v == ButtonEvent(u, b, down)
         IN  /\ v \in Widgets
             /\ v.mouse = u.mouse /\ v.at = u.at
             /\ Over(v) = Over(u) /\ FieldOver(v) = FieldOver(u)
             /\ \A w \in Window :
                  v.dragging[w] = IF w # Over(u) THEN u.dragging[w]
                                  ELSE IF Pressed(b, down) THEN b = 1
                                  ELSE u.dragging[w] /\ ~Released(b, down)
             /\ OnKeyDown(v) = IF Pressed(b, down) /\ FieldOver(u) # Nobody
                               THEN FieldOver(u) ELSE OnKeyDown(u)
<1> DEFINE v == ButtonEvent(u, b, down)
           o == Over(u)
           f == FieldOver(u)
<1>1. /\ o \in Window \cup {Nobody} /\ f \in Field \cup {Nobody}
      /\ Nobody \notin Window /\ Root \notin Window /\ Nobody \notin Field
  BY Searches, Constants DEF Over, FieldOver
<1>2. /\ v \in Widgets
      /\ v.mouse = u.mouse /\ v.at = u.at
      /\ \A w \in Window :
           v.dragging[w] = IF w # o THEN u.dragging[w]
                           ELSE IF Pressed(b, down) THEN b = 1
                           ELSE u.dragging[w] /\ ~Released(b, down)
      /\ OnKeyDown(v) = IF Pressed(b, down) /\ f # Nobody
                        THEN f ELSE OnKeyDown(u)
  <2>1. CASE Released(b, down) /\ o # Nobody
    <3>1. v = [u EXCEPT !.dragging[o] = FALSE]
      BY <2>1 DEF ButtonEvent, OnMouseUp, Released, Over
    <3>2. ~Pressed(b, down)
      BY <2>1 DEF Pressed, Released
    <3> HIDE DEF o, f, v
    <3>3. v \in Widgets /\ v.focus = u.focus /\ v.mouse = u.mouse /\ v.at = u.at
          /\ \A w \in Window : v.dragging[w] = IF w = o THEN FALSE ELSE u.dragging[w]
      BY <1>1, <2>1, <3>1 DEF Widgets
    <3> QED
      BY <2>1, <3>2, <3>3 DEF OnKeyDown
  <2>2. CASE Pressed(b, down) /\ o # Nobody
    <3> DEFINE dragged == [u EXCEPT !.dragging[o] = (b = 1)]
    <3>1. dragged.at = u.at
      BY DEF Widgets
    <3>2. FieldAt(u, o, u.mouse) = f
      BY <2>2 DEF FieldOver
    <3>3. v = IF f = Nobody THEN dragged
              ELSE [dragged EXCEPT !.focus[o] = f, !.focus[Root] = o]
      <4>1. v = OnMouseDown(u, b)
        BY <2>2 DEF ButtonEvent, Pressed
      <4>2. OnMouseDown(u, b) = WindowDown(u, o, u.mouse, b)
        BY <2>2 DEF OnMouseDown, Over
      <4>3. WindowDown(u, o, u.mouse, b) =
              IF f = Nobody THEN dragged ELSE GetFocus(dragged, o, f)
        <5> HIDE DEF o, f
        <5> QED
          BY <3>2, Zenon DEF WindowDown, dragged
      <4> HIDE DEF o, f, v, dragged
      <4> QED
        BY <4>1, <4>2, <4>3, Zenon DEF GetFocus
    <3> HIDE DEF o, f, v
    <3>4. /\ dragged \in Widgets /\ dragged.mouse = u.mouse
          /\ dragged.focus = u.focus
          /\ \A w \in Window :
               dragged.dragging[w] = IF w = o THEN b = 1 ELSE u.dragging[w]
      BY <1>1, <2>2 DEF Widgets
    <3> HIDE DEF dragged
    <3>5. CASE f = Nobody
      <4>1. v = dragged
        BY <3>3, <3>5
      <4> QED
        BY <2>2, <3>1, <3>4, <3>5, <4>1 DEF OnKeyDown
    <3>6. CASE f # Nobody
      <4>1. v = [dragged EXCEPT !.focus[o] = f, !.focus[Root] = o]
        BY <3>3, <3>6
      <4>2. /\ v \in Widgets /\ v.mouse = u.mouse /\ v.at = u.at
            /\ v.dragging = dragged.dragging
            /\ v.focus[Root] = o /\ v.focus[o] = f
        BY <1>1, <2>2, <3>1, <3>4, <3>6, <4>1 DEF Widgets
      <4>3. OnKeyDown(v) = f
        BY <1>1, <2>2, <4>2 DEF OnKeyDown
      <4> QED
        BY <2>2, <3>4, <3>6, <4>2, <4>3
    <3> QED
      BY <3>5, <3>6
  <2>3. CASE o = Nobody \/ ~(Released(b, down) \/ Pressed(b, down))
    <3>1. v = u
      BY <2>3 DEF ButtonEvent, OnMouseUp, OnMouseDown, Released, Pressed, Over
    <3>2. o = Nobody => f = Nobody
      BY DEF FieldOver
    <3> HIDE DEF o, f, v
    <3>3. \A w \in Window : u.dragging[w] \in BOOLEAN
      BY DEF Widgets
    <3>4. o = Nobody => \A w \in Window : w # o
      BY <1>1
    <3>5. \A w \in Window :
            v.dragging[w] = IF w # o THEN u.dragging[w]
                            ELSE IF Pressed(b, down) THEN b = 1
                            ELSE u.dragging[w] /\ ~Released(b, down)
      BY <2>3, <3>1, <3>3, <3>4, Zenon
    <3> QED
      BY <2>3, <3>1, <3>2, <3>5
  <2> QED
    BY <2>1, <2>2, <2>3
<1>3. Over(v) = o
  BY <1>2, Searches DEF Over
<1>4. FieldOver(v) = f
  BY <1>1, <1>2, <1>3, Searches DEF FieldOver
<1> QED
  BY <1>2, <1>3, <1>4

(* What the three buttons of a packet do together.                         *)
LEMMA ButtonsFacts ==
  ASSUME NEW u \in Widgets, NEW down \in SUBSET Button, buttons \subseteq Button
  PROVE  LET v == ButtonEvents(u, down)
         IN  /\ v \in Widgets
             /\ v.mouse = u.mouse /\ v.at = u.at
             /\ \A w \in Window :
                  /\ w # Over(u) => v.dragging[w] = u.dragging[w]
                  /\ v.dragging[w] =>
                       \/ Pressed(1, down)
                       \/ u.dragging[w] /\ (w = Over(u) => ~Released(1, down))
             /\ OnKeyDown(v) = IF down \subseteq buttons \/ FieldOver(u) = Nobody
                               THEN OnKeyDown(u) ELSE FieldOver(u)
<1> DEFINE one == ButtonEvent(u, 1, down)
           two == ButtonEvent(one, 2, down)
           v == ButtonEvent(two, 3, down)
<1>1. /\ one \in Widgets
      /\ one.mouse = u.mouse /\ one.at = u.at
      /\ Over(one) = Over(u) /\ FieldOver(one) = FieldOver(u)
      /\ \A w \in Window :
           one.dragging[w] = IF w # Over(u) THEN u.dragging[w]
                             ELSE IF Pressed(1, down) THEN 1 = 1
                             ELSE u.dragging[w] /\ ~Released(1, down)
      /\ OnKeyDown(one) = IF Pressed(1, down) /\ FieldOver(u) # Nobody
                          THEN FieldOver(u) ELSE OnKeyDown(u)
  BY ButtonEventFacts
<1> HIDE DEF one
<1>2. /\ two \in Widgets
      /\ two.mouse = u.mouse /\ two.at = u.at
      /\ Over(two) = Over(u) /\ FieldOver(two) = FieldOver(u)
      /\ \A w \in Window :
           two.dragging[w] = IF w # Over(u) THEN one.dragging[w]
                             ELSE IF Pressed(2, down) THEN 2 = 1
                             ELSE one.dragging[w] /\ ~Released(2, down)
      /\ OnKeyDown(two) = IF Pressed(2, down) /\ FieldOver(u) # Nobody
                          THEN FieldOver(u) ELSE OnKeyDown(one)
  BY <1>1, ButtonEventFacts
<1> HIDE DEF two
<1>3. /\ v \in Widgets
      /\ v.mouse = u.mouse /\ v.at = u.at
      /\ \A w \in Window :
           v.dragging[w] = IF w # Over(u) THEN two.dragging[w]
                           ELSE IF Pressed(3, down) THEN 3 = 1
                           ELSE two.dragging[w] /\ ~Released(3, down)
      /\ OnKeyDown(v) = IF Pressed(3, down) /\ FieldOver(u) # Nobody
                        THEN FieldOver(u) ELSE OnKeyDown(two)
  BY <1>2, ButtonEventFacts
<1>4. v = ButtonEvents(u, down)
  BY DEF ButtonEvents, one, two
<1> HIDE DEF v
<1>5. down \subseteq buttons
        <=> ~(Pressed(1, down) \/ Pressed(2, down) \/ Pressed(3, down))
  <2>1. down \subseteq 1 .. 3
    BY DesktopAssumption
  <2>2. \A b \in down : b = 1 \/ b = 2 \/ b = 3
    BY <2>1
  <2> QED
    BY <2>2 DEF Pressed
<1>6. OnKeyDown(v) = IF down \subseteq buttons \/ FieldOver(u) = Nobody
                    THEN OnKeyDown(u) ELSE FieldOver(u)
  BY <1>1, <1>2, <1>3, <1>5
<1>7. ASSUME NEW w \in Window
      PROVE  /\ w # Over(u) => v.dragging[w] = u.dragging[w]
             /\ v.dragging[w] => \/ Pressed(1, down)
                                 \/ u.dragging[w] /\ (w = Over(u) => ~Released(1, down))
  <2>1. CASE w # Over(u)
    BY <1>1, <1>2, <1>3, <2>1
  <2>2. CASE w = Over(u)
    <3> 3 # 1 /\ 2 # 1
      OBVIOUS
    <3>1. v.dragging[w] => two.dragging[w]
      BY <1>3, <2>2, Zenon
    <3>2. two.dragging[w] => one.dragging[w]
      BY <1>2, <2>2, Zenon
    <3>3. one.dragging[w] => Pressed(1, down) \/ (u.dragging[w] /\ ~Released(1, down))
      BY <1>1, <2>2
    <3> QED
      BY <2>2, <3>1, <3>2, <3>3
  <2> QED
    BY <2>1, <2>2
<1> QED
  BY <1>3, <1>4, <1>6, <1>7
-----------------------------------------------------------------------------
Typed == ui \in Widgets /\ buttons \subseteq Button

(* With windows on the desktop there is a front one, and a search finds it *)
(* wherever it is.                                                         *)
LEMMA FrontIsWindow ==
  ASSUME Window # {}
  PROVE  Children[Root] # << >> /\ FrontWindow \in Window
<1>1. PICK w : w \in Window
  OBVIOUS
<1>2. Children[Root] \in Seq(Window \cup Field) /\ Range(Children[Root]) = Window
  BY DesktopAssumption
<1>3. PICK i \in DOMAIN Children[Root] : w = Children[Root][i]
  BY <1>1, <1>2 DEF Range
<1>4. 1 \in DOMAIN Children[Root] /\ Children[Root] # << >>
  BY <1>2, <1>3
<1>5. FrontWindow \in Range(Children[Root])
  BY <1>4 DEF Range, FrontWindow
<1> QED
  BY <1>2, <1>4, <1>5

LEMMA FrontFound ==
  ASSUME Window # {}, NEW u, NEW p
  PROVE  ContainsCoordinate(u.at[FrontWindow], Extent[FrontWindow], p)
           <=> ChildAt(u, Root, p) = FrontWindow
<1>1. Children[Root] # << >> /\ FrontWindow # Nobody
  BY FrontIsWindow, Constants
<1>2. ContainsCoordinate(u.at[FrontWindow], Extent[FrontWindow], p)
        => ChildAt(u, Root, p) = FrontWindow
  BY <1>1, ChildAtFound DEF FrontWindow
<1>3. ChildAt(u, Root, p) = FrontWindow
        => ContainsCoordinate(u.at[FrontWindow], Extent[FrontWindow], p)
  BY <1>1, ChildAtFound
<1> QED
  BY <1>2, <1>3

LEMMA InitHolds ==
  Init => Typed /\ KeysReachLastPressed /\ (Window # {} => FrontDragHolds)
<1> SUFFICES ASSUME Init
    PROVE  Typed /\ KeysReachLastPressed /\ (Window # {} => FrontDragHolds)
  OBVIOUS
<1>1. /\ Extent[Root][1] \div 2 \in 0 .. Extent[Root][1] - 1
      /\ Extent[Root][2] \div 2 \in 0 .. Extent[Root][2] - 1
  <2>1. \A n \in Nat \ {0} : n \div 2 \in 0 .. n - 1
    BY SMT
  <2> QED
    BY <2>1, Constants
<1>2. Place \in [Window \cup Field -> Point]
  BY DesktopAssumption DEF Point
<1>3. Typed
  BY <1>1, <1>2 DEF Init, Typed, Widgets
<1>4. KeysReachLastPressed
  BY DEF Init, KeysReachLastPressed, OnKeyDown
<1>5. Window # {} => FrontDragHolds
  <2>1. \A w \in Window : ui.dragging[w] = FALSE
    BY DEF Init
  <2> QED
    BY <2>1, FrontIsWindow DEF FrontDragHolds
<1> QED
  BY <1>3, <1>4, <1>5

(* The packet is handled by the handlers whose facts are stated above.     *)
LEMMA PacketFacts ==
  ASSUME Typed, NEW d \in Moves \cup {<<0, 0>>}, NEW down \in SUBSET Button,
         Packet(d, down)
  PROVE  \E u \in Widgets :
           /\ u.focus = ui.focus /\ u.dragging = ui.dragging
           /\ MovedWithPointer(ui, u)
           /\ \A f \in Field \ Window : u.at[f] = ui.at[f]
           /\ ui' = ButtonEvents(u, down)
           /\ buttons' = down
           /\ past'.grip = IF Over(u) = FrontWindow /\ 1 \in down \ buttons
                           THEN Minus(u.mouse, u.at[FrontWindow]) ELSE past.grip
           /\ past'.pressed = IF down \subseteq buttons \/ FieldOver(u) = Nobody
                              THEN past.pressed ELSE FieldOver(u)
<1> DEFINE u == IF d = <<0, 0>> THEN ui ELSE OnMouseMove(ui, d)
<1>1. /\ ui' = ButtonEvents(u, down)
      /\ buttons' = down
      /\ past' = [grip |-> IF Over(u) = FrontWindow /\ 1 \in down \ buttons
                           THEN Minus(u.mouse, u.at[FrontWindow])
                           ELSE past.grip,
                  pressed |-> IF down \subseteq buttons \/ FieldOver(u) = Nobody
                              THEN past.pressed ELSE FieldOver(u)]
  BY Zenon DEF Packet, Over, FieldOver
<1>2. /\ u \in Widgets
      /\ u.focus = ui.focus /\ u.dragging = ui.dragging
      /\ MovedWithPointer(ui, u)
      /\ \A f \in Field \ Window : u.at[f] = ui.at[f]
  <2>1. CASE d = <<0, 0>>
    BY <2>1 DEF Typed, MovedWithPointer
  <2>2. CASE d # <<0, 0>>
    <3>1. /\ u \in Widgets
          /\ u.focus = ui.focus /\ u.dragging = ui.dragging
          /\ \A w \in Window :
               \/ u.at[w] = ui.at[w]
               \/ /\ ui.dragging[w]
                  /\ u.at[w] = Plus(ui.at[w], Minus(u.mouse, ui.mouse))
          /\ Over(ui) # Nobody /\ ui.dragging[Over(ui)] =>
               u.at[Over(ui)] = Plus(ui.at[Over(ui)], Minus(u.mouse, ui.mouse))
          /\ \A f \in Field \ Window : u.at[f] = ui.at[f]
      BY <2>2, DesktopMoves DEF Typed, Over
    <3> HIDE DEF u
    <3> QED
      BY <3>1, Constants DEF MovedWithPointer, Over
  <2> QED
    BY <2>1, <2>2
<1> HIDE DEF u
<1> QED
  BY <1>1, <1>2

(* A packet keeps the invariants, and moves windows with the pointer only. *)
LEMMA PacketPreserves ==
  ASSUME Typed, KeysReachLastPressed,
         NEW d \in Moves \cup {<<0, 0>>}, NEW down \in SUBSET Button,
         Packet(d, down)
  PROVE  /\ Typed' /\ KeysReachLastPressed'
         /\ Window # {} /\ FrontDragHolds => FrontDragHolds'
         /\ MovedWithPointer(ui, ui')
         /\ \A f \in Field \ Window : ui'.at[f] = ui.at[f]
<1>1. PICK u \in Widgets :
        /\ u.focus = ui.focus /\ u.dragging = ui.dragging
        /\ MovedWithPointer(ui, u)
        /\ \A f \in Field \ Window : u.at[f] = ui.at[f]
        /\ ui' = ButtonEvents(u, down)
        /\ buttons' = down
        /\ past'.grip = IF Over(u) = FrontWindow /\ 1 \in down \ buttons
                        THEN Minus(u.mouse, u.at[FrontWindow]) ELSE past.grip
        /\ past'.pressed = IF down \subseteq buttons \/ FieldOver(u) = Nobody
                           THEN past.pressed ELSE FieldOver(u)
  BY PacketFacts
<1>2. /\ ui' \in Widgets
      /\ ui'.mouse = u.mouse /\ ui'.at = u.at
      /\ \A w \in Window :
           /\ w # Over(u) => ui'.dragging[w] = u.dragging[w]
           /\ ui'.dragging[w] => \/ Pressed(1, down)
                                 \/ u.dragging[w] /\ (w = Over(u) => ~Released(1, down))
      /\ OnKeyDown(ui') = IF down \subseteq buttons \/ FieldOver(u) = Nobody
                          THEN OnKeyDown(u) ELSE FieldOver(u)
  BY <1>1, ButtonsFacts DEF Typed
<1>3. Typed'
  BY <1>1, <1>2 DEF Typed
<1>4. KeysReachLastPressed'
  <2>1. OnKeyDown(u) = OnKeyDown(ui)
    BY <1>1 DEF OnKeyDown
  <2> QED
    BY <1>1, <1>2, <2>1 DEF KeysReachLastPressed
<1>5. MovedWithPointer(ui, ui')
  BY <1>1, <1>2 DEF MovedWithPointer
<1>6. ASSUME Window # {}, FrontDragHolds, ui'.dragging[FrontWindow]
      PROVE  /\ 1 \in buttons'
             /\ Minus(ui'.mouse, ui'.at[FrontWindow]) = past'.grip
             /\ ChildAt(ui', Root, ui'.mouse) = FrontWindow
  <2> DEFINE f == FrontWindow
  <2>1. f \in Window
    BY <1>6, FrontIsWindow
  <2>2. ChildAt(ui', Root, ui'.mouse) = Over(u)
    BY <1>2, Searches DEF Over
  <2> HIDE DEF f
  <2>3. ASSUME ui.dragging[f]
        PROVE  /\ 1 \in buttons
               /\ Minus(u.mouse, u.at[f]) = past.grip
               /\ Over(u) = f
    <3>1. /\ 1 \in buttons
          /\ Minus(ui.mouse, ui.at[f]) = past.grip
          /\ Over(ui) = f
      BY <1>6, <2>3 DEF FrontDragHolds, Over, f
    <3>2. ui.mouse \in Point /\ u.mouse \in Point
          /\ ui.at[f] \in Point /\ u.at[f] \in Point
      <4>1. Extent[Root][1] \in Nat /\ Extent[Root][2] \in Nat
        BY Constants
      <4> QED
        BY <2>1, <4>1 DEF Typed, Widgets, Point
    <3>3. Minus(u.mouse, u.at[f]) = Minus(ui.mouse, ui.at[f])
      <4>1. CASE u.at[f] = ui.at[f] /\ u.mouse = ui.mouse
        BY <4>1
      <4>2. CASE u.at[f] = Plus(ui.at[f], Minus(u.mouse, ui.mouse))
        BY <3>2, <4>2, MovedAlong
      <4> QED
        BY <1>1, <2>1, <2>3, <3>1, <4>1, <4>2 DEF MovedWithPointer, Over
    <3>4. Over(u) = f
      <4>1. ContainsCoordinate(ui.at[f], Extent[f], ui.mouse)
        BY <1>6, <3>1, FrontFound DEF Over, f
      <4>2. ContainsCoordinate(u.at[f], Extent[f], u.mouse)
        <5>1. Extent[f][1] \in Int /\ Extent[f][2] \in Int
          <6>1. Extent[f] \in (Nat \ {0}) \X (Nat \ {0})
            BY <2>1, DesktopAssumption
          <6> QED
            BY <6>1
        <5>2. /\ u.mouse[1] - u.at[f][1] = ui.mouse[1] - ui.at[f][1]
              /\ u.mouse[2] - u.at[f][2] = ui.mouse[2] - ui.at[f][2]
          BY <3>3 DEF Minus
        <5>3. ASSUME NEW k \in 1 .. 2
              PROVE  u.at[f][k] <= u.mouse[k] /\ u.mouse[k] < u.at[f][k] + Extent[f][k]
          <6>1. ui.at[f][k] <= ui.mouse[k] /\ ui.mouse[k] < ui.at[f][k] + Extent[f][k]
            BY <4>1 DEF ContainsCoordinate
          <6>2. k = 1 \/ k = 2
            OBVIOUS
          <6> QED
            BY <3>2, <5>1, <5>2, <6>1, <6>2 DEF Point
        <5> QED
          BY <5>3 DEF ContainsCoordinate
      <4> QED
        BY <1>6, <4>2, FrontFound DEF Over, f
    <3> QED
      BY <3>1, <3>3, <3>4
  <2>4. Over(u) = f
    BY <1>1, <1>2, <1>6, <2>1, <2>3 DEF f
  <2>5. CASE 1 \in down \ buttons
    BY <1>1, <1>2, <2>2, <2>4, <2>5 DEF f
  <2>6. CASE 1 \notin down \ buttons
    <3>1. u.dragging[f] /\ ~Released(1, down)
      BY <1>2, <1>6, <2>1, <2>4, <2>6 DEF f, Pressed
    <3>2. 1 \in down
      BY <1>1, <2>3, <3>1 DEF Released
    <3> QED
      BY <1>1, <1>2, <2>2, <2>3, <2>6, <3>1, <3>2 DEF f
  <2> QED
    BY <2>5, <2>6
<1>7. \A f \in Field \ Window : ui'.at[f] = ui.at[f]
  BY <1>1, <1>2
<1> QED
  BY <1>3, <1>4, <1>5, <1>6, <1>7 DEF FrontDragHolds
-----------------------------------------------------------------------------
IInv == Typed /\ KeysReachLastPressed

LEMMA StepPreserves ==
  ASSUME IInv, [Next]_vars
  PROVE  /\ IInv'
         /\ Window # {} /\ FrontDragHolds => FrontDragHolds'
         /\ MovedWithPointer(ui, ui')
         /\ \A f \in Field \ Window : ui'.at[f] = ui.at[f]
<1>1. CASE Next
  <2>1. PICK d \in Moves \cup {<<0, 0>>} : \E down \in SUBSET Button : Packet(d, down)
    BY <1>1 DEF Next
  <2>2. PICK down \in SUBSET Button : Packet(d, down)
    BY <2>1
  <2> QED
    BY <2>2, PacketPreserves DEF IInv
<1>2. CASE UNCHANGED vars
  BY <1>2 DEF vars, IInv, Typed, KeysReachLastPressed, OnKeyDown, FrontDragHolds,
              MovedWithPointer
<1> QED
  BY <1>1, <1>2

(* The pointer stays on the screen, and what has the focus is a widget.    *)
THEOREM TypeCorrect == Spec => []TypeOK
<1>1. Init => IInv
  BY InitHolds DEF IInv
<1>2. IInv /\ [Next]_vars => IInv'
  BY StepPreserves
<1>3. IInv => TypeOK
  BY DEF IInv, Typed, Widgets, TypeOK, Point
<1> QED
  BY <1>1, <1>2, <1>3, PTL DEF Spec

(* A key reaches the field pressed last, however windows were moved and    *)
(* whatever else was pressed.                                              *)
THEOREM KeysFollowPresses == Spec => []KeysReachLastPressed
<1>1. Init => IInv
  BY InitHolds DEF IInv
<1>2. IInv /\ [Next]_vars => IInv'
  BY StepPreserves
<1>3. IInv => KeysReachLastPressed
  BY DEF IInv
<1> QED
  BY <1>1, <1>2, <1>3, PTL DEF Spec

(* The front window is dragged by the place it was taken at, and gets the  *)
(* release; a desktop has a front window when it has one at all.           *)
THEOREM FrontIsDragged ==
  ASSUME Window # {}
  PROVE  Spec => []FrontDragHolds
<1>1. Init => IInv /\ FrontDragHolds
  BY InitHolds DEF IInv
<1>2. IInv /\ FrontDragHolds /\ [Next]_vars => (IInv /\ FrontDragHolds)'
  BY StepPreserves
<1> QED
  BY <1>1, <1>2, PTL DEF Spec

(* However windows lie and overlap, only one that is being dragged moves,  *)
(* and goes as far as the pointer, once; and one that is dragged and under *)
(* the pointer is never left behind.                                       *)
THEOREM WindowsFollowMouse == Spec => WindowsMoveWithMouse
<1>1. Init => IInv
  BY InitHolds DEF IInv
<1>2. IInv /\ [Next]_vars => IInv'
  BY StepPreserves
<1>3. IInv /\ [Next]_vars => [MovedWithPointer(ui, ui')]_vars
  BY StepPreserves
<1> QED
  BY <1>1, <1>2, <1>3, PTL DEF Spec, WindowsMoveWithMouse
=============================================================================

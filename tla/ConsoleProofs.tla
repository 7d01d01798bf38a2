--------------------------- MODULE ConsoleProofs ---------------------------
(***************************************************************************)
(* Proofs about the text screen, for every width, height and range of      *)
(* movements: neither the cursor of printf nor the mouse can leave the     *)
(* video memory, the mouse leaves no trail, and the text printed is shown. *)
(*                                                                         *)
(* TypeOK and OneCellSwapped together are inductive.  A step swaps cells   *)
(* at the mouse only, and the cursor and the mouse are inside the screen   *)
(* after every step because every test for an edge comes before the place  *)
(* is used again.  That the screen shows the text needs Printed as well:   *)
(* the cursor is where the text leads to, and behind all that is shown.    *)
(***************************************************************************)
EXTENDS Console, FiniteSetTheorems, SequenceTheorems, TLAPS

IInv == TypeOK /\ OneCellSwapped

Places == (0 .. Width - 1) \X (0 .. Height - 1)

(* A place inside the screen is a cell of the video memory.                *)
LEMMA CellInMemory ==
  ASSUME NEW p \in Places
  PROVE  CellAt(p) \in Cell
<1> DEFINE x == p[1]
           y == p[2]
<1>1. /\ x \in Int /\ 0 <= x /\ x <= Width - 1
      /\ y \in Int /\ 0 <= y /\ y <= Height - 1
      /\ Width \in Nat /\ Height \in Nat
  BY ConsoleAssumption DEF Places
<1> HIDE DEF x, y
<1>2. Width * y >= 0 /\ Width * y <= Width * (Height - 1)
  BY <1>1
<1>3. Width * (Height - 1) = Width * Height - Width
  BY <1>1
<1>4. /\ Width * y \in Int /\ Width * Height \in Int
  BY <1>1
<1>5. Width * y + x \in 0 .. Width * Height - 1
  BY <1>1, <1>2, <1>3, <1>4
<1> QED
  BY <1>5 DEF CellAt, Cell, x, y

(* A movement, however fast, ends inside the screen.                       *)
LEMMA BoundedInRange ==
  ASSUME NEW n \in Int, NEW bound \in Nat \ {0}
  PROVE  Bounded(n, bound) \in 0 .. bound - 1
BY DEF Bounded

(* Swapping the colours of one cell leaves characters and other cells.     *)
LEMMA FlipFacts ==
  ASSUME NEW Glyph,
         NEW m \in [Cell -> [char : Glyph, swapped : BOOLEAN]],
         NEW p \in Places
  PROVE  /\ Flip(m, p) \in [Cell -> [char : Glyph, swapped : BOOLEAN]]
         /\ \A c \in Cell : c # CellAt(p) => Flip(m, p)[c] = m[c]
         /\ Flip(m, p)[CellAt(p)].swapped = ~m[CellAt(p)].swapped
<1>1. CellAt(p) \in Cell
  BY CellInMemory
<1>2. m[CellAt(p)] \in [char : Glyph, swapped : BOOLEAN]
  BY <1>1
<1>3. [m[CellAt(p)] EXCEPT !.swapped = ~@] \in [char : Glyph, swapped : BOOLEAN]
  BY <1>2
<1>4. Flip(m, p) = [m EXCEPT ![CellAt(p)] =
                      [m[CellAt(p)] EXCEPT !.swapped = ~@]]
  BY DEF Flip
<1>5. [m[CellAt(p)] EXCEPT !.swapped = ~@].swapped = ~m[CellAt(p)].swapped
  BY <1>2
<1> QED
  BY <1>1, <1>3, <1>4, <1>5

(* The mouse starts in the middle of the screen, and its cell is swapped.  *)
LEMMA InitIInv == Init => IInv
<1> DEFINE Glyph == Char \cup {Blank, Leftover}
           middle == <<Width \div 2, Height \div 2>>
<1> SUFFICES ASSUME Init PROVE IInv
  OBVIOUS
<1>1. middle \in Places /\ <<0, 0>> \in Places
  BY ConsoleAssumption DEF Places
<1>2. Boot \in [Cell -> [char : Glyph, swapped : BOOLEAN]]
  BY DEF Boot
<1>3. /\ mouse = middle /\ cursor = <<0, 0>>
      /\ memory = Flip(Boot, middle)
  BY DEF Init
<1> HIDE DEF middle, Glyph
<1>4. /\ memory \in [Cell -> [char : Glyph, swapped : BOOLEAN]]
      /\ \A c \in Cell : c # CellAt(mouse) => memory[c] = Boot[c]
      /\ memory[CellAt(mouse)].swapped = ~Boot[CellAt(mouse)].swapped
  <2>1. /\ Flip(Boot, middle) \in [Cell -> [char : Glyph, swapped : BOOLEAN]]
        /\ \A c \in Cell : c # CellAt(middle) => Flip(Boot, middle)[c] = Boot[c]
        /\ Flip(Boot, middle)[CellAt(middle)].swapped
             = ~Boot[CellAt(middle)].swapped
    BY <1>1, <1>2, FlipFacts
  <2> QED
    BY <2>1, <1>3
<1>5. TypeOK
  BY <1>1, <1>3, <1>4 DEF TypeOK, Places, Glyph
<1>6. \A c \in Cell : Boot[c].swapped = FALSE
  BY DEF Boot
<1>7. CellAt(mouse) \in Cell
  BY <1>1, <1>3, CellInMemory
<1>8. OneCellSwapped
  BY <1>4, <1>6, <1>7 DEF OneCellSwapped
<1> QED
  BY <1>5, <1>8 DEF IInv

(* A character moves the cursor by one, or to the next line, or back to    *)
(* the beginning, and touches no colours.                                  *)
LEMMA PrintCharKeepsIInv ==
  ASSUME IInv, NEW c \in Char \cup {Newline}, PrintChar(c)
  PROVE  IInv'
<1> DEFINE Glyph == Char \cup {Blank, Leftover}
           Screen == [Cell -> [char : Glyph, swapped : BOOLEAN]]
           written == IF c = Newline THEN memory ELSE Put(memory, cursor, c)
           next == Advanced(cursor, c)
<1>1. /\ memory \in Screen /\ cursor \in Places /\ mouse \in Places
      /\ \A d \in Cell : memory[d].swapped <=> d = CellAt(mouse)
  BY DEF IInv, TypeOK, OneCellSwapped, Places
<1>2. written \in Screen /\ \A d \in Cell : written[d].swapped = memory[d].swapped
  <2>1. CASE c = Newline
    BY <2>1, <1>1
  <2>2. CASE c # Newline
    <3>1. CellAt(cursor) \in Cell /\ c \in Glyph
      BY <1>1, <2>2, CellInMemory
    <3>2. written = [memory EXCEPT ![CellAt(cursor)] =
                       [memory[CellAt(cursor)] EXCEPT !.char = c]]
      BY <2>2 DEF Put
    <3>3. memory[CellAt(cursor)] \in [char : Glyph, swapped : BOOLEAN]
      BY <1>1, <3>1
    <3>4. LET new == [memory[CellAt(cursor)] EXCEPT !.char = c]
          IN  /\ new \in [char : Glyph, swapped : BOOLEAN]
              /\ new.swapped = memory[CellAt(cursor)].swapped
      BY <3>1, <3>3
    <3> QED
      BY <1>1, <3>1, <3>2, <3>4
  <2> QED
    BY <2>1, <2>2
<1>3. \A m \in Screen : /\ Cleared(m) \in Screen
                        /\ \A d \in Cell : Cleared(m)[d].swapped = m[d].swapped
  <2> SUFFICES ASSUME NEW m \in Screen, NEW d \in Cell
               PROVE  LET blank == [m[d] EXCEPT !.char = Blank]
                      IN  /\ blank \in [char : Glyph, swapped : BOOLEAN]
                          /\ blank.swapped = m[d].swapped
    BY DEF Cleared
  <2>1. m[d] \in [char : Glyph, swapped : BOOLEAN]
    OBVIOUS
  <2> QED
    BY <2>1
<1>4. /\ next[1] \in 0 .. Width - 1
      /\ next[2] \in Nat
      /\ next = <<next[1], next[2]>>
  BY <1>1, ConsoleAssumption DEF Advanced, Wrapped, Places
<1>5. /\ memory' = IF next[2] >= Height THEN Cleared(written) ELSE written
      /\ cursor' = IF next[2] >= Height THEN <<0, 0>> ELSE next
      /\ mouse' = mouse
  BY DEF PrintChar
<1> HIDE DEF written, next
<1>6. cursor' \in Places
  BY <1>4, <1>5, ConsoleAssumption DEF Places
<1>7. memory' \in Screen /\ \A d \in Cell : memory'[d].swapped = memory[d].swapped
  BY <1>2, <1>3, <1>5
<1>8. TypeOK'
  BY <1>1, <1>5, <1>6, <1>7 DEF TypeOK, Places, Cell
<1>9. OneCellSwapped'
  BY <1>1, <1>5, <1>7 DEF OneCellSwapped, CellAt, Cell
<1> QED
  BY <1>8, <1>9 DEF IInv

(* The cell the mouse leaves was swapped and is no longer, the cell it     *)
(* reaches was not and is, also where they are the same.                   *)
LEMMA OnMouseMoveKeepsIInv ==
  ASSUME IInv, NEW d \in Movement, OnMouseMove(d)
  PROVE  IInv'
<1> DEFINE Glyph == Char \cup {Blank, Leftover}
           Screen == [Cell -> [char : Glyph, swapped : BOOLEAN]]
           left == Flip(memory, mouse)
           to == <<Bounded(Int8(mouse[1] + d[1]), Width),
                   Bounded(Int8(mouse[2] + d[2]), Height)>>
<1>1. /\ memory \in Screen /\ cursor \in Places /\ mouse \in Places
      /\ \A c \in Cell : memory[c].swapped <=> c = CellAt(mouse)
  BY DEF IInv, TypeOK, OneCellSwapped, Places
<1>2. to \in Places
  <2>1. /\ mouse[1] \in Int /\ mouse[2] \in Int
        /\ d[1] \in Int /\ d[2] \in Int
    BY <1>1, ConsoleAssumption DEF Places, Movement
  <2>2. \A n \in Int : Int8(n) \in Int
    <3> SUFFICES ASSUME NEW n \in Int PROVE Int8(n) \in Int
      OBVIOUS
    <3>1. Half \in Nat /\ Half > 0
      BY ConsoleAssumption
    <3> QED
      BY <3>1 DEF Int8
  <2>3. /\ Int8(mouse[1] + d[1]) \in Int
        /\ Int8(mouse[2] + d[2]) \in Int
    BY <2>1, <2>2
  <2> QED
    BY <2>3, BoundedInRange, ConsoleAssumption DEF Places
<1>3. /\ mouse' = to /\ cursor' = cursor
      /\ memory' = Flip(left, to)
  BY DEF OnMouseMove
<1> HIDE DEF to, left
<1>4. /\ left \in Screen
      /\ \A c \in Cell : left[c].swapped = FALSE
  <2>1. /\ Flip(memory, mouse) \in Screen
        /\ \A c \in Cell : c # CellAt(mouse) => Flip(memory, mouse)[c] = memory[c]
        /\ Flip(memory, mouse)[CellAt(mouse)].swapped = ~memory[CellAt(mouse)].swapped
    BY <1>1, FlipFacts
  <2>2. \A c \in Cell : memory[c].swapped \in BOOLEAN
    BY <1>1
  <2>3. CellAt(mouse) \in Cell
    BY <1>1, CellInMemory
  <2> QED
    BY <1>1, <2>1, <2>2, <2>3 DEF left
<1>5. /\ memory' \in Screen
      /\ \A c \in Cell : c # CellAt(to) => memory'[c] = left[c]
      /\ memory'[CellAt(to)].swapped = ~left[CellAt(to)].swapped
  <2>1. /\ Flip(left, to) \in Screen
        /\ \A c \in Cell : c # CellAt(to) => Flip(left, to)[c] = left[c]
        /\ Flip(left, to)[CellAt(to)].swapped = ~left[CellAt(to)].swapped
    BY <1>2, <1>4, FlipFacts
  <2> QED
    BY <2>1, <1>3
<1>6. CellAt(to) \in Cell
  BY <1>2, CellInMemory
<1>7. TypeOK'
  BY <1>1, <1>2, <1>3, <1>5 DEF TypeOK, Places, Cell
<1>8. OneCellSwapped'
  <2>1. \A c \in Cell : memory'[c].swapped <=> c = CellAt(to)
    BY <1>4, <1>5, <1>6
  <2> QED
    BY <2>1, <1>3 DEF OneCellSwapped, CellAt, Cell
<1> QED
  BY <1>7, <1>8 DEF IInv

-----------------------------------------------------------------------------
(* Where the next character of a text goes depends on the last newline     *)
(* before it and on the lines that have ended.                             *)
LastNewline(s, i) == Max({0} \cup {j \in Newlines(s) : j < i})
Ended(s, i) == {j \in LineEnds(s) : j < i}

(* A character appended to a text moves none of those before it.           *)
LEMMA EarlierPlaces ==
  ASSUME NEW S, NEW s \in Seq(S), NEW c \in S, NEW i \in 1 .. Len(s) + 1
  PROVE  /\ LastNewline(Append(s, c), i) = LastNewline(s, i)
         /\ Column(Append(s, c), i) = Column(s, i)
         /\ Row(Append(s, c), i) = Row(s, i)
<1> DEFINE t == Append(s, c)
<1>1. /\ Len(s) \in Nat /\ DOMAIN s = 1 .. Len(s) /\ DOMAIN t = 1 .. Len(s) + 1
      /\ \A j \in 1 .. Len(s) : t[j] = s[j]
  BY AppendProperties, LenProperties
<1> HIDE DEF t
<1>2. ASSUME NEW k \in 1 .. Len(s) + 1
      PROVE  LastNewline(t, k) = LastNewline(s, k) /\ Stretch(t, k) = Stretch(s, k)
  <2>1. {j \in Newlines(t) : j < k} = {j \in Newlines(s) : j < k}
    BY <1>1 DEF Newlines
  <2> QED
    BY <2>1 DEF LastNewline, Stretch
<1>3. Ended(t, i) = Ended(s, i)
  BY <1>1, <1>2 DEF Ended, LineEnds, Newlines
<1> QED
  BY <1>2, <1>3 DEF t, Column, Row, Ended

(* After a newline a new stretch begins; any other character goes on.      *)
LEMMA NextStretch ==
  ASSUME NEW S, NEW s \in Seq(S), NEW c \in S,
         LastNewline(s, Len(s) + 1) \in 0 .. Len(s)
  PROVE  LastNewline(Append(s, c), Len(s) + 2)
           = IF c = Newline THEN Len(s) + 1 ELSE LastNewline(s, Len(s) + 1)
<1> DEFINE t == Append(s, c)
           n == Len(s) + 1
<1>1. /\ Len(s) \in Nat /\ DOMAIN s = 1 .. Len(s) /\ DOMAIN t = 1 .. n
      /\ t[n] = c /\ \A j \in 1 .. Len(s) : t[j] = s[j]
      /\ n \in Nat /\ n + 1 = Len(s) + 2
  BY AppendProperties, LenProperties
<1> HIDE DEF t
<1>2. CASE c = Newline
  <2> DEFINE T == {0} \cup {j \in Newlines(t) : j < n + 1}
  <2>1. n \in T /\ \A j \in T : j \in Int /\ n >= j
    BY <1>1, <1>2 DEF Newlines
  <2> HIDE DEF T, n
  <2>2. \A x \in T : (\A y \in T : x >= y) => x = n
    BY <2>1
  <2>3. Max(T) = n
    BY <2>1, <2>2 DEF Max
  <2> QED
    BY <2>3, <1>1, <1>2 DEF LastNewline, T, n, t
<1>3. CASE c # Newline
  <2>1. {j \in Newlines(t) : j < n + 1} = {j \in Newlines(s) : j < n}
    BY <1>1, <1>3 DEF Newlines
  <2> QED
    BY <2>1, <1>1, <1>3 DEF LastNewline, t
<1> QED
  BY <1>2, <1>3

(* A line ends with a newline or with the last column.                     *)
LEMMA NextRow ==
  ASSUME NEW S, NEW s \in Seq(S), NEW c \in S
  PROVE  /\ Row(s, Len(s) + 1) \in Nat
         /\ Row(Append(s, c), Len(s) + 2)
              = IF c = Newline \/ Stretch(s, Len(s) + 1) % Width = 0
                THEN Row(s, Len(s) + 1) + 1 ELSE Row(s, Len(s) + 1)
<1> DEFINE t == Append(s, c)
           n == Len(s) + 1
           ends == Ended(s, n)
<1>1. /\ Len(s) \in Nat /\ DOMAIN s = 1 .. Len(s) /\ DOMAIN t = 1 .. n
      /\ t[n] = c /\ \A j \in 1 .. Len(s) : t[j] = s[j]
      /\ n \in Nat /\ n + 1 = Len(s) + 2
  BY AppendProperties, LenProperties
<1>2. \A j \in 1 .. n : Stretch(t, j) = Stretch(s, j)
  BY EarlierPlaces DEF Stretch, LastNewline
<1> HIDE DEF t
<1>3. ends \subseteq 1 .. Len(s)
  BY <1>1 DEF Ended, LineEnds, Newlines
<1>4. IsFiniteSet(ends) /\ Cardinality(ends) \in Nat /\ n \notin ends
  <2>1. IsFiniteSet(1 .. Len(s))
    BY <1>1, FS_Interval
  <2>2. IsFiniteSet(ends)
    BY <2>1, <1>3, FS_Subset
  <2> QED
    BY <2>2, <1>1, <1>3, FS_CardinalityType
<1>5. Ended(t, n + 1) = IF c = Newline \/ Stretch(s, n) % Width = 0
                        THEN ends \cup {n} ELSE ends
  BY <1>1, <1>2 DEF Ended, LineEnds, Newlines
<1>6. Cardinality(ends \cup {n}) = Cardinality(ends) + 1
  BY <1>4, FS_AddElement
<1>7. Row(s, n) = Cardinality(ends) /\ Row(t, n + 1) = Cardinality(Ended(t, n + 1))
  BY DEF Row, Ended
<1> HIDE DEF ends, n
<1> QED
  BY <1>1, <1>4, <1>5, <1>6, <1>7 DEF n, t

(* Counting on by one, w to a line.                                        *)
LEMMA CountOn ==
  ASSUME NEW w \in Nat \ {0}, NEW k \in Nat \ {0}
  PROVE  IF ((k - 1) % w) + 1 >= w
         THEN k % w = 0 ELSE k % w = ((k - 1) % w) + 1
<1> DEFINE q == (k - 1) \div w
           r == (k - 1) % w
           u == k \div w
           v == k % w
<1>1. /\ q \in Int /\ r \in 0 .. w - 1 /\ u \in Int /\ v \in 0 .. w - 1
      /\ k - 1 = (w * q) + r /\ k = (w * u) + v
  OBVIOUS
<1> HIDE DEF q, r, u, v
<1>2. w * (u - q) = (r + 1) - v
  <2>1. w * (u - q) = (w * u) - (w * q)
    BY <1>1
  <2> QED
    BY <1>1, <2>1
<1>3. \A d \in Int : /\ d >= 1 => w * d >= w
                     /\ d >= 2 => w * d >= w + w
                     /\ d <= -1 => w * d <= -w
  <2>1. \A d \in Int : d >= 1 => w * d >= w
    OBVIOUS
  <2>2. \A d \in Int : d >= 2 => w * d >= w + w
    OBVIOUS
  <2>3. \A d \in Int : d <= -1 => w * d <= -w
    OBVIOUS
  <2> QED
    BY <2>1, <2>2, <2>3
<1>4. /\ u - q \in Int
      /\ u - q = 0 => w * (u - q) = 0
      /\ u - q = 1 => w * (u - q) = w
  BY <1>1
<1>5. /\ u - q >= 1 => w * (u - q) >= w
      /\ u - q >= 2 => w * (u - q) >= w + w
      /\ u - q <= -1 => w * (u - q) <= -w
  BY <1>3, <1>4
<1>6. u - q = 0 \/ u - q = 1
  BY <1>1, <1>2, <1>4, <1>5
<1>7. IF r + 1 >= w THEN v = 0 ELSE v = r + 1
  BY <1>1, <1>2, <1>4, <1>6
<1> QED
  BY <1>7 DEF r, v

(* The cursor is where the next character goes, and all the others are in  *)
(* cells before it.                                                        *)
Printed ==
  /\ text \in Seq(Char \cup {Newline})
  /\ \A i \in 1 .. Len(text) + 1 : LastNewline(text, i) \in 0 .. i - 1
  /\ cursor = <<Column(text, Len(text) + 1), Row(text, Len(text) + 1)>>
  /\ \A i \in 1 .. Len(text) : PlaceOf(i) \in Nat /\ PlaceOf(i) < CellAt(cursor)

(* A text of no characters.                                                *)
LEMMA NothingPrinted ==
  /\ LastNewline(<< >>, 1) = 0
  /\ Column(<< >>, 1) = 0 /\ Row(<< >>, 1) = 0
<1>1. Newlines(<< >>) = {} /\ LineEnds(<< >>) = {}
  BY DEF Newlines, LineEnds
<1>2. Max({0}) = 0
  BY DEF Max
<1>3. LastNewline(<< >>, 1) = 0
  <2>1. {0} \cup {j \in Newlines(<< >>) : j < 1} = {0}
    BY <1>1
  <2> QED
    BY <2>1, <1>2 DEF LastNewline
<1>4. Stretch(<< >>, 1) = 1
  BY <1>3 DEF Stretch, LastNewline
<1>5. {j \in LineEnds(<< >>) : j < 1} = {}
  BY <1>1
<1> QED
  BY <1>3, <1>4, <1>5, FS_EmptySet, ConsoleAssumption DEF Column, Row

(* The next place of the text is the one printf moves its cursor to,       *)
(* unless the screen is full.                                              *)
LEMMA CursorFollowsText ==
  ASSUME IInv, Printed, NEW c \in Char \cup {Newline}
  PROVE  LET n == Len(text) + 1
             t == Append(text, c)
         IN  /\ LastNewline(t, n + 1) \in 0 .. n
             /\ Advanced(cursor, c) = <<Column(t, n + 1), Row(t, n + 1)>>
             /\ CellAt(cursor) \in Nat /\ CellAt(Advanced(cursor, c)) \in Nat
             /\ CellAt(cursor) < CellAt(Advanced(cursor, c))
<1> DEFINE n == Len(text) + 1
           t == Append(text, c)
           k == Stretch(text, n)
           col == cursor[1]
           row == cursor[2]
           W == Width
<1>1. /\ Len(text) \in Nat /\ n \in Nat /\ n + 1 = Len(text) + 2
      /\ LastNewline(text, n) \in 0 .. Len(text)
  BY DEF Printed
<1>2. k = n - LastNewline(text, n) /\ k \in Nat \ {0}
  BY <1>1 DEF Stretch, LastNewline
<1>3. LastNewline(t, n + 1) = IF c = Newline THEN n ELSE LastNewline(text, n)
  BY <1>1, NextStretch DEF Printed
<1>4. LastNewline(t, n + 1) \in 0 .. n
  BY <1>1, <1>3
<1>5. Stretch(t, n + 1) = IF c = Newline THEN 1 ELSE k + 1
  BY <1>1, <1>2, <1>3 DEF Stretch, LastNewline
<1>6. /\ cursor = <<col, row>> /\ col = (k - 1) % W /\ row = Row(text, n)
      /\ col \in 0 .. W - 1 /\ row \in Nat
      /\ W \in Nat \ {0}
  BY ConsoleAssumption DEF Printed, Column, IInv, TypeOK
<1>7. Row(t, n + 1) = IF c = Newline \/ k % W = 0 THEN row + 1 ELSE row
  <2>1. text \in Seq(Char \cup {Newline})
    BY DEF Printed
  <2>2. Row(Append(text, c), Len(text) + 2)
          = IF c = Newline \/ Stretch(text, Len(text) + 1) % Width = 0
            THEN Row(text, Len(text) + 1) + 1 ELSE Row(text, Len(text) + 1)
    BY <2>1, NextRow
  <2> QED
    BY <2>2, <1>1, <1>6
<1>8. Column(t, n + 1) = IF c = Newline THEN 0 ELSE k % W
  <2>1. 0 % W = 0
    BY <1>6
  <2>2. (k + 1) - 1 = k /\ 1 - 1 = 0
    BY <1>2
  <2> QED
    BY <1>5, <2>1, <2>2 DEF Column
<1>9. IF col + 1 >= W THEN k % W = 0 ELSE k % W = col + 1
  BY <1>2, <1>6, CountOn
<1> HIDE DEF n, t, k, col, row, W
<1>10. Advanced(cursor, c)
         = IF c = Newline \/ col + 1 >= W THEN <<0, row + 1>> ELSE <<col + 1, row>>
  <2>1. CASE c = Newline
    <3>1. ~(0 >= Width)
      BY <1>6 DEF W
    <3> QED
      BY <2>1, <3>1, <1>6 DEF Advanced, Wrapped
  <2>2. CASE c # Newline
    BY <2>2, <1>6 DEF Advanced, Wrapped, W
  <2> QED
    BY <2>1, <2>2
<1>11. Advanced(cursor, c) = <<Column(t, n + 1), Row(t, n + 1)>>
  <2>1. CASE c = Newline
    BY <2>1, <1>7, <1>8, <1>10
  <2>2. CASE c # Newline /\ col + 1 >= W
    BY <2>2, <1>7, <1>8, <1>9, <1>10
  <2>3. CASE c # Newline /\ ~(col + 1 >= W)
    <3>1. k % W = col + 1 /\ k % W # 0
      BY <2>3, <1>6, <1>9
    <3> QED
      BY <2>3, <3>1, <1>7, <1>8, <1>10
  <2> QED
    BY <2>1, <2>2, <2>3
<1>12. /\ CellAt(cursor) = (W * row) + col
       /\ CellAt(<<0, row + 1>>) = (W * (row + 1)) + 0
       /\ CellAt(<<col + 1, row>>) = (W * row) + (col + 1)
  <2>1. <<0, row + 1>>[1] = 0 /\ <<0, row + 1>>[2] = row + 1
    OBVIOUS
  <2>2. <<col + 1, row>>[1] = col + 1 /\ <<col + 1, row>>[2] = row
    OBVIOUS
  <2> QED
    BY <2>1, <2>2 DEF CellAt, W, col, row
<1>13. /\ W * row \in Nat /\ W * (row + 1) = (W * row) + W
  BY <1>6
<1>14. /\ CellAt(cursor) \in Nat
       /\ CellAt(<<0, row + 1>>) \in Nat /\ CellAt(<<col + 1, row>>) \in Nat
       /\ CellAt(cursor) < CellAt(<<0, row + 1>>)
       /\ CellAt(cursor) < CellAt(<<col + 1, row>>)
  BY <1>6, <1>12, <1>13
<1>15. /\ CellAt(Advanced(cursor, c)) \in Nat
       /\ CellAt(cursor) < CellAt(Advanced(cursor, c))
  BY <1>10, <1>14
<1> QED
  BY <1>4, <1>11, <1>14, <1>15 DEF n, t

(* A character printed goes where the text says and overwrites none before *)
(* it; a full screen is cleared and the text with it.                      *)
LEMMA PrintCharKeepsText ==
  ASSUME IInv, Printed, ShowsText, NEW c \in Char \cup {Newline}, PrintChar(c)
  PROVE  Printed' /\ ShowsText'
<1> DEFINE n == Len(text) + 1
           t == Append(text, c)
           next == Advanced(cursor, c)
           written == IF c = Newline THEN memory ELSE Put(memory, cursor, c)
           PlaceIn(s, i) == CellAt(<<Column(s, i), Row(s, i)>>)
<1>1. /\ memory' = IF next[2] >= Height THEN Cleared(written) ELSE written
      /\ cursor' = IF next[2] >= Height THEN <<0, 0>> ELSE next
      /\ text' = IF next[2] >= Height THEN << >> ELSE t
  BY DEF PrintChar
<1>2. /\ LastNewline(t, n + 1) \in 0 .. n
      /\ next = <<Column(t, n + 1), Row(t, n + 1)>>
      /\ CellAt(cursor) \in Nat /\ CellAt(next) \in Nat
      /\ CellAt(cursor) < CellAt(next)
  BY CursorFollowsText
<1>3. /\ text \in Seq(Char \cup {Newline}) /\ Len(text) \in Nat /\ n \in Nat
      /\ DOMAIN text = 1 .. Len(text)
  BY LenProperties DEF Printed
<1>4. /\ t \in Seq(Char \cup {Newline}) /\ Len(t) = n /\ DOMAIN t = 1 .. n
      /\ t[n] = c /\ \A i \in 1 .. Len(text) : t[i] = text[i]
  BY <1>3, AppendProperties
<1>5. CellAt(cursor) \in Cell
  BY CellInMemory DEF IInv, TypeOK, Places
<1>6. /\ DOMAIN memory = Cell
      /\ \A d \in Cell : memory[d] \in [char : Char \cup {Blank, Leftover},
                                      swapped : BOOLEAN]
  BY DEF IInv, TypeOK
<1>7. /\ DOMAIN written = Cell
      /\ \A d \in Cell :
           written[d].char = IF c # Newline /\ d = CellAt(cursor)
                             THEN c ELSE memory[d].char
  BY <1>5, <1>6 DEF Put
<1> HIDE DEF t, n, next, written
<1>8. CASE next[2] >= Height
  <2>1. /\ text' = << >> /\ cursor' = <<0, 0>> /\ memory' = Cleared(written)
    BY <1>1, <1>8
  <2>2. /\ Len(text') = 0 /\ DOMAIN text' = {} /\ text' \in Seq(Char \cup {Newline})
    BY <2>1
  <2>3. Printed'
    <3>1. \A i \in 1 .. Len(text') + 1 : LastNewline(text', i) \in 0 .. i - 1
      BY <2>1, <2>2, NothingPrinted
    <3>2. cursor' = <<Column(text', Len(text') + 1), Row(text', Len(text') + 1)>>
      BY <2>1, <2>2, NothingPrinted
    <3> QED
      BY <2>2, <3>1, <3>2 DEF Printed
  <2>4. \A d \in Cell : memory'[d].char = Blank
    <3> SUFFICES ASSUME NEW d \in Cell PROVE memory'[d].char = Blank
      OBVIOUS
    <3>1. memory'[d] = [written[d] EXCEPT !.char = Blank]
      BY <2>1 DEF Cleared
    <3>2. "char" \in DOMAIN written[d]
      BY <1>6, <1>5 DEF written, Put
    <3> QED
      BY <3>1, <3>2
  <2>5. ShowsText'
    BY <2>2, <2>4, ConsoleAssumption DEF ShowsText, Shown, Cell
  <2> QED
    BY <2>3, <2>5
<1>9. CASE ~(next[2] >= Height)
  <2>1. text' = t /\ cursor' = next /\ memory' = written
    BY <1>1, <1>9
  <2>2. \A i \in 1 .. n : /\ LastNewline(t, i) = LastNewline(text, i)
                          /\ PlaceIn(t, i) = PlaceIn(text, i)
    BY <1>3, EarlierPlaces DEF n, t
  <2>3. PlaceIn(text, n) = CellAt(cursor)
    BY DEF Printed, n
  <2>4. \A i \in 1 .. Len(text) :
          PlaceIn(text, i) \in Nat /\ PlaceIn(text, i) < CellAt(cursor)
    BY DEF Printed, PlaceOf
  <2>5. \A i : PlaceOf(i) = PlaceIn(text, i) /\ PlaceOf(i)' = PlaceIn(t, i)
    BY <2>1 DEF PlaceOf, CellAt
  <2> HIDE DEF PlaceIn
  <2>6. Printed'
    <3>1. \A i \in 1 .. n + 1 : LastNewline(t, i) \in 0 .. i - 1
      <4>1. \A i \in 1 .. n : LastNewline(text, i) \in 0 .. i - 1
        BY DEF Printed, n
      <4>2. \A i \in 1 .. n : LastNewline(t, i) \in 0 .. i - 1
        BY <4>1, <2>2
      <4>3. (n + 1) - 1 = n
        BY <1>3
      <4>4. \A i \in 1 .. n + 1 : i \in 1 .. n \/ i = n + 1
        BY <1>3
      <4> QED
        BY <4>2, <4>3, <4>4, <1>2
    <3>2. \A i \in 1 .. n : PlaceIn(t, i) \in Nat /\ PlaceIn(t, i) <= CellAt(cursor)
      BY <2>2, <2>3, <2>4, <1>2, <1>3 DEF n
    <3>3. \A a, b, d \in Nat : a <= b /\ b < d => a < d
      OBVIOUS
    <3>4. \A i \in 1 .. n : PlaceIn(t, i) \in Nat /\ PlaceIn(t, i) < CellAt(next)
      BY <3>2, <3>3, <1>2
    <3>5. CellAt(cursor)' = CellAt(next)
      BY <2>1 DEF CellAt
    <3>6. \A i \in 1 .. Len(text)' :
            PlaceOf(i)' \in Nat /\ PlaceOf(i)' < CellAt(cursor)'
      BY <3>4, <3>5, <1>4, <2>1, <2>5
    <3>7. cursor' = <<Column(text', Len(text') + 1), Row(text', Len(text') + 1)>>
      BY <1>2, <1>4, <2>1
    <3>8. /\ text' \in Seq(Char \cup {Newline})
          /\ \A i \in 1 .. Len(text') + 1 : LastNewline(text', i) \in 0 .. i - 1
      BY <3>1, <1>4, <2>1
    <3> QED
      BY <3>6, <3>7, <3>8 DEF Printed
  <2>7. \A i \in 1 .. n : i \in Shown' <=> (i \in Shown \/ (i = n /\ c # Newline))
    <3>1. Shown' = {i \in 1 .. n : t[i] # Newline}
      BY <2>1, <1>4 DEF Shown, Newlines
    <3>2. Shown = {i \in 1 .. Len(text) : text[i] # Newline}
      BY <1>3 DEF Shown, Newlines
    <3>3. n \notin 1 .. Len(text) /\ \A i \in 1 .. n : i \in 1 .. Len(text) \/ i = n
      BY <1>3 DEF n
    <3> QED
      BY <3>1, <3>2, <3>3, <1>4
  <2>8. /\ Shown' \subseteq 1 .. n /\ Shown \subseteq 1 .. Len(text)
        /\ 1 .. Len(text) \subseteq 1 .. n
    BY <1>3, <1>4, <2>1 DEF Shown, n
  <2>9. ASSUME NEW i \in Shown
        PROVE  /\ PlaceIn(t, i) \in Cell /\ PlaceIn(t, i) # CellAt(cursor)
               /\ memory[PlaceIn(t, i)].char = text[i] /\ t[i] = text[i]
    <3>1. /\ PlaceIn(text, i) \in Nat /\ PlaceIn(text, i) < CellAt(cursor)
          /\ PlaceIn(t, i) = PlaceIn(text, i)
      BY <2>2, <2>4, <2>8
    <3>2. \A a, b \in Nat : a < b /\ b \in Cell => a \in Cell /\ a # b
      BY ConsoleAssumption DEF Cell
    <3>3. memory[PlaceIn(text, i)].char = text[i]
      BY <2>5 DEF ShowsText
    <3> QED
      BY <3>1, <3>2, <3>3, <1>2, <1>4, <1>5, <2>8
  <2>10. PlaceIn(t, n) = CellAt(cursor) /\ n \in 1 .. n
    BY <2>2, <2>3, <1>3 DEF n
  <2>11. \A i \in Shown' : memory'[PlaceIn(t, i)].char = t[i]
    BY <1>4, <1>5, <1>7, <2>1, <2>7, <2>8, <2>9, <2>10
  <2>12. ASSUME NEW d \in Cell, memory'[d].char \in Char
         PROVE  \E i \in Shown' : d = PlaceIn(t, i)
    <3>1. CASE c # Newline /\ d = CellAt(cursor)
      BY <3>1, <2>7, <2>10
    <3>2. CASE ~(c # Newline /\ d = CellAt(cursor))
      <4>1. memory[d].char \in Char
        BY <3>2, <2>12, <1>7, <2>1
      <4>2. PICK i \in Shown : d = PlaceOf(i)
        BY <4>1 DEF ShowsText
      <4> QED
        BY <4>2, <2>2, <2>5, <2>7, <2>8
    <3> QED
      BY <3>1, <3>2
  <2>13. ShowsText'
    BY <2>1, <2>5, <2>11, <2>12 DEF ShowsText, Cell
  <2> QED
    BY <2>6, <2>13
<1> QED
  BY <1>8, <1>9

(* Swapped colours change no character.                                    *)
LEMMA OnMouseMoveKeepsText ==
  ASSUME IInv, Printed, ShowsText, NEW d \in Movement, OnMouseMove(d)
  PROVE  Printed' /\ ShowsText'
<1>1. UNCHANGED <<cursor, text>>
  BY DEF OnMouseMove
<1> DEFINE Screen == [Cell -> [char : Char \cup {Blank, Leftover},
                                swapped : BOOLEAN]]
<1>2. ASSUME NEW m \in Screen, NEW p \in Places
      PROVE  Flip(m, p) \in Screen /\ \A c \in Cell : Flip(m, p)[c].char = m[c].char
  <2>1. Flip(m, p) \in Screen
    BY FlipFacts
  <2>2. ASSUME NEW c \in Cell
        PROVE  Flip(m, p)[c].char = m[c].char
    <3>1. /\ m[c] \in [char : Char \cup {Blank, Leftover}, swapped : BOOLEAN]
          /\ DOMAIN m = Cell
      OBVIOUS
    <3>2. Flip(m, p)[c] \in {m[c], [m[c] EXCEPT !.swapped = ~@]}
      BY <3>1 DEF Flip
    <3> QED
      BY <3>1, <3>2
  <2> QED
    BY <2>1, <2>2
<1>3. memory \in Screen /\ mouse \in Places
  BY DEF IInv, TypeOK, Places
<1>4. \A c \in Cell : memory'[c].char = memory[c].char
  <2> DEFINE to == <<Bounded(Int8(mouse[1] + d[1]), Width),
                     Bounded(Int8(mouse[2] + d[2]), Height)>>
  <2>1. to \in Places
    <3>1. IInv'
      BY OnMouseMoveKeepsIInv
    <3>2. mouse' = to
      BY DEF OnMouseMove
    <3> QED
      BY <3>1, <3>2 DEF IInv, TypeOK, Places
  <2>2. memory' = Flip(Flip(memory, mouse), to)
    BY DEF OnMouseMove
  <2> HIDE DEF to, Screen
  <2>3. /\ Flip(memory, mouse) \in Screen
        /\ \A c \in Cell : Flip(memory, mouse)[c].char = memory[c].char
    BY <1>2, <1>3
  <2>4. \A c \in Cell : Flip(Flip(memory, mouse), to)[c].char
                          = Flip(memory, mouse)[c].char
    BY <2>1, <2>3, <1>2
  <2> QED
    BY <2>2, <2>3, <2>4
<1>5. Printed'
  BY <1>1 DEF Printed, LastNewline, PlaceOf, Column, Row, Stretch, CellAt
<1>6. \A i \in Shown : PlaceOf(i) \in Cell
  <2>1. CellAt(cursor) \in Cell
    BY CellInMemory DEF IInv, TypeOK, Places
  <2>2. \A a, b \in Int : 0 <= a /\ a < b /\ b \in Cell => a \in Cell
    BY ConsoleAssumption DEF Cell
  <2>3. Shown \subseteq 1 .. Len(text)
    BY LenProperties DEF Printed, Shown
  <2>4. CellAt(cursor) \in Int
    BY <2>1 DEF Cell
  <2> QED
    BY <2>1, <2>2, <2>3, <2>4 DEF Printed
<1>7. Shown' = Shown /\ \A i : PlaceOf(i)' = PlaceOf(i)
  BY <1>1 DEF Shown, PlaceOf, Newlines, Column, Row, CellAt
<1> QED
  BY <1>1, <1>4, <1>5, <1>6, <1>7 DEF ShowsText, Cell

-----------------------------------------------------------------------------
(* The whole invariant: none of the text is lost because what is shown is  *)
(* all before the cursor.                                                  *)
Inv == IInv /\ Printed /\ ShowsText

LEMMA InitHolds == Init => Inv
<1> SUFFICES ASSUME Init PROVE Printed /\ ShowsText
  BY InitIInv DEF Inv
<1>1. text = << >> /\ cursor = <<0, 0>>
  BY DEF Init
<1>2. Len(text) = 0 /\ DOMAIN text = {} /\ text \in Seq(Char \cup {Newline})
  BY <1>1
<1>3. Printed
  <2>1. \A i \in 1 .. Len(text) + 1 : LastNewline(text, i) \in 0 .. i - 1
    BY <1>1, <1>2, NothingPrinted
  <2>2. cursor = <<Column(text, Len(text) + 1), Row(text, Len(text) + 1)>>
    BY <1>1, <1>2, NothingPrinted
  <2> QED
    BY <1>2, <2>1, <2>2 DEF Printed
<1>4. \A d \in Cell : memory[d].char = Leftover
  BY DEF Init, Boot, Flip
<1> QED
  BY <1>2, <1>3, <1>4, ConsoleAssumption DEF ShowsText, Shown

THEOREM Invariance == Spec => []Inv
<1>1. Inv /\ [Next]_vars => Inv'
  <2> SUFFICES ASSUME Inv, [Next]_vars PROVE Inv'
    OBVIOUS
  <2>1. CASE \E c \in Char \cup {Newline} : PrintChar(c)
    BY <2>1, PrintCharKeepsIInv, PrintCharKeepsText DEF Inv
  <2>2. CASE \E d \in Movement : OnMouseMove(d)
    BY <2>2, OnMouseMoveKeepsIInv, OnMouseMoveKeepsText DEF Inv
  <2>3. CASE UNCHANGED vars
    <3>1. IInv'
      BY <2>3 DEF vars, Inv, IInv, TypeOK, OneCellSwapped, CellAt, Cell
    <3>2. Printed'
      BY <2>3 DEF vars, Inv, Printed, LastNewline, PlaceOf, Column, Row, Stretch,
         CellAt
    <3>3. /\ Shown' = Shown /\ \A i : PlaceOf(i)' = PlaceOf(i)
          /\ memory' = memory /\ text' = text
      BY <2>3 DEF vars, Shown, PlaceOf, Newlines, Column, Row, CellAt
    <3>4. ShowsText'
      BY <3>3 DEF Inv, ShowsText, Cell
    <3> QED
      BY <3>1, <3>2, <3>4 DEF Inv
  <2> QED
    BY <2>1, <2>2, <2>3 DEF Next
<1> QED
  BY <1>1, InitHolds, PTL DEF Spec

(* The cursor of printf and the mouse are always inside the screen: no     *)
(* write of printf or MouseToConsole misses the video memory.              *)
THEOREM TypeCorrect == Spec => []TypeOK
BY Invariance, PTL DEF Inv, IInv

(* Whatever is printed and however the mouse moves, exactly the cell under *)
(* the mouse has its colours swapped.                                      *)
THEOREM NoTrail == Spec => []OneCellSwapped
BY Invariance, PTL DEF Inv, IInv

(* Every character printed since the screen was last cleared (kernel.cpp,  *)
(* printf) is on the screen, on the line and in the column its text leads  *)
(* to, and no other character of a text is: none was overwritten, and none *)
(* is left over from before.                                               *)
THEOREM TextOnScreen == Spec => []ShowsText
BY Invariance, PTL DEF Inv
=============================================================================

------------------------------- MODULE MCPs2 -------------------------------
(***************************************************************************)
(* Two keys, one of them without a character, up to two pressed and one    *)
(* left over from before, and up to two packets of the mouse.  Two buses   *)
(* of two devices, with a slot of every kind SelectDrivers tells apart.    *)
(***************************************************************************)
EXTENDS Boot

CONSTANTS
  empty,      \* nobody answers
  plain,      \* one function, which answers under all eight numbers
  several,    \* functions 0 and 3 of a device with several
  headless,   \* function 2 only, of a device with several
  bridge      \* one function with the header of a bridge: two registers

(* 0x1E, the letter a, and 0x01, which the driver has no case for.         *)
MCKey == {{1, 2, 3, 4}, {0}}
MCKnown == {{1, 2, 3, 4}}
MCStale == {<< >>, <<{1, 2, 3, 4}>>}

MCNoKeys == {<< >>}

MCNone == {empty}
MCSlot == {empty, plain, several, headless, bridge}
MCFunction ==
  empty :> {} @@ plain :> {0} @@ several :> {0, 3} @@ headless :> {2}
    @@ bridge :> {0}

(* A configuration space of which vendor, header type and the first three  *)
(* base address registers are in use: for I/O, for memory, for I/O.        *)
Space(vendor, header) ==
  [r \in 0 .. 63 |->
     CASE r \in {0, 1} -> vendor
       [] r = 14 -> header
       [] r = 16 -> 1
       [] r = 17 -> 16
       [] r = 21 -> 32
       [] r = 24 -> 5
       [] OTHER -> 0]
Nobody == [r \in 0 .. 63 |-> 255]
NoVendor == Space(0, 0)

MCConfig ==
  empty :> [f \in 0 .. 7 |-> Nobody]
    @@ plain :> [f \in 0 .. 7 |-> Space(34, 0)]
    @@ several :> [f \in 0 .. 7 |->
                     IF f \in {0, 3} THEN Space(34, 128) ELSE NoVendor]
    @@ headless :> [f \in 0 .. 7 |-> IF f = 2 THEN Space(34, 0) ELSE Nobody]
    @@ bridge :> [f \in 0 .. 7 |-> Space(34, 1)]

MCGarbage ==
  [type : {"InputOutput", "MemoryMapping"}, address : {<<7, 7, 7, 7>>}]
=============================================================================

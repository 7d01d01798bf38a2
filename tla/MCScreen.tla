------------------------------ MODULE MCScreen ------------------------------
(***************************************************************************)
(* Two windows that overlap on a screen of one row of three pixels, a      *)
(* field in the front one, and one button, in the colours of kernelMain.   *)
(* Words of 64 values hold every coordinate a widget can reach.            *)
(***************************************************************************)
EXTENDS Screen

CONSTANTS desktop, win1, win2, field1

MCWindow == {win1, win2}
MCField == {field1}
MCChildren == desktop :> <<win1, win2>> @@ win1 :> <<field1>> @@ win2 :> << >>
MCPlace == win1 :> <<0, 0>> @@ win2 :> <<1, 0>> @@ field1 :> <<1, 0>>
MCExtent ==
  desktop :> <<3, 1>> @@ win1 :> <<2, 1>> @@ win2 :> <<2, 1>> @@ field1 :> <<1, 1>>
MCPaint ==
  desktop :> <<0, 0, 168>> @@ win1 :> <<168, 0, 0>> @@ win2 :> <<0, 168, 0>>
    @@ field1 :> <<255, 255, 255>>
MCButton == {1}
(* No byte of the mode's table is 26 or 154: a register that is not        *)
(* written shows.  They differ in the bit the timing registers depend on.  *)
MCLeft ==
  {[misc |-> 26, expects |-> expects, index |-> 26, on |-> on,
    reg |-> [g \in Group |->
               [i \in Index(g) |->
                  CASE g = "crtc" /\ i = 3  -> three
                    [] g = "crtc" /\ i = 17 -> seventeen
                    [] OTHER -> rest]]] :
     expects \in {"index", "value"}, on \in BOOLEAN,
     three \in {26, 154}, seventeen \in {26, 154}, rest \in {26, 154}}
MCMoves == {<<-4, 0>>, <<4, 0>>}
=============================================================================

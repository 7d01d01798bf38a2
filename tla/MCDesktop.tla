----------------------------- MODULE MCDesktop -----------------------------
(***************************************************************************)
(* Two overlapping windows on a screen of 3 by 2 pixels, the back one with *)
(* room behind the front one and each with one field.  A packet can move   *)
(* the pointer by less than a pixel, by one, and by more than the screen   *)
(* is wide.                                                                *)
(***************************************************************************)
EXTENDS Desktop

CONSTANTS desktop, win1, win2, field1, field2

MCWindow == {win1, win2}
MCField == {field1, field2}
MCChildren == desktop :> <<win1, win2>> @@ win1 :> <<field1>> @@ win2 :> <<field2>>
MCPlace ==
  win1 :> <<0, 0>> @@ win2 :> <<1, 0>> @@ field1 :> <<1, 0>> @@ field2 :> <<1, 1>>
MCExtent ==
  desktop :> <<3, 2>> @@ win1 :> <<2, 1>> @@ win2 :> <<2, 2>> @@
  field1 :> <<1, 1>> @@ field2 :> <<1, 1>>
MCButton == {1, 2}
MCMoves == {<<-7, 3>>, <<4, -4>>, <<127, 5>>}
=============================================================================

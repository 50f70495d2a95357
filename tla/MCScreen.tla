------------------------------- MODULE MCScreen -------------------------------
(***************************************************************************)
(* An instance of Screen: the pointer visits a corner of the border and    *)
(* the end of the last row of the text, which a scroll copies.             *)
(***************************************************************************)
EXTENDS Screen

MCPlaces == {<<0, 0>>, <<SCROLL_X1, SCROLL_Y1>>}
=============================================================================

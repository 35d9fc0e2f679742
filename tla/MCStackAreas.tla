----------------------------- MODULE MCStackAreas -----------------------------
(* Two areas of two sub-chunks of two slots; one slot is used in each of the *)
(* sub-chunks of the first area, and one in the second area.                 *)
EXTENDS StackAreas

MCUsed == {0, 3, 5}
MCWords == {<< 0, FALSE >>, << 1, FALSE >>, << 1, TRUE >>}
===============================================================================

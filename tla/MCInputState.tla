----------------------------- MODULE MCInputState -----------------------------
(* A picture at one and a half times its size; the pointer inside, on the far *)
(* edge, and outside on both sides.                                           *)
EXTENDS InputState

MCZoom == <<3, 2>>
MCPositions == {-1, 3, 6}
===============================================================================

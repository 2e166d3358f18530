------------------------------ MODULE MCRectangles ------------------------------
(* Instances of Rectangles for TLC: a desktop of 4 x 3 pixels; formats of one,  *)
(* two and four bytes, of either byte order; solid, striped and mixed drawings. *)
EXTENDS Rectangles

A == <<255, 0, 0>>
B == <<0, 255, 255>>
C == <<255, 255, 0>>

MCRects    == {<<0, 0, 4, 2>>, <<0, 1, 3, 2>>, <<1, 0, 2, 3>>}
MCDrawings == {<<A, A, A, A, A, A, A, A>>, <<A, B, A, A, B, A, A, A>>, <<B, B, B, B, C, C, B, A>>,
               <<C, A, B, B, A, C, A, C>>}
MCFormats  == {[bpp |-> 1, big |-> FALSE, max |-> <<7, 7, 3>>, shift |-> <<0, 3, 6>>],
               [bpp |-> 2, big |-> TRUE, max |-> <<31, 63, 31>>, shift |-> <<11, 5, 0>>],
               [bpp |-> 4, big |-> FALSE, max |-> <<255, 255, 255>>, shift |-> <<0, 8, 16>>]}
\* Control bytes that read the same from either nibble; those of basic compression
\* without resets, of a fill and of a JPEG; and of basic compression in other streams.
MCAgreed   == {0, 17, 34, 68, 85, 119, 136, 153}
MCPlain    == {0, 128, 144}
MCControls == MCAgreed \cup MCPlain \cup {16, 96}
MCAll      == {"raw", "copyrect", "hextile", "zrle", "tight"}
MCZrle     == {"zrle"}
MCTight    == {"tight"}
MCSmall    == {2}
MCAnySize  == 2 .. 16
===============================================================================

-------------------------------- MODULE Hextile --------------------------------
(***************************************************************************)
(* One tile of a Hextile rectangle as hextile.rs reads it, with the        *)
(* background and foreground it leaves to the next tile, and ways RFB 7.7.4 *)
(* lets a server write it.  bg and fg are the bytes of one pixel.          *)
(***************************************************************************)
EXTENDS PixelFormat, SequencesExt, FiniteSetsExt

CONSTANT HexSide       \* 16

ASSUME HexSideAssumption == HexSide \in 1 .. 16

\* The bits of the subencoding.
Raw == 1
BgSpecified == 2
FgSpecified == 4
AnySubrects == 8
SubrectsColoured == 16
Flag(byte, bit) == (byte \div bit) % 2 = 1

HexColour(bytes, f) == ToRgb(ReadPixel(bytes, f.big), f)

\* A subrectangle's place and size, of its two bytes, and whether it covers a
\* pixel of the tile; what lies outside the tile is not painted.
Side_NotPlusOne(nibble) == nibble
Side(nibble) == nibble + 1
Covers(xy, wh, i, w) ==
    /\ (i - 1) % w    \in xy \div 16 .. xy \div 16 + Side(wh \div 16) - 1
    /\ (i - 1) \div w \in xy % 16 .. (xy % 16) + Side(wh % 16) - 1

\* The tile of w * h pixels that starts at raw[p], after tiles that left bg and fg.
HexTile(raw, p, w, h, f, bg, fg) ==
    LET k == f.bpp
        n == w * h
        sub == raw[p]
        fgAt   == p + 1 + (IF Flag(sub, BgSpecified) THEN k ELSE 0)
        listAt == fgAt + (IF Flag(sub, FgSpecified) THEN k ELSE 0)
        bg2 == IF Flag(sub, BgSpecified) THEN SubSeq(raw, p + 1, p + k) ELSE bg
        fg2 == IF Flag(sub, FgSpecified) THEN SubSeq(raw, fgAt, fgAt + k - 1) ELSE fg
        coloured == Flag(sub, SubrectsColoured)
        size  == 2 + (IF coloured THEN k ELSE 0)
        rects == IF Flag(sub, AnySubrects) THEN raw[listAt] ELSE 0
        at(s) == listAt + 1 + (s - 1) * size
        over(i) == {s \in 1 .. rects : Covers(raw[at(s) + size - 2], raw[at(s) + size - 1], i, w)}
        paint(s) == IF coloured THEN SubSeq(raw, at(s), at(s) + k - 1) ELSE fg2
        pixel(i) == HexColour(IF over(i) = {} THEN bg2 ELSE paint(Max(over(i))), f)
        end == IF Flag(sub, AnySubrects) THEN at(rects + 1) ELSE listAt
    IN  IF Flag(sub, Raw)
        THEN [px |-> Rgbs(raw, p + 1, k, n, f), next |-> p + 1 + n * k, bg |-> bg, fg |-> fg]
        ELSE [px |-> [i \in 1 .. n |-> pixel(i)], next |-> end, bg |-> bg2, fg |-> fg2]

-----------------------------------------------------------------------------
(* The server: not the repository's.  It knows the bg and fg of the last    *)
(* tile by their colours, none after a raw tile and at the beginning.      *)

NoColour == <<>>
Subrect(i, w, len) == <<((i - 1) % w) * 16 + (i - 1) \div w, (len - 1) * 16>>

\* The pixels not of colour b, one by one, and after one subrect over all.
Singles(px, w, b) ==
    LET cells == SetToSortSeq({i \in 1 .. Len(px) : px[i] # b}, <)
    IN  [m \in DOMAIN cells |-> [rgb |-> px[cells[m]], is |-> Subrect(cells[m], w, 1)]]
Whole(px, w, b) ==
    <<[rgb |-> b, is |-> <<0, (w - 1) * 16 + Len(px) \div w - 1>>]>> \o Singles(px, w, b)

\* A tile of background b with a list of subrects; `fgKnown` is the server's fg.
HexWriting(b, list, f, bgKnown, fgKnown) ==
    LET one  == list # <<>> /\ \A m \in DOMAIN list : list[m].rgb = list[1].rgb
        newB == b # bgKnown
        newF == one /\ list[1].rgb # fgKnown
        sub  == (IF newB THEN BgSpecified ELSE 0) + (IF newF THEN FgSpecified ELSE 0)
                + (IF list # <<>> THEN AnySubrects ELSE 0)
                + (IF list # <<>> /\ ~one THEN SubrectsColoured ELSE 0)
        item(s) == (IF one THEN <<>> ELSE PixelBytes(s.rgb, f, f.bpp)) \o s.is
    IN  [bytes |-> <<sub>> \o (IF newB THEN PixelBytes(b, f, f.bpp) ELSE <<>>)
                    \o (IF newF THEN PixelBytes(list[1].rgb, f, f.bpp) ELSE <<>>)
                    \o (IF list # <<>> THEN <<Len(list)>> ELSE <<>>)
                    \o FlattenSeq([m \in DOMAIN list |-> item(list[m])]),
         bg |-> b, fg |-> IF one THEN list[1].rgb ELSE fgKnown]

HexWritings(px, w, f, bgKnown, fgKnown) ==
    {[bytes |-> <<Raw>> \o Written(px, f, f.bpp), bg |-> NoColour, fg |-> NoColour]}
    \cup {HexWriting(b, Singles(px, w, b), f, bgKnown, fgKnown) : b \in Range(px)}
    \cup {HexWriting(b, Whole(px, w, c), f, bgKnown, fgKnown) :
             b \in {bgKnown} \ {NoColour}, c \in Range(px)}
===============================================================================

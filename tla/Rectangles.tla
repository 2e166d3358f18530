------------------------------- MODULE Rectangles -------------------------------
(***************************************************************************)
(* Rectangles of a framebuffer update as bytes: a server that follows RFB   *)
(* writes them in an encoding of its choice, the client decodes them into   *)
(* its framebuffer (raw.rs, copyrect.rs, hextile.rs, zrle.rs, tight.rs,     *)
(* framebuffer.rs).  A framebuffer is the sequence of its pixels, row by    *)
(* row.  VncSession has everything around it: when updates are asked for,   *)
(* resizes, and the way of the pixels to the screen.                       *)
(***************************************************************************)
EXTENDS Zrle, Hextile, Tight

CONSTANTS
    Width, Height,     \* of the desktop
    Encodings,         \* those the server uses
    Rects,             \* bound: the places of its rectangles, <<x, y, w, h>>
    Drawings,          \* bound: what it draws, sequences of colours, cut to size
    Formats,           \* its pixel formats
    Controls,          \* its control bytes in Tight
    PackedSizes,       \* the sizes of its packed palettes in ZRLE
    MaxRects           \* bound: how many rectangles it sends

ASSUME SizeAssumption == Width \in Nat \ {0} /\ Height \in Nat \ {0}
ASSUME RectsAssumption ==
    \A r \in Rects : /\ r \in Nat \X Nat \X (Nat \ {0}) \X (Nat \ {0})
                     /\ r[1] + r[3] <= Width /\ r[2] + r[4] <= Height
                     /\ \A d \in Drawings : Len(d) >= r[3] * r[4]
\* The server draws what its pixel format shows exactly.
ASSUME DrawingsAssumption ==
    \A d \in Drawings : d \in Seq(Colours) /\ \A i \in 1 .. Len(d), f \in Formats : Exact(d[i], f)
ASSUME FormatsAssumption == \A f \in Formats : f.bpp \in {1, 2, 4} /\ f.big \in BOOLEAN
ASSUME ControlsAssumption == Controls \subseteq 0 .. 255
ASSUME MaxRectsAssumption == MaxRects \in Nat

VARIABLES
    format,
    screen, serverZ, serverZrle,     \* the server's desktop and zlib streams
    pixels, ok, tight, zrle,         \* the client's, and whether it decoded all
    sent                             \* how many rectangles there were
\* A ghost: the server has sent a Tight rectangle that the client reads otherwise than
\* RFB has it: a control byte of two different nibbles, or compressed data of
\* MinToCompress bytes.
VARIABLE disputed

vars == <<format, screen, serverZ, serverZrle, pixels, ok, tight, zrle, sent, disputed>>

-----------------------------------------------------------------------------
(* framebuffer.rs                                                          *)

\* blit_rgba: row by row, up to the first that does not fit.
BlitRgba(old, x, y, w, h, data) ==
    LET start(row) == (y + row) * Width + x
        copied(i)  == {row \in 0 .. h - 1 :
                          /\ y + row < Height
                          /\ start(row) + w <= Len(old) /\ (row + 1) * w <= Len(data)
                          /\ i \in start(row) + 1 .. start(row) + w}
    IN  [i \in DOMAIN old |-> IF copied(i) = {} THEN old[i]
                              ELSE data[Max(copied(i)) * w + i - start(Max(copied(i)))]]

\* copy_rect: all rows are read before the first is written.
RowOf(src, x, y, w) == SubSeq(src, y * Width + x + 1, y * Width + x + w)
CopyRect_InPlace(old, x, y, sx, sy, w, h) ==
    FoldLeft(LAMBDA fb, row : BlitRgba(fb, x, y + row, w, 1, RowOf(fb, sx, sy + row, w)),
             old, [i \in 1 .. h |-> i - 1])
CopyRect(old, x, y, sx, sy, w, h) ==
    LET read == IF sy + h <= Height THEN h ELSE Height - sy
        rows == [i \in 1 .. read |-> RowOf(old, sx, sy + i - 1, w)]
    IN  BlitRgba(old, x, y, w, read,
                 [i \in 1 .. w * read |-> rows[1 + (i - 1) \div w][1 + ((i - 1) % w)]])

-----------------------------------------------------------------------------
(* The loops over tiles, row by row.                                       *)

Tiles(w, h, side) ==
    LET across == (w + side - 1) \div side
        down   == (h + side - 1) \div side
    IN  [t \in 1 .. across * down |->
            LET tx == ((t - 1) % across) * side
                ty == ((t - 1) \div across) * side
            IN  [x |-> tx, y |-> ty, w |-> Min({side, w - tx}), h |-> Min({side, h - ty})]]

\* decode_tiles, on the inflated bytes, for a rectangle at x, y.
DecodeZrle(raw, fb, x, y, w, h) ==
    FoldLeft(LAMBDA acc, t :
                 LET d == ZrleTile(raw, acc.next, t.w, t.h, format)
                 IN  IF ~acc.ok \/ ~d.ok THEN [acc EXCEPT !.ok = FALSE]
                     ELSE [ok |-> TRUE, next |-> d.next,
                           fb |-> BlitRgba(acc.fb, x + t.x, y + t.y, t.w, t.h, d.px)],
             [ok |-> TRUE, next |-> 1, fb |-> fb], Tiles(w, h, TileSide))

\* hextile::decode; bg and fg last from tile to tile.
AfterTile_Forgotten(d, zero) == [bg |-> zero, fg |-> zero]
AfterTile(d, zero) == [bg |-> d.bg, fg |-> d.fg]
DecodeHextile(raw, fb, x, y, w, h) ==
    LET zero == [i \in 1 .. format.bpp |-> 0]
    IN  FoldLeft(LAMBDA acc, t :
                     LET d == HexTile(raw, acc.next, t.w, t.h, format, acc.left.bg, acc.left.fg)
                     IN  [next |-> d.next, left |-> AfterTile(d, zero),
                          fb |-> BlitRgba(acc.fb, x + t.x, y + t.y, t.w, t.h, d.px)],
                 [next |-> 1, left |-> [bg |-> zero, fg |-> zero], fb |-> fb],
                 Tiles(w, h, HexSide))

-----------------------------------------------------------------------------
(* The rectangles.                                                         *)

\* What the server draws in a rectangle, of a tile, and on its desktop.
Cut(drawing, r) == SubSeq(drawing, 1, r[3] * r[4])
TilePixels(px, r, t) ==
    [i \in 1 .. t.w * t.h |-> px[(t.y + (i - 1) \div t.w) * r[3] + t.x + 1 + ((i - 1) % t.w)]]
Drawn(r, px) ==
    [i \in DOMAIN screen |->
        LET col == ((i - 1) % Width) - r[1]
            row == (i - 1) \div Width - r[2]
        IN  IF col \in 0 .. r[3] - 1 /\ row \in 0 .. r[4] - 1
            THEN px[row * r[3] + col + 1] ELSE screen[i]]

Sends(r, px) ==
    /\ sent < MaxRects /\ sent' = sent + 1
    /\ screen' = Drawn(r, px)
    /\ UNCHANGED format

\* decode of raw.rs.
RawRect ==
    \E r \in Rects, d \in Drawings :
        LET px  == Cut(d, r)
            buf == Written(px, format, format.bpp)
        IN  /\ "raw" \in Encodings
            /\ Sends(r, px)
            /\ pixels' = BlitRgba(pixels, r[1], r[2], r[3], r[4],
                                  Rgbs(buf, 1, format.bpp, r[3] * r[4], format))
            /\ UNCHANGED <<serverZ, serverZrle, ok, tight, zrle, disputed>>

\* decode of copyrect.rs: the rectangle r is moved to where to is.
CopyRectRect ==
    \E r \in Rects, to \in Rects :
        LET moved == [i \in 1 .. r[3] * r[4] |->
                         screen[(r[2] + (i - 1) \div r[3]) * Width + r[1] + 1 + ((i - 1) % r[3])]]
        IN  /\ "copyrect" \in Encodings
            /\ to[1] + r[3] <= Width /\ to[2] + r[4] <= Height
            /\ Sends(<<to[1], to[2], r[3], r[4]>>, moved)
            /\ pixels' = CopyRect(pixels, to[1], to[2], r[1], r[2], r[3], r[4])
            /\ UNCHANGED <<serverZ, serverZrle, ok, tight, zrle, disputed>>

\* All writings of the tiles, each after the bg and fg of those before it.
HexRect(tiles, px, r) ==
    LET ways(t, d) == HexWritings(TilePixels(px, r, t), t.w, format, d.bg, d.fg)
        all == FoldLeft(LAMBDA acc, t : UNION {{[way EXCEPT !.bytes = d.bytes \o @] :
                                                   way \in ways(t, d)} : d \in acc},
                        {[bytes |-> <<>>, bg |-> NoColour, fg |-> NoColour]}, tiles)
    IN  {d.bytes : d \in all}

HextileRect ==
    \E r \in Rects, d \in Drawings :
        /\ "hextile" \in Encodings
        /\ Sends(r, Cut(d, r))
        /\ \E raw \in HexRect(Tiles(r[3], r[4], HexSide), Cut(d, r), r) :
              LET done == DecodeHextile(raw, pixels, r[1], r[2], r[3], r[4])
              IN  pixels' = done.fb /\ ok' = (ok /\ done.next = Len(raw) + 1)
        /\ UNCHANGED <<serverZ, serverZrle, tight, zrle, disputed>>

ZrleRectBytes(tiles, px, r) ==
    FoldLeft(LAMBDA acc, t :
                 {bytes \o way : bytes \in acc,
                                 way \in ZrleWritings(TilePixels(px, r, t), t.w, format, PackedSizes)},
             {<<>>}, tiles)

\* decode of zrle.rs: one zlib stream for the whole session.
ZrleRect ==
    \E r \in Rects, d \in Drawings :
        /\ "zrle" \in Encodings
        /\ Sends(r, Cut(d, r))
        /\ serverZrle' = serverZrle + 1
        /\ zrle' = zrle + 1
        /\ \E raw \in ZrleRectBytes(Tiles(r[3], r[4], TileSide), Cut(d, r), r) :
              LET done == DecodeZrle(raw, pixels, r[1], r[2], r[3], r[4])
              IN  /\ pixels' = done.fb
                  /\ ok' = (ok /\ serverZrle = zrle /\ done.ok /\ done.next = Len(raw) + 1)
        /\ UNCHANGED <<serverZ, tight, disputed>>

\* decode of tight.rs; the control byte's resets are part of it.
TightRectangle ==
    \E r \in Rects, d \in Drawings, control \in Controls :
        /\ "tight" \in Encodings
        /\ Sends(r, Cut(d, r))
        /\ \E w \in TightWritings(Cut(d, r), r[3], format, serverZ, control) :
              LET done == TightRect(w.bytes, 1, r[3], r[4], format, tight)
              IN  /\ serverZ' = w.z /\ tight' = done.z
                  /\ disputed' = (disputed \/ w.edge \/ control % 16 # control \div 16)
                  /\ ok' = (ok /\ done.ok /\ done.next = Len(w.bytes) + 1)
                  /\ pixels' = IF done.ok THEN BlitRgba(pixels, r[1], r[2], r[3], r[4], done.px)
                               ELSE pixels
        /\ UNCHANGED <<serverZrle, zrle>>

Black == <<0, 0, 0>>
Init ==
    /\ format \in Formats
    /\ screen = [i \in 1 .. Width * Height |-> Black] /\ pixels = screen
    /\ serverZ = [i \in Streams |-> 0] /\ tight = serverZ
    /\ serverZrle = 0 /\ zrle = 0
    /\ ok = TRUE /\ sent = 0 /\ disputed = FALSE

Next == ok /\ (RawRect \/ CopyRectRect \/ HextileRect \/ ZrleRect \/ TightRectangle)
Spec == Init /\ [][Next]_vars

-----------------------------------------------------------------------------
(* Properties.                                                             *)

\* Every variable has its type; the framebuffer keeps its size.
TypeOK ==
    /\ format \in Formats
    /\ screen \in Seq(Colours) /\ pixels \in Seq(Colours)
    /\ Len(screen) = Width * Height /\ Len(pixels) = Width * Height
    /\ serverZ \in [Streams -> Nat] /\ tight \in [Streams -> Nat]
    /\ serverZrle \in Nat /\ zrle \in Nat
    /\ ok \in BOOLEAN /\ disputed \in BOOLEAN /\ sent \in 0 .. MaxRects

\* What a client of RFB owes the server (README.md:10): it decodes every rectangle
\* (raw.rs, copyrect.rs, hextile.rs, zrle.rs, tight.rs) to its last byte and no further,
\* and its framebuffer is the server's desktop.  Two runs show where it does not hold:
\* packed palettes of ZRLE, and the control bytes and the shortest compressed data of
\* Tight.
RectDecoded == ok /\ pixels = screen

\* RectDecoded as long as the server has written no Tight rectangle that the client
\* reads otherwise than RFB has it (tight.rs:59-66, 242).
DecodedUnlessDisputed == ~disputed => RectDecoded

\* The four zlib streams of TightState stand where the server's stand, through resets,
\* filters and data too short to be compressed (tight.rs:59-64, 242-254) ...
StreamsInStep == tight = serverZ

\* ... as long as no Tight rectangle was one that the client reads otherwise than RFB
\* has it.
StreamsUnlessDisputed == ~disputed => StreamsInStep
===============================================================================

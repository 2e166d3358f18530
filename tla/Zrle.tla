---------------------------------- MODULE Zrle ----------------------------------
(***************************************************************************)
(* One tile of a ZRLE rectangle as decode_tiles (zrle.rs) reads it from the *)
(* decompressed bytes, and the ways RFB 7.7.6 lets a server write it.  A    *)
(* tile is the sequence of its colours, row by row.  What a decoder returns *)
(* is [ok, px, next]: the colours and the position behind the tile.         *)
(***************************************************************************)
EXTENDS PixelFormat, SequencesExt, FiniteSetsExt

CONSTANTS
    TileSide,   \* 64
    RunByte     \* 255: the byte of a run length that another one follows

ASSUME TileSideAssumption == TileSide \in Nat \ {0}
ASSUME RunByteAssumption == RunByte \in 1 .. 255

Bail == [ok |-> FALSE, px |-> <<>>, next |-> 0]
Got(px, next) == [ok |-> TRUE, px |-> px, next |-> next]
Fill(colour, n) == [i \in 1 .. n |-> colour]

BitsPerIndex(size) == IF size <= 2 THEN 1 ELSE IF size <= 4 THEN 2 ELSE 4

\* The palette index at bit_pos, taken out of its byte.  bit_pos counts bits.
PackedIndex(byte, bits, bitPos) ==
    CASE bits = 1 -> (byte \div 2 ^ (7 - (bitPos % 8))) % 2
      [] bits = 2 -> (byte \div 2 ^ (6 - (bitPos % 4) * 2)) % 4
      [] bits = 4 -> IF bitPos % 2 = 0 THEN byte \div 16 ELSE byte % 16

Packed(raw, p, size, w, h, f) ==
    LET k        == CPixelBytes(f)
        palette  == Rgbs(raw, p, k, size, f)
        bits     == BitsPerIndex(size)
        rowBytes == (w * bits + 7) \div 8
        data     == p + size * k
        index(row, bitPos) ==
            PackedIndex(raw[data + row * rowBytes + bitPos \div 8], bits, bitPos)
        pixel(i) == palette[1 + index(i \div w, (i % w) * bits)]
    IN  IF data + rowBytes * h - 1 > Len(raw) THEN Bail
        ELSE Got([i \in 1 .. w * h |-> pixel(i - 1)], data + rowBytes * h)

\* A run length at raw[p]: its bytes, the last one below RunByte, and one more.
RunEnds(raw, p) == {q \in p .. Len(raw) : raw[q] < RunByte}
RunLength_NotPlusOne(raw, p) == (Min(RunEnds(raw, p)) - p) * RunByte + raw[Min(RunEnds(raw, p))]
RunLength(raw, p) == 1 + (Min(RunEnds(raw, p)) - p) * RunByte + raw[Min(RunEnds(raw, p))]

\* The loops over runs: a run adds its colours to those so far, until there are n.  A
\* run beyond the tile's n pixels would make the code panic (zrle.rs:232-236: an index out
\* of rgba); no server writes one, and no writing below has one.
Runs(run(_), p, n) ==
    FoldLeft(LAMBDA d, i : IF ~d.ok \/ Len(d.px) >= n THEN d ELSE run(d),
             Got(<<>>, p), [i \in 1 .. n |-> i])

PlainRle(raw, p, n, f) ==
    LET k == CPixelBytes(f)
        run(d) == IF RunEnds(raw, d.next + k) = {} THEN Bail
                  ELSE Got(d.px \o Fill(Rgbs(raw, d.next, k, 1, f)[1], RunLength(raw, d.next + k)),
                           Min(RunEnds(raw, d.next + k)) + 1)
    IN  Runs(run, p, n)

PaletteRle(raw, p, n, palette) ==
    LET run(d) ==
            LET q == d.next
                colour == palette[1 + (raw[q] % 128)]
            IN  IF q > Len(raw) \/ raw[q] % 128 >= Len(palette) THEN Bail
                ELSE IF raw[q] < 128 THEN Got(Append(d.px, colour), q + 1)
                ELSE IF RunEnds(raw, q + 1) = {} THEN Bail
                ELSE Got(d.px \o Fill(colour, RunLength(raw, q + 1)), Min(RunEnds(raw, q + 1)) + 1)
    IN  Runs(run, p, n)

\* The tile of w * h pixels that starts at raw[p].
ZrleTile(raw, p, w, h, f) ==
    LET n == w * h
        k == CPixelBytes(f)
        has(count) == p + count <= Len(raw)
    IN  IF p > Len(raw) THEN Bail
        ELSE CASE raw[p] = 0 /\ has(n * k) -> Got(Rgbs(raw, p + 1, k, n, f), p + 1 + n * k)
               [] raw[p] = 1 /\ has(k) -> Got(Fill(Rgbs(raw, p + 1, k, 1, f)[1], n), p + 1 + k)
               [] raw[p] \in 2 .. 16 /\ has(raw[p] * k) -> Packed(raw, p + 1, raw[p], w, h, f)
               [] raw[p] = 128 -> PlainRle(raw, p + 1, n, f)
               [] raw[p] >= 130 /\ has((raw[p] - 128) * k) ->
                      LET size == raw[p] - 128
                      IN  PaletteRle(raw, p + 1 + size * k, n, Rgbs(raw, p + 1, k, size, f))
               [] OTHER -> Bail

-----------------------------------------------------------------------------
(* The server: not the repository's.                                       *)

Palettes(px) == SetToSeqs(Range(px))
IndexIn(palette, colour) == (CHOOSE i \in 1 .. Len(palette) : palette[i] = colour) - 1

\* Rows of indices, each row padded to a byte, the first index in the highest bits.
PackedRows(idx, w, bits) ==
    LET per      == 8 \div bits
        rowBytes == (w * bits + 7) \div 8
        at(row, col) == IF col < w THEN idx[row * w + col + 1] ELSE 0
        byte(row, j) == LET part[i \in 0 .. per] ==
                              IF i = 0 THEN 0
                              ELSE part[i - 1] + at(row, j * per + i - 1) * 2 ^ (8 - i * bits)
                        IN  part[per]
    IN  [i \in 1 .. rowBytes * (Len(idx) \div w) |->
            byte((i - 1) \div rowBytes, (i - 1) % rowBytes)]

\* The positions where a run begins, and a run's length.
RunStarts(px) == SetToSortSeq({i \in 1 .. Len(px) : i = 1 \/ px[i] # px[i - 1]}, <)
RunFrom(px, i) == Min({j \in i .. Len(px) : j = Len(px) \/ px[j + 1] # px[i]}) - i + 1
RunBytes(len) == Append(Fill(RunByte, (len - 1) \div RunByte), (len - 1) % RunByte)

ZrlePlain(px, f) ==
    LET run(i) == Written(<<px[i]>>, f, CPixelBytes(f)) \o RunBytes(RunFrom(px, i))
    IN  <<128>> \o FlattenSeq([m \in DOMAIN RunStarts(px) |-> run(RunStarts(px)[m])])
ZrlePacked(px, palette, w, f) ==
    <<Len(palette)>> \o Written(palette, f, CPixelBytes(f))
        \o PackedRows([i \in DOMAIN px |-> IndexIn(palette, px[i])], w,
                      BitsPerIndex(Len(palette)))
ZrlePaletteRle(px, palette, f) ==
    LET run(i) == IF RunFrom(px, i) = 1 THEN <<IndexIn(palette, px[i])>>
                  ELSE <<128 + IndexIn(palette, px[i])>> \o RunBytes(RunFrom(px, i))
    IN  <<128 + Len(palette)>> \o Written(palette, f, CPixelBytes(f))
            \o FlattenSeq([m \in DOMAIN RunStarts(px) |-> run(RunStarts(px)[m])])

\* The ways to write a tile of width w, with packed palettes of the given sizes.
ZrleWritings(px, w, f, packed) ==
    LET colours == Cardinality(Range(px))
    IN  {<<0>> \o Written(px, f, CPixelBytes(f)), ZrlePlain(px, f)}
        \cup (IF colours = 1 THEN {<<1>> \o Written(<<px[1]>>, f, CPixelBytes(f))} ELSE {})
        \cup (IF colours \in packed THEN {ZrlePacked(px, q, w, f) : q \in Palettes(px)} ELSE {})
        \cup (IF colours \in 2 .. 127 THEN {ZrlePaletteRle(px, q, f) : q \in Palettes(px)} ELSE {})
===============================================================================

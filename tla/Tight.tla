--------------------------------- MODULE Tight ---------------------------------
(***************************************************************************)
(* A Tight rectangle as tight.rs reads it, and ways a server may write it   *)
(* (RFB 7.7.7).  The four zlib streams are counters: the block a server     *)
(* compresses carries the number of blocks before it in its stream, and     *)
(* inflates only in a stream that has seen as many.                        *)
(***************************************************************************)
EXTENDS PixelFormat, SequencesExt, FiniteSetsExt

CONSTANTS
    MinToCompress,     \* 12
    LenBase            \* 128: what a byte of a compact length holds

ASSUME MinToCompressAssumption == MinToCompress \in Nat
ASSUME LenBaseAssumption == LenBase \in 2 .. 128

Streams == 0 .. 3
FillType == 8
JpegType == 9
PaletteFilter == 1
GradientFilter == 2
Bit(byte, i) == (byte \div <<1, 2, 4, 8, 16, 32, 64, 128>>[i + 1]) % 2 = 1

\* What the client takes from the control byte.
Resets(control) == {i \in Streams : Bit(control, 4 + i)}
Subtype(control) == control % 16
AfterResets_Kept(z, control) == z
AfterResets(z, control) == [i \in Streams |-> IF i \in Resets(control) THEN 0 ELSE z[i]]

\* The byte and the n bytes at raw[p].  Behind the rectangle the stream goes on, here
\* with zeros: who reads them has read beyond the rectangle (Rectangles.ok).
Byte(raw, p) == IF p \in DOMAIN raw THEN raw[p] ELSE 0
Part(raw, p, n) == [i \in 1 .. n |-> Byte(raw, p + i - 1)]

\* n pixels of a Tight rectangle, the 3-byte ones in the order of the pixel format.
TightPixels(raw, p, n, f) == Rgbs(raw, p, CPixelBytes(f), n, f)

\* read_compact_len at raw[p]: the length and the position behind it.
CompactLen_TwoBytes(raw, p) ==
    IF Byte(raw, p) < LenBase THEN [len |-> Byte(raw, p), next |-> p + 1]
    ELSE [len |-> Byte(raw, p) - LenBase + (Byte(raw, p + 1) % LenBase) * LenBase, next |-> p + 2]
CompactLen(raw, p) ==
    LET b0 == Byte(raw, p)
        b1 == Byte(raw, p + 1)
        b2 == Byte(raw, p + 2)
    IN  CASE b0 < LenBase -> [len |-> b0, next |-> p + 1]
          [] b0 >= LenBase /\ b1 < LenBase ->
                 [len |-> b0 - LenBase + b1 * LenBase, next |-> p + 2]
          [] OTHER -> [len |-> b0 - LenBase + (b1 - LenBase) * LenBase
                               + b2 * (LenBase * LenBase), next |-> p + 3]

\* read_maybe_compressed at raw[p]: the bytes, and the streams after it.  Nothing
\* inflates but a block that holds what is expected, and that in its stream.
ReadData(raw, p, expected, s, z) ==
    IF expected <= MinToCompress
    THEN [ok |-> TRUE, data |-> Part(raw, p, expected), next |-> p + expected, z |-> z]
    ELSE LET c == CompactLen(raw, p)
         IN  [ok |-> c.len = expected + 1 /\ Byte(raw, c.next) = z[s],
              data |-> Part(raw, c.next + 1, expected),
              next |-> c.next + c.len, z |-> [z EXCEPT ![s] = @ + 1]]

\* inverse_gradient: each byte is corrected by its neighbours, already decoded.
Predicted_NoClamp(left, top, corner) == left + top - corner
Predicted(left, top, corner) ==
    IF left + top - corner < 0 THEN 0
    ELSE IF left + top - corner > 255 THEN 255 ELSE left + top - corner
Neighbour(seq, i, back, inside) == IF inside THEN seq[i - back] ELSE 0
InverseGradient(raw, w, k) ==
    LET col(i) == ((i - 1) \div k) % w
        row(i) == (i - 1) \div (k * w)
        out[i \in 0 .. Len(raw)] ==
            IF i = 0 THEN 0
            ELSE LET left   == Neighbour(out, i, k, col(i) > 0)
                     top    == Neighbour(out, i, w * k, row(i) > 0)
                     corner == Neighbour(out, i, (w + 1) * k, col(i) > 0 /\ row(i) > 0)
                 IN  (raw[i] + Predicted(left, top, corner)) % 256
    IN  [i \in DOMAIN raw |-> out[i]]

\* The palette filter at raw[p]: indices of a bit, rows padded, for two colours.
IndexBytes(colours, w, h) == IF colours = 2 THEN ((w + 7) \div 8) * h ELSE w * h
TightPalette(raw, p, w, h, f, s, z) ==
    LET colours == Byte(raw, p) + 1
        k       == CPixelBytes(f)
        palette == TightPixels(Part(raw, p + 1, colours * k), 1, colours, f)
        d == ReadData(raw, p + 1 + colours * k, IndexBytes(colours, w, h), s, z)
        rowBytes == (w + 7) \div 8
        bit(col, row) == IF Bit(d.data[row * rowBytes + col \div 8 + 1], 7 - (col % 8)) THEN 1 ELSE 0
        index(i) == IF colours = 2 THEN bit((i - 1) % w, (i - 1) \div w) ELSE d.data[i]
        within(j) == IF j < colours THEN j ELSE colours - 1
    IN  [ok |-> d.ok, next |-> d.next, z |-> d.z,
         px |-> [i \in 1 .. w * h |-> palette[1 + within(index(i))]]]

\* The rectangle of w * h pixels that starts at raw[p].
TightRect(raw, p, w, h, f, z) ==
    LET n == w * h
        k == CPixelBytes(f)
        type == Subtype(raw[p])
        z2   == AfterResets(z, raw[p])
        s    == type % 4
        filter  == IF Bit(type, 2) THEN Byte(raw, p + 1) ELSE 0
        body    == IF Bit(type, 2) THEN p + 2 ELSE p + 1
        d       == ReadData(raw, body, n * k, s, z2)
        bytes   == IF filter = GradientFilter THEN InverseGradient(d.data, w, k) ELSE d.data
        jpegLen == CompactLen(raw, p + 1)
        picture == Part(raw, jpegLen.next, jpegLen.len)
    IN  CASE type = FillType ->
               [ok |-> TRUE, next |-> p + 1 + k, z |-> z2,
                px |-> [i \in 1 .. n |-> TightPixels(Part(raw, p + 1, k), 1, 1, f)[1]]]
          [] type = JpegType ->
               [ok |-> jpegLen.len = 3 * n, next |-> jpegLen.next + jpegLen.len, z |-> z2,
                px |-> [i \in 1 .. n |-> SubSeq(picture, 3 * i - 2, 3 * i)]]
          [] type < FillType /\ filter = PaletteFilter -> TightPalette(raw, body, w, h, f, s, z2)
          [] type < FillType /\ filter \in {0, GradientFilter} ->
               [ok |-> d.ok, next |-> d.next, z |-> d.z, px |-> TightPixels(bytes, 1, n, f)]
          [] OTHER -> [ok |-> FALSE, px |-> <<>>, next |-> 0, z |-> z2]

-----------------------------------------------------------------------------
(* The server: not the repository's.  Its control bytes have the resets in  *)
(* the low nibble and the type in the high one, and it compresses data from *)
(* MinToCompress bytes on, where the client takes as many as they are.  A   *)
(* JPEG is its own pixels.                                                  *)

ServerResets(control) == {i \in Streams : Bit(control, i)}
ServerStreams(z, control) == [i \in Streams |-> IF i \in ServerResets(control) THEN 0 ELSE z[i]]

LenBytes(n) ==
    IF n < LenBase THEN <<n>>
    ELSE IF n < LenBase * LenBase THEN <<LenBase + (n % LenBase), n \div LenBase>>
    ELSE <<LenBase + (n % LenBase), LenBase + ((n \div LenBase) % LenBase),
           (n \div LenBase) \div LenBase>>

\* Data as it is sent, the streams after it, and whether its length is the edge.
Sent(prefix, data, s, z) ==
    IF Len(data) < MinToCompress
    THEN [bytes |-> prefix \o data, z |-> z, edge |-> FALSE]
    ELSE [bytes |-> prefix \o LenBytes(Len(data) + 1) \o <<z[s]>> \o data,
          z |-> [z EXCEPT ![s] = @ + 1], edge |-> Len(data) = MinToCompress]

Gradient(data, w, k) ==
    LET col(i) == ((i - 1) \div k) % w
        row(i) == (i - 1) \div (k * w)
        left(i)   == Neighbour(data, i, k, col(i) > 0)
        top(i)    == Neighbour(data, i, w * k, row(i) > 0)
        corner(i) == Neighbour(data, i, (w + 1) * k, col(i) > 0 /\ row(i) > 0)
        clamped(v) == Max({0, Min({255, v})})
    IN  [i \in DOMAIN data |-> (data[i] - clamped(left(i) + top(i) - corner(i))) % 256]

BitRows(idx, w) ==
    LET rowBytes == (w + 7) \div 8
        at(row, col) == IF col < w THEN idx[row * w + col + 1] ELSE 0
        byte(row, j) == LET bit(b) == at(row, j * 8 + b)
                        IN  128 * bit(0) + 64 * bit(1) + 32 * bit(2) + 16 * bit(3)
                            + 8 * bit(4) + 4 * bit(5) + 2 * bit(6) + bit(7)
    IN  [i \in 1 .. rowBytes * (Len(idx) \div w) |->
            byte((i - 1) \div rowBytes, (i - 1) % rowBytes)]

\* A picture as its components, three for a pixel.
Components(px) == [i \in 1 .. 3 * Len(px) |-> px[1 + (i - 1) \div 3][1 + ((i - 1) % 3)]]

\* The ways to write a rectangle of width w under a control byte.
TightWritings(px, w, f, z, control) ==
    LET k    == CPixelBytes(f)
        type == control \div 16
        s    == type % 4
        z2   == ServerStreams(z, control)
        head == <<control>>
        data == Written(px, f, k)
        index(q) == [i \in DOMAIN px |-> CHOOSE j \in 0 .. Len(q) - 1 : q[j + 1] = px[i]]
        palette(q) == Sent(head \o <<PaletteFilter, Len(q) - 1>> \o Written(q, f, k),
                           IF Len(q) = 2 THEN BitRows(index(q), w) ELSE index(q), s, z2)
    IN  CASE type = FillType /\ Cardinality(Range(px)) = 1 ->
               {[bytes |-> head \o Written(<<px[1]>>, f, k), z |-> z2, edge |-> FALSE]}
          [] type = JpegType ->
               {[bytes |-> head \o LenBytes(3 * Len(px)) \o Components(px), z |-> z2,
                 edge |-> FALSE]}
          [] type \in 0 .. 3 -> {Sent(head, data, s, z2)}
          [] type \in 4 .. 7 ->
               {Sent(head \o <<0>>, data, s, z2)}
               \cup {palette(q) : q \in SetToSeqs(Range(px))}
               \cup (IF f.bpp = 4
                     THEN {Sent(head \o <<GradientFilter>>, Gradient(data, w, k), s, z2)} ELSE {})
          [] OTHER -> {}
===============================================================================

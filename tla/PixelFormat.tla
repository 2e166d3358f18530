------------------------------ MODULE PixelFormat ------------------------------
(***************************************************************************)
(* Pixels as bytes: PixelFormat::to_rgb (messages.rs), read_pixel (raw.rs), *)
(* the 3-byte pixels of ZRLE and Tight and, as the reference, how a server *)
(* writes a colour in its pixel format (RFB 7.4, 7.7.5, 7.7.6).            *)
(*                                                                         *)
(* A format is [bpp, big, max, shift], bpp in bytes, max and shift triples *)
(* for red, green and blue; the maxima are of the form 2^n - 1.  A colour  *)
(* is a triple of components in 0 .. 255; alpha is always 255 and left out.*)
(***************************************************************************)
EXTENDS Integers, Sequences

\* The number in the one to four bytes of buf, the missing high ones zero.
Number(b1, b2, b3, b4) == b1 + 256 * b2 + 65536 * b3 + 16777216 * b4
ReadPixel_LittleEndian(buf, big) ==
    LET byte(j) == IF j > Len(buf) THEN 0 ELSE buf[j]
    IN  Number(byte(1), byte(2), byte(3), byte(4))
ReadPixel(buf, big) ==
    LET byte(j) == IF j > Len(buf) THEN 0 ELSE IF big THEN buf[Len(buf) + 1 - j] ELSE buf[j]
    IN  Number(byte(1), byte(2), byte(3), byte(4))

\* Each component scaled to 0 .. 255.
ToRgb(pixel, f) == [c \in 1 .. 3 |->
    (((pixel \div 2 ^ f.shift[c]) % (f.max[c] + 1)) * 255) \div f.max[c]]

\* cpixel_bytes of zrle.rs, tight_bytes_per_pixel of tight.rs.
CPixelBytes(f) == IF f.bpp = 4 THEN 3 ELSE f.bpp

\* The n pixels of k bytes each that start at raw[p].
Rgbs_To256(raw, p, k, n, f) ==
    LET pixel(i) == ReadPixel(SubSeq(raw, p + (i - 1) * k, p + i * k - 1), f.big)
    IN  [i \in 1 .. n |-> [c \in 1 .. 3 |->
            (((pixel(i) \div 2 ^ f.shift[c]) % (f.max[c] + 1)) * 256) \div f.max[c]]]
Rgbs(raw, p, k, n, f) ==
    [i \in 1 .. n |-> ToRgb(ReadPixel(SubSeq(raw, p + (i - 1) * k, p + i * k - 1), f.big), f)]

-----------------------------------------------------------------------------
(* The server: not the repository's.                                       *)

PixelOf(rgb, f) ==
    LET part(c) == ((rgb[c] * f.max[c]) \div 255) * 2 ^ f.shift[c]
    IN  part(1) + part(2) + part(3)

\* A format shows a colour exactly: it fits in the bytes of a CPIXEL, and
\* PixelFormat::to_rgb gives it back.
Colours == (0 .. 255) \X (0 .. 255) \X (0 .. 255)
Exact(rgb, f) ==
    /\ PixelOf(rgb, f) \in 0 .. <<256, 65536, 16777216>>[CPixelBytes(f)] - 1
    /\ ToRgb(PixelOf(rgb, f), f) = rgb

\* The k bytes of a pixel; of a CPIXEL the byte that is always zero is left out.
PixelBytes(rgb, f, k) ==
    LET weight == <<1, 256, 65536, 16777216>>
    IN  [i \in 1 .. k |-> (PixelOf(rgb, f) \div weight[IF f.big THEN k + 1 - i ELSE i]) % 256]

\* The bytes of a sequence of colours.
Written(rgbs, f, k) ==
    [i \in 1 .. k * Len(rgbs) |-> PixelBytes(rgbs[1 + (i - 1) \div k], f, k)[1 + ((i - 1) % k)]]
===============================================================================

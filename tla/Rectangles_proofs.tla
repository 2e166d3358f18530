---------------------------- MODULE Rectangles_proofs ----------------------------
(***************************************************************************)
(* Theorems about the decoders, for every size of the desktop, every        *)
(* rectangle and every drawing a pixel format shows exactly.                *)
(***************************************************************************)
EXTENDS Rectangles, SequenceTheorems, FiniteSetTheorems, WellFoundedInduction, TLAPS

(***************************************************************************)
(* Bytes that stand in a sequence of bytes.                                 *)
(***************************************************************************)

\* The sequence s stands in raw from position p on.
At(raw, p, s) ==
    /\ p + Len(s) - 1 <= Len(raw)
    /\ \A i \in 1 .. Len(s) : raw[p + i - 1] = s[i]

LEMMA ConcatFacts ==
    ASSUME NEW s \in Seq(Int), NEW t \in Seq(Int)
    PROVE  /\ s \o t \in Seq(Int) /\ Len(s \o t) = Len(s) + Len(t)
           /\ Len(s) \in Nat /\ Len(t) \in Nat
           /\ \A i \in 1 .. Len(s) : (s \o t)[i] = s[i]
           /\ \A i \in 1 .. Len(t) : (s \o t)[Len(s) + i] = t[i]
<1>1. Len(s) \in Nat /\ Len(t) \in Nat
  BY LenProperties
<1>2. /\ s \o t \in Seq(Int) /\ Len(s \o t) = Len(s) + Len(t)
      /\ \A i \in 1 .. Len(s) + Len(t) :
            (s \o t)[i] = IF i <= Len(s) THEN s[i] ELSE t[i - Len(s)]
  BY ConcatProperties
<1>3. ASSUME NEW i \in 1 .. Len(s) PROVE (s \o t)[i] = s[i]
  <2>1. i \in 1 .. Len(s) + Len(t) /\ i <= Len(s)
    BY <1>1
  <2>. QED  BY <1>2, <2>1
<1>4. ASSUME NEW i \in 1 .. Len(t) PROVE (s \o t)[Len(s) + i] = t[i]
  <2>1. Len(s) + i \in 1 .. Len(s) + Len(t) /\ ~(Len(s) + i <= Len(s)) /\ Len(s) + i - Len(s) = i
    BY <1>1
  <2>. QED  BY <1>2, <2>1
<1>. QED  BY <1>1, <1>2, <1>3, <1>4

LEMMA PartFacts ==
    ASSUME NEW S, NEW s \in Seq(S), NEW m \in 1 .. Len(s) + 1, NEW n \in 0 .. Len(s), m <= n + 1
    PROVE  /\ SubSeq(s, m, n) \in Seq(S)
           /\ Len(SubSeq(s, m, n)) = n - m + 1
           /\ \A i \in 1 .. n - m + 1 : SubSeq(s, m, n)[i] = s[m + i - 1]
<1>1. Len(s) \in Nat /\ m \in Int /\ n \in Int
  BY LenProperties
<1>2. \A i \in m .. n : s[i] \in S
  BY <1>1, ElementOfSeq
<1>. QED  BY <1>1, <1>2, SubSeqProperties

LEMMA Wider ==
    ASSUME NEW s \in Seq(0 .. 255)
    PROVE  s \in Seq(Int)
<1>1. 0 .. 255 \subseteq Int
  OBVIOUS
<1>. QED  BY <1>1, SeqMonotonic

LEMMA AtEnd ==
    ASSUME NEW s \in Seq(Int), NEW t \in Seq(Int)
    PROVE  At(s \o t, Len(s) + 1, t) /\ At(s \o t, 1, s)
<1>1. /\ Len(s \o t) = Len(s) + Len(t) /\ Len(s) \in Nat /\ Len(t) \in Nat
      /\ \A i \in 1 .. Len(s) : (s \o t)[i] = s[i]
      /\ \A i \in 1 .. Len(t) : (s \o t)[Len(s) + i] = t[i]
  BY ConcatFacts
<1>2. ASSUME NEW i \in 1 .. Len(t) PROVE (s \o t)[(Len(s) + 1) + i - 1] = t[i]
  <2>1. (Len(s) + 1) + i - 1 = Len(s) + i
    BY <1>1
  <2>. QED  BY <1>1, <2>1
<1>3. ASSUME NEW i \in 1 .. Len(s) PROVE (s \o t)[1 + i - 1] = s[i]
  <2>1. 1 + i - 1 = i
    OBVIOUS
  <2>. QED  BY <1>1, <2>1
<1>. QED  BY <1>1, <1>2, <1>3 DEF At

LEMMA AtLonger ==
    ASSUME NEW s \in Seq(Int), NEW t \in Seq(Int), NEW p \in Nat \ {0}, NEW u \in Seq(Int),
           At(s, p, u)
    PROVE  At(s \o t, p, u)
<1>1. /\ Len(s \o t) = Len(s) + Len(t) /\ Len(s) \in Nat /\ Len(t) \in Nat /\ Len(u) \in Nat
      /\ \A i \in 1 .. Len(s) : (s \o t)[i] = s[i]
  BY ConcatFacts
<1>2. ASSUME NEW i \in 1 .. Len(u) PROVE (s \o t)[p + i - 1] = u[i]
  <2>1. p + i - 1 \in 1 .. Len(s)
    BY <1>1 DEF At
  <2>2. s[p + i - 1] = u[i]
    BY DEF At
  <2>. QED  BY <1>1, <2>1, <2>2
<1>3. p + Len(u) - 1 <= Len(s \o t)
  BY <1>1 DEF At
<1>. QED  BY <1>2, <1>3 DEF At

(***************************************************************************)
(* Numbers.                                                                 *)
(***************************************************************************)

LEMMA Division ==
    ASSUME NEW v \in Nat, NEW m \in Nat \ {0}
    PROVE  v \div m \in Nat /\ v % m \in 0 .. m - 1 /\ v = m * (v \div m) + (v % m)
<1>1. v \div m \in Nat
  OBVIOUS
<1>2. v % m \in 0 .. m - 1
  OBVIOUS
<1>3. v = m * (v \div m) + (v % m)
  OBVIOUS
<1>. QED  BY <1>1, <1>2, <1>3

LEMMA Quotient ==
    ASSUME NEW m \in Nat \ {0}, NEW q \in Nat, NEW r \in 0 .. m - 1
    PROVE  (m * q + r) \div m = q /\ (m * q + r) % m = r
<1>1. (m * q + r) \div m = q
  OBVIOUS
<1>2. (m * q + r) % m = r
  OBVIOUS
<1>. QED  BY <1>1, <1>2

LEMMA Products ==
    ASSUME NEW a \in Nat, NEW b \in Nat, NEW c \in Nat
    PROVE  /\ a * c \in Nat /\ a * c = c * a
           /\ (a + b) * c = a * c + b * c /\ (a + 1) * c = a * c + c
           /\ a < b => a * c + c <= b * c
           /\ a <= b => a * c <= b * c
<1>1. a * c \in Nat /\ a * c = c * a
  OBVIOUS
<1>2. (a + b) * c = a * c + b * c /\ (a + 1) * c = a * c + c
  OBVIOUS
<1>3. a < b => a * c + c <= b * c
  OBVIOUS
<1>4. a <= b => a * c <= b * c
  OBVIOUS
<1>. QED  BY <1>1, <1>2, <1>3, <1>4

(***************************************************************************)
(* A colour written in a pixel format and read again.                       *)
(***************************************************************************)

LEMMA Digits ==
    ASSUME NEW v \in Nat
    PROVE  /\ v < 256 => v % 256 = v
           /\ v < 65536 => (v % 256) + 256 * ((v \div 256) % 256) = v
           /\ v < 16777216 =>
                 /\ (v % 256) + 256 * ((v \div 256) % 256) + 65536 * ((v \div 65536) % 256) = v
                 /\ (v \div 16777216) % 256 = 0
           /\ v \div 1 = v
<1>1. v \div 256 \in Nat /\ v % 256 \in 0 .. 255 /\ v = 256 * (v \div 256) + (v % 256)
  BY Division
<1>2. v \div 65536 \in Nat /\ 65536 * (v \div 65536) <= v
  <2>1. v = 65536 * (v \div 65536) + (v % 65536)
    OBVIOUS
  <2>2. v \div 65536 \in Nat /\ v % 65536 \in Nat
    OBVIOUS
  <2>. QED  BY <2>1, <2>2
<1>3. (v \div 256) \div 256 = v \div 65536
  OBVIOUS
<1>4. v \div 1 = v /\ (v < 256 => v % 256 = v)
  OBVIOUS
<1>. DEFINE a == v \div 256  b == v \div 65536
<1>5. a \in Nat /\ b \in Nat /\ a \div 256 = b /\ v = 256 * a + (v % 256) /\ v % 256 \in 0 .. 255
      /\ 65536 * b <= v
  BY <1>1, <1>2, <1>3
<1>6. v < 16777216 => (v \div 16777216) % 256 = 0
  OBVIOUS
<1>. HIDE DEF a, b
<1>7. a = 256 * b + (a % 256) /\ a % 256 \in 0 .. 255
  BY <1>5, Division
<1>8. v < 65536 => (v % 256) + 256 * (a % 256) = v
  <2>. HAVE v < 65536
  <2>1. a < 256
    BY <1>5
  <2>2. a % 256 = a
    BY <1>5, <2>1
  <2>. QED  BY <1>5, <2>2
<1>9. v < 16777216 => (v % 256) + 256 * (a % 256) + 65536 * (b % 256) = v
  <2>. HAVE v < 16777216
  <2>1. b < 256
    BY <1>5
  <2>2. b % 256 = b
    BY <1>5, <2>1
  <2>. QED  BY <1>5, <1>7, <2>2
<1>. QED  BY <1>4, <1>6, <1>8, <1>9 DEF a, b

LEMMA PixelBack ==
    ASSUME NEW rgb, NEW f, NEW k \in 1 .. 4, f.big \in BOOLEAN, PixelOf(rgb, f) \in Nat,
           PixelOf(rgb, f) < (IF k = 1 THEN 256 ELSE IF k = 2 THEN 65536 ELSE 16777216)
    PROVE  ReadPixel(PixelBytes(rgb, f, k), f.big) = PixelOf(rgb, f)
<1>. DEFINE v == PixelOf(rgb, f)
            weight == <<1, 256, 65536, 16777216>>
            buf == PixelBytes(rgb, f, k)
            byte(j) == IF j > Len(buf) THEN 0 ELSE IF f.big THEN buf[Len(buf) + 1 - j] ELSE buf[j]
<1>1. Len(buf) = k /\ \A i \in 1 .. k : buf[i] = (v \div weight[IF f.big THEN k + 1 - i ELSE i]) % 256
  BY DEF PixelBytes
<1>2. weight[1] = 1 /\ weight[2] = 256 /\ weight[3] = 65536 /\ weight[4] = 16777216
  OBVIOUS
<1>3. ReadPixel(buf, f.big) = byte(1) + 256 * byte(2) + 65536 * byte(3) + 16777216 * byte(4)
  <2>. HIDE DEF buf
  <2>. QED  BY DEF ReadPixel, Number
<1>. HIDE DEF buf, weight
<1>4. \A j \in 1 .. 4 : byte(j) = IF j > k THEN 0 ELSE (v \div weight[j]) % 256
  <2>. TAKE j \in 1 .. 4
  <2>1. CASE j > k
    BY <1>1, <2>1
  <2>2. CASE j <= k /\ f.big
    <3>1. k + 1 - j \in 1 .. k /\ k + 1 - (k + 1 - j) = j /\ ~(j > k)
      BY <2>2
    <3>2. byte(j) = buf[k + 1 - j]
      BY <1>1, <2>2, <3>1
    <3>3. buf[k + 1 - j] = (v \div weight[k + 1 - (k + 1 - j)]) % 256
      BY <1>1, <2>2, <3>1
    <3>. QED  BY <3>1, <3>2, <3>3
  <2>3. CASE j <= k /\ ~f.big
    <3>1. j \in 1 .. k /\ ~(j > k)
      BY <2>3
    <3>2. byte(j) = buf[j]
      BY <1>1, <2>3, <3>1
    <3>. QED  BY <1>1, <2>3, <3>1, <3>2
  <2>. QED  BY <2>1, <2>2, <2>3
<1>. DEFINE d1 == byte(1)  d2 == byte(2)  d3 == byte(3)  d4 == byte(4)
<1>5. /\ d1 = (v \div 1) % 256
      /\ d2 = IF 2 > k THEN 0 ELSE (v \div 256) % 256
      /\ d3 = IF 3 > k THEN 0 ELSE (v \div 65536) % 256
      /\ d4 = IF 4 > k THEN 0 ELSE (v \div 16777216) % 256
  <2>. /\ 1 \in 1 .. 4 /\ 2 \in 1 .. 4 /\ 3 \in 1 .. 4 /\ 4 \in 1 .. 4 /\ ~(1 > k)
    OBVIOUS
  <2>. HIDE DEF byte, v
  <2>. QED  BY <1>2, <1>4
<1>6. ReadPixel(buf, f.big) = d1 + 256 * d2 + 65536 * d3 + 16777216 * d4
  BY <1>3
<1>7. v \in Nat /\ v < (IF k = 1 THEN 256 ELSE IF k = 2 THEN 65536 ELSE 16777216)
  OBVIOUS
<1>. HIDE DEF d1, d2, d3, d4, v, byte
<1>8. v \div 1 = v
  BY <1>7, Digits
<1>9. CASE k = 1
  <2>1. d1 = v /\ d2 = 0 /\ d3 = 0 /\ d4 = 0
    BY <1>5, <1>7, <1>8, <1>9, Digits
  <2>. QED  BY <1>6, <1>7, <2>1 DEF v, buf
<1>10. CASE k = 2
  <2>1. d1 = v % 256 /\ d2 = (v \div 256) % 256 /\ d3 = 0 /\ d4 = 0
    BY <1>5, <1>8, <1>10
  <2>2. (v % 256) + 256 * ((v \div 256) % 256) = v
    BY <1>7, <1>10, Digits
  <2>3. d1 + 256 * d2 = v
    BY <2>1, <2>2
  <2>. QED  BY <1>6, <1>7, <2>1, <2>3 DEF v, buf
<1>11. CASE k \in {3, 4}
  <2>1. d1 = v % 256 /\ d2 = (v \div 256) % 256 /\ d3 = (v \div 65536) % 256
        /\ (d4 = 0 \/ d4 = (v \div 16777216) % 256)
    BY <1>5, <1>8, <1>11
  <2>2. /\ (v % 256) + 256 * ((v \div 256) % 256) + 65536 * ((v \div 65536) % 256) = v
        /\ (v \div 16777216) % 256 = 0
    <3>1. v < 16777216
      BY <1>7, <1>11
    <3>. QED  BY <1>7, <3>1, Digits
  <2>3. d1 + 256 * d2 + 65536 * d3 = v /\ d4 = 0
    BY <2>1, <2>2
  <2>. QED  BY <1>6, <1>7, <2>3 DEF v, buf
<1>. QED  BY <1>9, <1>10, <1>11

\* The pixels px are shown exactly by f in k bytes each.
Shown(px, f, k) ==
    /\ px \in Seq(Colours) /\ k \in 1 .. 4 /\ f.big \in BOOLEAN
    /\ \A i \in 1 .. Len(px) :
          /\ PixelOf(px[i], f) \in Nat
          /\ PixelOf(px[i], f) < (IF k = 1 THEN 256 ELSE IF k = 2 THEN 65536 ELSE 16777216)
          /\ ToRgb(PixelOf(px[i], f), f) = px[i]

\* The place of the j-th byte of the i-th pixel.
LEMMA Places ==
    ASSUME NEW k \in Nat \ {0}, NEW n \in Nat, NEW i \in 1 .. n, NEW j \in 1 .. k
    PROVE  /\ (i - 1) * k + j \in 1 .. k * n
           /\ 1 + ((i - 1) * k + j - 1) \div k = i
           /\ 1 + (((i - 1) * k + j - 1) % k) = j
<1>. DEFINE q == i - 1  r == j - 1
<1>1. q \in Nat /\ r \in 0 .. k - 1 /\ q + 1 = i /\ q < n /\ r + 1 = j
  OBVIOUS
<1>. HIDE DEF q, r
<1>2. k * q + r = q * k + r /\ q * k \in Nat /\ q * k + k <= n * k /\ n * k = k * n /\ n * k \in Nat
  BY <1>1, Products
<1>3. (q * k + r) \div k = q /\ (q * k + r) % k = r
  BY <1>1, <1>2, Quotient
<1>4. q * k + j \in 1 .. k * n /\ q * k + j - 1 = q * k + r
  BY <1>1, <1>2
<1>. QED  BY <1>1, <1>3, <1>4 DEF q

\* Conversely, each place is a byte of a pixel.
LEMMA PlaceOf ==
    ASSUME NEW k \in Nat \ {0}, NEW n \in Nat, NEW m \in 1 .. k * n
    PROVE  /\ 1 + (m - 1) \div k \in 1 .. n
           /\ 1 + ((m - 1) % k) \in 1 .. k
           /\ m = ((1 + (m - 1) \div k) - 1) * k + (1 + ((m - 1) % k))
<1>. DEFINE q == (m - 1) \div k  r == (m - 1) % k
<1>0. m - 1 \in Nat /\ k * n \in Nat /\ m <= k * n
  BY Products
<1>1. q \in Nat /\ r \in 0 .. k - 1 /\ m - 1 = k * q + r
  BY <1>0, Division
<1>. HIDE DEF q, r
<1>2. q < n
  <2>1. CASE n <= q
    <3>1. n * k <= q * k /\ q * k = k * q /\ n * k = k * n /\ q * k \in Nat
      BY <1>1, <2>1, Products
    <3>. QED  BY <1>0, <1>1, <3>1
  <2>. QED  BY <1>1, <2>1
<1>3. m = q * k + (1 + r) /\ (1 + q) - 1 = q
  BY <1>0, <1>1, Products
<1>. QED  BY <1>1, <1>2, <1>3 DEF q, r

LEMMA RowAndColumn ==
    ASSUME NEW w \in Nat \ {0}, NEW h \in Nat, NEW i \in 1 .. w * h
    PROVE  /\ (i - 1) \div w \in 0 .. h - 1 /\ (i - 1) \div w \in Nat
           /\ (i - 1) % w \in 0 .. w - 1 /\ 1 + ((i - 1) % w) \in 1 .. w
           /\ 1 + (i - 1) \div w \in 1 .. h /\ i - 1 \in Nat
<1>. DEFINE a == (i - 1) \div w  c == (i - 1) % w
<1>1. 1 + a \in 1 .. h /\ 1 + c \in 1 .. w
  BY PlaceOf
<1>2. i - 1 \in Nat
  BY Products
<1>3. a \in Nat /\ c \in 0 .. w - 1
  BY <1>2, Division
<1>. HIDE DEF a, c
<1>4. a \in 0 .. h - 1
  BY <1>1, <1>3
<1>. QED  BY <1>1, <1>2, <1>3, <1>4 DEF a, c

LEMMA BytesOfPixel ==
    ASSUME NEW rgb, NEW f, NEW k \in 1 .. 4, f.big \in BOOLEAN, PixelOf(rgb, f) \in Nat
    PROVE  /\ PixelBytes(rgb, f, k) \in Seq(0 .. 255) /\ Len(PixelBytes(rgb, f, k)) = k
<1>. DEFINE v == PixelOf(rgb, f)
            weight == <<1, 256, 65536, 16777216>>
            at(i) == IF f.big THEN k + 1 - i ELSE i
<1>1. \A j \in 1 .. 4 : weight[j] \in Nat \ {0}
  OBVIOUS
<1>2. \A i \in 1 .. k : at(i) \in 1 .. 4
  OBVIOUS
<1>. HIDE DEF v, weight, at
<1>3. ASSUME NEW i \in 1 .. k PROVE (v \div weight[at(i)]) % 256 \in 0 .. 255
  <2>1. v \in Nat /\ weight[at(i)] \in Nat \ {0}
    BY <1>1, <1>2 DEF v
  <2>2. v \div weight[at(i)] \in Nat
    BY <2>1, Division
  <2>. QED  BY <2>2
<1>4. PixelBytes(rgb, f, k) = [i \in 1 .. k |-> (v \div weight[at(i)]) % 256]
  BY DEF PixelBytes, v, weight, at
<1>. QED  BY <1>3, <1>4

\* The bytes w are those of the pixels px, one after the other.
WrittenIs(w, px, f, k) ==
    /\ w \in Seq(0 .. 255) /\ Len(w) = k * Len(px)
    /\ Len(px) \in Nat /\ k * Len(px) \in Nat
    /\ \A i \in 1 .. Len(px), j \in 1 .. k : w[(i - 1) * k + j] = PixelBytes(px[i], f, k)[j]

LEMMA WrittenFacts ==
    ASSUME NEW px, NEW f, NEW k, Shown(px, f, k)
    PROVE  WrittenIs(Written(px, f, k), px, f, k)
<1>. DEFINE n == Len(px)
            w == Written(px, f, k)
            byte(m) == PixelBytes(px[1 + (m - 1) \div k], f, k)[1 + ((m - 1) % k)]
<1>1. n \in Nat /\ k \in 1 .. 4 /\ k \in Nat \ {0}
  BY LenProperties DEF Shown
<1>2. k * n \in Nat
  BY <1>1, Products
<1>3. ASSUME NEW i \in 1 .. n, NEW j \in 1 .. k PROVE PixelBytes(px[i], f, k)[j] \in 0 .. 255
  <2>1. PixelOf(px[i], f) \in Nat /\ f.big \in BOOLEAN
    BY DEF Shown
  <2>2. PixelBytes(px[i], f, k) \in Seq(0 .. 255) /\ Len(PixelBytes(px[i], f, k)) = k
    BY <1>1, <2>1, BytesOfPixel, ZenonT(40)
  <2>. QED  BY <2>2, ElementOfSeq
<1>4. w = [m \in 1 .. k * n |-> byte(m)]
  BY DEF Written
<1>5. ASSUME NEW m \in 1 .. k * n PROVE byte(m) \in 0 .. 255
  <2>. DEFINE q == 1 + (m - 1) \div k  r == 1 + ((m - 1) % k)
  <2>1. q \in 1 .. n /\ r \in 1 .. k
    BY <1>1, PlaceOf
  <2>. HIDE DEF q, r
  <2>2. PixelBytes(px[q], f, k)[r] \in 0 .. 255
    BY <1>3, <2>1
  <2>. QED  BY <2>2 DEF q, r
<1>6. w \in Seq(0 .. 255) /\ Len(w) = k * n
  <2>1. w \in [1 .. k * n -> 0 .. 255]
    BY <1>4, <1>5
  <2>. DEFINE g == k * n
  <2>2. g \in Nat /\ w \in [1 .. g -> 0 .. 255]
    BY <1>2, <2>1
  <2>. HIDE DEF w, g
  <2>3. w \in Seq(0 .. 255) /\ Len(w) = g
    BY <2>2
  <2>. QED  BY <2>3 DEF g
<1>7. ASSUME NEW i \in 1 .. n, NEW j \in 1 .. k
      PROVE  w[(i - 1) * k + j] = PixelBytes(px[i], f, k)[j]
  <2>. DEFINE m == (i - 1) * k + j
  <2>1. m \in 1 .. k * n /\ 1 + (m - 1) \div k = i /\ 1 + ((m - 1) % k) = j
    BY <1>1, Places
  <2>. HIDE DEF m
  <2>2. w[m] = PixelBytes(px[i], f, k)[j]
    BY <1>4, <2>1
  <2>. QED  BY <2>2 DEF m
<1>. QED  BY <1>1, <1>2, <1>6, <1>7, Zenon DEF WrittenIs

\* The client reads the pixels a server has written.
LEMMA PixelsRead ==
    ASSUME NEW px, NEW f, NEW k, Shown(px, f, k), NEW raw \in Seq(Int), NEW p \in Nat \ {0},
           At(raw, p, Written(px, f, k))
    PROVE  Rgbs(raw, p, k, Len(px), f) = px
<1>. DEFINE n == Len(px)
            w == Written(px, f, k)
<1>1. /\ n \in Nat /\ k \in 1 .. 4 /\ k \in Nat \ {0} /\ f.big \in BOOLEAN /\ px \in Seq(Colours)
      /\ Len(w) = k * n /\ k * n \in Nat
      /\ \A i \in 1 .. n, j \in 1 .. k : w[(i - 1) * k + j] = PixelBytes(px[i], f, k)[j]
  <2>1. k \in 1 .. 4 /\ f.big \in BOOLEAN /\ px \in Seq(Colours)
    BY DEF Shown
  <2>2. /\ Len(w) = k * n /\ n \in Nat /\ k * n \in Nat
        /\ \A i \in 1 .. n, j \in 1 .. k : w[(i - 1) * k + j] = PixelBytes(px[i], f, k)[j]
    <3>1. WrittenIs(w, px, f, k)
      BY WrittenFacts
    <3>. HIDE DEF w
    <3>. QED  BY <3>1, Zenon DEF WrittenIs
  <2>3. k \in Nat \ {0}
    BY <2>1
  <2>. QED  BY <2>1, <2>2, <2>3, Zenon
<1>2. p + k * n - 1 <= Len(raw) /\ \A m \in 1 .. k * n : raw[p + m - 1] = w[m]
  BY <1>1 DEF At
<1>. HIDE DEF w
<1>3. ASSUME NEW i \in 1 .. n
      PROVE  SubSeq(raw, p + (i - 1) * k, p + i * k - 1) = PixelBytes(px[i], f, k)
  <2>. DEFINE a == p + (i - 1) * k
              b == p + i * k - 1
              b2 == PixelBytes(px[i], f, k)
              s == SubSeq(raw, a, b)
  <2>1. b2 \in Seq(0 .. 255) /\ Len(b2) = k /\ b2 \in Seq(Int)
    <3>0. PixelOf(px[i], f) \in Nat
      BY DEF Shown
    <3>1. b2 \in Seq(0 .. 255) /\ Len(b2) = k
      <4>1. k \in 1 .. 4 /\ f.big \in BOOLEAN
        BY <1>1
      <4>2. PixelBytes(px[i], f, k) \in Seq(0 .. 255) /\ Len(PixelBytes(px[i], f, k)) = k
        BY <3>0, <4>1, BytesOfPixel, Zenon
      <4>. QED  BY <4>2
    <3>. HIDE DEF b2
    <3>. QED  BY <3>1, Wider
  <2>2. \A j \in 1 .. k : (i - 1) * k + j \in 1 .. k * n
    BY <1>1, Places
  <2>3. (i - 1) * k \in Nat /\ i * k = (i - 1) * k + k /\ i * k <= k * n
    <3>1. i - 1 \in Nat /\ i \in Nat /\ i <= n /\ (i - 1) + 1 = i
      OBVIOUS
    <3>2. (i - 1) * k \in Nat /\ ((i - 1) + 1) * k = (i - 1) * k + k
      <4>. DEFINE j == i - 1
      <4>1. j \in Nat /\ k \in Nat
        BY <1>1, <3>1
      <4>. HIDE DEF j
      <4>2. j * k \in Nat /\ (j + 1) * k = j * k + k
        BY <4>1, Products
      <4>. QED  BY <4>2 DEF j
    <3>3. i * k <= n * k /\ n * k = k * n
      BY <1>1, <3>1, Products
    <3>. QED  BY <3>1, <3>2, <3>3
  <2>4. a \in 1 .. Len(raw) + 1 /\ b \in 0 .. Len(raw) /\ a <= b + 1 /\ b - a + 1 = k
        /\ Len(raw) \in Nat
    <3>. DEFINE c == (i - 1) * k  e == i * k  g == k * n
    <3>1. c \in Nat /\ e = c + k /\ e <= g /\ g \in Nat /\ p + g - 1 <= Len(raw) /\ Len(raw) \in Nat
          /\ k \in 1 .. 4
      BY <1>1, <1>2, <2>3, LenProperties
    <3>. HIDE DEF c, e, g
    <3>. DEFINE l == Len(raw)
    <3>2. l \in Nat /\ p + g - 1 <= l
      BY <3>1
    <3>. HIDE DEF l
    <3>3. p + e - 1 \in 0 .. l /\ p + e - 1 - (p + c) + 1 = k
      BY <3>1, <3>2
    <3>4. p + c \in 1 .. l + 1 /\ p + c <= p + e - 1 + 1
      BY <3>1, <3>2
    <3>. QED  BY <3>1, <3>3, <3>4 DEF c, e, l
  <2>5. s \in Seq(Int) /\ Len(s) = k /\ \A j \in 1 .. k : s[j] = raw[a + j - 1]
    <3>. HIDE DEF a, b
    <3>. QED  BY <2>4, PartFacts
  <2>6. ASSUME NEW j \in 1 .. k PROVE s[j] = b2[j]
    <3>1. a + j - 1 = p + ((i - 1) * k + j) - 1
      BY <1>1, <2>3
    <3>2. raw[p + ((i - 1) * k + j) - 1] = w[(i - 1) * k + j]
      BY <1>2, <2>2
    <3>3. w[(i - 1) * k + j] = b2[j]
      BY <1>1
    <3>. QED  BY <2>5, <3>1, <3>2, <3>3
  <2>. HIDE DEF s, b2
  <2>7. s = b2
    BY <2>1, <2>5, <2>6, SeqEqual
  <2>. QED  BY <2>7 DEF s, b2, a, b
<1>4. ASSUME NEW i \in 1 .. n
      PROVE  ToRgb(ReadPixel(SubSeq(raw, p + (i - 1) * k, p + i * k - 1), f.big), f) = px[i]
  <2>1. ReadPixel(PixelBytes(px[i], f, k), f.big) = PixelOf(px[i], f)
    BY <1>1, PixelBack DEF Shown
  <2>2. ToRgb(PixelOf(px[i], f), f) = px[i]
    BY DEF Shown
  <2>. QED  BY <1>3, <2>1, <2>2
<1>5. Rgbs(raw, p, k, n, f) = [i \in 1 .. n |-> px[i]]
  BY <1>4 DEF Rgbs
<1>6. px = [i \in 1 .. n |-> px[i]]
  BY <1>1
<1>. QED  BY <1>5, <1>6

(***************************************************************************)
(* A rectangle copied into the framebuffer.                                 *)
(***************************************************************************)

\* The pixels of a row of a rectangle, among all of a desktop of width W.
LEMMA RowOfPixel ==
    ASSUME NEW W \in Nat \ {0}, NEW a \in Nat, NEW x \in Nat, NEW w \in Nat, x + w <= W, NEW m \in Nat
    PROVE  m + 1 \in a * W + x + 1 .. a * W + x + w <=> a = m \div W /\ (m % W) - x \in 0 .. w - 1
<1>. DEFINE q == m \div W  r == m % W  s == a * W
<1>1. q \in Nat /\ r \in 0 .. W - 1 /\ m = W * q + r
  BY Division
<1>. HIDE DEF q, r
<1>2. s \in Nat
  BY Products
<1>3. CASE a = q
  <2>1. m = s + r
    BY <1>1, <1>3, Products
  <2>. HIDE DEF s
  <2>2. m + 1 \in s + x + 1 .. s + x + w <=> r - x \in 0 .. w - 1
    BY <1>1, <1>2, <2>1
  <2>. QED  BY <1>3, <2>2 DEF s, q, r
<1>4. CASE a < q
  <2>1. s + W <= q * W /\ q * W = W * q /\ q * W \in Nat
    BY <1>1, <1>4, Products
  <2>. DEFINE t == W * q
  <2>2. s + W <= t /\ t \in Nat /\ m = t + r
    BY <1>1, <2>1
  <2>. HIDE DEF s, t
  <2>3. ~(m + 1 \in s + x + 1 .. s + x + w)
    BY <1>1, <1>2, <2>2
  <2>. QED  BY <1>4, <2>3 DEF s, q
<1>5. CASE q < a
  <2>1. q * W + W <= s /\ q * W = W * q /\ q * W \in Nat
    BY <1>1, <1>5, Products
  <2>. DEFINE t == W * q
  <2>2. t + W <= s /\ t \in Nat /\ m = t + r
    BY <1>1, <2>1
  <2>. HIDE DEF s, t
  <2>3. ~(m + 1 \in s + x + 1 .. s + x + w)
    BY <1>1, <1>2, <2>2
  <2>. QED  BY <1>5, <2>3 DEF s, q
<1>. QED  BY <1>1, <1>3, <1>4, <1>5

\* A rectangle that lies on the desktop.
Inside(r) ==
    /\ r[1] \in Nat /\ r[2] \in Nat /\ r[3] \in Nat \ {0} /\ r[4] \in Nat \ {0}
    /\ r[1] + r[3] <= Width /\ r[2] + r[4] <= Height

LEMMA Largest1 ==
    ASSUME NEW n \in Int
    PROVE  Max({n}) = n
BY DEF Max

LEMMA BlitDraws ==
    ASSUME NEW S, screen \in Seq(S), Len(screen) = Width * Height, NEW r, Inside(r),
           NEW T, NEW px \in Seq(T), Len(px) = r[3] * r[4]
    PROVE  BlitRgba(screen, r[1], r[2], r[3], r[4], px) = Drawn(r, px)
<1>. DEFINE x == r[1]  y == r[2]  w == r[3]  h == r[4]
            start(row) == (y + row) * Width + x
            copied(i)  == {row \in 0 .. h - 1 :
                             /\ y + row < Height
                             /\ start(row) + w <= Len(screen) /\ (row + 1) * w <= Len(px)
                             /\ i \in start(row) + 1 .. start(row) + w}
            left(i)  == IF copied(i) = {} THEN screen[i]
                        ELSE px[Max(copied(i)) * w + i - start(Max(copied(i)))]
            col(i) == ((i - 1) % Width) - x
            row0(i) == (i - 1) \div Width - y
            right(i) == IF col(i) \in 0 .. w - 1 /\ row0(i) \in 0 .. h - 1
                        THEN px[row0(i) * w + col(i) + 1] ELSE screen[i]
<1>1. BlitRgba(screen, x, y, w, h, px) = [i \in DOMAIN screen |-> left(i)]
  BY DEF BlitRgba
<1>2. Drawn(r, px) = [i \in DOMAIN screen |-> right(i)]
  BY DEF Drawn
<1>3. /\ x \in Nat /\ y \in Nat /\ w \in Nat \ {0} /\ h \in Nat \ {0} /\ x + w <= Width /\ y + h <= Height
      /\ Width \in Nat \ {0} /\ Height \in Nat \ {0} /\ Len(screen) = Width * Height /\ Len(px) = w * h
      /\ DOMAIN screen = 1 .. Width * Height
  BY SizeAssumption, LenProperties DEF Inside
<1>. HIDE DEF x, y, w, h
<1>4. ASSUME NEW i \in DOMAIN screen PROVE left(i) = right(i)
  <2>0. i - 1 \in Nat /\ (i - 1) + 1 = i /\ i \in Int
    <3>1. i \in 1 .. Width * Height
      BY <1>3
    <3>. DEFINE g == Width * Height
    <3>2. i \in 1 .. g
      BY <3>1
    <3>. HIDE DEF g
    <3>. QED  BY <3>2
  <2>. DEFINE q == (i - 1) \div Width  c == (i - 1) % Width
  <2>1. q \in Nat /\ c \in 0 .. Width - 1 /\ i - 1 = Width * q + c
    BY <1>3, <2>0, Division
  <2>2. ASSUME NEW row \in 0 .. h - 1
        PROVE  row \in copied(i) <=> y + row = q /\ c - x \in 0 .. w - 1
    <3>1. y + row \in Nat /\ y + row < Height /\ row \in Nat /\ row < h /\ y + row + 1 <= Height
      BY <1>3
    <3>2. i \in start(row) + 1 .. start(row) + w <=> y + row = q /\ c - x \in 0 .. w - 1
      <4>. DEFINE a == y + row  m == i - 1
      <4>1. a \in Nat /\ m \in Nat /\ m + 1 = i /\ w \in Nat
        BY <1>3, <2>0, <3>1
      <4>. HIDE DEF a, m
      <4>2. m + 1 \in a * Width + x + 1 .. a * Width + x + w <=>
               a = m \div Width /\ (m % Width) - x \in 0 .. w - 1
        BY <1>3, <4>1, RowOfPixel
      <4>. QED  BY <4>1, <4>2 DEF a, m
    <3>3. (row + 1) * w <= Len(px)
      <4>1. row + 1 <= h /\ row + 1 \in Nat /\ w \in Nat /\ h \in Nat
        BY <1>3, <3>1
      <4>2. (row + 1) * w <= h * w /\ h * w = w * h
        BY <4>1, Products
      <4>. QED  BY <1>3, <4>2
    <3>4. start(row) + w <= Len(screen)
      <4>. DEFINE a == y + row  s == a * Width  g == Height * Width
      <4>1. a \in Nat /\ a < Height /\ Height \in Nat /\ Width \in Nat
        BY <1>3, <3>1
      <4>2. s + Width <= g /\ g = Width * Height /\ s \in Nat /\ g \in Nat
        <5>. HIDE DEF a
        <5>. QED  BY <4>1, Products
      <4>3. Len(screen) = g /\ start(row) = s + x
        BY <1>3, <4>2
      <4>. HIDE DEF s, g, start
      <4>. QED  BY <1>3, <4>2, <4>3
    <3>. HIDE DEF start
    <3>. QED  BY <3>1, <3>2, <3>3, <3>4
  <2>. HIDE DEF q, c
  <2>3. CASE c - x \in 0 .. w - 1 /\ q - y \in 0 .. h - 1
    <3>. DEFINE row == q - y
    <3>1. row \in 0 .. h - 1 /\ y + row = q /\ row \in Int
      BY <1>3, <2>1, <2>3
    <3>2. copied(i) = {row}
      <4>1. row \in copied(i)
        BY <2>2, <2>3, <3>1
      <4>2. ASSUME NEW s \in copied(i) PROVE s = row
        <5>1. s \in 0 .. h - 1
          OBVIOUS
        <5>2. y + s = q
          BY <2>2, <4>2, <5>1
        <5>. QED  BY <1>3, <2>1, <5>1, <5>2
      <4>. HIDE DEF copied
      <4>. QED  BY <4>1, <4>2
    <3>3. Max(copied(i)) = row
      BY <3>1, <3>2, Largest1
    <3>4. left(i) = px[row * w + i - start(row)]
      BY <3>2, <3>3
    <3>5. row * w + i - start(row) = row * w + (c - x) + 1
      <4>. DEFINE s == q * Width  t == row * w
      <4>1. s = Width * q /\ s \in Nat /\ t \in Nat
        BY <1>3, <2>1, <3>1, Products
      <4>2. i = s + c + 1
        BY <2>0, <2>1, <4>1
      <4>3. start(row) = s + x
        BY <3>1
      <4>. HIDE DEF s, start, t
      <4>4. t + i - start(row) = t + (c - x) + 1
        BY <1>3, <2>1, <4>1, <4>2, <4>3
      <4>. QED  BY <4>4 DEF t
    <3>6. right(i) = px[row * w + (c - x) + 1]
      BY <2>3 DEF q, c
    <3>. QED  BY <3>4, <3>5, <3>6
  <2>4. CASE ~(c - x \in 0 .. w - 1 /\ q - y \in 0 .. h - 1)
    <3>1. copied(i) = {}
      <4>1. ASSUME NEW s \in copied(i) PROVE FALSE
        <5>1. s \in 0 .. h - 1
          OBVIOUS
        <5>2. y + s = q /\ c - x \in 0 .. w - 1
          BY <2>2, <4>1, <5>1
        <5>3. q - y = s
          BY <1>3, <5>1, <5>2
        <5>. QED  BY <2>4, <5>1, <5>2, <5>3
      <4>. HIDE DEF copied
      <4>. QED  BY <4>1
    <3>2. left(i) = screen[i]
      BY <3>1
    <3>3. right(i) = screen[i]
      BY <2>4 DEF q, c
    <3>. QED  BY <3>2, <3>3
  <2>. QED  BY <2>3, <2>4
<1>. HIDE DEF left, right
<1>5. BlitRgba(screen, x, y, w, h, px) = Drawn(r, px)
  BY <1>1, <1>2, <1>4
<1>. QED  BY <1>5 DEF x, y, w, h

\* The pixels of a rectangle of the desktop, row by row.
Moved(r) ==
    [i \in 1 .. r[3] * r[4] |->
        screen[(r[2] + (i - 1) \div r[3]) * Width + r[1] + 1 + ((i - 1) % r[3])]]

\* A place in a row of a rectangle is a place on the desktop.
LEMMA PixelInside ==
    ASSUME NEW r, Inside(r), NEW a \in 0 .. r[4] - 1, NEW c \in 1 .. r[3]
    PROVE  /\ (r[2] + a) * Width + r[1] + c \in 1 .. Width * Height
           /\ (r[2] + a) * Width \in Nat
           /\ (r[2] + a) * Width + r[1] + r[3] <= Width * Height
<1>. DEFINE x == r[1]  y == r[2]  w == r[3]  h == r[4]
            b == y + a  s == b * Width  g == Height * Width
<1>1. /\ x \in Nat /\ y \in Nat /\ w \in Nat \ {0} /\ h \in Nat \ {0} /\ x + w <= Width /\ y + h <= Height
      /\ Width \in Nat \ {0} /\ Height \in Nat \ {0} /\ c \in 1 .. w /\ a \in 0 .. h - 1
  BY SizeAssumption DEF Inside
<1>. HIDE DEF x, y, w, h
<1>2. b \in Nat /\ b < Height
  BY <1>1
<1>3. s \in Nat /\ s + Width <= g /\ g = Width * Height /\ g \in Nat
  <2>. HIDE DEF b
  <2>. QED  BY <1>1, <1>2, Products
<1>. HIDE DEF s, g
<1>4. s + x + c \in 1 .. g /\ s + x + w <= g
  BY <1>1, <1>3
<1>. QED  BY <1>3, <1>4 DEF s, b, x, y, w

LEMMA MovedFacts ==
    ASSUME NEW S, screen \in Seq(S), Len(screen) = Width * Height, NEW r, Inside(r)
    PROVE  Moved(r) \in Seq(S) /\ Len(Moved(r)) = r[3] * r[4]
<1>. DEFINE w == r[3]  h == r[4]
            at(i) == (r[2] + (i - 1) \div w) * Width + r[1] + 1 + ((i - 1) % w)
            g == w * h
<1>1. w \in Nat \ {0} /\ h \in Nat
  BY DEF Inside
<1>2. g \in Nat
  BY <1>1, Products
<1>3. ASSUME NEW i \in 1 .. g PROVE at(i) \in 1 .. Len(screen)
  <2>. DEFINE a == (i - 1) \div w  c == (i - 1) % w
  <2>1. a \in 0 .. h - 1 /\ c \in 0 .. w - 1 /\ 1 + c \in 1 .. w
    <3>. HIDE DEF w, h
    <3>. QED  BY <1>1, RowAndColumn
  <2>. HIDE DEF a, c
  <2>. DEFINE s == (r[2] + a) * Width
  <2>2. s + r[1] + (1 + c) \in 1 .. Len(screen) /\ s \in Nat /\ r[1] \in Nat
    BY <2>1, PixelInside DEF Inside
  <2>3. at(i) = s + r[1] + 1 + c
    BY DEF a, c
  <2>. HIDE DEF s, at
  <2>4. s + r[1] + 1 + c = s + r[1] + (1 + c)
    <3>1. c \in Nat
      BY <1>1, <2>1
    <3>2. \A n, l, k \in Nat : n + l + 1 + k = n + l + (1 + k)
      OBVIOUS
    <3>. QED  BY <2>2, <3>1, <3>2, Zenon
  <2>. QED  BY <2>2, <2>3, <2>4
<1>4. ASSUME NEW i \in 1 .. g PROVE screen[at(i)] \in S
  BY <1>3, ElementOfSeq
<1>5. Moved(r) = [i \in 1 .. g |-> screen[at(i)]]
  BY DEF Moved
<1>. HIDE DEF g, at
<1>6. Moved(r) \in [1 .. g -> S]
  BY <1>4, <1>5
<1>. HIDE DEF Moved
<1>7. Moved(r) \in Seq(S) /\ Len(Moved(r)) = g
  BY <1>2, <1>6
<1>. QED  BY <1>7 DEF g

LEMMA CopyReads ==
    ASSUME NEW S, screen \in Seq(S), Len(screen) = Width * Height, NEW r, Inside(r), NEW x, NEW y
    PROVE  CopyRect(screen, x, y, r[1], r[2], r[3], r[4]) = BlitRgba(screen, x, y, r[3], r[4], Moved(r))
<1>. DEFINE sx == r[1]  sy == r[2]  w == r[3]  h == r[4]
            rows == [i \in 1 .. h |-> RowOf(screen, sx, sy + i - 1, w)]
            at(i) == (sy + (i - 1) \div w) * Width + sx + 1 + ((i - 1) % w)
            g == w * h
<1>1. /\ sx \in Nat /\ sy \in Nat /\ w \in Nat \ {0} /\ h \in Nat /\ sy + h <= Height /\ h \in Nat \ {0}
      /\ Width \in Nat \ {0}
  BY SizeAssumption DEF Inside
<1>2. g \in Nat
  BY <1>1, Products
<1>3. ASSUME NEW m \in 1 .. g
      PROVE  rows[1 + (m - 1) \div w][1 + ((m - 1) % w)] = screen[at(m)]
  <2>. DEFINE a == (m - 1) \div w  d == (m - 1) % w  c == 1 + d
  <2>1. 1 + a \in 1 .. h /\ c \in 1 .. w /\ a \in 0 .. h - 1 /\ a \in Nat /\ d \in 0 .. w - 1
    <3>. HIDE DEF w, h
    <3>. QED  BY <1>1, RowAndColumn
  <2>2. at(m) = (sy + a) * Width + sx + 1 + d
    OBVIOUS
  <2>. HIDE DEF a, d
  <2>. DEFINE s == (sy + a) * Width
              b == sy + (1 + a) - 1
  <2>3. s \in Nat
    BY <2>1, PixelInside
  <2>4. rows[1 + a] = SubSeq(screen, b * Width + sx + 1, b * Width + sx + w)
    BY <2>1 DEF RowOf
  <2>5. b = sy + a
    BY <1>1, <2>1
  <2>6. at(m) = s + sx + c
    <3>1. at(m) = s + sx + 1 + d
      BY <2>2
    <3>. HIDE DEF s, at, sx
    <3>. QED  BY <1>1, <2>1, <2>3, <3>1
  <2>7. s + sx + w <= Len(screen) /\ Len(screen) \in Nat
    BY <2>1, PixelInside, LenProperties
  <2>. HIDE DEF c
  <2>. HIDE DEF s, sx, sy, w, at, rows
  <2>8. rows[1 + a] = SubSeq(screen, s + sx + 1, s + sx + w)
    BY <2>4, <2>5 DEF s
  <2>9. /\ s + sx + 1 \in 1 .. Len(screen) + 1 /\ s + sx + w \in 0 .. Len(screen)
        /\ s + sx + 1 <= s + sx + w + 1 /\ (s + sx + w) - (s + sx + 1) + 1 = w
        /\ (s + sx + 1) + c - 1 = s + sx + c
    <3>. DEFINE v == Len(screen)
    <3>1. s + sx + w <= v /\ v \in Nat /\ s \in Nat /\ sx \in Nat /\ w \in Nat \ {0} /\ c \in Int
      BY <1>1, <2>1, <2>3, <2>7
    <3>. HIDE DEF v
    <3>2. /\ s + sx + 1 \in 1 .. v + 1 /\ s + sx + w \in 0 .. v
          /\ s + sx + 1 <= s + sx + w + 1 /\ (s + sx + w) - (s + sx + 1) + 1 = w
          /\ (s + sx + 1) + c - 1 = s + sx + c
      BY <3>1
    <3>. QED  BY <3>2 DEF v
  <2>10. rows[1 + a][c] = screen[(s + sx + 1) + c - 1]
    <3>. DEFINE e == s + sx + 1  v == s + sx + w
    <3>0. screen \in Seq(S)
      OBVIOUS
    <3>1. e \in 1 .. Len(screen) + 1 /\ v \in 0 .. Len(screen) /\ e <= v + 1 /\ v - e + 1 = w
      BY <2>9
    <3>2. c \in 1 .. w /\ rows[1 + a] = SubSeq(screen, e, v)
      BY <2>1, <2>8
    <3>. HIDE DEF e, v
    <3>3. \A i \in 1 .. v - e + 1 : SubSeq(screen, e, v)[i] = screen[e + i - 1]
      BY <3>0, <3>1, PartFacts
    <3>4. rows[1 + a][c] = screen[e + c - 1]
      BY <3>1, <3>2, <3>3, Zenon
    <3>. QED  BY <3>4 DEF e
  <2>11. rows[1 + a][c] = screen[at(m)]
    BY <2>6, <2>9, <2>10
  <2>. QED  BY <2>11 DEF a, c, d
<1>4. CopyRect(screen, x, y, sx, sy, w, h)
        = BlitRgba(screen, x, y, w, h,
                   [m \in 1 .. g |-> rows[1 + (m - 1) \div w][1 + ((m - 1) % w)]])
  BY <1>1 DEF CopyRect
<1>5. Moved(r) = [m \in 1 .. g |-> screen[at(m)]]
  BY DEF Moved
<1>6. Moved(r) = [m \in 1 .. g |-> rows[1 + (m - 1) \div w][1 + ((m - 1) % w)]]
  <2>. HIDE DEF rows, at, g, w
  <2>. QED  BY <1>3, <1>5
<1>. QED  BY <1>4, <1>6

(***************************************************************************)
(* What the server draws.                                                   *)
(***************************************************************************)

LEMMA RectsInside ==
    ASSUME NEW r \in Rects
    PROVE  Inside(r) /\ r = <<r[1], r[2], r[3], r[4]>> /\ r[3] * r[4] \in Nat \ {0}
<1>1. r \in Nat \X Nat \X (Nat \ {0}) \X (Nat \ {0}) /\ r[1] + r[3] <= Width /\ r[2] + r[4] <= Height
  BY RectsAssumption
<1>2. Inside(r) /\ r = <<r[1], r[2], r[3], r[4]>>
  BY <1>1 DEF Inside
<1>3. r[3] * r[4] \in Nat \ {0}
  <2>. DEFINE w == r[3]  h == r[4]
  <2>1. w \in Nat \ {0} /\ h \in Nat \ {0} /\ 0 \in Nat
    BY <1>2 DEF Inside
  <2>. HIDE DEF w, h
  <2>2. w * h \in Nat /\ 0 * h + h <= w * h /\ 0 * h = 0
    <3>1. 0 < w /\ w \in Nat /\ h \in Nat
      BY <2>1
    <3>. QED  BY <2>1, <3>1, Products
  <2>3. w * h # 0
    <3>. DEFINE g == w * h  z == 0 * h
    <3>1. z = 0 /\ z + h <= g /\ g \in Nat
      BY <2>2
    <3>. HIDE DEF g, z
    <3>. QED  BY <2>1, <3>1
  <2>. QED  BY <2>2, <2>3 DEF w, h
<1>. QED  BY <1>2, <1>3

LEMMA CutFacts ==
    ASSUME NEW r \in Rects, NEW d \in Drawings
    PROVE  /\ Cut(d, r) \in Seq(Colours) /\ Len(Cut(d, r)) = r[3] * r[4]
           /\ \A i \in 1 .. Len(Cut(d, r)), f \in Formats : Exact(Cut(d, r)[i], f)
<1>. DEFINE n == r[3] * r[4]  c == Cut(d, r)
<1>1. n \in Nat \ {0} /\ n <= Len(d)
  BY RectsInside, RectsAssumption
<1>2. d \in Seq(Colours) /\ \A i \in 1 .. Len(d), f \in Formats : Exact(d[i], f)
  BY DrawingsAssumption
<1>3. c = SubSeq(d, 1, n)
  BY DEF Cut
<1>. HIDE DEF n, c
<1>4. Len(d) \in Nat
  BY <1>2, LenProperties
<1>5. 1 \in 1 .. Len(d) + 1 /\ n \in 0 .. Len(d) /\ 1 <= n + 1 /\ n - 1 + 1 = n
  BY <1>1, <1>4
<1>6. c \in Seq(Colours) /\ Len(c) = n /\ \A i \in 1 .. n : c[i] = d[1 + i - 1]
  BY <1>2, <1>3, <1>5, PartFacts
<1>7. ASSUME NEW i \in 1 .. n, NEW f \in Formats PROVE Exact(c[i], f)
  <2>1. i \in 1 .. Len(d) /\ 1 + i - 1 = i
    BY <1>1, <1>4
  <2>2. c[i] = d[i]
    BY <1>6, <2>1
  <2>. QED  BY <1>2, <2>1, <2>2
<1>. QED  BY <1>6, <1>7 DEF n, c

\* Pixels that a format shows exactly are shown in its CPIXELs and its pixels.
LEMMA ExactShown ==
    ASSUME NEW px \in Seq(Colours), NEW f \in Formats, \A i \in 1 .. Len(px) : Exact(px[i], f)
    PROVE  /\ Shown(px, f, CPixelBytes(f)) /\ Shown(px, f, f.bpp)
           /\ CPixelBytes(f) \in {1, 2, 3} /\ (CPixelBytes(f) = 3 <=> f.bpp = 4)
<1>. DEFINE k == CPixelBytes(f)  limit == <<256, 65536, 16777216>>
<1>1. f.bpp \in {1, 2, 4} /\ f.big \in BOOLEAN
  BY FormatsAssumption
<1>2. k \in {1, 2, 3} /\ (k = 3 <=> f.bpp = 4) /\ (f.bpp # 4 => k = f.bpp)
  BY <1>1 DEF CPixelBytes
<1>3. limit[1] = 256 /\ limit[2] = 65536 /\ limit[3] = 16777216
  OBVIOUS
<1>4. ASSUME NEW i \in 1 .. Len(px)
      PROVE  /\ PixelOf(px[i], f) \in 0 .. limit[k] - 1
             /\ ToRgb(PixelOf(px[i], f), f) = px[i]
  BY DEF Exact
<1>. HIDE DEF k, limit
<1>5. ASSUME NEW i \in 1 .. Len(px)
      PROVE  /\ PixelOf(px[i], f) \in Nat
             /\ PixelOf(px[i], f) < (IF k = 1 THEN 256 ELSE IF k = 2 THEN 65536 ELSE 16777216)
             /\ PixelOf(px[i], f) < (IF f.bpp = 1 THEN 256 ELSE IF f.bpp = 2 THEN 65536 ELSE 16777216)
             /\ ToRgb(PixelOf(px[i], f), f) = px[i]
  <2>1. PixelOf(px[i], f) \in 0 .. limit[k] - 1
    BY <1>4
  <2>2. limit[k] = (IF k = 1 THEN 256 ELSE IF k = 2 THEN 65536 ELSE 16777216)
    BY <1>2, <1>3
  <2>3. limit[k] = (IF f.bpp = 1 THEN 256 ELSE IF f.bpp = 2 THEN 65536 ELSE 16777216)
    BY <1>1, <1>2, <1>3
  <2>4. limit[k] \in Nat
    BY <1>2, <1>3
  <2>5. PixelOf(px[i], f) \in Nat /\ PixelOf(px[i], f) < limit[k]
    BY <2>1, <2>4
  <2>. QED  BY <1>4, <2>2, <2>3, <2>5
<1>6. Shown(px, f, k)
  <2>1. k \in 1 .. 4
    BY <1>2
  <2>. QED  BY <1>1, <1>5, <2>1 DEF Shown
<1>7. Shown(px, f, f.bpp)
  <2>1. f.bpp \in 1 .. 4
    BY <1>1
  <2>. QED  BY <1>1, <1>5, <2>1 DEF Shown
<1>. QED  BY <1>2, <1>6, <1>7 DEF k

LEMMA DrawnFacts ==
    ASSUME screen \in Seq(Colours), NEW r, Inside(r), NEW px \in Seq(Colours), Len(px) = r[3] * r[4]
    PROVE  Drawn(r, px) \in Seq(Colours) /\ Len(Drawn(r, px)) = Len(screen)
<1>. DEFINE col(i) == ((i - 1) % Width) - r[1]
            row(i) == (i - 1) \div Width - r[2]
            at(i)  == row(i) * r[3] + col(i) + 1
            pixel(i) == IF col(i) \in 0 .. r[3] - 1 /\ row(i) \in 0 .. r[4] - 1
                        THEN px[at(i)] ELSE screen[i]
<1>1. /\ DOMAIN screen = 1 .. Len(screen) /\ Len(screen) \in Nat
      /\ r[3] \in Nat \ {0} /\ r[4] \in Nat \ {0}
  BY LenProperties DEF Inside
<1>2. Drawn(r, px) = [i \in 1 .. Len(screen) |-> pixel(i)]
  BY <1>1 DEF Drawn
<1>3. ASSUME NEW i \in 1 .. Len(screen) PROVE pixel(i) \in Colours
  <2>1. CASE col(i) \in 0 .. r[3] - 1 /\ row(i) \in 0 .. r[4] - 1
    <3>. DEFINE c == col(i)  a == row(i)  w == r[3]  h == r[4]
    <3>1. w \in Nat \ {0} /\ h \in Nat \ {0} /\ c \in 0 .. w - 1 /\ a \in 0 .. h - 1 /\ Len(px) = w * h
      BY <1>1, <2>1
    <3>. HIDE DEF c, a, w, h
    <3>2. a * w + c + 1 \in 1 .. Len(px)
      <4>. DEFINE s == a * w  g == h * w
      <4>1. a \in Nat /\ a < h /\ h \in Nat /\ w \in Nat /\ c \in Nat /\ c < w
        BY <3>1
      <4>2. s \in Nat /\ s + w <= g /\ g = w * h /\ g \in Nat
        BY <4>1, Products
      <4>3. Len(px) = g
        BY <3>1, <4>2
      <4>. HIDE DEF s, g
      <4>4. s + c + 1 \in 1 .. g
        BY <4>1, <4>2
      <4>. QED  BY <4>3, <4>4 DEF s
    <3>3. px[a * w + c + 1] \in Colours
      BY <3>2, ElementOfSeq
    <3>. QED  BY <2>1, <3>3 DEF c, a, w, h
  <2>2. CASE ~(col(i) \in 0 .. r[3] - 1 /\ row(i) \in 0 .. r[4] - 1)
    <3>1. screen[i] \in Colours
      BY ElementOfSeq
    <3>. QED  BY <2>2, <3>1
  <2>. QED  BY <2>1, <2>2
<1>. HIDE DEF pixel
<1>4. Drawn(r, px) \in [1 .. Len(screen) -> Colours]
  BY <1>2, <1>3
<1>. DEFINE n == Len(screen)  d == Drawn(r, px)
<1>5. n \in Nat /\ d \in [1 .. n -> Colours]
  BY <1>1, <1>4
<1>. HIDE DEF n, d, pixel
<1>6. d \in Seq(Colours) /\ Len(d) = n
  BY <1>5
<1>. QED  BY <1>6 DEF n, d

(***************************************************************************)
(* The rectangles, one encoding after the other: when the framebuffer was   *)
(* the desktop, and the rectangle was decoded and drawn, it is again.       *)
(***************************************************************************)

\* The types of the zlib streams.
StreamsTyped ==
    /\ serverZ \in [Streams -> Nat] /\ tight \in [Streams -> Nat]
    /\ serverZrle \in Nat /\ zrle \in Nat /\ disputed \in BOOLEAN

LEMMA Draws ==
    ASSUME TypeOK, RectDecoded, NEW r, Inside(r), NEW px \in Seq(Colours), Len(px) = r[3] * r[4],
           Sends(r, px), pixels' = BlitRgba(pixels, r[1], r[2], r[3], r[4], px), ok', StreamsTyped'
    PROVE  TypeOK' /\ RectDecoded'
<1>1. /\ screen \in Seq(Colours) /\ Len(screen) = Width * Height /\ pixels = screen
      /\ format \in Formats /\ sent \in 0 .. MaxRects /\ MaxRects \in Nat
  BY MaxRectsAssumption DEF TypeOK, RectDecoded
<1>2. screen' = Drawn(r, px) /\ sent' = sent + 1 /\ sent < MaxRects /\ format' = format
  BY DEF Sends
<1>3. BlitRgba(screen, r[1], r[2], r[3], r[4], px) = Drawn(r, px)
  BY <1>1, BlitDraws
<1>4. pixels' = screen'
  BY <1>1, <1>2, <1>3
<1>5. screen' \in Seq(Colours) /\ Len(screen') = Len(screen)
  BY <1>1, <1>2, DrawnFacts
<1>6. sent' \in 0 .. MaxRects
  BY <1>1, <1>2
<1>7. TypeOK'
  BY <1>1, <1>2, <1>4, <1>5, <1>6, Zenon DEF TypeOK, StreamsTyped
<1>. QED  BY <1>4, <1>7 DEF RectDecoded

LEMMA AtStart ==
    ASSUME NEW s \in Seq(Int)
    PROVE  At(s, 1, s)
<1>1. Len(s) \in Nat
  BY LenProperties
<1>. QED  BY <1>1 DEF At

LEMMA RawStep ==
    ASSUME TypeOK, RectDecoded, RawRect
    PROVE  TypeOK' /\ RectDecoded'
<1>1. PICK r \in Rects, d \in Drawings :
          /\ Sends(r, Cut(d, r))
          /\ pixels' = BlitRgba(pixels, r[1], r[2], r[3], r[4],
                                Rgbs(Written(Cut(d, r), format, format.bpp), 1, format.bpp,
                                     r[3] * r[4], format))
          /\ UNCHANGED <<serverZ, serverZrle, ok, tight, zrle, disputed>>
  BY Zenon DEF RawRect
<1>. DEFINE px == Cut(d, r)
            buf == Written(px, format, format.bpp)
<1>2. format \in Formats /\ StreamsTyped /\ ok
  BY DEF TypeOK, RectDecoded, StreamsTyped
<1>3. px \in Seq(Colours) /\ Len(px) = r[3] * r[4] /\ \A i \in 1 .. Len(px) : Exact(px[i], format)
  BY <1>2, CutFacts
<1>4. Inside(r)
  BY RectsInside
<1>. HIDE DEF px
<1>5. Shown(px, format, format.bpp)
  BY <1>2, <1>3, ExactShown
<1>6. buf \in Seq(Int)
  <2>1. WrittenIs(buf, px, format, format.bpp)
    BY <1>5, WrittenFacts
  <2>. QED  BY <2>1, Wider DEF WrittenIs
<1>7. At(buf, 1, buf)
  BY <1>6, AtStart
<1>8. Rgbs(buf, 1, format.bpp, Len(px), format) = px
  <2>. HIDE DEF buf
  <2>1. 1 \in Nat \ {0}
    OBVIOUS
  <2>. QED  BY <1>5, <1>6, <1>7, <2>1, PixelsRead DEF buf
<1>9. pixels' = BlitRgba(pixels, r[1], r[2], r[3], r[4], px) /\ Sends(r, px)
  BY <1>1, <1>3, <1>8 DEF px
<1>10. ok' /\ StreamsTyped'
  BY <1>1, <1>2 DEF StreamsTyped
<1>. QED  BY <1>3, <1>4, <1>9, <1>10, Draws

LEMMA CopyRectStep ==
    ASSUME TypeOK, RectDecoded, CopyRectRect
    PROVE  TypeOK' /\ RectDecoded'
<1>1. PICK r \in Rects, to \in Rects :
          /\ to[1] + r[3] <= Width /\ to[2] + r[4] <= Height
          /\ Sends(<<to[1], to[2], r[3], r[4]>>, Moved(r))
          /\ pixels' = CopyRect(pixels, to[1], to[2], r[1], r[2], r[3], r[4])
          /\ UNCHANGED <<serverZ, serverZrle, ok, tight, zrle, disputed>>
  BY Zenon DEF CopyRectRect, Moved
<1>. DEFINE q == <<to[1], to[2], r[3], r[4]>>
            px == Moved(r)
<1>2. /\ StreamsTyped /\ ok /\ pixels = screen
      /\ screen \in Seq(Colours) /\ Len(screen) = Width * Height
  BY DEF TypeOK, RectDecoded, StreamsTyped
<1>3. Inside(r) /\ Inside(to)
  BY RectsInside
<1>4. px \in Seq(Colours) /\ Len(px) = r[3] * r[4]
  BY <1>2, <1>3, MovedFacts
<1>5. Inside(q) /\ q[1] = to[1] /\ q[2] = to[2] /\ q[3] = r[3] /\ q[4] = r[4]
  BY <1>1, <1>3 DEF Inside
<1>6. CopyRect(screen, to[1], to[2], r[1], r[2], r[3], r[4])
        = BlitRgba(screen, to[1], to[2], r[3], r[4], px)
  BY <1>2, <1>3, CopyReads
<1>. HIDE DEF px
<1>7. pixels' = BlitRgba(pixels, q[1], q[2], q[3], q[4], px)
  BY <1>1, <1>2, <1>5, <1>6
<1>8. Sends(q, px) /\ Len(px) = q[3] * q[4]
  BY <1>1, <1>4, <1>5 DEF px
<1>9. ok' /\ StreamsTyped'
  BY <1>1, <1>2 DEF StreamsTyped
<1>. HIDE DEF q
<1>. QED  BY <1>4, <1>5, <1>7, <1>8, <1>9, Draws

(***************************************************************************)
(* Tight: lengths and data.                                                 *)
(***************************************************************************)

LEMMA LenBytesFacts ==
    ASSUME NEW n \in Nat
    PROVE  LenBytes(n) \in Seq(Int) /\ Len(LenBytes(n)) \in 1 .. 3
<1>. DEFINE q == n \div LenBase
<1>1. LenBase \in Nat \ {0}
  BY LenBaseAssumption
<1>2. q \in Nat /\ n % LenBase \in Int
  BY <1>1, Division
<1>3. q \div LenBase \in Int /\ q % LenBase \in Int
  <2>. HIDE DEF q
  <2>. QED  BY <1>1, <1>2, Division
<1>. DEFINE a == LenBase + (n % LenBase)  b == LenBase + (q % LenBase)  c == q \div LenBase
<1>4. a \in Int /\ b \in Int /\ c \in Int
  BY <1>1, <1>2, <1>3
<1>5. LenBytes(n) \in {<<n>>, <<a, q>>, <<a, b, c>>}
  BY DEF LenBytes
<1>. HIDE DEF a, b, c, q
<1>6. <<n>> \in Seq(Int) /\ Len(<<n>>) \in 1 .. 3
  OBVIOUS
<1>7. <<a, q>> \in Seq(Int) /\ Len(<<a, q>>) \in 1 .. 3
  BY <1>2, <1>4
<1>8. <<a, b, c>> \in Seq(Int) /\ Len(<<a, b, c>>) \in 1 .. 3
  BY <1>4
<1>. QED  BY <1>5, <1>6, <1>7, <1>8, Zenon

\* A length of two digits, and one of three: the digits of n in base LenBase.
LEMMA LengthDigits ==
    ASSUME NEW n \in Nat
    PROVE  LET q == n \div LenBase
               t == q \div LenBase
           IN  /\ q \in Nat /\ t \in Nat /\ n % LenBase \in 0 .. LenBase - 1 /\ q % LenBase \in 0 .. LenBase - 1
               /\ (n % LenBase) + q * LenBase = n
               /\ (n % LenBase) + (q % LenBase) * LenBase + t * (LenBase * LenBase) = n
               /\ n < LenBase * LenBase => q < LenBase
<1>. DEFINE B == LenBase  q == n \div B  r == n % B  t == q \div B  u == q % B
<1>1. B \in Nat \ {0} /\ B \in Nat
  BY LenBaseAssumption
<1>2. q \in Nat /\ r \in 0 .. B - 1 /\ n = B * q + r
  BY <1>1, Division
<1>3. t \in Nat /\ u \in 0 .. B - 1 /\ q = B * t + u
  <2>. HIDE DEF q, B
  <2>. QED  BY <1>1, <1>2, Division
<1>. HIDE DEF q, r, t, u, B
<1>4. B * q = q * B /\ q * B \in Nat
  BY <1>1, <1>2, Products
<1>5. r + q * B = n
  <2>. DEFINE g == q * B
  <2>1. n = g + r /\ g \in Nat
    BY <1>2, <1>4
  <2>. HIDE DEF g
  <2>2. r + g = n
    BY <1>2, <2>1
  <2>. QED  BY <2>2 DEF g
<1>6. q * B = t * (B * B) + u * B
  <2>1. B * t \in Nat /\ u \in Nat /\ B * t = t * B
    BY <1>1, <1>3, Products
  <2>2. (t * B + u) * B = (t * B) * B + u * B
    BY <1>1, <2>1, Products
  <2>3. (t * B) * B = t * (B * B)
    BY <1>1, <1>3
  <2>. QED  BY <1>3, <2>1, <2>2, <2>3
<1>7. r + u * B + t * (B * B) = n
  <2>. DEFINE g == u * B  e == t * (B * B)  i == q * B
  <2>1. g \in Nat /\ e \in Nat
    <3>1. u \in Nat /\ B * B \in Nat
      BY <1>1, <1>3, Products
    <3>. QED  BY <1>1, <1>3, <3>1, Products
  <2>2. i = e + g /\ r + i = n
    BY <1>5, <1>6
  <2>. HIDE DEF g, e, i
  <2>3. r + g + e = n
    BY <1>2, <2>1, <2>2
  <2>. QED  BY <2>3 DEF g, e
<1>8. ASSUME n < B * B PROVE q < B
  <2>. DEFINE g == q * B  e == B * B
  <2>1. g \in Nat /\ e \in Nat /\ (B <= q => e <= g)
    BY <1>1, <1>2, <1>4, Products
  <2>2. g + r = n /\ n < e
    BY <1>2, <1>4, <1>8
  <2>. HIDE DEF g, e
  <2>. QED  BY <1>1, <1>2, <2>1, <2>2
<1>. QED  BY <1>2, <1>3, <1>5, <1>7, <1>8 DEF B, q, r, t, u

\* What stands at a position is read there.
LEMMA BytesThere ==
    ASSUME NEW raw \in Seq(Int), NEW p \in Nat \ {0}, NEW s \in Seq(Int), At(raw, p, s)
    PROVE  \A i \in 1 .. Len(s) : Byte(raw, p + i - 1) = s[i]
<1>1. Len(raw) \in Nat /\ Len(s) \in Nat /\ DOMAIN raw = 1 .. Len(raw)
  BY LenProperties
<1>2. ASSUME NEW i \in 1 .. Len(s) PROVE Byte(raw, p + i - 1) = s[i]
  <2>1. p + i - 1 \in 1 .. Len(raw) /\ raw[p + i - 1] = s[i]
    BY <1>1 DEF At
  <2>. QED  BY <1>1, <2>1, Zenon DEF Byte
<1>. QED  BY <1>2

\* read_compact_len reads what was written, of one, two or three bytes.
THEOREM CompactBack ==
    ASSUME NEW raw \in Seq(Int), NEW p \in Nat \ {0}, NEW n \in Nat, At(raw, p, LenBytes(n))
    PROVE  CompactLen(raw, p) = [len |-> n, next |-> p + Len(LenBytes(n))]
<1>. DEFINE B == LenBase  q == n \div B  r == n % B  t == q \div B  u == q % B
            BB == B * B  qB == q * B  uB == u * B  tBB == t * BB
<1>1. B \in Nat \ {0, 1}
  BY LenBaseAssumption
<1>2. /\ q \in Nat /\ t \in Nat /\ r \in 0 .. B - 1 /\ u \in 0 .. B - 1
      /\ r + qB = n /\ r + uB + tBB = n /\ (n < BB => q < B)
  BY LengthDigits
<1>3. BB \in Nat /\ qB \in Nat /\ uB \in Nat /\ tBB \in Nat
  <2>. HIDE DEF q, r, t, u, B
  <2>1. BB \in Nat /\ u \in Nat /\ B \in Nat
    BY <1>1, <1>2
  <2>. HIDE DEF BB
  <2>. QED  BY <1>2, <2>1, Products
<1>4. \A i \in 1 .. Len(LenBytes(n)) : Byte(raw, p + i - 1) = LenBytes(n)[i]
  BY LenBytesFacts, BytesThere
<1>5. CASE n < B
  <2>1. LenBytes(n) = <<n>>
    BY <1>5 DEF LenBytes
  <2>2. Byte(raw, p) = n /\ Len(LenBytes(n)) = 1
    BY <1>4, <2>1
  <2>3. Byte(raw, p) < LenBase /\ ~(Byte(raw, p) >= LenBase)
    BY <1>1, <1>5, <2>2
  <2>4. CompactLen(raw, p) = [len |-> Byte(raw, p), next |-> p + 1]
    BY <2>3, Zenon DEF CompactLen
  <2>. QED  BY <2>2, <2>4
<1>6. CASE ~(n < B) /\ n < BB
  <2>1. LenBytes(n) = <<B + r, q>>
    BY <1>6 DEF LenBytes
  <2>2. Byte(raw, p) = B + r /\ Byte(raw, p + 1) = q /\ Len(LenBytes(n)) = 2
    BY <1>4, <2>1
  <2>. HIDE DEF B, q, r, qB, BB, uB, tBB
  <2>3. ~(B + r < B) /\ B + r >= B /\ q < B /\ (B + r) - B + qB = n
    BY <1>1, <1>2, <1>3, <1>6
  <2>4. ~(Byte(raw, p) < LenBase) /\ Byte(raw, p) >= LenBase /\ Byte(raw, p + 1) < LenBase
    BY <2>2, <2>3 DEF B
  <2>5. CompactLen(raw, p) = [len |-> Byte(raw, p) - LenBase + Byte(raw, p + 1) * LenBase, next |-> p + 2]
    BY <2>4, Zenon DEF CompactLen
  <2>6. Byte(raw, p) - LenBase + Byte(raw, p + 1) * LenBase = n
    BY <2>2, <2>3 DEF B, qB
  <2>. QED  BY <2>2, <2>5, <2>6
<1>7. CASE ~(n < B) /\ ~(n < BB)
  <2>1. LenBytes(n) = <<B + r, B + u, t>>
    BY <1>7 DEF LenBytes
  <2>2. Byte(raw, p) = B + r /\ Byte(raw, p + 1) = B + u /\ Byte(raw, p + 2) = t /\ Len(LenBytes(n)) = 3
    BY <1>4, <2>1
  <2>. HIDE DEF B, q, r, t, u, qB, BB, uB, tBB
  <2>3. /\ ~(B + r < B) /\ ~(B + u < B) /\ B + r >= B
        /\ (B + r) - B + uB + tBB = n /\ (B + u) - B = u
    BY <1>1, <1>2, <1>3
  <2>4. ~(Byte(raw, p) < LenBase) /\ Byte(raw, p) >= LenBase /\ ~(Byte(raw, p + 1) < LenBase)
    BY <2>2, <2>3 DEF B
  <2>5. CompactLen(raw, p)
          = [len |-> Byte(raw, p) - LenBase + (Byte(raw, p + 1) - LenBase) * LenBase
                       + Byte(raw, p + 2) * (LenBase * LenBase),
             next |-> p + 3]
    BY <2>4, Zenon DEF CompactLen
  <2>6. Byte(raw, p) - LenBase + (Byte(raw, p + 1) - LenBase) * LenBase + Byte(raw, p + 2) * (LenBase * LenBase) = n
    BY <2>2, <2>3 DEF B, BB, uB, tBB
  <2>. QED  BY <2>2, <2>5, <2>6
<1>. QED  BY <1>5, <1>6, <1>7

\* The bytes from a position on are those that stand there.
LEMMA PartAt ==
    ASSUME NEW raw \in Seq(Int), NEW p \in Nat \ {0}, NEW s \in Seq(Int), At(raw, p, s)
    PROVE  Part(raw, p, Len(s)) = s
<1>1. s = [i \in 1 .. Len(s) |-> s[i]]
  BY LenProperties
<1>2. \A i \in 1 .. Len(s) : Byte(raw, p + i - 1) = s[i]
  BY BytesThere
<1>. QED  BY <1>1, <1>2, Zenon DEF Part

LEMMA ShortRead ==
    ASSUME NEW raw, NEW p, NEW n, NEW s, NEW z, n <= MinToCompress
    PROVE  ReadData(raw, p, n, s, z)
             = [ok |-> TRUE, data |-> Part(raw, p, n), next |-> p + n, z |-> z]
BY Zenon DEF ReadData

LEMMA LongRead ==
    ASSUME NEW raw, NEW p, NEW n, NEW s, NEW z, ~(n <= MinToCompress), NEW c, c = CompactLen(raw, p)
    PROVE  ReadData(raw, p, n, s, z)
             = [ok |-> c.len = n + 1 /\ Byte(raw, c.next) = z[s], data |-> Part(raw, c.next + 1, n),
                next |-> c.next + c.len, z |-> [z EXCEPT ![s] = @ + 1]]
BY Zenon DEF ReadData

\* Data sent, of any length but MinToCompress, is read:
\* the bytes themselves, the position behind them, and the streams as the server has them.
DataReads(d, t, prefix, data) ==
    /\ d.ok /\ d.data = data /\ d.next = Len(t.bytes) + 1 /\ d.z = t.z
    /\ t.z \in [Streams -> Nat] /\ t.bytes \in Seq(Int) /\ At(t.bytes, 1, prefix)

LEMMA DataRead ==
    ASSUME NEW prefix \in Seq(Int), NEW data \in Seq(Int), NEW s \in Streams, NEW z \in [Streams -> Nat],
           ~Sent(prefix, data, s, z).edge
    PROVE  LET t == Sent(prefix, data, s, z)
           IN  DataReads(ReadData(t.bytes, Len(prefix) + 1, Len(data), s, z), t, prefix, data)
<1>. DEFINE t == Sent(prefix, data, s, z)
            n == Len(data)
            p == Len(prefix) + 1
            d == ReadData(t.bytes, p, n, s, z)
<1>1. n \in Nat /\ MinToCompress \in Nat /\ Len(prefix) \in Nat /\ p \in Nat \ {0}
  BY LenProperties, MinToCompressAssumption
<1>2. CASE n < MinToCompress
  <2>1. t = [bytes |-> prefix \o data, z |-> z, edge |-> FALSE]
    BY <1>2 DEF Sent
  <2>2. n <= MinToCompress
    BY <1>1, <1>2
  <2>3. d = [ok |-> TRUE, data |-> Part(prefix \o data, p, n), next |-> p + n, z |-> z]
    <3>1. t.bytes = prefix \o data
      BY <2>1
    <3>2. d = ReadData(prefix \o data, p, n, s, z)
      BY <3>1
    <3>. HIDE DEF d, t, n, p
    <3>. DEFINE raw == prefix \o data
    <3>. HIDE DEF raw
    <3>4. ReadData(raw, p, n, s, z)
            = [ok |-> TRUE, data |-> Part(raw, p, n), next |-> p + n, z |-> z]
      BY <2>2, ShortRead
    <3>3. ReadData(prefix \o data, p, n, s, z)
            = [ok |-> TRUE, data |-> Part(prefix \o data, p, n), next |-> p + n, z |-> z]
      BY <3>4, Zenon DEF raw
    <3>. QED  BY <3>2, <3>3, Zenon
  <2>4. At(prefix \o data, p, data) /\ At(prefix \o data, 1, prefix)
    BY AtEnd
  <2>5. prefix \o data \in Seq(Int) /\ Len(prefix \o data) + 1 = p + n
    BY <1>1, ConcatFacts
  <2>6. Part(prefix \o data, p, n) = data
    BY <1>1, <2>4, <2>5, PartAt
  <2>. HIDE DEF d, t, n, p
  <2>7. d.ok /\ d.data = data /\ d.next = p + n /\ d.z = z
    BY <2>3, <2>6
  <2>8. t.bytes = prefix \o data /\ t.z = z
    BY <2>1
  <2>. QED  BY <2>4, <2>5, <2>7, <2>8 DEF d, t, n, p, DataReads
<1>3. CASE ~(n < MinToCompress)
  <2>. DEFINE L == LenBytes(n + 1)
              a == prefix \o L
              b == a \o <<z[s]>>
              raw == b \o data
              c == CompactLen(raw, p)
  <2>1. t = [bytes |-> raw, z |-> [z EXCEPT ![s] = @ + 1], edge |-> n = MinToCompress]
    BY <1>3 DEF Sent
  <2>2. ~(n <= MinToCompress) /\ n + 1 \in Nat
    <3>1. t.edge = (n = MinToCompress)
      <4>. HIDE DEF raw, n, t
      <4>. QED  BY <2>1, Zenon
    <3>2. ~t.edge
      OBVIOUS
    <3>. HIDE DEF t, n
    <3>3. n # MinToCompress
      BY <3>1, <3>2, Zenon
    <3>. QED  BY <1>1, <1>3, <3>3
  <2>3. d = [ok |-> c.len = n + 1 /\ Byte(raw, c.next) = z[s], data |-> Part(raw, c.next + 1, n),
             next |-> c.next + c.len, z |-> [z EXCEPT ![s] = @ + 1]]
    <3>. HIDE DEF raw
    <3>1. t.bytes = raw
      BY <2>1
    <3>2. d = ReadData(raw, p, n, s, z)
      BY <3>1
    <3>3. c = CompactLen(raw, p)
      OBVIOUS
    <3>. HIDE DEF c, d, t, n, p
    <3>4. ReadData(raw, p, n, s, z)
            = [ok |-> c.len = n + 1 /\ Byte(raw, c.next) = z[s], data |-> Part(raw, c.next + 1, n),
               next |-> c.next + c.len, z |-> [z EXCEPT ![s] = @ + 1]]
      BY <2>2, <3>3, LongRead, SMTT(40)
    <3>. QED  BY <3>2, <3>4, Zenon
  <2>4. L \in Seq(Int) /\ Len(L) \in Nat
    BY <2>2, LenBytesFacts
  <2>5. <<z[s]>> \in Seq(Int) /\ Len(<<z[s]>>) = 1 /\ <<z[s]>>[1] = z[s]
    <3>1. z[s] \in Int
      OBVIOUS
    <3>. QED  BY <3>1
  <2>. HIDE DEF L
  <2>. DEFINE y == <<z[s]>>
  <2>6. y \in Seq(Int) /\ Len(y) = 1 /\ y[1] = z[s]
    BY <2>5
  <2>. HIDE DEF y
  <2>7. a \in Seq(Int) /\ Len(a) = Len(prefix) + Len(L) /\ At(a, p, L) /\ At(a, 1, prefix)
    BY <2>4, ConcatFacts, AtEnd
  <2>. HIDE DEF a
  <2>8. b = a \o y
    BY DEF y
  <2>. HIDE DEF b
  <2>9. b \in Seq(Int) /\ Len(b) = Len(a) + 1 /\ At(b, Len(a) + 1, y)
    <3>1. a \o y \in Seq(Int) /\ Len(a \o y) = Len(a) + Len(y)
      BY <2>6, <2>7, ConcatFacts
    <3>2. At(a \o y, Len(a) + 1, y)
      BY <2>6, <2>7, AtEnd
    <3>. QED  BY <2>6, <2>8, <3>1, <3>2
  <2>10. At(b, p, L) /\ At(b, 1, prefix)
    <3>1. 1 \in Nat \ {0}
      OBVIOUS
    <3>. QED  BY <1>1, <2>4, <2>6, <2>7, <2>8, <3>1, AtLonger
  <2>11. raw \in Seq(Int) /\ Len(raw) = Len(b) + n /\ At(raw, Len(b) + 1, data)
    BY <2>9, ConcatFacts, AtEnd
  <2>12. At(raw, p, L) /\ At(raw, 1, prefix) /\ At(raw, Len(a) + 1, y)
    <3>1. 1 \in Nat \ {0} /\ Len(a) + 1 \in Nat \ {0}
      BY <2>7, LenProperties
    <3>. HIDE DEF p
    <3>. QED  BY <1>1, <2>4, <2>6, <2>9, <2>10, <3>1, AtLonger
  <2>. HIDE DEF raw
  <2>13. c = [len |-> n + 1, next |-> p + Len(L)]
    BY <1>1, <2>2, <2>11, <2>12, CompactBack DEF L
  <2>14. p + Len(L) = Len(a) + 1
    BY <1>1, <2>4, <2>7
  <2>15. c.next = Len(a) + 1 /\ c.len = n + 1
    BY <2>13, <2>14
  <2>16. Byte(raw, Len(a) + 1) = z[s]
    <3>1. Len(a) + 1 \in Nat \ {0} /\ (Len(a) + 1) + 1 - 1 = Len(a) + 1 /\ 1 \in 1 .. Len(y)
      BY <2>6, <2>7, LenProperties
    <3>2. Byte(raw, (Len(a) + 1) + 1 - 1) = y[1]
      BY <2>6, <2>11, <2>12, <3>1, BytesThere
    <3>. QED  BY <2>6, <3>1, <3>2
  <2>. HIDE DEF c
  <2>17. c.next + 1 = Len(b) + 1 /\ c.next + c.len = Len(raw) + 1 /\ Len(b) + 1 \in Nat \ {0}
    <3>. DEFINE A == Len(a)  B == Len(b)  R == Len(raw)  e == c.next  v == c.len
    <3>1. A \in Nat
      BY <2>7, LenProperties
    <3>2. B = A + 1 /\ R = B + n /\ e = A + 1 /\ v = n + 1 /\ n \in Nat
      BY <1>1, <2>9, <2>11, <2>15
    <3>. HIDE DEF A, B, R, e, v, n
    <3>3. e + 1 = B + 1 /\ e + v = R + 1 /\ B + 1 \in Nat \ {0}
      BY <3>1, <3>2
    <3>. QED  BY <3>3 DEF B, R, e, v
  <2>18. Part(raw, Len(b) + 1, n) = data
    BY <2>11, <2>17, PartAt
  <2>. HIDE DEF d, t, n, p
  <2>19. d.ok /\ d.data = data /\ d.next = Len(raw) + 1 /\ d.z = [z EXCEPT ![s] = @ + 1]
    BY <2>3, <2>15, <2>16, <2>17, <2>18
  <2>20. t.bytes = raw /\ t.z = [z EXCEPT ![s] = @ + 1]
    BY <2>1
  <2>21. [z EXCEPT ![s] = @ + 1] \in [Streams -> Nat]
    OBVIOUS
  <2>. QED  BY <2>11, <2>12, <2>19, <2>20, <2>21 DEF d, t, n, p, DataReads
<1>. QED  BY <1>2, <1>3

(***************************************************************************)
(* Tight: the gradient filter.                                              *)
(***************************************************************************)

\* A set of natural numbers has a least one.
LEMMA Least ==
    ASSUME NEW T \in SUBSET Nat, T # {}
    PROVE  \E m \in T : \A j \in T : m <= j
<1>. DEFINE R == {p \in Nat \X Nat : p[1] < p[2]}
<1>1. \A j, m \in Nat : j < m => <<j, m>> \in R
  OBVIOUS
<1>2. IsWellFoundedOn(R, Nat)
  BY NatLessThanWellFounded DEF IsWellFoundedOn, OpToRel
<1>. HIDE DEF R
<1>3. PICK m \in T : \A j \in T : ~(<<j, m>> \in R)
  BY <1>2, WFMin
<1>4. ASSUME NEW j \in T PROVE m <= j
  <2>1. j \in Nat /\ m \in Nat
    OBVIOUS
  <2>2. ~(j < m)
    BY <1>1, <1>3, <2>1
  <2>. QED  BY <2>1, <2>2
<1>. QED  BY <1>4

\* A byte of the filter: what decoding gets from it, with the neighbours of out.
Ungradient(g, out, i, w, k) ==
    LET inCol == ((i - 1) \div k) % w > 0
        inRow == (i - 1) \div (k * w) > 0
    IN  IF i = 0 THEN 0
        ELSE (g[i] + Predicted(Neighbour(out, i, k, inCol), Neighbour(out, i, w * k, inRow),
                               Neighbour(out, i, (w + 1) * k, inCol /\ inRow))) % 256

LEMMA InverseIs ==
    ASSUME NEW g, NEW w, NEW k
    PROVE  InverseGradient(g, w, k)
             = [i \in DOMAIN g |->
                  (CHOOSE out : out = [j \in 0 .. Len(g) |-> Ungradient(g, out, j, w, k)])[i]]
BY DEF InverseGradient, Ungradient

\* The neighbours a byte is corrected by stand before it.
LEMMA NeighboursBefore ==
    ASSUME NEW w \in Nat \ {0}, NEW k \in Nat \ {0}, NEW i \in Nat \ {0}
    PROVE  /\ ((i - 1) \div k) % w > 0 => i - k \in 1 .. i - 1
           /\ (i - 1) \div (k * w) > 0 => i - w * k \in 1 .. i - 1
           /\ ((i - 1) \div k) % w > 0 /\ (i - 1) \div (k * w) > 0 => i - (w + 1) * k \in 1 .. i - 1
<1>. DEFINE v == i - 1  a == v \div k  r == v % k  m == k * w  q == v \div m  e == v % m
            ak == a * k  qm == q * m  wk == w * k  w1k == (w + 1) * k
<1>1. v \in Nat /\ i = v + 1 /\ w \in Nat /\ k \in Nat /\ w + 1 \in Nat /\ w >= 1 /\ k >= 1
  OBVIOUS
<1>2. m \in Nat \ {0} /\ m = wk /\ wk \in Nat /\ w1k = wk + k
  <2>1. m \in Nat /\ m = wk /\ wk \in Nat /\ w1k = wk + k
    BY <1>1, Products
  <2>2. 1 * k <= w * k
    <3>1. 1 \in Nat
      OBVIOUS
    <3>. QED  BY <1>1, <3>1, Products
  <2>3. 1 * k = k
    BY <1>1
  <2>. HIDE DEF m, wk, w1k
  <2>. QED  BY <1>1, <2>1, <2>2, <2>3 DEF wk
<1>. HIDE DEF v
<1>3. a \in Nat /\ r \in 0 .. k - 1 /\ v = k * a + r
  BY <1>1, Division
<1>. HIDE DEF m
<1>4. q \in Nat /\ e \in 0 .. m - 1 /\ v = m * q + e
  BY <1>1, <1>2, Division
<1>. HIDE DEF a, r, q, e
<1>5. ak \in Nat /\ ak = k * a /\ qm \in Nat /\ qm = m * q
  BY <1>1, <1>2, <1>3, <1>4, Products
<1>6. a >= 1 => k <= ak
  <2>1. 1 <= a => 1 * k <= a * k
    <3>1. 1 \in Nat
      OBVIOUS
    <3>. QED  BY <1>1, <1>3, <3>1, Products
  <2>2. 1 * k = k
    BY <1>1
  <2>. QED  BY <1>3, <2>1, <2>2
<1>7. q >= 1 => m <= qm
  <2>1. 1 <= q => 1 * m <= q * m
    <3>1. 1 \in Nat
      OBVIOUS
    <3>. QED  BY <1>2, <1>4, <3>1, Products
  <2>2. 1 * m = m
    BY <1>2
  <2>. QED  BY <1>4, <2>1, <2>2
<1>8. (a < w => ak + k <= wk) /\ (w + 1 <= a => w1k <= ak)
  BY <1>1, <1>3, Products
<1>9. v = ak + r /\ v = qm + e
  BY <1>3, <1>4, <1>5
<1>. HIDE DEF ak, qm, wk, w1k
<1>10. a % w > 0 => a >= 1 /\ a # w
  <2>1. 0 % w = 0 /\ w % w = 0
    BY <1>1
  <2>. QED  BY <1>3, <2>1
<1>11. a % w > 0 => i - k \in 1 .. i - 1
  BY <1>1, <1>3, <1>5, <1>6, <1>9, <1>10
<1>12. q > 0 => i - wk \in 1 .. i - 1 /\ wk <= v
  BY <1>1, <1>2, <1>4, <1>5, <1>7, <1>9
<1>13. ASSUME a % w > 0, q > 0 PROVE i - w1k \in 1 .. i - 1
  <2>1. ~(a < w)
    BY <1>1, <1>2, <1>3, <1>5, <1>8, <1>9, <1>12, <1>13
  <2>2. w + 1 <= a
    BY <1>1, <1>3, <1>10, <1>13, <2>1
  <2>. QED  BY <1>1, <1>2, <1>3, <1>5, <1>8, <1>9, <2>2
<1>. QED  BY <1>11, <1>12, <1>13 DEF v, a, q, m, wk, w1k

\* What is taken away is what is added again: a byte and what is predicted for it.
Taken(l, t, c) == Max({0, Min({255, l + t - c})})
CorrectedIs(b, l, t, c) ==
    /\ (b - Taken(l, t, c)) % 256 \in 0 .. 255
    /\ (((b - Taken(l, t, c)) % 256) + Predicted(l, t, c)) % 256 = b

LEMMA Corrected ==
    ASSUME NEW b \in 0 .. 255, NEW l \in 0 .. 255, NEW t \in 0 .. 255, NEW c \in 0 .. 255
    PROVE  CorrectedIs(b, l, t, c)
<1>. DEFINE v == l + t - c  m == Min({255, v})  taken == Max({0, m})
<1>1. v \in Int
  OBVIOUS
<1>. HIDE DEF v
<1>2. m \in {255, v} /\ m <= 255 /\ m <= v
  <2>1. \E x \in {255, v} : \A y \in {255, v} : x <= y
    BY <1>1
  <2>. QED  BY <2>1 DEF Min
<1>. HIDE DEF m
<1>3. taken \in {0, m} /\ taken >= 0 /\ taken >= m
  <2>1. m \in Int
    BY <1>1, <1>2
  <2>2. \E x \in {0, m} : \A y \in {0, m} : x >= y
    BY <2>1
  <2>. QED  BY <2>2 DEF Max
<1>. HIDE DEF taken
<1>4. taken = (IF v < 0 THEN 0 ELSE IF v > 255 THEN 255 ELSE v)
  BY <1>1, <1>2, <1>3
<1>5. Predicted(l, t, c) = taken
  BY <1>4 DEF Predicted, v
<1>6. taken \in 0 .. 255
  BY <1>1, <1>4
<1>7. (b - taken) % 256 \in 0 .. 255 /\ (((b - taken) % 256) + taken) % 256 = b
  BY <1>6
<1>8. Taken(l, t, c) = taken
  BY DEF Taken, taken, m, v
<1>. QED  BY <1>5, <1>7, <1>8 DEF CorrectedIs

\* A byte is decoded when those before it are.
LEMMA UngradientBack ==
    ASSUME NEW data \in Seq(0 .. 255), NEW w \in Nat \ {0}, NEW k \in Nat \ {0},
           NEW i \in 1 .. Len(data), NEW out, \A j \in 1 .. i - 1 : out[j] = data[j]
    PROVE  /\ Ungradient(Gradient(data, w, k), out, i, w, k) = data[i]
           /\ Gradient(data, w, k)[i] \in 0 .. 255
<1>. DEFINE inCol == ((i - 1) \div k) % w > 0
            inRow == (i - 1) \div (k * w) > 0
            l == Neighbour(data, i, k, inCol)
            t == Neighbour(data, i, w * k, inRow)
            c == Neighbour(data, i, (w + 1) * k, inCol /\ inRow)
            taken == Taken(l, t, c)
            g == Gradient(data, w, k)
<1>1. Len(data) \in Nat /\ DOMAIN data = 1 .. Len(data) /\ i \in Nat \ {0} /\ i # 0
  BY LenProperties
<1>2. /\ inCol => i - k \in 1 .. i - 1
      /\ inRow => i - w * k \in 1 .. i - 1
      /\ inCol /\ inRow => i - (w + 1) * k \in 1 .. i - 1
  BY <1>1, NeighboursBefore
<1>3. g[i] = (data[i] - taken) % 256
  BY <1>1 DEF Gradient, Taken
<1>4. Ungradient(g, out, i, w, k)
        = (g[i] + Predicted(Neighbour(out, i, k, inCol), Neighbour(out, i, w * k, inRow),
                            Neighbour(out, i, (w + 1) * k, inCol /\ inRow))) % 256
  <2>. HIDE DEF g
  <2>. QED  BY <1>1 DEF Ungradient
<1>5. \A j \in 1 .. i - 1 : data[j] \in 0 .. 255
  <2>1. ASSUME NEW j \in 1 .. i - 1 PROVE data[j] \in 0 .. 255
    <3>1. j \in 1 .. Len(data)
      BY <1>1
    <3>. QED  BY <3>1, ElementOfSeq
  <2>. QED  BY <2>1
<1>6. data[i] \in 0 .. 255
  BY ElementOfSeq
<1>. DEFINE wk == w * k  w1k == (w + 1) * k
<1>. HIDE DEF inCol, inRow, wk, w1k, g
<1>7. Neighbour(out, i, k, inCol) = l /\ l \in 0 .. 255
  BY <1>2, <1>5 DEF Neighbour
<1>8. Neighbour(out, i, wk, inRow) = Neighbour(data, i, wk, inRow) /\ Neighbour(data, i, wk, inRow) \in 0 .. 255
  <2>1. inRow => i - wk \in 1 .. i - 1
    BY <1>2 DEF wk
  <2>. QED  BY <1>5, <2>1 DEF Neighbour
<1>9. /\ Neighbour(out, i, w1k, inCol /\ inRow) = Neighbour(data, i, w1k, inCol /\ inRow)
      /\ Neighbour(data, i, w1k, inCol /\ inRow) \in 0 .. 255
  <2>1. inCol /\ inRow => i - w1k \in 1 .. i - 1
    BY <1>2 DEF w1k
  <2>. QED  BY <1>5, <2>1 DEF Neighbour
<1>10. Ungradient(g, out, i, w, k) = (g[i] + Predicted(l, t, c)) % 256
  BY <1>4, <1>7, <1>8, <1>9 DEF wk, w1k
<1>11. l \in 0 .. 255 /\ t \in 0 .. 255 /\ c \in 0 .. 255
  BY <1>7, <1>8, <1>9 DEF wk, w1k
<1>. HIDE DEF l, t, c
<1>12. (data[i] - taken) % 256 \in 0 .. 255 /\ (((data[i] - taken) % 256) + Predicted(l, t, c)) % 256 = data[i]
  <2>. DEFINE b == data[i]
  <2>1. b \in 0 .. 255
    BY <1>6
  <2>. HIDE DEF b
  <2>2. CorrectedIs(b, l, t, c)
    BY <1>11, <2>1, Corrected, Zenon
  <2>. QED  BY <2>2 DEF b, CorrectedIs
<1>. QED  BY <1>3, <1>10, <1>12 DEF g

\* inverse_gradient of tight.rs gives back the bytes the server's filter was given,
\* for any width, any size of a pixel and any length.
THEOREM GradientBack ==
    ASSUME NEW data \in Seq(0 .. 255), NEW w \in Nat \ {0}, NEW k \in Nat \ {0}
    PROVE  /\ Gradient(data, w, k) \in Seq(0 .. 255) /\ Len(Gradient(data, w, k)) = Len(data)
           /\ InverseGradient(Gradient(data, w, k), w, k) = data
<1>. DEFINE n == Len(data)
            g == Gradient(data, w, k)
            Solves(out) == out = [j \in 0 .. Len(g) |-> Ungradient(g, out, j, w, k)]
            known == [j \in 0 .. n |-> IF j = 0 THEN 0 ELSE data[j]]
            found == CHOOSE out : Solves(out)
<1>1. n \in Nat /\ DOMAIN data = 1 .. n
  BY LenProperties
<1>2. DOMAIN g = 1 .. n
  BY <1>1 DEF Gradient
<1>3. \A i \in 1 .. n : g[i] \in 0 .. 255
  <2>1. ASSUME NEW i \in 1 .. n PROVE g[i] \in 0 .. 255
    BY UngradientBack
  <2>. QED  BY <2>1
<1>4. g \in Seq(0 .. 255) /\ Len(g) = n
  <2>1. g = [i \in 1 .. n |-> g[i]]
    <3>1. g = [i \in DOMAIN g |-> g[i]]
      BY DEF Gradient
    <3>. QED  BY <1>2, <3>1, Zenon
  <2>. HIDE DEF g, n
  <2>2. g \in [1 .. n -> 0 .. 255]
    BY <1>3, <2>1
  <2>. QED  BY <1>1, <2>2
<1>5. \A out, i : (i \in 1 .. n /\ \A j \in 1 .. i - 1 : out[j] = data[j])
                    => Ungradient(g, out, i, w, k) = data[i]
  <2>1. ASSUME NEW out, NEW i \in 1 .. n, \A j \in 1 .. i - 1 : out[j] = data[j]
        PROVE  Ungradient(g, out, i, w, k) = data[i]
    BY <2>1, UngradientBack
  <2>. QED  BY <2>1
<1>6. \A out : Ungradient(g, out, 0, w, k) = 0
  BY DEF Ungradient
<1>. HIDE DEF g
<1>7. Solves(known)
  <2>1. ASSUME NEW i \in 0 .. n PROVE known[i] = Ungradient(g, known, i, w, k)
    <3>1. CASE i = 0
      BY <1>6, <3>1
    <3>2. CASE i # 0
      <4>1. i \in 1 .. n /\ \A j \in 1 .. i - 1 : known[j] = data[j]
        BY <1>1, <3>2
      <4>2. known[i] = data[i]
        BY <3>2
      <4>. QED  BY <1>5, <4>1, <4>2, Zenon
    <3>. QED  BY <3>1, <3>2
  <2>. HIDE DEF n
  <2>. QED  BY <1>4, <2>1
<1>8. Solves(found)
  <2>. HIDE DEF Solves
  <2>. QED  BY <1>7, Zenon
<1>. HIDE DEF found, known
<1>9. \A i \in 1 .. n : found[i] = Ungradient(g, found, i, w, k)
  <2>1. found = [j \in 0 .. n |-> Ungradient(g, found, j, w, k)]
    BY <1>4, <1>8
  <2>2. ASSUME NEW i \in 1 .. n PROVE i \in 0 .. n
    BY <1>1
  <2>. QED  BY <2>1, <2>2, Zenon
<1>10. \A i \in 1 .. n : found[i] = data[i]
  <2>. DEFINE T == {i \in 1 .. n : found[i] # data[i]}
  <2>1. SUFFICES ASSUME T # {} PROVE FALSE
    OBVIOUS
  <2>2. T \in SUBSET Nat
    BY <1>1
  <2>. HIDE DEF T
  <2>3. PICK m \in T : \A j \in T : m <= j
    BY <2>1, <2>2, Least
  <2>4. m \in 1 .. n /\ found[m] # data[m] /\ m \in Nat
    BY <2>2 DEF T
  <2>5. ASSUME NEW j \in 1 .. m - 1 PROVE found[j] = data[j]
    <3>1. j \in 1 .. n /\ ~(m <= j)
      BY <1>1, <2>4
    <3>. QED  BY <2>3, <3>1 DEF T
  <2>6. Ungradient(g, found, m, w, k) = data[m]
    BY <1>5, <2>4, <2>5
  <2>. QED  BY <1>9, <2>4, <2>6
<1>11. InverseGradient(g, w, k) = [i \in 1 .. n |-> found[i]]
  <2>1. InverseGradient(g, w, k) = [i \in DOMAIN g |-> found[i]]
    BY InverseIs DEF found
  <2>. QED  BY <1>2, <2>1, Zenon
<1>12. data = [i \in 1 .. n |-> data[i]]
  BY <1>1
<1>13. InverseGradient(g, w, k) = data
  <2>. HIDE DEF n
  <2>. QED  BY <1>10, <1>11, <1>12
<1>. QED  BY <1>4, <1>13 DEF g

(***************************************************************************)
(* Tight: the palette filter.                                               *)
(***************************************************************************)

\* Eight bits in a byte, and each of them taken out of it.
LEMMA BitsOfByte ==
    ASSUME NEW bit \in [0 .. 7 -> {0, 1}], NEW c \in 0 .. 7
    PROVE  LET byte == 128 * bit[0] + 64 * bit[1] + 32 * bit[2] + 16 * bit[3]
                       + 8 * bit[4] + 4 * bit[5] + 2 * bit[6] + bit[7]
           IN  byte \in Nat /\ (Bit(byte, 7 - c) <=> bit[c] = 1)
<1>. DEFINE a0 == bit[0]  a1 == bit[1]  a2 == bit[2]  a3 == bit[3]
            a4 == bit[4]  a5 == bit[5]  a6 == bit[6]  a7 == bit[7]
            byte == 128 * a0 + 64 * a1 + 32 * a2 + 16 * a3 + 8 * a4 + 4 * a5 + 2 * a6 + a7
            weight == <<1, 2, 4, 8, 16, 32, 64, 128>>
<1>1. /\ a0 \in {0, 1} /\ a1 \in {0, 1} /\ a2 \in {0, 1} /\ a3 \in {0, 1}
      /\ a4 \in {0, 1} /\ a5 \in {0, 1} /\ a6 \in {0, 1} /\ a7 \in {0, 1}
  OBVIOUS
<1>2. /\ weight[1] = 1 /\ weight[2] = 2 /\ weight[3] = 4 /\ weight[4] = 8
      /\ weight[5] = 16 /\ weight[6] = 32 /\ weight[7] = 64 /\ weight[8] = 128
  OBVIOUS
<1>3. Bit(byte, 7 - c) <=> (byte \div weight[(7 - c) + 1]) % 2 = 1
  BY DEF Bit
<1>. HIDE DEF a0, a1, a2, a3, a4, a5, a6, a7, weight
<1>4. byte \in Nat
  BY <1>1
<1>5. /\ (byte \div 128) % 2 = a0 /\ (byte \div 64) % 2 = a1 /\ (byte \div 32) % 2 = a2
      /\ (byte \div 16) % 2 = a3 /\ (byte \div 8) % 2 = a4 /\ (byte \div 4) % 2 = a5
      /\ (byte \div 2) % 2 = a6 /\ (byte \div 1) % 2 = a7
  <2>1. (byte \div 128) % 2 = a0
    BY <1>1
  <2>2. (byte \div 64) % 2 = a1
    BY <1>1
  <2>3. (byte \div 32) % 2 = a2
    BY <1>1
  <2>4. (byte \div 16) % 2 = a3
    BY <1>1
  <2>5. (byte \div 8) % 2 = a4
    BY <1>1
  <2>6. (byte \div 4) % 2 = a5
    BY <1>1
  <2>7. (byte \div 2) % 2 = a6
    BY <1>1
  <2>8. (byte \div 1) % 2 = a7
    BY <1>1
  <2>. QED  BY <2>1, <2>2, <2>3, <2>4, <2>5, <2>6, <2>7, <2>8
<1>. HIDE DEF byte
<1>6. Bit(byte, 7 - c) <=> bit[c] = 1
  <2>1. c \in {0, 1, 2, 3, 4, 5, 6, 7}
    OBVIOUS
  <2>2. CASE c \in {0, 1, 2, 3}
    BY <1>2, <1>3, <1>5, <2>2 DEF a0, a1, a2, a3
  <2>3. CASE c \in {4, 5, 6, 7}
    BY <1>2, <1>3, <1>5, <2>3 DEF a4, a5, a6, a7
  <2>. QED  BY <2>1, <2>2, <2>3
<1>. QED  BY <1>4, <1>6 DEF byte, a0, a1, a2, a3, a4, a5, a6, a7

\* A column is a bit of a byte of its row.
LEMMA BytesOfRow ==
    ASSUME NEW w \in Nat \ {0}, NEW col \in 0 .. w - 1
    PROVE  /\ (w + 7) \div 8 \in Nat \ {0}
           /\ col \div 8 \in Nat /\ col \div 8 + 1 \in 1 .. (w + 7) \div 8
           /\ col % 8 \in 0 .. 7 /\ (col \div 8) * 8 + (col % 8) = col
OBVIOUS

\* The bits of a byte of BitRows.
BitAt(idx, w, row, col) == IF col < w THEN idx[row * w + col + 1] ELSE 0
ByteAt(idx, w, row, j) ==
    128 * BitAt(idx, w, row, j * 8 + 0) + 64 * BitAt(idx, w, row, j * 8 + 1)
    + 32 * BitAt(idx, w, row, j * 8 + 2) + 16 * BitAt(idx, w, row, j * 8 + 3)
    + 8 * BitAt(idx, w, row, j * 8 + 4) + 4 * BitAt(idx, w, row, j * 8 + 5)
    + 2 * BitAt(idx, w, row, j * 8 + 6) + BitAt(idx, w, row, j * 8 + 7)

BitIs(idx, w, row, j, c) ==
    /\ ByteAt(idx, w, row, j) \in Nat
    /\ Bit(ByteAt(idx, w, row, j), 7 - c) <=> BitAt(idx, w, row, j * 8 + c) = 1

LEMMA BitRowsIs ==
    ASSUME NEW idx, NEW w
    PROVE  BitRows(idx, w)
             = [i \in 1 .. ((w + 7) \div 8) * (Len(idx) \div w) |->
                  ByteAt(idx, w, (i - 1) \div ((w + 7) \div 8), (i - 1) % ((w + 7) \div 8))]
BY Zenon DEF BitRows, ByteAt, BitAt

LEMMA BitsAre ==
    ASSUME NEW w \in Nat \ {0}, NEW h \in Nat \ {0}, NEW idx \in Seq({0, 1}), Len(idx) = w * h,
           NEW row \in 0 .. h - 1, NEW j \in Nat, NEW c \in 0 .. 7
    PROVE  BitIs(idx, w, row, j, c)
<1>. DEFINE g == w * h
            bit == [b \in 0 .. 7 |-> BitAt(idx, w, row, j * 8 + b)]
            byte == ByteAt(idx, w, row, j)
<1>1. ASSUME NEW col \in Nat PROVE BitAt(idx, w, row, col) \in {0, 1}
  <2>1. CASE col < w
    <3>. DEFINE i == row * w + col + 1
    <3>1. i \in 1 .. Len(idx)
      <4>. DEFINE a == row + 1  b == col + 1
      <4>1. a \in 1 .. h /\ b \in 1 .. w /\ h \in Nat
        BY <2>1
      <4>2. (a - 1) * w + b \in 1 .. w * h
        <5>. HIDE DEF a, b
        <5>. QED  BY <4>1, Places
      <4>3. a - 1 = row
        OBVIOUS
      <4>. DEFINE s == row * w
      <4>4. s + b \in 1 .. g
        BY <4>2, <4>3
      <4>5. s \in Nat /\ g \in Nat
        <5>1. row \in Nat /\ w \in Nat /\ h \in Nat
          OBVIOUS
        <5>. QED  BY <5>1, Products
      <4>6. i = s + col + 1 /\ Len(idx) = g
        OBVIOUS
      <4>. HIDE DEF s, g, i
      <4>7. i = s + b
        BY <4>5, <4>6
      <4>. QED  BY <4>4, <4>6, <4>7
    <3>. HIDE DEF i
    <3>2. idx[i] \in {0, 1}
      BY <3>1, ElementOfSeq
    <3>. QED  BY <2>1, <3>2 DEF BitAt, i
  <2>2. CASE ~(col < w)
    BY <2>2 DEF BitAt
  <2>. QED  BY <2>1, <2>2
<1>2. bit \in [0 .. 7 -> {0, 1}]
  <2>1. ASSUME NEW b \in 0 .. 7 PROVE BitAt(idx, w, row, j * 8 + b) \in {0, 1}
    <3>1. j * 8 + b \in Nat
      OBVIOUS
    <3>. QED  BY <1>1, <3>1
  <2>. QED  BY <2>1
<1>3. byte = 128 * bit[0] + 64 * bit[1] + 32 * bit[2] + 16 * bit[3]
               + 8 * bit[4] + 4 * bit[5] + 2 * bit[6] + bit[7]
  BY DEF ByteAt
<1>4. bit[c] = BitAt(idx, w, row, j * 8 + c)
  OBVIOUS
<1>. HIDE DEF bit, byte
<1>5. byte \in Nat /\ (Bit(byte, 7 - c) <=> bit[c] = 1)
  BY <1>2, <1>3, BitsOfByte
<1>. QED  BY <1>4, <1>5 DEF byte, BitIs

\* Rows of bits: the indices of the pixels, h rows of w.
RowsAre(rows, idx, w, h) ==
    /\ rows \in Seq(Int) /\ Len(rows) = ((w + 7) \div 8) * h
    /\ \A row \in 0 .. h - 1, col \in 0 .. w - 1 :
          Bit(rows[row * ((w + 7) \div 8) + col \div 8 + 1], 7 - (col % 8))
            <=> idx[row * w + col + 1] = 1

LEMMA BitRowsBack ==
    ASSUME NEW w \in Nat \ {0}, NEW h \in Nat \ {0}, NEW idx \in Seq({0, 1}), Len(idx) = w * h
    PROVE  RowsAre(BitRows(idx, w), idx, w, h)
<1>. DEFINE k == (w + 7) \div 8  n == k * h  rows == BitRows(idx, w)
<1>1. k \in Nat \ {0} /\ k \in Nat
  OBVIOUS
<1>2. Len(idx) \div w = h
  <2>. DEFINE g == w * h
  <2>1. (g + 0) \div w = h
    <3>1. 0 \in 0 .. w - 1 /\ h \in Nat
      OBVIOUS
    <3>. QED  BY <3>1, Quotient
  <2>2. g \in Nat
    <3>1. w \in Nat /\ h \in Nat
      OBVIOUS
    <3>. QED  BY <3>1, Products
  <2>3. Len(idx) = g
    OBVIOUS
  <2>. HIDE DEF g
  <2>4. g + 0 = g
    BY <2>2
  <2>. QED  BY <2>1, <2>3, <2>4
<1>3. rows = [i \in 1 .. n |-> ByteAt(idx, w, (i - 1) \div k, (i - 1) % k)]
  BY <1>2, BitRowsIs
<1>. HIDE DEF k, rows
<1>4. n \in Nat
  BY <1>1, Products
<1>5. ASSUME NEW i \in 1 .. n PROVE ByteAt(idx, w, (i - 1) \div k, (i - 1) % k) \in Int
  <2>1. (i - 1) \div k \in 0 .. h - 1 /\ (i - 1) % k \in 0 .. k - 1
    BY <1>1, RowAndColumn
  <2>. DEFINE a == (i - 1) \div k  c == (i - 1) % k
  <2>. HIDE DEF a, c
  <2>2. a \in 0 .. h - 1 /\ c \in Nat /\ 0 \in 0 .. 7
    BY <1>1, <2>1 DEF a, c
  <2>3. BitIs(idx, w, a, c, 0)
    BY <2>2, BitsAre
  <2>. QED  BY <2>3 DEF a, c, BitIs
<1>6. rows \in Seq(Int) /\ Len(rows) = n
  <2>1. rows \in [1 .. n -> Int]
    BY <1>3, <1>5
  <2>. HIDE DEF n
  <2>. QED  BY <1>4, <2>1
<1>7. ASSUME NEW row \in 0 .. h - 1, NEW col \in 0 .. w - 1
      PROVE  Bit(rows[row * k + col \div 8 + 1], 7 - (col % 8)) <=> idx[row * w + col + 1] = 1
  <2>. DEFINE j == col \div 8  c == col % 8  b == j + 1  a == row + 1  i == (a - 1) * k + b
  <2>1. j \in Nat /\ b \in 1 .. k /\ c \in 0 .. 7 /\ j * 8 + c = col
    BY BytesOfRow DEF k
  <2>2. a \in 1 .. h /\ h \in Nat /\ a - 1 = row
    OBVIOUS
  <2>. HIDE DEF a, b
  <2>3. i \in 1 .. n /\ 1 + (i - 1) \div k = a /\ 1 + ((i - 1) % k) = b
    BY <1>1, <2>1, <2>2, Places
  <2>. DEFINE u == (i - 1) \div k  v == (i - 1) % k
  <2>4. u \in Nat /\ v \in Nat
    <3>1. i \in 1 .. k * h
      BY <2>3
    <3>. HIDE DEF i
    <3>2. u \in Nat /\ v \in 0 .. k - 1
      BY <1>1, <2>2, <3>1, RowAndColumn
    <3>. HIDE DEF v
    <3>. QED  BY <1>1, <3>2
  <2>5. rows[i] = ByteAt(idx, w, u, v)
    BY <1>3, <2>3
  <2>6. u = row /\ v = j
    <3>1. 1 + u = a /\ 1 + v = b
      BY <2>3
    <3>2. a = row + 1 /\ b = j + 1
      BY DEF a, b
    <3>. HIDE DEF u, v, j
    <3>. QED  BY <2>1, <2>4, <3>1, <3>2
  <2>. HIDE DEF u, v, i
  <2>7. rows[i] = ByteAt(idx, w, row, j)
    BY <2>5, <2>6
  <2>8. i = row * k + j + 1
    <3>. DEFINE s == row * k
    <3>1. i = s + b /\ b = j + 1
      BY <2>2 DEF i, b
    <3>2. s \in Nat
      <4>1. row \in Nat
        OBVIOUS
      <4>. QED  BY <1>1, <4>1, Products
    <3>. HIDE DEF s, j
    <3>3. i = s + j + 1
      BY <2>1, <3>1, <3>2
    <3>. QED  BY <3>3 DEF s
  <2>9. Bit(rows[i], 7 - c) <=> BitAt(idx, w, row, col) = 1
    <3>. HIDE DEF j, c
    <3>1. BitIs(idx, w, row, j, c)
      BY <2>1, BitsAre
    <3>. QED  BY <2>1, <2>7, <3>1 DEF BitIs
  <2>10. BitAt(idx, w, row, col) = idx[row * w + col + 1]
    <3>1. col < w
      OBVIOUS
    <3>. QED  BY <3>1, Zenon DEF BitAt
  <2>. QED  BY <2>8, <2>9, <2>10
<1>. QED  BY <1>6, <1>7 DEF k, rows, RowsAre

\* A palette of a drawing has its colours and no others, each once.
LEMMA PaletteFacts ==
    ASSUME NEW px \in Seq(Colours), NEW q \in SetToSeqs(Range(px))
    PROVE  /\ q \in Seq(Colours) /\ Len(q) \in Nat
           /\ \A i \in 1 .. Len(px) : \E m \in 1 .. Len(q) : q[m] = px[i]
           /\ \A m \in 1 .. Len(q) : \E i \in 1 .. Len(px) : q[m] = px[i]
<1>. DEFINE n == Len(px)  R == Range(px)  c == Cardinality(R)
<1>1. n \in Nat /\ DOMAIN px = 1 .. n /\ px = [i \in 1 .. n |-> px[i]]
  BY LenProperties
<1>2. \A i \in 1 .. n : px[i] \in Colours
  BY ElementOfSeq
<1>3. R = {px[i] : i \in 1 .. n}
  BY <1>1 DEF Range
<1>. HIDE DEF R, n
<1>4. px \in Surjection(1 .. n, R)
  <2>1. px \in [1 .. n -> R]
    BY <1>1, <1>3
  <2>2. \A t \in R : \E s \in 1 .. n : px[s] = t
    BY <1>3
  <2>. QED  BY <2>1, <2>2 DEF Surjection
<1>5. IsFiniteSet(1 .. n) /\ 1 \in Int /\ n \in Int
  <2>1. 1 \in Int /\ n \in Int
    BY <1>1
  <2>. QED  BY <2>1, FS_Interval
<1>6. IsFiniteSet(R)
  BY <1>4, <1>5, FS_Surjection
<1>7. c \in Nat
  BY <1>6, FS_CardinalityType
<1>8. q \in [1 .. c -> R] /\ \A i, j \in 1 .. c : i # j => q[i] # q[j]
  BY DEF SetToSeqs, R
<1>9. IsFiniteSet(1 .. c) /\ Cardinality(1 .. c) = c
  <2>1. 1 \in Int /\ c \in Int
    BY <1>7
  <2>2. IsFiniteSet(1 .. c) /\ Cardinality(1 .. c) = (IF 1 > c THEN 0 ELSE c - 1 + 1)
    BY <2>1, FS_Interval
  <2>. HIDE DEF c
  <2>. QED  BY <1>7, <2>2
<1>10. q \in Injection(1 .. c, R)
  <2>. HIDE DEF c
  <2>. QED  BY <1>8 DEF Injection, IsInjective
<1>11. q \in Surjection(1 .. c, R)
  <2>1. Cardinality(1 .. c) = Cardinality(R)
    BY <1>9
  <2>. HIDE DEF c
  <2>. QED  BY <1>6, <1>10, <2>1, FS_Injection
<1>. HIDE DEF c
<1>12. \A t \in R : \E m \in 1 .. c : q[m] = t
  BY <1>11 DEF Surjection
<1>13. \A t \in R : t \in Colours
  BY <1>2, <1>3
<1>14. q \in [1 .. c -> Colours]
  BY <1>8, <1>13
<1>15. q \in Seq(Colours) /\ Len(q) = c
  <2>. DEFINE S == Colours
  <2>1. q \in [1 .. c -> S]
    BY <1>14
  <2>. HIDE DEF S
  <2>2. q \in Seq(S) /\ Len(q) = c
    BY <1>7, <2>1
  <2>. QED  BY <2>2 DEF S
<1>16. \A i \in 1 .. n : \E m \in 1 .. c : q[m] = px[i]
  BY <1>3, <1>12
<1>17. \A m \in 1 .. c : \E i \in 1 .. n : q[m] = px[i]
  BY <1>3, <1>8
<1>. QED  BY <1>7, <1>15, <1>16, <1>17 DEF n

LEMMA PaletteShown ==
    ASSUME NEW px \in Seq(Colours), NEW q \in SetToSeqs(Range(px)), NEW f, NEW k, Shown(px, f, k)
    PROVE  Shown(q, f, k)
<1>1. q \in Seq(Colours) /\ \A m \in 1 .. Len(q) : \E i \in 1 .. Len(px) : q[m] = px[i]
  BY PaletteFacts
<1>2. ASSUME NEW m \in 1 .. Len(q)
      PROVE  /\ PixelOf(q[m], f) \in Nat
             /\ PixelOf(q[m], f) < (IF k = 1 THEN 256 ELSE IF k = 2 THEN 65536 ELSE 16777216)
             /\ ToRgb(PixelOf(q[m], f), f) = q[m]
  <2>1. PICK i \in 1 .. Len(px) : q[m] = px[i]
    BY <1>1
  <2>. QED  BY <2>1 DEF Shown
<1>. QED  BY <1>1, <1>2 DEF Shown

\* The indices of a drawing in a palette of it.
Indices(px, q) == [i \in DOMAIN px |-> CHOOSE j \in 0 .. Len(q) - 1 : q[j + 1] = px[i]]

LEMMA IndicesFacts ==
    ASSUME NEW px \in Seq(Colours), NEW q \in SetToSeqs(Range(px))
    PROVE  /\ Indices(px, q) \in Seq(0 .. Len(q) - 1) /\ Len(Indices(px, q)) = Len(px)
           /\ \A i \in 1 .. Len(px) : q[1 + Indices(px, q)[i]] = px[i]
<1>. DEFINE n == Len(px)  I == Indices(px, q)  S == 0 .. Len(q) - 1
<1>1. n \in Nat /\ DOMAIN px = 1 .. n /\ Len(q) \in Nat
  BY LenProperties, PaletteFacts
<1>2. I = [i \in 1 .. n |-> CHOOSE j \in S : q[j + 1] = px[i]]
  BY <1>1, Zenon DEF Indices
<1>3. ASSUME NEW i \in 1 .. n PROVE I[i] \in S /\ q[1 + I[i]] = px[i]
  <2>1. PICK m \in 1 .. Len(q) : q[m] = px[i]
    BY PaletteFacts
  <2>2. m - 1 \in S /\ (m - 1) + 1 = m
    BY <1>1
  <2>3. \E j \in S : q[j + 1] = px[i]
    BY <2>1, <2>2
  <2>4. I[i] = CHOOSE j \in S : q[j + 1] = px[i]
    BY <1>2
  <2>. HIDE DEF I
  <2>5. I[i] \in S /\ q[I[i] + 1] = px[i]
    <3>. HIDE DEF S
    <3>. QED  BY <2>3, <2>4, Zenon
  <2>6. I[i] + 1 = 1 + I[i]
    BY <2>5
  <2>. QED  BY <2>5, <2>6
<1>. HIDE DEF I
<1>4. I \in [1 .. n -> S]
  BY <1>2, <1>3
<1>. HIDE DEF S, n
<1>5. I \in Seq(S) /\ Len(I) = n
  BY <1>1, <1>4
<1>. QED  BY <1>3, <1>5 DEF I, S, n

LEMMA AtHead ==
    ASSUME NEW raw \in Seq(Int), NEW s \in Seq(Int), At(raw, 1, s)
    PROVE  \A i \in 1 .. Len(s) : raw[i] = s[i]
<1>1. ASSUME NEW i \in 1 .. Len(s) PROVE raw[i] = s[i]
  <2>1. raw[1 + i - 1] = s[i]
    BY DEF At
  <2>2. 1 + i - 1 = i
    OBVIOUS
  <2>. QED  BY <2>1, <2>2
<1>. QED  BY <1>1

LEMMA AtWithin ==
    ASSUME NEW raw \in Seq(Int), NEW s \in Seq(Int), At(raw, 1, s), NEW p \in Nat \ {0},
           NEW u \in Seq(Int), At(s, p, u)
    PROVE  At(raw, p, u)
<1>1. Len(raw) \in Nat /\ Len(s) \in Nat /\ Len(u) \in Nat
  BY LenProperties
<1>2. /\ 1 + Len(s) - 1 <= Len(raw) /\ \A i \in 1 .. Len(s) : raw[1 + i - 1] = s[i]
      /\ p + Len(u) - 1 <= Len(s) /\ \A i \in 1 .. Len(u) : s[p + i - 1] = u[i]
  BY DEF At
<1>3. p + Len(u) - 1 <= Len(raw)
  BY <1>1, <1>2
<1>4. ASSUME NEW i \in 1 .. Len(u) PROVE raw[p + i - 1] = u[i]
  <2>1. p + i - 1 \in 1 .. Len(s) /\ 1 + (p + i - 1) - 1 = p + i - 1
    BY <1>1, <1>2
  <2>2. raw[1 + (p + i - 1) - 1] = s[p + i - 1]
    BY <1>2, <2>1
  <2>. QED  BY <1>2, <2>1, <2>2
<1>. QED  BY <1>3, <1>4 DEF At

\* The index of the i-th pixel in the data of a rectangle of width w.
IndexOf(data, colours, w, i) ==
    IF colours = 2
    THEN IF Bit(data[((i - 1) \div w) * ((w + 7) \div 8) + ((i - 1) % w) \div 8 + 1], 7 - (((i - 1) % w) % 8))
         THEN 1 ELSE 0
    ELSE data[i]

PaletteColours(q, data, colours, w, h) ==
    [i \in 1 .. w * h |-> q[1 + (IF IndexOf(data, colours, w, i) < colours
                               THEN IndexOf(data, colours, w, i) ELSE colours - 1)]]

PaletteDef(raw, p, w, h, f, s, z) ==
    LET colours == Byte(raw, p) + 1
        q == TightPixels(Part(raw, p + 1, colours * CPixelBytes(f)), 1, colours, f)
        d == ReadData(raw, p + 1 + colours * CPixelBytes(f), IndexBytes(colours, w, h), s, z)
    IN  TightPalette(raw, p, w, h, f, s, z)
          = [ok |-> d.ok, next |-> d.next, z |-> d.z, px |-> PaletteColours(q, d.data, colours, w, h)]

LEMMA PaletteIs ==
    ASSUME NEW raw, NEW p, NEW w, NEW h, NEW f, NEW s, NEW z
    PROVE  PaletteDef(raw, p, w, h, f, s, z)
BY Zenon DEF PaletteDef, TightPalette, IndexOf, PaletteColours

\* The data of a palette: bits for two colours, bytes for more.
IndexData(px, q, w) == IF Len(q) = 2 THEN BitRows(Indices(px, q), w) ELSE Indices(px, q)

IndexDataIs(data, px, q, w, h) ==
    /\ data \in Seq(Int) /\ Len(data) = IndexBytes(Len(q), w, h)
    /\ \A i \in 1 .. w * h : /\ IndexOf(data, Len(q), w, i) \in 0 .. Len(q) - 1
                            /\ q[1 + IndexOf(data, Len(q), w, i)] = px[i]

LEMMA IndexDataFacts ==
    ASSUME NEW px \in Seq(Colours), NEW q \in SetToSeqs(Range(px)), NEW w \in Nat \ {0}, NEW h \in Nat \ {0},
           Len(px) = w * h
    PROVE  IndexDataIs(IndexData(px, q, w), px, q, w, h)
<1>. DEFINE g == w * h  I == Indices(px, q)  D == IndexData(px, q, w)
<1>1. g \in Nat /\ Len(q) \in Nat
  <2>1. w \in Nat /\ h \in Nat
    OBVIOUS
  <2>. QED  BY <2>1, Products, PaletteFacts
<1>2. /\ I \in Seq(0 .. Len(q) - 1) /\ Len(I) = g
      /\ \A i \in 1 .. g : q[1 + I[i]] = px[i]
  BY IndicesFacts
<1>. HIDE DEF I
<1>3. \A i \in 1 .. g : I[i] \in 0 .. Len(q) - 1
  <2>. HIDE DEF g
  <2>. QED  BY <1>2, ElementOfSeq
<1>4. CASE Len(q) = 2
  <2>1. I \in Seq({0, 1})
    <3>1. 0 .. Len(q) - 1 = {0, 1}
      BY <1>4
    <3>. QED  BY <1>2, <3>1
  <2>2. D = BitRows(I, w)
    BY <1>4 DEF IndexData, I
  <2>3. /\ D \in Seq(Int) /\ Len(D) = ((w + 7) \div 8) * h
        /\ \A row \in 0 .. h - 1, col \in 0 .. w - 1 :
              Bit(D[row * ((w + 7) \div 8) + col \div 8 + 1], 7 - (col % 8)) <=> I[row * w + col + 1] = 1
    <3>1. RowsAre(BitRows(I, w), I, w, h)
      BY <1>2, <2>1, BitRowsBack
    <3>. HIDE DEF D
    <3>. QED  BY <2>2, <3>1 DEF RowsAre
  <2>. HIDE DEF D
  <2>4. IndexBytes(Len(q), w, h) = ((w + 7) \div 8) * h
    BY <1>4, Zenon DEF IndexBytes
  <2>5. ASSUME NEW i \in 1 .. g PROVE IndexOf(D, Len(q), w, i) = I[i]
    <3>. DEFINE row == (i - 1) \div w  col == (i - 1) % w
                bit == Bit(D[row * ((w + 7) \div 8) + col \div 8 + 1], 7 - (col % 8))
    <3>1. row \in 0 .. h - 1 /\ col \in 0 .. w - 1 /\ i - 1 \in Nat
      <4>1. h \in Nat
        OBVIOUS
      <4>. QED  BY <4>1, RowAndColumn
    <3>2. IndexOf(D, Len(q), w, i) = IF bit THEN 1 ELSE 0
      BY <1>4, Zenon DEF IndexOf
    <3>3. i - 1 = w * row + col
      BY <3>1, Division
    <3>. HIDE DEF row, col
    <3>4. bit <=> I[row * w + col + 1] = 1
      BY <2>3, <3>1
    <3>5. row * w + col + 1 = i
      <4>. DEFINE a == row * w  b == w * row
      <4>1. a = b /\ a \in Nat
        <5>1. row \in Nat /\ w \in Nat
          BY <3>1
        <5>. QED  BY <5>1, Products
      <4>2. i - 1 = b + col
        BY <3>3
      <4>. HIDE DEF a, b
      <4>3. a + col + 1 = i
        BY <3>1, <4>1, <4>2
      <4>. QED  BY <4>3 DEF a
    <3>. HIDE DEF bit
    <3>6. bit <=> I[i] = 1
      BY <3>4, <3>5
    <3>7. I[i] \in {0, 1}
      <4>1. I[i] \in 0 .. Len(q) - 1
        BY <1>3
      <4>. QED  BY <1>4, <4>1
    <3>. QED  BY <3>2, <3>6, <3>7
  <2>. HIDE DEF g
  <2>. QED  BY <1>2, <1>3, <2>3, <2>4, <2>5 DEF D, g, IndexDataIs
<1>5. CASE Len(q) # 2
  <2>1. D = I
    BY <1>5 DEF IndexData, I
  <2>2. IndexBytes(Len(q), w, h) = g
    BY <1>5, Zenon DEF IndexBytes
  <2>3. \A i \in 1 .. g : IndexOf(D, Len(q), w, i) = I[i]
    <3>. HIDE DEF g, D
    <3>. QED  BY <1>5, <2>1, Zenon DEF IndexOf
  <2>4. I \in Seq(Int)
    <3>1. 0 .. Len(q) - 1 \subseteq Int
      BY <1>1
    <3>. QED  BY <1>2, <3>1, SeqMonotonic
  <2>. HIDE DEF g, D
  <2>. QED  BY <1>2, <1>3, <2>1, <2>2, <2>3, <2>4 DEF D, g, IndexDataIs
<1>. QED  BY <1>4, <1>5

\* What a decoded Tight rectangle is: all of it, with the streams as the server has them.
Decodes(d, t, px) ==
    /\ d.ok /\ d.px = px /\ d.next = Len(t.bytes) + 1 /\ d.z = t.z
    /\ t.z \in [Streams -> Nat] /\ t.bytes \in Seq(Int)

LEMMA Three ==
    ASSUME NEW a \in Int, NEW b \in Int, NEW c \in Int
    PROVE  <<a>> \o <<b, c>> = <<a, b, c>>
<1>. DEFINE s == <<a>>  t == <<b, c>>  u == <<a, b, c>>
<1>1. s \in Seq(Int) /\ t \in Seq(Int) /\ u \in Seq(Int) /\ Len(s) = 1 /\ Len(t) = 2 /\ Len(u) = 3
  OBVIOUS
<1>2. s[1] = a /\ t[1] = b /\ t[2] = c /\ u[1] = a /\ u[2] = b /\ u[3] = c
  OBVIOUS
<1>. HIDE DEF s, t, u
<1>. DEFINE v == s \o t
<1>3. /\ v \in Seq(Int) /\ Len(v) = Len(s) + Len(t)
      /\ \A i \in 1 .. Len(s) : v[i] = s[i]
      /\ \A i \in 1 .. Len(t) : v[Len(s) + i] = t[i]
  BY <1>1, ConcatFacts
<1>. HIDE DEF v
<1>4. Len(v) = 3 /\ v[1] = a /\ v[2] = b /\ v[3] = c
  <2>1. 1 \in 1 .. Len(s) /\ 1 \in 1 .. Len(t) /\ 2 \in 1 .. Len(t) /\ Len(s) + 1 = 2 /\ Len(s) + 2 = 3
    BY <1>1
  <2>2. v[1] = s[1] /\ v[Len(s) + 1] = t[1] /\ v[Len(s) + 2] = t[2]
    BY <1>3, <2>1
  <2>. QED  BY <1>1, <1>2, <1>3, <2>1, <2>2
<1>5. \A i \in 1 .. Len(v) : v[i] = u[i]
  <2>1. \A i \in 1 .. 3 : i = 1 \/ i = 2 \/ i = 3
    OBVIOUS
  <2>. QED  BY <1>2, <1>4, <2>1
<1>6. v = u
  BY <1>1, <1>3, <1>4, <1>5, SeqEqual
<1>. QED  BY <1>6 DEF s, t, u, v

PaletteHead(control, q, f, k) == <<control>> \o <<PaletteFilter, Len(q) - 1>> \o Written(q, f, k)

PaletteReads(t, w, h, f, s, z, px, control) ==
    /\ Decodes(TightPalette(t.bytes, 3, w, h, f, s, z), t, px)
    /\ t.bytes[1] = control /\ Byte(t.bytes, 2) = PaletteFilter

LEMMA PaletteRead ==
    ASSUME NEW px \in Seq(Colours), NEW q \in SetToSeqs(Range(px)), NEW w \in Nat \ {0}, NEW h \in Nat \ {0},
           Len(px) = w * h, NEW f, NEW k, k = CPixelBytes(f), Shown(px, f, k), NEW control \in Int,
           NEW s \in Streams, NEW z \in [Streams -> Nat],
           NEW t, t = Sent(PaletteHead(control, q, f, k), IndexData(px, q, w), s, z), ~t.edge
    PROVE  PaletteReads(t, w, h, f, s, z, px, control)
<1>. DEFINE c == Len(q)  W == Written(q, f, k)  A == <<control, PaletteFilter, c - 1>>
            P == PaletteHead(control, q, f, k)  D == IndexData(px, q, w)  g == w * h
            p == Len(P) + 1  d == ReadData(t.bytes, p, Len(D), s, z)
<1>1. q \in Seq(Colours) /\ c \in Nat
  BY PaletteFacts
<1>2. A \in Seq(Int) /\ Len(A) = 3 /\ A[1] = control /\ A[2] = PaletteFilter /\ A[3] = c - 1
  <2>1. PaletteFilter \in Int /\ c - 1 \in Int
    BY <1>1 DEF PaletteFilter
  <2>. QED  BY <2>1
<1>3. P = A \o W
  <2>. DEFINE b == PaletteFilter  e == c - 1
  <2>0. b \in Int /\ e \in Int
    BY <1>1 DEF PaletteFilter
  <2>. HIDE DEF b, e
  <2>2. <<control>> \o <<b, e>> = <<control, b, e>>
    BY <2>0, Three
  <2>1. <<control>> \o <<PaletteFilter, c - 1>> = A
    BY <2>2 DEF A, b, e
  <2>. QED  BY <2>1 DEF PaletteHead
<1>4. Shown(q, f, k)
  BY PaletteShown
<1>5. W \in Seq(Int) /\ Len(W) = k * c /\ k * c \in Nat
  <2>1. WrittenIs(W, q, f, k)
    BY <1>4, WrittenFacts
  <2>. QED  BY <2>1, Wider DEF WrittenIs
<1>. HIDE DEF A, W, P
<1>6. P \in Seq(Int) /\ Len(P) = 3 + k * c /\ At(P, 1, A) /\ At(P, 4, W)
  <2>1. 3 + 1 = 4
    OBVIOUS
  <2>2. A \o W \in Seq(Int) /\ Len(A \o W) = Len(A) + Len(W)
    BY <1>2, <1>5, ConcatFacts
  <2>3. At(A \o W, Len(A) + 1, W) /\ At(A \o W, 1, A)
    BY <1>2, <1>5, AtEnd
  <2>. QED  BY <1>2, <1>3, <1>5, <2>1, <2>2, <2>3
<1>0. IndexDataIs(D, px, q, w, h)
  BY IndexDataFacts
<1>7. D \in Seq(Int) /\ Len(D) = IndexBytes(c, w, h)
  BY <1>0 DEF IndexDataIs
<1>8. \A i \in 1 .. g : IndexOf(D, c, w, i) \in 0 .. c - 1 /\ q[1 + IndexOf(D, c, w, i)] = px[i]
  BY <1>0 DEF IndexDataIs
<1>9. t = Sent(P, D, s, z)
  BY DEF P, D
<1>. HIDE DEF D
<1>10. /\ d.ok /\ d.data = D /\ d.next = Len(t.bytes) + 1 /\ d.z = t.z
       /\ t.z \in [Streams -> Nat] /\ t.bytes \in Seq(Int) /\ At(t.bytes, 1, P)
  <2>1. ~Sent(P, D, s, z).edge
    BY <1>9
  <2>2. DataReads(ReadData(Sent(P, D, s, z).bytes, p, Len(D), s, z), Sent(P, D, s, z), P, D)
    BY <1>6, <1>7, <2>1, DataRead
  <2>3. DataReads(d, t, P, D)
    <3>. HIDE DEF p
    <3>. QED  BY <1>9, <2>2
  <2>. HIDE DEF d
  <2>. QED  BY <2>3 DEF DataReads
<1>. DEFINE raw == t.bytes
<1>. HIDE DEF d, raw
<1>11. raw \in Seq(Int) /\ At(raw, 1, P)
  BY <1>10 DEF raw
<1>12. At(raw, 1, A) /\ At(raw, 4, W)
  <2>1. 1 \in Nat \ {0} /\ 4 \in Nat \ {0}
    OBVIOUS
  <2>. QED  BY <1>2, <1>5, <1>6, <1>11, <2>1, AtWithin
<1>13. raw[1] = control /\ Byte(raw, 2) = PaletteFilter
  <2>1. raw[1] = control
    BY <1>2, <1>12 DEF At
  <2>2. 1 \in Nat \ {0} /\ 2 \in 1 .. Len(A) /\ 1 + 2 - 1 = 2
    BY <1>2
  <2>3. Byte(raw, 1 + 2 - 1) = A[2]
    BY <1>2, <1>11, <1>12, <2>2, BytesThere
  <2>. QED  BY <1>2, <2>1, <2>2, <2>3
<1>14. c = Byte(raw, 3) + 1
  <2>1. 1 \in Nat \ {0} /\ 3 \in 1 .. Len(A) /\ 1 + 3 - 1 = 3
    BY <1>2
  <2>2. Byte(raw, 1 + 3 - 1) = A[3]
    BY <1>2, <1>11, <1>12, <2>1, BytesThere
  <2>3. Byte(raw, 3) = c - 1
    BY <1>2, <2>1, <2>2
  <2>. HIDE DEF c
  <2>. QED  BY <1>1, <2>3
<1>15. q = TightPixels(Part(raw, 3 + 1, c * k), 1, c, f)
  <2>1. 4 \in Nat \ {0} /\ 1 \in Nat \ {0} /\ 3 + 1 = 4
    OBVIOUS
  <2>2. Len(W) = c * k
    <3>1. k \in Nat
      BY DEF Shown
    <3>. HIDE DEF c
    <3>. QED  BY <1>1, <1>5, <3>1, Products
  <2>3. Part(raw, 3 + 1, c * k) = W
    <3>. HIDE DEF c
    <3>. QED  BY <1>5, <1>11, <1>12, <2>1, <2>2, PartAt
  <2>4. At(W, 1, W)
    BY <1>5, AtStart
  <2>5. Rgbs(W, 1, k, c, f) = q
    BY <1>4, <1>5, <2>1, <2>4, PixelsRead DEF W
  <2>. HIDE DEF c
  <2>. QED  BY <2>3, <2>5 DEF TightPixels
<1>16. d = ReadData(raw, 3 + 1 + c * CPixelBytes(f), IndexBytes(c, w, h), s, z)
  <2>1. p = 3 + 1 + c * k
    <3>. DEFINE m == k * c  e == c * k
    <3>1. m = e /\ m \in Nat
      <4>1. k \in Nat
        BY DEF Shown
      <4>. QED  BY <1>1, <4>1, Products
    <3>2. Len(P) = 3 + m
      BY <1>6
    <3>. HIDE DEF m, e
    <3>3. Len(P) + 1 = 3 + 1 + e
      BY <3>1, <3>2
    <3>. QED  BY <3>3 DEF e
  <2>. HIDE DEF p
  <2>. QED  BY <1>7, <2>1 DEF d, raw
<1>17. TightPalette(raw, 3, w, h, f, s, z)
         = [ok |-> d.ok, next |-> d.next, z |-> d.z, px |-> PaletteColours(q, D, c, w, h)]
  <2>. HIDE DEF c
  <2>1. TightPalette(raw, 3, w, h, f, s, z)
          = [ok |-> d.ok, next |-> d.next, z |-> d.z, px |-> PaletteColours(q, d.data, c, w, h)]
    <3>. DEFINE c1 == Byte(raw, 3) + 1
                q1 == TightPixels(Part(raw, 3 + 1, c1 * CPixelBytes(f)), 1, c1, f)
                d1 == ReadData(raw, 3 + 1 + c1 * CPixelBytes(f), IndexBytes(c1, w, h), s, z)
    <3>1. PaletteDef(raw, 3, w, h, f, s, z)
      BY PaletteIs
    <3>2. TightPalette(raw, 3, w, h, f, s, z)
            = [ok |-> d1.ok, next |-> d1.next, z |-> d1.z,
               px |-> PaletteColours(q1, d1.data, c1, w, h)]
      BY <3>1, Zenon DEF PaletteDef
    <3>. HIDE DEF d1
    <3>3. c1 = c
      BY <1>14
    <3>4. d1 = d
      BY <1>16, <3>3, Zenon DEF d1
    <3>. HIDE DEF q1
    <3>5. q1 = q
      BY <1>15, <3>3, Zenon DEF q1
    <3>. HIDE DEF c1
    <3>. QED  BY <1>10, <3>2, <3>3, <3>4, <3>5, Zenon
  <2>. QED  BY <1>10, <2>1
<1>18. px = PaletteColours(q, D, c, w, h)
  <2>1. px = [i \in 1 .. g |-> px[i]]
    BY LenProperties
  <2>2. ASSUME NEW i \in 1 .. g
        PROVE  px[i] = q[1 + (IF IndexOf(D, c, w, i) < c THEN IndexOf(D, c, w, i) ELSE c - 1)]
    <3>. DEFINE j == IndexOf(D, c, w, i)
    <3>. HIDE DEF g
    <3>1. j \in 0 .. c - 1 /\ q[1 + j] = px[i]
      BY <1>8
    <3>. HIDE DEF j, c
    <3>2. j < c
      BY <1>1, <3>1
    <3>. QED  BY <3>1, <3>2 DEF j
  <2>. HIDE DEF c, g
  <2>3. PaletteColours(q, D, c, w, h)
          = [i \in 1 .. g |-> q[1 + (IF IndexOf(D, c, w, i) < c THEN IndexOf(D, c, w, i) ELSE c - 1)]]
    BY Zenon DEF PaletteColours, g
  <2>. QED  BY <2>1, <2>2, <2>3
<1>19. Decodes(TightPalette(raw, 3, w, h, f, s, z), t, px)
  <2>. HIDE DEF g, c
  <2>1. TightPalette(raw, 3, w, h, f, s, z) = [ok |-> d.ok, next |-> d.next, z |-> d.z, px |-> px]
    BY <1>17, <1>18
  <2>. DEFINE T == TightPalette(raw, 3, w, h, f, s, z)
  <2>2. T.ok = d.ok /\ T.px = px /\ T.next = d.next /\ T.z = d.z
    BY <2>1
  <2>. HIDE DEF T
  <2>3. Decodes(T, t, px)
    BY <1>10, <2>2, Zenon DEF Decodes
  <2>. QED  BY <2>3 DEF T
<1>. QED  BY <1>13, <1>19, Zenon DEF raw, PaletteReads

(***************************************************************************)
(* Tight: the control byte.                                                 *)
(***************************************************************************)

\* A control byte that reads the same from either nibble: the type, the stream,
\* and the resets are those the server means.
ControlIs(control, z) ==
    /\ control \in Int
    /\ Subtype(control) = control \div 16 /\ control \div 16 \in 0 .. 15
    /\ (control \div 16) % 4 \in Streams
    /\ ServerStreams(z, control) = AfterResets(z, control)
    /\ AfterResets(z, control) \in [Streams -> Nat]
    /\ control \div 16 \in 0 .. 3 => ~Bit(control \div 16, 2)
    /\ control \div 16 \in 4 .. 7 => Bit(control \div 16, 2)

LEMMA ControlFacts ==
    ASSUME NEW control \in 0 .. 255, control % 16 = control \div 16, NEW z \in [Streams -> Nat]
    PROVE  ControlIs(control, z)
<1>. DEFINE t == control \div 16  weight == <<1, 2, 4, 8, 16, 32, 64, 128>>
<1>1. t \in 0 .. 15 /\ control = 17 * t /\ control \in Int
  OBVIOUS
<1>2. /\ weight[1] = 1 /\ weight[2] = 2 /\ weight[3] = 4 /\ weight[4] = 8
      /\ weight[5] = 16 /\ weight[6] = 32 /\ weight[7] = 64 /\ weight[8] = 128
  OBVIOUS
<1>3. \A b, i : Bit(b, i) <=> (b \div weight[i + 1]) % 2 = 1
  BY DEF Bit
<1>. HIDE DEF t, weight
<1>4. /\ ((17 * t) \div 1) % 2 = ((17 * t) \div 16) % 2
      /\ ((17 * t) \div 2) % 2 = ((17 * t) \div 32) % 2
      /\ ((17 * t) \div 4) % 2 = ((17 * t) \div 64) % 2
      /\ ((17 * t) \div 8) % 2 = ((17 * t) \div 128) % 2
  <2>1. ((17 * t) \div 1) % 2 = ((17 * t) \div 16) % 2
    BY <1>1
  <2>2. ((17 * t) \div 2) % 2 = ((17 * t) \div 32) % 2
    BY <1>1
  <2>3. ((17 * t) \div 4) % 2 = ((17 * t) \div 64) % 2
    BY <1>1
  <2>4. ((17 * t) \div 8) % 2 = ((17 * t) \div 128) % 2
    BY <1>1
  <2>. QED  BY <2>1, <2>2, <2>3, <2>4
<1>5. ASSUME NEW i \in Streams PROVE Bit(control, i) <=> Bit(control, 4 + i)
  <2>1. i \in {0, 1, 2, 3}
    BY DEF Streams
  <2>3. (control \div weight[i + 1]) % 2 = (control \div weight[(4 + i) + 1]) % 2
    <3>1. CASE i = 0
      BY <1>1, <1>2, <1>4, <3>1
    <3>2. CASE i = 1
      BY <1>1, <1>2, <1>4, <3>2
    <3>3. CASE i = 2
      BY <1>1, <1>2, <1>4, <3>3
    <3>4. CASE i = 3
      BY <1>1, <1>2, <1>4, <3>4
    <3>. QED  BY <2>1, <3>1, <3>2, <3>3, <3>4
  <2>. QED  BY <1>3, <2>3
<1>6. ServerResets(control) = Resets(control)
  BY <1>5, Zenon DEF ServerResets, Resets
<1>7. ServerStreams(z, control) = AfterResets(z, control)
  BY <1>6, Zenon DEF ServerStreams, AfterResets
<1>8. AfterResets(z, control) \in [Streams -> Nat]
  BY DEF AfterResets
<1>9. t % 4 \in Streams
  BY <1>1 DEF Streams
<1>10. Subtype(control) = t
  BY DEF Subtype, t
<1>11. Bit(t, 2) <=> (t \div 4) % 2 = 1
  <2>1. 2 + 1 = 3
    OBVIOUS
  <2>. QED  BY <1>2, <1>3, <2>1
<1>12. (t \in 0 .. 3 => ~Bit(t, 2)) /\ (t \in 4 .. 7 => Bit(t, 2))
  BY <1>1, <1>11
<1>. QED  BY <1>1, <1>7, <1>8, <1>9, <1>10, <1>12 DEF ControlIs, t

\* A rectangle of basic compression: the filter, where its data begins, and the data.
FilterOf(raw) == IF Bit(Subtype(raw[1]), 2) THEN Byte(raw, 1 + 1) ELSE 0
BodyOf(raw) == IF Bit(Subtype(raw[1]), 2) THEN 1 + 2 ELSE 1 + 1
RectData(raw, n, f, z) ==
    ReadData(raw, BodyOf(raw), n * CPixelBytes(f), Subtype(raw[1]) % 4, AfterResets(z, raw[1]))

PlainDef(raw, w, h, f, z) ==
    LET d == RectData(raw, w * h, f, z)
        bytes == IF FilterOf(raw) = GradientFilter
                 THEN InverseGradient(d.data, w, CPixelBytes(f)) ELSE d.data
    IN  TightRect(raw, 1, w, h, f, z)
          = [ok |-> d.ok, next |-> d.next, z |-> d.z, px |-> TightPixels(bytes, 1, w * h, f)]

LEMMA PlainIs ==
    ASSUME NEW raw, NEW w, NEW h, NEW f, NEW z,
           Subtype(raw[1]) # FillType, Subtype(raw[1]) # JpegType, Subtype(raw[1]) < FillType,
           FilterOf(raw) # PaletteFilter, FilterOf(raw) \in {0, GradientFilter}
    PROVE  PlainDef(raw, w, h, f, z)
BY Zenon DEF PlainDef, TightRect, FilterOf, BodyOf, RectData

LEMMA PaletteRectIs ==
    ASSUME NEW raw, NEW w, NEW h, NEW f, NEW z,
           Subtype(raw[1]) # FillType, Subtype(raw[1]) # JpegType, Subtype(raw[1]) < FillType,
           FilterOf(raw) = PaletteFilter, FilterOf(raw) \notin {0, GradientFilter}
    PROVE  TightRect(raw, 1, w, h, f, z)
             = TightPalette(raw, BodyOf(raw), w, h, f, Subtype(raw[1]) % 4, AfterResets(z, raw[1]))
BY Zenon DEF TightRect, FilterOf, BodyOf

FillDef(raw, w, h, f, z) ==
    TightRect(raw, 1, w, h, f, z)
        = [ok |-> TRUE, px |-> [i \in 1 .. w * h |-> TightPixels(Part(raw, 1 + 1, CPixelBytes(f)), 1, 1, f)[1]],
           next |-> 1 + 1 + CPixelBytes(f), z |-> AfterResets(z, raw[1])]

LEMMA FillIs ==
    ASSUME NEW raw, NEW w, NEW h, NEW f, NEW z,
           Subtype(raw[1]) = FillType, Subtype(raw[1]) # JpegType, ~(Subtype(raw[1]) < FillType)
    PROVE  FillDef(raw, w, h, f, z)
BY Zenon DEF TightRect, FillDef

JpegDef(raw, w, h, f, z) ==
    LET c == CompactLen(raw, 1 + 1)
    IN  TightRect(raw, 1, w, h, f, z)
          = [ok |-> c.len = 3 * (w * h), next |-> c.next + c.len, z |-> AfterResets(z, raw[1]),
             px |-> [i \in 1 .. w * h |->
                       SubSeq(Part(raw, c.next, c.len), 3 * i - 2, 3 * i)]]

LEMMA JpegIs ==
    ASSUME NEW raw, NEW w, NEW h, NEW f, NEW z,
           Subtype(raw[1]) # FillType, Subtype(raw[1]) = JpegType, ~(Subtype(raw[1]) < FillType)
    PROVE  JpegDef(raw, w, h, f, z)
BY Zenon DEF TightRect, JpegDef

(***************************************************************************)
(* Tight: the rectangles.                                                   *)
(***************************************************************************)

\* A drawing of w by h, to be written under a control byte that reads the same from
\* either nibble.
TightCase(px, w, h, f, z, control) ==
    /\ px \in Seq(Colours) /\ w \in Nat \ {0} /\ h \in Nat \ {0} /\ Len(px) = w * h
    /\ CPixelBytes(f) \in 1 .. 4 /\ Shown(px, f, CPixelBytes(f))
    /\ z \in [Streams -> Nat] /\ ControlIs(control, z)

\* What stands before the data of basic compression: the control byte and,
\* if it says so, the filter.
PlainHead(P, control, type) ==
    /\ P \in Seq(Int) /\ P[1] = control
    /\ \/ type \in 0 .. 3 /\ Len(P) = 1
       \/ type \in 4 .. 7 /\ Len(P) = 2 /\ P[2] \in {0, GradientFilter}
HeadFilter(P) == IF Len(P) = 2 THEN P[2] ELSE 0

LEMMA PlainHeads ==
    ASSUME NEW P, NEW control, NEW type \in Int, PlainHead(P, control, type)
    PROVE  /\ P \in Seq(Int) /\ P[1] = control /\ 1 \in 1 .. Len(P)
           /\ \/ type \in 0 .. 3 /\ Len(P) = 1 /\ HeadFilter(P) = 0
              \/ type \in 4 .. 7 /\ Len(P) = 2 /\ HeadFilter(P) = P[2] /\ 2 \in 1 .. Len(P)
           /\ type # FillType /\ type # JpegType /\ type < FillType
           /\ HeadFilter(P) # PaletteFilter /\ HeadFilter(P) \in {0, GradientFilter}
<1>1. CASE type \in 0 .. 3 /\ Len(P) = 1
  BY <1>1 DEF PlainHead, HeadFilter, FillType, JpegType, PaletteFilter, GradientFilter
<1>2. CASE type \in 4 .. 7 /\ Len(P) = 2 /\ P[2] \in {0, GradientFilter}
  BY <1>2 DEF PlainHead, HeadFilter, FillType, JpegType, PaletteFilter, GradientFilter
<1>. QED  BY <1>1, <1>2, Zenon DEF PlainHead

\* What the filter makes of the data.
Filtered(filter, data, w, k) == IF filter = GradientFilter THEN InverseGradient(data, w, k) ELSE data

\* Basic compression: the data itself, or what the gradient filter made of it.
LEMMA PlainRead ==
    ASSUME NEW px, NEW w, NEW h, NEW f, NEW z, NEW control, TightCase(px, w, h, f, z, control),
           NEW k, k = CPixelBytes(f), NEW type, type = control \div 16,
           NEW P, PlainHead(P, control, type),
           NEW data \in Seq(Int), Len(data) = (w * h) * k,
           Written(px, f, k) = Filtered(HeadFilter(P), data, w, k),
           NEW t, t = Sent(P, data, type % 4, ServerStreams(z, control)), ~t.edge
    PROVE  Decodes(TightRect(t.bytes, 1, w, h, f, z), t, px)
<1>. DEFINE raw == t.bytes  n == w * h  s == type % 4  z2 == ServerStreams(z, control)
            d == ReadData(raw, Len(P) + 1, Len(data), s, z2)
            W == Written(px, f, k)
<1>1. /\ ControlIs(control, z) /\ z2 \in [Streams -> Nat] /\ s \in Streams
      /\ z2 = AfterResets(z, control) /\ type \in Int
  BY DEF TightCase, ControlIs
<1>0. /\ P \in Seq(Int) /\ P[1] = control /\ 1 \in 1 .. Len(P)
      /\ \/ type \in 0 .. 3 /\ Len(P) = 1 /\ HeadFilter(P) = 0
         \/ type \in 4 .. 7 /\ Len(P) = 2 /\ HeadFilter(P) = P[2] /\ 2 \in 1 .. Len(P)
      /\ type # FillType /\ type # JpegType /\ type < FillType
      /\ HeadFilter(P) # PaletteFilter /\ HeadFilter(P) \in {0, GradientFilter}
  BY <1>1, PlainHeads
<1>2. DataReads(d, t, P, data)
  <2>1. ~Sent(P, data, s, z2).edge
    OBVIOUS
  <2>. HIDE DEF s, z2
  <2>2. DataReads(ReadData(Sent(P, data, s, z2).bytes, Len(P) + 1, Len(data), s, z2),
                  Sent(P, data, s, z2), P, data)
    BY <1>0, <1>1, <2>1, DataRead
  <2>3. t = Sent(P, data, s, z2)
    BY DEF s, z2
  <2>. QED  BY <2>2, <2>3
<1>. HIDE DEF raw, d, z2, s
<1>3. /\ d.ok /\ d.data = data /\ d.next = Len(raw) + 1 /\ d.z = t.z
      /\ raw \in Seq(Int) /\ At(raw, 1, P) /\ t.z \in [Streams -> Nat] /\ t.bytes = raw
  BY <1>2, Zenon DEF DataReads, raw
<1>4. raw[1] = control /\ (2 \in 1 .. Len(P) => Byte(raw, 1 + 1) = P[2])
  <2>1. \A i \in 1 .. Len(P) : raw[i] = P[i]
    BY <1>0, <1>3, AtHead
  <2>2. \A i \in 1 .. Len(P) : Byte(raw, 1 + i - 1) = P[i]
    <3>1. 1 \in Nat \ {0}
      OBVIOUS
    <3>. QED  BY <1>0, <1>3, <3>1, BytesThere
  <2>3. 1 + 2 - 1 = 1 + 1
    OBVIOUS
  <2>. QED  BY <1>0, <2>1, <2>2, <2>3, Zenon
<1>5. Subtype(raw[1]) = type
  BY <1>1, <1>4 DEF ControlIs
<1>6. FilterOf(raw) = HeadFilter(P) /\ BodyOf(raw) = Len(P) + 1
  <2>1. CASE type \in 0 .. 3 /\ Len(P) = 1 /\ HeadFilter(P) = 0
    <3>1. ~Bit(type, 2)
      BY <1>1, <2>1, Zenon DEF ControlIs
    <3>2. FilterOf(raw) = 0 /\ BodyOf(raw) = 1 + 1
      BY <1>5, <3>1, Zenon DEF FilterOf, BodyOf
    <3>. QED  BY <2>1, <3>2, Zenon
  <2>2. CASE type \in 4 .. 7 /\ Len(P) = 2 /\ HeadFilter(P) = P[2] /\ 2 \in 1 .. Len(P)
    <3>1. Bit(type, 2)
      BY <1>1, <2>2, Zenon DEF ControlIs
    <3>2. FilterOf(raw) = P[2] /\ BodyOf(raw) = 1 + 2
      BY <1>4, <1>5, <2>2, <3>1, Zenon DEF FilterOf, BodyOf
    <3>3. 1 + 2 = 2 + 1
      OBVIOUS
    <3>. QED  BY <2>2, <3>2, <3>3, Zenon
  <2>. QED  BY <1>0, <2>1, <2>2, Zenon
<1>7. d = RectData(raw, n, f, z)
  <2>1. n * k = Len(data)
    OBVIOUS
  <2>. HIDE DEF n
  <2>. QED  BY <1>1, <1>4, <1>5, <1>6, <2>1 DEF d, s, RectData
<1>8. W = IF FilterOf(raw) = GradientFilter THEN InverseGradient(d.data, w, CPixelBytes(f)) ELSE d.data
  BY <1>3, <1>6, Zenon DEF Filtered
<1>. HIDE DEF W
<1>9. /\ type # FillType /\ type # JpegType /\ type < FillType
      /\ FilterOf(raw) # PaletteFilter /\ FilterOf(raw) \in {0, GradientFilter}
  BY <1>0, <1>6, Zenon
<1>10. TightRect(raw, 1, w, h, f, z)
         = [ok |-> d.ok, next |-> d.next, z |-> d.z, px |-> TightPixels(W, 1, n, f)]
  <2>. DEFINE d1 == RectData(raw, n, f, z)
              b1 == IF FilterOf(raw) = GradientFilter
                    THEN InverseGradient(d1.data, w, CPixelBytes(f)) ELSE d1.data
  <2>1. PlainDef(raw, w, h, f, z)
    BY <1>5, <1>9, PlainIs, Zenon
  <2>2. TightRect(raw, 1, w, h, f, z)
          = [ok |-> d1.ok, next |-> d1.next, z |-> d1.z, px |-> TightPixels(b1, 1, n, f)]
    BY <2>1, Zenon DEF PlainDef
  <2>. HIDE DEF b1
  <2>3. b1 = W
    BY <1>7, <1>8, Zenon DEF b1
  <2>. HIDE DEF d1
  <2>4. d1 = d
    BY <1>7, Zenon DEF d1
  <2>. HIDE DEF n
  <2>. QED  BY <1>3, <2>2, <2>3, <2>4, Zenon
<1>11. TightPixels(W, 1, n, f) = px
  <2>1. Shown(px, f, k) /\ Len(px) = n
    BY DEF TightCase
  <2>2. W \in Seq(Int)
    <3>1. WrittenIs(W, px, f, k)
      BY <2>1, WrittenFacts DEF W
    <3>. QED  BY <3>1, Wider DEF WrittenIs
  <2>3. At(W, 1, W)
    BY <2>2, AtStart
  <2>4. 1 \in Nat \ {0}
    OBVIOUS
  <2>. HIDE DEF n
  <2>5. Rgbs(W, 1, k, n, f) = px
    BY <2>1, <2>2, <2>3, <2>4, PixelsRead DEF W
  <2>. QED  BY <2>5 DEF TightPixels
<1>. DEFINE T == TightRect(raw, 1, w, h, f, z)
<1>12. T.ok = d.ok /\ T.px = px /\ T.next = d.next /\ T.z = d.z
  BY <1>10, <1>11
<1>. HIDE DEF T
<1>13. Decodes(T, t, px)
  BY <1>3, <1>12, Zenon DEF Decodes
<1>. QED  BY <1>3, <1>13 DEF T

LEMMA PaletteRectRead ==
    ASSUME NEW px, NEW w, NEW h, NEW f, NEW z, NEW control, TightCase(px, w, h, f, z, control),
           NEW k, k = CPixelBytes(f), NEW type, type = control \div 16, type \in 4 .. 7,
           NEW q \in SetToSeqs(Range(px)),
           NEW t, t = Sent(PaletteHead(control, q, f, k), IndexData(px, q, w), type % 4, ServerStreams(z, control)),
           ~t.edge
    PROVE  Decodes(TightRect(t.bytes, 1, w, h, f, z), t, px)
<1>. DEFINE raw == t.bytes  s == type % 4  z2 == ServerStreams(z, control)
<1>1. /\ ControlIs(control, z) /\ z2 \in [Streams -> Nat] /\ s \in Streams
      /\ z2 = AfterResets(z, control) /\ type \in Int /\ control \in Int
  BY DEF TightCase, ControlIs
<1>. HIDE DEF s, z2, raw
<1>2. /\ px \in Seq(Colours) /\ w \in Nat \ {0} /\ h \in Nat \ {0} /\ Len(px) = w * h
      /\ Shown(px, f, k)
  BY DEF TightCase
<1>3. t = Sent(PaletteHead(control, q, f, k), IndexData(px, q, w), s, z2)
  BY DEF s, z2
<1>4. /\ Decodes(TightPalette(t.bytes, 3, w, h, f, s, z2), t, px)
      /\ t.bytes[1] = control /\ Byte(t.bytes, 2) = PaletteFilter
  <2>1. PaletteReads(t, w, h, f, s, z2, px, control)
    BY <1>1, <1>2, <1>3, PaletteRead
  <2>. QED  BY <2>1, Zenon DEF PaletteReads
<1>5. Subtype(raw[1]) = type /\ raw[1] = control /\ Byte(raw, 1 + 1) = PaletteFilter
  <2>1. 1 + 1 = 2
    OBVIOUS
  <2>. QED  BY <1>1, <1>4, <2>1 DEF ControlIs, raw
<1>6. Bit(type, 2)
  BY <1>1 DEF ControlIs
<1>7. FilterOf(raw) = PaletteFilter /\ BodyOf(raw) = 1 + 2
  BY <1>5, <1>6, Zenon DEF FilterOf, BodyOf
<1>8. /\ type # FillType /\ type # JpegType /\ type < FillType
      /\ FilterOf(raw) \notin {0, GradientFilter} /\ BodyOf(raw) = 3
  BY <1>1, <1>7 DEF FillType, JpegType, PaletteFilter, GradientFilter
<1>9. TightRect(raw, 1, w, h, f, z) = TightPalette(raw, 3, w, h, f, s, z2)
  <2>1. TightRect(raw, 1, w, h, f, z)
          = TightPalette(raw, BodyOf(raw), w, h, f, Subtype(raw[1]) % 4, AfterResets(z, raw[1]))
    BY <1>5, <1>7, <1>8, PaletteRectIs, Zenon
  <2>. QED  BY <1>1, <1>5, <1>8, <2>1 DEF s
<1>. QED  BY <1>4, <1>9 DEF raw

\* A rectangle of one colour.
LEMMA FillRead ==
    ASSUME NEW px, NEW w, NEW h, NEW f, NEW z, NEW control, TightCase(px, w, h, f, z, control),
           NEW k, k = CPixelBytes(f), control \div 16 = FillType, Cardinality(Range(px)) = 1,
           NEW t, t = [bytes |-> <<control>> \o Written(<<px[1]>>, f, k), z |-> ServerStreams(z, control),
                       edge |-> FALSE]
    PROVE  Decodes(TightRect(t.bytes, 1, w, h, f, z), t, px)
<1>. DEFINE n == w * h  one == <<px[1]>>  W == Written(one, f, k)  A == <<control>>
            raw == A \o W
<1>1. /\ px \in Seq(Colours) /\ Len(px) = n /\ Shown(px, f, k) /\ n \in Nat \ {0} /\ k \in 1 .. 4
  <2>1. px \in Seq(Colours) /\ Len(px) = n /\ Shown(px, f, k) /\ k \in 1 .. 4 /\ w \in Nat \ {0} /\ h \in Nat \ {0}
    BY DEF TightCase
  <2>2. n \in Nat \ {0}
    BY <2>1
  <2>. QED  BY <2>1, <2>2
<1>2. ControlIs(control, z)
  BY DEF TightCase
<1>. HIDE DEF n
<1>3. \A i \in 1 .. n : px[i] = px[1]
  <2>. DEFINE R == Range(px)
  <2>1. DOMAIN px = 1 .. n /\ 1 \in 1 .. n
    BY <1>1, LenProperties
  <2>2. \A i \in 1 .. n : px[i] \in R
    BY <2>1, Zenon DEF Range
  <2>3. IsFiniteSet(R)
    <3>1. px \in Surjection(1 .. n, R)
      <4>1. px \in [1 .. n -> R]
        <5>1. px = [i \in 1 .. n |-> px[i]]
          BY <1>1, LenProperties
        <5>. HIDE DEF R
        <5>. QED  BY <2>2, <5>1
      <4>2. \A x \in R : \E i \in 1 .. n : px[i] = x
        BY <2>1, Zenon DEF Range
      <4>. HIDE DEF R
      <4>. QED  BY <4>1, <4>2 DEF Surjection
    <3>2. IsFiniteSet(1 .. n)
      <4>1. 1 \in Int /\ n \in Int
        BY <1>1
      <4>. QED  BY <4>1, FS_Interval
    <3>. HIDE DEF R
    <3>. QED  BY <3>1, <3>2, FS_Surjection
  <2>4. Cardinality(R) = 1
    OBVIOUS
  <2>. HIDE DEF R
  <2>5. PICK x : R = {x}
    BY <2>3, <2>4, FS_Singleton
  <2>. QED  BY <2>1, <2>2, <2>5
<1>4. Shown(one, f, k) /\ Len(one) = 1 /\ one[1] = px[1]
  <2>. DEFINE c == px[1]
  <2>1. 1 \in 1 .. Len(px)
    BY <1>1
  <2>2. c \in Colours
    BY <1>1, <2>1, ElementOfSeq
  <2>3. /\ PixelOf(c, f) \in Nat
        /\ PixelOf(c, f) < (IF k = 1 THEN 256 ELSE IF k = 2 THEN 65536 ELSE 16777216)
        /\ ToRgb(PixelOf(c, f), f) = c /\ f.big \in BOOLEAN
    BY <1>1, <2>1 DEF Shown
  <2>. DEFINE S == Colours
  <2>4. c \in S
    BY <2>2
  <2>. HIDE DEF c, S
  <2>5. <<c>> \in Seq(S) /\ Len(<<c>>) = 1 /\ <<c>>[1] = c
    BY <2>4
  <2>6. \A i \in 1 .. Len(<<c>>) : <<c>>[i] = c
    BY <2>5
  <2>7. <<c>> \in Seq(Colours)
    BY <2>5 DEF S
  <2>. DEFINE u == <<c>>  limit == IF k = 1 THEN 256 ELSE IF k = 2 THEN 65536 ELSE 16777216
  <2>8. u \in Seq(Colours) /\ f.big \in BOOLEAN /\ \A i \in 1 .. Len(u) : u[i] = c
    BY <2>3, <2>6, <2>7
  <2>9. PixelOf(c, f) \in Nat /\ PixelOf(c, f) < limit /\ ToRgb(PixelOf(c, f), f) = c
    BY <2>3
  <2>10. Shown(u, f, k)
    <3>. HIDE DEF u, limit
    <3>1. \A i \in 1 .. Len(u) : /\ PixelOf(u[i], f) \in Nat /\ PixelOf(u[i], f) < limit
                                 /\ ToRgb(PixelOf(u[i], f), f) = u[i]
      BY <2>8, <2>9, Zenon
    <3>2. \A i \in 1 .. Len(u) :
             /\ PixelOf(u[i], f) \in Nat
             /\ PixelOf(u[i], f) < (IF k = 1 THEN 256 ELSE IF k = 2 THEN 65536 ELSE 16777216)
             /\ ToRgb(PixelOf(u[i], f), f) = u[i]
      BY <3>1 DEF limit
    <3>3. k \in 1 .. 4 /\ u \in Seq(Colours) /\ f.big \in BOOLEAN
      BY <1>1, <2>8
    <3>. QED  BY <3>2, <3>3 DEF Shown
  <2>. QED  BY <2>5, <2>10 DEF c
<1>. HIDE DEF one
<1>5. W \in Seq(Int) /\ Len(W) = k
  <2>1. WrittenIs(W, one, f, k)
    BY <1>4, WrittenFacts
  <2>2. k * 1 = k
    BY <1>1
  <2>. HIDE DEF W
  <2>. QED  BY <1>4, <2>1, <2>2, Wider DEF WrittenIs
<1>6. A \in Seq(Int) /\ Len(A) = 1 /\ A[1] = control
  BY <1>2 DEF ControlIs
<1>. HIDE DEF W, A
<1>7. raw \in Seq(Int) /\ Len(raw) = 1 + k
  <2>1. raw \in Seq(Int) /\ Len(raw) = Len(A) + Len(W)
    BY <1>5, <1>6, ConcatFacts
  <2>. HIDE DEF raw
  <2>. QED  BY <1>5, <1>6, <2>1
<1>8. At(raw, 1, A) /\ At(raw, 1 + 1, W)
  <2>1. At(raw, Len(A) + 1, W) /\ At(raw, 1, A)
    BY <1>5, <1>6, AtEnd
  <2>. HIDE DEF raw
  <2>. QED  BY <1>6, <2>1
<1>. HIDE DEF raw
<1>9. raw[1] = control
  <2>1. 1 \in 1 .. Len(A)
    BY <1>6
  <2>. QED  BY <1>6, <1>7, <1>8, <2>1, AtHead
<1>10. Part(raw, 1 + 1, k) = W /\ Rgbs(W, 1, k, Len(one), f) = one
  <2>1. 1 + 1 \in Nat \ {0} /\ 1 \in Nat \ {0}
    OBVIOUS
  <2>2. Part(raw, 1 + 1, k) = W
    BY <1>5, <1>7, <1>8, <2>1, PartAt
  <2>3. At(W, 1, W)
    BY <1>5, AtStart
  <2>. QED  BY <1>4, <1>5, <2>1, <2>2, <2>3, PixelsRead DEF W
<1>11. TightPixels(Part(raw, 1 + 1, k), 1, 1, f)[1] = px[1]
  BY <1>4, <1>10, Zenon DEF TightPixels
<1>12. /\ Subtype(raw[1]) = FillType /\ Subtype(raw[1]) # JpegType /\ ~(Subtype(raw[1]) < FillType)
  <2>1. Subtype(raw[1]) = FillType
    BY <1>2, <1>9, Zenon DEF ControlIs
  <2>. QED  BY <2>1 DEF FillType, JpegType
<1>. DEFINE T == TightRect(raw, 1, w, h, f, z)
<1>13. T = [ok |-> TRUE, px |-> [i \in 1 .. n |-> TightPixels(Part(raw, 1 + 1, k), 1, 1, f)[1]],
            next |-> 1 + 1 + CPixelBytes(f), z |-> AfterResets(z, raw[1])]
  <2>1. FillDef(raw, w, h, f, z)
    BY <1>12, FillIs, Zenon
  <2>. QED  BY <2>1, Zenon DEF FillDef, n
<1>14. px = [i \in 1 .. n |-> TightPixels(Part(raw, 1 + 1, k), 1, 1, f)[1]]
  <2>1. px = [i \in 1 .. n |-> px[i]]
    BY <1>1, LenProperties
  <2>. QED  BY <1>3, <1>11, <2>1
<1>15. 1 + 1 + CPixelBytes(f) = Len(raw) + 1
  BY <1>1, <1>7
<1>16. t.bytes = raw /\ t.z = AfterResets(z, raw[1]) /\ t.z \in [Streams -> Nat]
  <2>1. t.bytes = raw /\ t.z = ServerStreams(z, control)
    BY DEF raw, A, W, one
  <2>. QED  BY <1>2, <1>9, <2>1 DEF ControlIs
<1>. HIDE DEF T
<1>17. T.ok /\ T.px = px /\ T.next = Len(raw) + 1 /\ T.z = t.z
  BY <1>13, <1>14, <1>15, <1>16
<1>18. Decodes(T, t, px)
  BY <1>7, <1>16, <1>17, Zenon DEF Decodes
<1>. QED  BY <1>16, <1>18 DEF T

(***************************************************************************)
(* Tight: a picture.                                                        *)
(***************************************************************************)

LEMMA Triple ==
    ASSUME NEW c \in Colours
    PROVE  c \in Seq(Int) /\ Len(c) = 3 /\ \A j \in 1 .. 3 : c[j] \in Int
<1>. DEFINE x == c[1]  y == c[2]  v == c[3]
<1>1. c = <<x, y, v>> /\ x \in Int /\ y \in Int /\ v \in Int
  BY DEF Colours
<1>2. \A j \in 1 .. 3 : j = 1 \/ j = 2 \/ j = 3
  OBVIOUS
<1>3. \A j \in 1 .. 3 : c[j] \in Int
  BY <1>1, <1>2
<1>. HIDE DEF x, y, v
<1>4. <<x, y, v>> \in Seq(Int) /\ Len(<<x, y, v>>) = 3
  BY <1>1
<1>. QED  BY <1>1, <1>3, <1>4

LEMMA ComponentsFacts ==
    ASSUME NEW px \in Seq(Colours)
    PROVE  /\ Components(px) \in Seq(Int) /\ Len(Components(px)) = 3 * Len(px)
           /\ \A i \in 1 .. Len(px), j \in 1 .. 3 :
                 Components(px)[(i - 1) * 3 + j] = px[i][j]
<1>. DEFINE n == Len(px)  C == Components(px)  m == 3 * n
            at(i) == px[1 + (i - 1) \div 3][1 + ((i - 1) % 3)]
<1>1. n \in Nat /\ m \in Nat /\ 3 \in Nat \ {0}
  BY LenProperties
<1>2. C = [i \in 1 .. m |-> at(i)]
  BY DEF Components
<1>3. ASSUME NEW i \in 1 .. n, NEW j \in 1 .. 3 PROVE px[i][j] \in Int
  <2>1. px[i] \in Colours
    BY <1>1, ElementOfSeq
  <2>. QED  BY <2>1, Triple
<1>4. ASSUME NEW i \in 1 .. m PROVE at(i) \in Int
  <2>1. 1 + (i - 1) \div 3 \in 1 .. n /\ 1 + ((i - 1) % 3) \in 1 .. 3
    BY <1>1, PlaceOf
  <2>. QED  BY <1>3, <2>1
<1>. HIDE DEF m, at
<1>5. C \in Seq(Int) /\ Len(C) = m
  <2>1. C \in [1 .. m -> Int]
    BY <1>2, <1>4
  <2>. HIDE DEF C
  <2>. QED  BY <1>1, <2>1
<1>. HIDE DEF C
<1>6. ASSUME NEW i \in 1 .. n, NEW j \in 1 .. 3 PROVE C[(i - 1) * 3 + j] = px[i][j]
  <2>. DEFINE o == (i - 1) * 3 + j
  <2>1. o \in 1 .. 3 * n /\ 1 + (o - 1) \div 3 = i /\ 1 + ((o - 1) % 3) = j
    <3>. HIDE DEF n
    <3>. QED  BY <1>1, Places
  <2>. HIDE DEF o
  <2>2. C[o] = at(o)
    BY <1>2, <2>1 DEF m
  <2>. QED  BY <2>1, <2>2 DEF o, at
<1>. QED  BY <1>5, <1>6 DEF C, n, m

LEMMA PictureRead ==
    ASSUME NEW px \in Seq(Colours)
    PROVE  \A i \in 1 .. Len(px) : SubSeq(Components(px), 3 * i - 2, 3 * i) = px[i]
<1>. DEFINE C == Components(px)  n == Len(px)
<1>1. /\ C \in Seq(Int) /\ Len(C) = 3 * n /\ n \in Nat
      /\ \A i \in 1 .. n, j \in 1 .. 3 : C[(i - 1) * 3 + j] = px[i][j]
  BY ComponentsFacts, LenProperties
<1>. HIDE DEF C, n
<1>3. ASSUME NEW i \in 1 .. n PROVE SubSeq(C, 3 * i - 2, 3 * i) = px[i]
  <2>0. i \in Nat /\ i >= 1 /\ i <= n
    BY <1>1
  <2>. DEFINE a == 3 * i - 2  b == 3 * i  s == SubSeq(C, a, b)
  <2>1. a \in 1 .. Len(C) + 1 /\ b \in 0 .. Len(C) /\ a <= b + 1 /\ b - a + 1 = 3
    BY <1>1, <2>0
  <2>2. s \in Seq(Int) /\ Len(s) = 3 /\ \A j \in 1 .. 3 : s[j] = C[a + j - 1]
    <3>. HIDE DEF a, b
    <3>0. C \in Seq(Int)
      BY <1>1
    <3>1. /\ SubSeq(C, a, b) \in Seq(Int) /\ Len(SubSeq(C, a, b)) = b - a + 1
          /\ \A j \in 1 .. b - a + 1 : SubSeq(C, a, b)[j] = C[a + j - 1]
      BY <3>0, <2>1, PartFacts
    <3>. QED  BY <2>1, <3>1
  <2>3. ASSUME NEW j \in 1 .. 3 PROVE s[j] = px[i][j]
    <3>. DEFINE o == (i - 1) * 3 + j
    <3>1. o = a + j - 1
      BY <2>0
    <3>2. C[o] = px[i][j]
      BY <1>1
    <3>. HIDE DEF o, a, b, s
    <3>. QED  BY <2>2, <3>1, <3>2
  <2>4. px[i] \in Seq(Int) /\ Len(px[i]) = 3
    <3>1. px[i] \in Colours
      BY <1>1, ElementOfSeq DEF n
    <3>. QED  BY <3>1, Triple
  <2>. HIDE DEF s
  <2>5. s = px[i]
    <3>. DEFINE c == px[i]
    <3>1. c \in Seq(Int) /\ Len(c) = 3 /\ \A j \in 1 .. 3 : s[j] = c[j]
      BY <2>3, <2>4
    <3>. HIDE DEF c
    <3>2. s = c
      BY <2>2, <3>1, SeqEqual
    <3>. QED  BY <3>2 DEF c
  <2>. QED  BY <2>5 DEF s, a, b
<1>. QED  BY <1>3 DEF n, C

\* A rectangle sent as a picture.
LEMMA JpegRead ==
    ASSUME NEW px, NEW w, NEW h, NEW f, NEW z, NEW control, TightCase(px, w, h, f, z, control),
           control \div 16 = JpegType,
           NEW t, t = [bytes |-> <<control>> \o LenBytes(3 * Len(px)) \o Components(px),
                       z |-> ServerStreams(z, control), edge |-> FALSE]
    PROVE  Decodes(TightRect(t.bytes, 1, w, h, f, z), t, px)
<1>. DEFINE n == w * h  A == <<control>>  L == LenBytes(3 * Len(px))  C == Components(px)
            AL == A \o L  raw == AL \o C
<1>1. px \in Seq(Colours) /\ Len(px) = n /\ n \in Nat
  <2>1. px \in Seq(Colours) /\ Len(px) = n
    BY DEF TightCase
  <2>. QED  BY <2>1, LenProperties
<1>. HIDE DEF n
<1>2. C \in Seq(Int) /\ Len(C) = 3 * n
  BY <1>1, ComponentsFacts
<1>3. ControlIs(control, z)
  BY DEF TightCase
<1>4. A \in Seq(Int) /\ Len(A) = 1 /\ A[1] = control
  BY <1>3 DEF ControlIs
<1>5. 3 * n \in Nat /\ L = LenBytes(3 * n)
  BY <1>1
<1>6. L \in Seq(Int) /\ Len(L) \in 1 .. 3
  <2>. DEFINE m == 3 * n
  <2>1. m \in Nat
    BY <1>1
  <2>. HIDE DEF m
  <2>2. LenBytes(m) \in Seq(Int) /\ Len(LenBytes(m)) \in 1 .. 3
    BY <2>1, LenBytesFacts
  <2>. QED  BY <1>5, <2>2 DEF m
<1>. HIDE DEF A, L, C
<1>7. AL \in Seq(Int) /\ Len(AL) = 1 + Len(L)
  <2>1. AL \in Seq(Int) /\ Len(AL) = Len(A) + Len(L)
    BY <1>4, <1>6, ConcatFacts
  <2>. QED  BY <1>4, <2>1
<1>8. At(AL, 1 + 1, L) /\ At(AL, 1, A)
  <2>1. At(AL, Len(A) + 1, L) /\ At(AL, 1, A)
    BY <1>4, <1>6, AtEnd
  <2>. QED  BY <1>4, <2>1
<1>. HIDE DEF AL
<1>9. raw \in Seq(Int) /\ Len(raw) = 1 + Len(L) + 3 * n
  <2>1. raw \in Seq(Int) /\ Len(raw) = Len(AL) + Len(C)
    BY <1>2, <1>7, ConcatFacts
  <2>. QED  BY <1>2, <1>7, <2>1
<1>10. At(raw, Len(AL) + 1, C) /\ At(raw, 1 + 1, L) /\ At(raw, 1, A)
  <2>1. 1 + 1 \in Nat \ {0} /\ 1 \in Nat \ {0}
    OBVIOUS
  <2>2. At(raw, Len(AL) + 1, C)
    BY <1>2, <1>7, AtEnd
  <2>3. At(raw, 1 + 1, L) /\ At(raw, 1, A)
    BY <1>2, <1>4, <1>6, <1>7, <1>8, <2>1, AtLonger
  <2>. QED  BY <2>2, <2>3
<1>. HIDE DEF raw
<1>11. raw[1] = control
  <2>1. 1 \in 1 .. Len(A)
    BY <1>4
  <2>. QED  BY <1>4, <1>9, <1>10, <2>1, AtHead
<1>. DEFINE c == CompactLen(raw, 1 + 1)
<1>12. c = [len |-> 3 * n, next |-> (1 + 1) + Len(L)]
  <2>. DEFINE m == 3 * n
  <2>1. m \in Nat /\ 1 + 1 \in Nat \ {0} /\ L = LenBytes(m)
    BY <1>1, <1>5
  <2>. HIDE DEF m
  <2>2. CompactLen(raw, 1 + 1) = [len |-> m, next |-> (1 + 1) + Len(L)]
    BY <1>9, <1>10, <2>1, CompactBack
  <2>. QED  BY <2>2 DEF m
<1>. HIDE DEF c
<1>13. c.len = 3 * n /\ c.next = Len(AL) + 1 /\ c.next \in Nat \ {0} /\ c.next + c.len = Len(raw) + 1
  <2>. DEFINE l == Len(L)  m == 3 * n  u == Len(AL)  v == Len(raw)  a == c.next  b == c.len
  <2>1. l \in Nat /\ m \in Nat /\ b = m /\ a = (1 + 1) + l
    BY <1>1, <1>6, <1>12
  <2>2. u = 1 + l /\ v = 1 + l + m
    BY <1>7, <1>9
  <2>. HIDE DEF l, m, u, v, a, b
  <2>3. b = m /\ a = u + 1 /\ a \in Nat \ {0} /\ a + b = v + 1
    BY <2>1, <2>2
  <2>. QED  BY <2>3 DEF m, u, v, a, b
<1>14. \A i \in 1 .. n : SubSeq(Part(raw, c.next, c.len), 3 * i - 2, 3 * i) = px[i]
  <2>1. Part(raw, c.next, Len(C)) = C
    BY <1>2, <1>9, <1>10, <1>13, PartAt
  <2>2. Part(raw, c.next, c.len) = C
    BY <1>2, <1>13, <2>1
  <2>3. \A i \in 1 .. n : SubSeq(C, 3 * i - 2, 3 * i) = px[i]
    BY <1>1, PictureRead DEF C
  <2>. QED  BY <2>2, <2>3, Zenon
<1>15. /\ Subtype(raw[1]) = JpegType /\ Subtype(raw[1]) # FillType /\ ~(Subtype(raw[1]) < FillType)
  <2>1. Subtype(raw[1]) = JpegType
    BY <1>3, <1>11, Zenon DEF ControlIs
  <2>. QED  BY <2>1 DEF FillType, JpegType
<1>. DEFINE T == TightRect(raw, 1, w, h, f, z)
<1>16. T = [ok |-> c.len = 3 * n, next |-> c.next + c.len, z |-> AfterResets(z, raw[1]),
            px |-> [i \in 1 .. n |-> SubSeq(Part(raw, c.next, c.len), 3 * i - 2, 3 * i)]]
  <2>1. JpegDef(raw, w, h, f, z)
    BY <1>15, JpegIs, Zenon
  <2>. QED  BY <2>1, Zenon DEF JpegDef, n, c
<1>17. px = [i \in 1 .. n |-> SubSeq(Part(raw, c.next, c.len), 3 * i - 2, 3 * i)]
  <2>1. px = [i \in 1 .. n |-> px[i]]
    BY <1>1, LenProperties
  <2>. QED  BY <1>14, <2>1
<1>18. t.bytes = raw /\ t.z = AfterResets(z, raw[1]) /\ t.z \in [Streams -> Nat]
  <2>1. t.bytes = raw /\ t.z = ServerStreams(z, control)
    BY DEF raw, AL, A, L, C
  <2>. QED  BY <1>3, <1>11, <2>1 DEF ControlIs
<1>. HIDE DEF T
<1>19. T.ok /\ T.px = px /\ T.next = Len(raw) + 1 /\ T.z = t.z
  BY <1>13, <1>16, <1>17, <1>18
<1>20. Decodes(T, t, px)
  BY <1>9, <1>18, <1>19, Zenon DEF Decodes
<1>. QED  BY <1>18, <1>20 DEF T

(***************************************************************************)
(* Tight: every way to write a rectangle.                                   *)
(***************************************************************************)

\* The ways of TightWritings, one by one.
Way(px, w, f, z, control, t) ==
    LET k == CPixelBytes(f)
        type == control \div 16
        head == <<control>>
        data == Written(px, f, k)
        basic(p, d) == t = Sent(p, d, type % 4, ServerStreams(z, control))
    IN  \/ type = FillType /\ Cardinality(Range(px)) = 1
             /\ t = [bytes |-> head \o Written(<<px[1]>>, f, k), z |-> ServerStreams(z, control), edge |-> FALSE]
        \/ type = JpegType
             /\ t = [bytes |-> head \o LenBytes(3 * Len(px)) \o Components(px),
                     z |-> ServerStreams(z, control), edge |-> FALSE]
        \/ type \in 0 .. 3 /\ basic(head, data)
        \/ type \in 4 .. 7 /\ basic(head \o <<0>>, data)
        \/ type \in 4 .. 7 /\ \E q \in SetToSeqs(Range(px)) :
                                 basic(PaletteHead(control, q, f, k), IndexData(px, q, w))
        \/ type \in 4 .. 7 /\ f.bpp = 4
             /\ basic(head \o <<GradientFilter>>, Gradient(data, w, k))

LEMMA WaysAre ==
    ASSUME NEW px, NEW w, NEW f, NEW z, NEW control, NEW t \in TightWritings(px, w, f, z, control)
    PROVE  Way(px, w, f, z, control, t)
<1>. DEFINE k == CPixelBytes(f)
            type == control \div 16
            s == type % 4
            z2 == ServerStreams(z, control)
            head == <<control>>
            data == Written(px, f, k)
            fill == {[bytes |-> head \o Written(<<px[1]>>, f, k), z |-> z2, edge |-> FALSE]}
            jpeg == {[bytes |-> head \o LenBytes(3 * Len(px)) \o Components(px), z |-> z2,
                      edge |-> FALSE]}
            copy == {Sent(head, data, s, z2)}
            copy0 == {Sent(head \o <<0>>, data, s, z2)}
            palettes == {Sent(PaletteHead(control, q, f, k), IndexData(px, q, w), s, z2) :
                            q \in SetToSeqs(Range(px))}
            gradient == IF f.bpp = 4
                        THEN {Sent(head \o <<GradientFilter>>, Gradient(data, w, k), s, z2)} ELSE {}
<1>1. TightWritings(px, w, f, z, control)
        = CASE type = FillType /\ Cardinality(Range(px)) = 1 -> fill
            [] type = JpegType -> jpeg
            [] type \in 0 .. 3 -> copy
            [] type \in 4 .. 7 -> copy0 \cup palettes \cup gradient
            [] OTHER -> {}
  BY Zenon DEF TightWritings, PaletteHead, IndexData, Indices
<1>2. \/ type = FillType /\ Cardinality(Range(px)) = 1 /\ t \in fill
      \/ type = JpegType /\ t \in jpeg
      \/ type \in 0 .. 3 /\ t \in copy
      \/ type \in 4 .. 7 /\ t \in copy0 \cup palettes \cup gradient
  <2>. HIDE DEF type, fill, jpeg, copy, copy0, palettes, gradient
  <2>. QED  BY <1>1, Zenon
<1>3. CASE type = FillType /\ Cardinality(Range(px)) = 1 /\ t \in fill
  BY <1>3, Zenon DEF Way
<1>4. CASE type = JpegType /\ t \in jpeg
  BY <1>4, Zenon DEF Way
<1>5. CASE type \in 0 .. 3 /\ t \in copy
  BY <1>5, Zenon DEF Way
<1>6. CASE type \in 4 .. 7 /\ t \in copy0 \cup palettes \cup gradient
  <2>1. CASE t \in copy0
    BY <1>6, <2>1, Zenon DEF Way
  <2>2. CASE t \in palettes
    BY <1>6, <2>2, Zenon DEF Way
  <2>3. CASE t \in gradient
    <3>1. f.bpp = 4 /\ t = Sent(head \o <<GradientFilter>>, Gradient(data, w, k), s, z2)
      BY <2>3, Zenon
    <3>. QED  BY <1>6, <3>1, Zenon DEF Way
  <2>. QED  BY <1>6, <2>1, <2>2, <2>3, Zenon
<1>. QED  BY <1>2, <1>3, <1>4, <1>5, <1>6, Zenon

\* The data of a drawing, as it is and as the gradient filter leaves it.
LEMMA DataFacts ==
    ASSUME NEW px, NEW w, NEW h, NEW f, NEW z, NEW control, TightCase(px, w, h, f, z, control),
           NEW k, k = CPixelBytes(f)
    PROVE  LET data == Written(px, f, k)
               g == Gradient(data, w, k)
           IN  /\ data \in Seq(Int) /\ Len(data) = (w * h) * k
               /\ g \in Seq(Int) /\ Len(g) = (w * h) * k /\ InverseGradient(g, w, k) = data
<1>. DEFINE data == Written(px, f, k)  g == Gradient(data, w, k)
<1>1. /\ Shown(px, f, k) /\ Len(px) = w * h /\ w \in Nat \ {0} /\ k \in 1 .. 4
  BY DEF TightCase
<1>2. WrittenIs(data, px, f, k)
  BY <1>1, WrittenFacts
<1>. HIDE DEF data
<1>3. data \in Seq(0 .. 255) /\ Len(data) = k * Len(px) /\ Len(px) \in Nat
  BY <1>2 DEF WrittenIs
<1>4. k \in Nat \ {0} /\ k \in Nat
  BY <1>1
<1>5. k * Len(px) = (w * h) * k
  <2>. DEFINE m == w * h
  <2>1. k * Len(px) = Len(px) * k
    BY <1>3, <1>4, Products
  <2>. QED  BY <1>1, <2>1
<1>6. g \in Seq(0 .. 255) /\ Len(g) = Len(data) /\ InverseGradient(g, w, k) = data
  BY <1>1, <1>3, <1>4, GradientBack
<1>. HIDE DEF g
<1>7. g \in Seq(Int) /\ data \in Seq(Int)
  BY <1>3, <1>6, Wider
<1>8. Len(data) = (w * h) * k /\ Len(g) = (w * h) * k
  BY <1>3, <1>5, <1>6, Zenon
<1>. QED  BY <1>6, <1>7, <1>8 DEF data, g

\* What stands before the data of basic compression without a palette.
LEMMA HeadFacts ==
    ASSUME NEW control \in Int, NEW type
    PROVE  /\ type \in 0 .. 3 => PlainHead(<<control>>, control, type) /\ HeadFilter(<<control>>) = 0
           /\ \A e \in {0, GradientFilter} :
                 type \in 4 .. 7 => /\ PlainHead(<<control>> \o <<e>>, control, type)
                                    /\ HeadFilter(<<control>> \o <<e>>) = e
<1>. DEFINE A == <<control>>
<1>1. A \in Seq(Int) /\ Len(A) = 1 /\ A[1] = control
  OBVIOUS
<1>. HIDE DEF A
<1>2. ASSUME type \in 0 .. 3 PROVE PlainHead(A, control, type) /\ HeadFilter(A) = 0
  BY <1>1, <1>2 DEF PlainHead, HeadFilter
<1>3. ASSUME NEW e \in {0, GradientFilter}, type \in 4 .. 7
      PROVE  PlainHead(A \o <<e>>, control, type) /\ HeadFilter(A \o <<e>>) = e
  <2>. DEFINE E == <<e>>  P == A \o E
  <2>1. E \in Seq(Int) /\ Len(E) = 1 /\ E[1] = e
    BY DEF GradientFilter
  <2>. HIDE DEF E
  <2>2. /\ P \in Seq(Int) /\ Len(P) = Len(A) + Len(E)
        /\ \A i \in 1 .. Len(A) : P[i] = A[i]
        /\ \A i \in 1 .. Len(E) : P[Len(A) + i] = E[i]
    BY <1>1, <2>1, ConcatFacts
  <2>. HIDE DEF P
  <2>3. Len(P) = 2 /\ P[1] = control /\ P[2] = e
    <3>1. 1 \in 1 .. Len(A) /\ 1 \in 1 .. Len(E) /\ Len(A) + 1 = 2
      BY <1>1, <2>1
    <3>2. P[1] = A[1] /\ P[Len(A) + 1] = E[1]
      BY <2>2, <3>1
    <3>. QED  BY <1>1, <2>1, <2>2, <3>1, <3>2
  <2>4. PlainHead(P, control, type) /\ HeadFilter(P) = e
    BY <1>3, <2>2, <2>3, Zenon DEF PlainHead, HeadFilter
  <2>. QED  BY <2>4 DEF P, E
<1>. QED  BY <1>2, <1>3 DEF A

\* decode of tight.rs reads what the server wrote, in whatever way it wrote it.
LEMMA TightRead ==
    ASSUME NEW px, NEW w, NEW h, NEW f, NEW z, NEW control, TightCase(px, w, h, f, z, control),
           NEW t, Way(px, w, f, z, control, t), ~t.edge
    PROVE  Decodes(TightRect(t.bytes, 1, w, h, f, z), t, px)
<1>. DEFINE k == CPixelBytes(f)
            type == control \div 16
            head == <<control>>
            data == Written(px, f, k)
            g == Gradient(data, w, k)
            Basic(P, d) == t = Sent(P, d, type % 4, ServerStreams(z, control))
            Good == Decodes(TightRect(t.bytes, 1, w, h, f, z), t, px)
<1>1. control \in Int /\ type \in Int
  BY DEF TightCase, ControlIs
<1>2. /\ data \in Seq(Int) /\ Len(data) = (w * h) * k
      /\ g \in Seq(Int) /\ Len(g) = (w * h) * k /\ InverseGradient(g, w, k) = data
  BY DataFacts
<1>3. /\ type \in 0 .. 3 => PlainHead(head, control, type) /\ HeadFilter(head) = 0
      /\ \A e \in {0, GradientFilter} :
            type \in 4 .. 7 => /\ PlainHead(head \o <<e>>, control, type)
                               /\ HeadFilter(head \o <<e>>) = e
  BY <1>1, HeadFacts
<1>4. 0 # GradientFilter /\ 0 \in {0, GradientFilter} /\ GradientFilter \in {0, GradientFilter}
  BY DEF GradientFilter
<1>5. ASSUME NEW P, NEW d \in Seq(Int), PlainHead(P, control, type), Len(d) = (w * h) * k,
             data = Filtered(HeadFilter(P), d, w, k), Basic(P, d)
      PROVE  Good
  BY <1>1, <1>5, PlainRead
<1>6. \/ type = FillType /\ Cardinality(Range(px)) = 1
           /\ t = [bytes |-> head \o Written(<<px[1]>>, f, k), z |-> ServerStreams(z, control), edge |-> FALSE]
      \/ type = JpegType
           /\ t = [bytes |-> head \o LenBytes(3 * Len(px)) \o Components(px),
                   z |-> ServerStreams(z, control), edge |-> FALSE]
      \/ type \in 0 .. 3 /\ Basic(head, data)
      \/ type \in 4 .. 7 /\ Basic(head \o <<0>>, data)
      \/ type \in 4 .. 7 /\ \E q \in SetToSeqs(Range(px)) :
                               Basic(PaletteHead(control, q, f, k), IndexData(px, q, w))
      \/ type \in 4 .. 7 /\ f.bpp = 4 /\ Basic(head \o <<GradientFilter>>, g)
  BY Zenon DEF Way
<1>7. CASE type = FillType /\ Cardinality(Range(px)) = 1
             /\ t = [bytes |-> head \o Written(<<px[1]>>, f, k), z |-> ServerStreams(z, control), edge |-> FALSE]
  BY <1>7, FillRead
<1>8. CASE type = JpegType
             /\ t = [bytes |-> head \o LenBytes(3 * Len(px)) \o Components(px),
                     z |-> ServerStreams(z, control), edge |-> FALSE]
  BY <1>8, JpegRead
<1>9. CASE type \in 4 .. 7 /\ \E q \in SetToSeqs(Range(px)) :
                                 Basic(PaletteHead(control, q, f, k), IndexData(px, q, w))
  BY <1>9, PaletteRectRead
<1>. HIDE DEF Good, g, data, k, head, Basic, type
<1>10. CASE type \in 0 .. 3 /\ Basic(head, data)
  <2>1. data = Filtered(HeadFilter(head), data, w, k)
    BY <1>3, <1>4, <1>10, Zenon DEF Filtered
  <2>. QED  BY <1>2, <1>3, <1>5, <1>10, <2>1, Zenon DEF Good
<1>11. CASE type \in 4 .. 7 /\ Basic(head \o <<0>>, data)
  <2>1. data = Filtered(HeadFilter(head \o <<0>>), data, w, k)
    BY <1>3, <1>4, <1>11, Zenon DEF Filtered
  <2>. QED  BY <1>2, <1>3, <1>4, <1>5, <1>11, <2>1, Zenon DEF Good
<1>12. CASE type \in 4 .. 7 /\ f.bpp = 4 /\ Basic(head \o <<GradientFilter>>, g)
  <2>1. data = Filtered(HeadFilter(head \o <<GradientFilter>>), g, w, k)
    BY <1>2, <1>3, <1>4, <1>12, Zenon DEF Filtered
  <2>. QED  BY <1>2, <1>3, <1>4, <1>5, <1>12, <2>1, Zenon DEF Good
<1>. QED  BY <1>6, <1>7, <1>8, <1>9, <1>10, <1>11, <1>12, Zenon DEF Good

LEMMA TightDecodes ==
    ASSUME format \in Formats, serverZ \in [Streams -> Nat],
           NEW r \in Rects, NEW d \in Drawings, NEW control \in Controls,
           NEW t \in TightWritings(Cut(d, r), r[3], format, serverZ, control),
           control % 16 = control \div 16, ~t.edge
    PROVE  Decodes(TightRect(t.bytes, 1, r[3], r[4], format, serverZ), t, Cut(d, r))
<1>. DEFINE px == Cut(d, r)  w == r[3]  h == r[4]  k == CPixelBytes(format)
<1>1. w \in Nat \ {0} /\ h \in Nat \ {0}
  BY RectsInside DEF Inside
<1>2. px \in Seq(Colours) /\ Len(px) = w * h /\ \A i \in 1 .. Len(px) : Exact(px[i], format)
  BY CutFacts
<1>3. k \in 1 .. 4 /\ Shown(px, format, k)
  <2>. HIDE DEF px
  <2>1. k \in {1, 2, 3} /\ Shown(px, format, k)
    BY <1>2, ExactShown
  <2>. QED  BY <2>1
<1>4. ControlIs(control, serverZ)
  <2>1. control \in 0 .. 255 /\ control % 16 = control \div 16
    BY ControlsAssumption
  <2>. QED  BY <2>1, ControlFacts
<1>6. Way(px, w, format, serverZ, control, t)
  BY WaysAre
<1>. HIDE DEF px, w, h
<1>7. TightCase(px, w, h, format, serverZ, control)
  BY <1>1, <1>2, <1>3, <1>4, Zenon DEF TightCase
<1>8. Decodes(TightRect(t.bytes, 1, w, h, format, serverZ), t, px)
  BY <1>6, <1>7, TightRead
<1>. QED  BY <1>8 DEF px, w, h

\* A rectangle in Tight: its streams, and its pixels.
LEMMA TightStreams ==
    ASSUME format \in Formats, serverZ \in [Streams -> Nat], tight = serverZ, TightRectangle, ~disputed'
    PROVE  tight' = serverZ' /\ serverZ' \in [Streams -> Nat] /\ format' = format
<1>1. PICK r \in Rects, d \in Drawings, control \in Controls :
        /\ Sends(r, Cut(d, r))
        /\ \E t \in TightWritings(Cut(d, r), r[3], format, serverZ, control) :
              /\ serverZ' = t.z /\ tight' = TightRect(t.bytes, 1, r[3], r[4], format, tight).z
              /\ disputed' = (disputed \/ t.edge \/ control % 16 # control \div 16)
  BY ZenonT(60) DEF TightRectangle
<1>2. PICK t \in TightWritings(Cut(d, r), r[3], format, serverZ, control) :
        /\ serverZ' = t.z /\ tight' = TightRect(t.bytes, 1, r[3], r[4], format, tight).z
        /\ disputed' = (disputed \/ t.edge \/ control % 16 # control \div 16)
  BY <1>1, Zenon
<1>3. Decodes(TightRect(t.bytes, 1, r[3], r[4], format, serverZ), t, Cut(d, r))
  <2>1. ~t.edge /\ control % 16 = control \div 16
    BY <1>2, Zenon
  <2>. QED  BY <2>1, TightDecodes
<1>4. format' = format
  BY <1>1, Zenon DEF Sends
<1>5. /\ TightRect(t.bytes, 1, r[3], r[4], format, serverZ).z = t.z
      /\ t.z \in [Streams -> Nat]
  BY <1>3, Zenon DEF Decodes
<1>. QED  BY <1>2, <1>4, <1>5, Zenon

LEMMA TightStep ==
    ASSUME TypeOK, RectDecoded, StreamsInStep, TightRectangle, ~disputed'
    PROVE  TypeOK' /\ RectDecoded'
<1>0. format \in Formats /\ serverZ \in [Streams -> Nat] /\ tight = serverZ /\ ok /\ StreamsTyped
  BY DEF TypeOK, RectDecoded, StreamsInStep, StreamsTyped
<1>1. PICK r \in Rects, d \in Drawings, control \in Controls :
        /\ "tight" \in Encodings
        /\ Sends(r, Cut(d, r))
        /\ \E w \in TightWritings(Cut(d, r), r[3], format, serverZ, control) :
              LET done == TightRect(w.bytes, 1, r[3], r[4], format, tight)
              IN  /\ serverZ' = w.z /\ tight' = done.z
                  /\ disputed' = (disputed \/ w.edge \/ control % 16 # control \div 16)
                  /\ ok' = (ok /\ done.ok /\ done.next = Len(w.bytes) + 1)
                  /\ pixels' = IF done.ok THEN BlitRgba(pixels, r[1], r[2], r[3], r[4], done.px)
                               ELSE pixels
        /\ UNCHANGED <<serverZrle, zrle>>
  BY Zenon DEF TightRectangle
<1>2. PICK t \in TightWritings(Cut(d, r), r[3], format, serverZ, control) :
              LET done == TightRect(t.bytes, 1, r[3], r[4], format, tight)
              IN  /\ serverZ' = t.z /\ tight' = done.z
                  /\ disputed' = (disputed \/ t.edge \/ control % 16 # control \div 16)
                  /\ ok' = (ok /\ done.ok /\ done.next = Len(t.bytes) + 1)
                  /\ pixels' = IF done.ok THEN BlitRgba(pixels, r[1], r[2], r[3], r[4], done.px)
                               ELSE pixels
  BY <1>1, Zenon
<1>. DEFINE done == TightRect(t.bytes, 1, r[3], r[4], format, serverZ)  px == Cut(d, r)
<1>3. Decodes(done, t, px)
  <2>1. ~t.edge /\ control % 16 = control \div 16
    BY <1>2, Zenon
  <2>. QED  BY <1>0, <2>1, TightDecodes
<1>4. /\ ok' = (ok /\ done.ok /\ done.next = Len(t.bytes) + 1)
      /\ pixels' = IF done.ok THEN BlitRgba(pixels, r[1], r[2], r[3], r[4], done.px) ELSE pixels
  BY <1>0, <1>2, Zenon
<1>5. px \in Seq(Colours) /\ Len(px) = r[3] * r[4] /\ Inside(r) /\ Sends(r, px)
  BY <1>1, CutFacts, RectsInside
<1>. HIDE DEF done, px
<1>6. done.ok /\ done.px = px /\ done.next = Len(t.bytes) + 1
  BY <1>3, Zenon DEF Decodes
<1>7. pixels' = BlitRgba(pixels, r[1], r[2], r[3], r[4], px)
  BY <1>4, <1>6, Zenon
<1>8. ok'
  BY <1>0, <1>4, <1>6, Zenon
<1>9. StreamsTyped'
  <2>1. tight' = serverZ' /\ serverZ' \in [Streams -> Nat]
    BY <1>0, TightStreams
  <2>2. disputed' \in BOOLEAN
    BY <1>2
  <2>. QED  BY <1>0, <1>1, <2>1, <2>2 DEF StreamsTyped
<1>. QED  BY <1>5, <1>7, <1>8, <1>9, Draws

\* What was disputed stays so.
LEMMA DisputedStays ==
    ASSUME [Next]_vars, disputed \in BOOLEAN
    PROVE  disputed' \in BOOLEAN /\ (disputed => disputed')
<1>1. ASSUME RawRect PROVE disputed' = disputed
  BY <1>1, Zenon DEF RawRect
<1>2. ASSUME CopyRectRect PROVE disputed' = disputed
  BY <1>2, Zenon DEF CopyRectRect
<1>3. ASSUME HextileRect PROVE disputed' = disputed
  BY <1>3, Zenon DEF HextileRect
<1>4. ASSUME ZrleRect PROVE disputed' = disputed
  BY <1>4, Zenon DEF ZrleRect
<1>5. CASE TightRectangle
  <2>1. PICK r \in Rects, d \in Drawings, control \in Controls :
          \E t \in TightWritings(Cut(d, r), r[3], format, serverZ, control) :
             disputed' = (disputed \/ t.edge \/ control % 16 # control \div 16)
    BY <1>5, ZenonT(60) DEF TightRectangle
  <2>2. PICK t : disputed' = (disputed \/ t.edge \/ control % 16 # control \div 16)
    BY <2>1, Zenon
  <2>3. disputed' \in BOOLEAN
    BY <2>2
  <2>. QED  BY <2>2, <2>3, Zenon
<1>6. ASSUME UNCHANGED vars PROVE disputed' = disputed
  BY <1>6, Zenon DEF vars
<1>. QED  BY <1>1, <1>2, <1>3, <1>4, <1>5, <1>6, Zenon DEF Next

(***************************************************************************)
(* The theorems.                                                            *)
(***************************************************************************)

\* What StreamsUnlessDisputed takes to be inductive: the types its actions rely on.
StreamsInv ==
    /\ disputed \in BOOLEAN
    /\ ~disputed => format \in Formats /\ serverZ \in [Streams -> Nat] /\ StreamsInStep

\* Whatever encodings the server mixes with Tight, and whatever types, filters, resets and
\* lengths it uses, the client's four Tight streams stand where the server's stand
\* (TightState, tight.rs) until it writes a control byte of two different nibbles, or
\* compresses data of MinToCompress bytes.
THEOREM StreamsInStepAlways ==
    Spec => []StreamsUnlessDisputed
<1>1. Init => StreamsInv
  <2>1. (\A i \in Streams : 0 \in Nat) => [i \in Streams |-> 0] \in [Streams -> Nat]
    OBVIOUS
  <2>. QED  BY <2>1 DEF Init, StreamsInv, StreamsInStep
<1>2. StreamsInv /\ [Next]_vars => StreamsInv'
  <2>. SUFFICES ASSUME StreamsInv, [Next]_vars PROVE StreamsInv'
    OBVIOUS
  <2>1. disputed' \in BOOLEAN
    BY DisputedStays DEF StreamsInv
  <2>2. ASSUME ~disputed'
        PROVE  (format \in Formats /\ serverZ \in [Streams -> Nat] /\ StreamsInStep)'
    <3>0. ~disputed /\ format \in Formats /\ serverZ \in [Streams -> Nat] /\ tight = serverZ
      BY <2>2, DisputedStays DEF StreamsInv, StreamsInStep
    <3>1. CASE RawRect
      BY <3>0, <3>1, Zenon DEF RawRect, Sends, StreamsInStep
    <3>2. CASE CopyRectRect
      BY <3>0, <3>2, Zenon DEF CopyRectRect, Sends, StreamsInStep
    <3>3. CASE HextileRect
      BY <3>0, <3>3, Zenon DEF HextileRect, Sends, StreamsInStep
    <3>4. CASE ZrleRect
      BY <3>0, <3>4, Zenon DEF ZrleRect, Sends, StreamsInStep
    <3>5. CASE TightRectangle
      <4>1. tight' = serverZ' /\ serverZ' \in [Streams -> Nat] /\ format' = format
        BY <2>2, <3>0, <3>5, TightStreams
      <4>. QED  BY <3>0, <4>1 DEF StreamsInStep
    <3>6. CASE UNCHANGED vars
      BY <3>0, <3>6, Zenon DEF vars, StreamsInStep
    <3>. QED  BY <3>1, <3>2, <3>3, <3>4, <3>5, <3>6, Zenon DEF Next
  <2>. QED  BY <2>1, <2>2, Zenon DEF StreamsInv
<1>3. StreamsInv => StreamsUnlessDisputed
  BY DEF StreamsInv, StreamsUnlessDisputed
<1>. QED  BY <1>1, <1>2, <1>3, PTL DEF Spec

Decoded == disputed \in BOOLEAN /\ (~disputed => TypeOK /\ RectDecoded /\ StreamsInStep)

LEMMA DecodedInit ==
    ASSUME Init
    PROVE  Decoded
<1>. DEFINE n == Width * Height
<1>1. n \in Nat
  BY SizeAssumption, Products
<1>2. Black \in Colours
  BY DEF Black, Colours
<1>3. screen = [i \in 1 .. n |-> Black] /\ pixels = screen /\ format \in Formats
  BY DEF Init
<1>. HIDE DEF n
<1>4. screen \in Seq(Colours) /\ Len(screen) = n
  <2>. DEFINE B == Black
  <2>1. B \in Colours
    BY <1>2
  <2>. HIDE DEF B
  <2>2. [i \in 1 .. n |-> B] \in [1 .. n -> Colours]
    BY <2>1
  <2>3. screen \in [1 .. n -> Colours]
    BY <1>3, <2>2 DEF B
  <2>. QED  BY <1>1, <2>3
<1>5. serverZ \in [Streams -> Nat] /\ tight = serverZ /\ serverZrle \in Nat /\ zrle \in Nat
  BY DEF Init
<1>6. ok \in BOOLEAN /\ ok /\ sent \in 0 .. MaxRects /\ disputed \in BOOLEAN
  <2>1. ok = TRUE /\ sent = 0 /\ disputed = FALSE
    BY DEF Init
  <2>2. sent \in 0 .. MaxRects
    BY <2>1, MaxRectsAssumption
  <2>3. ok \in BOOLEAN /\ ok /\ disputed \in BOOLEAN
    BY <2>1, Zenon
  <2>. QED  BY <2>2, <2>3
<1>7. TypeOK
  BY <1>3, <1>4, <1>5, <1>6, Zenon DEF TypeOK, n
<1>. QED  BY <1>3, <1>5, <1>6, <1>7 DEF Decoded, RectDecoded, StreamsInStep

LEMMA DecodedStep ==
    ASSUME Encodings \subseteq {"raw", "copyrect", "tight"}, Decoded, [Next]_vars, ~disputed'
    PROVE  (TypeOK /\ RectDecoded /\ StreamsInStep)'
<1>0. TypeOK /\ RectDecoded /\ StreamsInStep /\ tight = serverZ /\ disputed \in BOOLEAN
  BY DisputedStays DEF Decoded, StreamsInStep
<1>1. CASE RawRect
  <2>1. tight' = serverZ'
    BY <1>0, <1>1, Zenon DEF RawRect
  <2>. QED  BY <1>0, <1>1, <2>1, RawStep DEF StreamsInStep
<1>2. CASE CopyRectRect
  <2>1. tight' = serverZ'
    BY <1>0, <1>2, Zenon DEF CopyRectRect
  <2>. QED  BY <1>0, <1>2, <2>1, CopyRectStep DEF StreamsInStep
<1>3. ~HextileRect
  <2>1. "hextile" \notin Encodings
    OBVIOUS
  <2>. QED  BY <2>1, Zenon DEF HextileRect
<1>4. ~ZrleRect
  <2>1. "zrle" \notin Encodings
    OBVIOUS
  <2>. QED  BY <2>1, Zenon DEF ZrleRect
<1>5. CASE TightRectangle
  <2>0. format \in Formats /\ serverZ \in [Streams -> Nat]
    BY <1>0 DEF TypeOK
  <2>1. tight' = serverZ'
    BY <1>0, <1>5, <2>0, TightStreams
  <2>. QED  BY <1>0, <1>5, <2>1, TightStep DEF StreamsInStep
<1>6. CASE UNCHANGED vars
  BY <1>0, <1>6, Zenon DEF vars, TypeOK, RectDecoded, StreamsInStep
<1>. QED  BY <1>1, <1>2, <1>3, <1>4, <1>5, <1>6, Zenon DEF Next

\* A server that writes in Raw, CopyRect and Tight, in whatever ways, is shown by the
\* client as it is (each rectangle decoded to its last byte and no further, the
\* framebuffer the server's desktop; raw.rs, copyrect.rs, tight.rs) until it writes a
\* Tight control byte of two different nibbles, or compresses data of MinToCompress bytes.
THEOREM DecodedAlways ==
    ASSUME Encodings \subseteq {"raw", "copyrect", "tight"}
    PROVE  Spec => []DecodedUnlessDisputed
<1>1. Init => Decoded
  BY DecodedInit
<1>2. Decoded /\ [Next]_vars => Decoded'
  <2>. SUFFICES ASSUME Decoded, [Next]_vars PROVE Decoded'
    OBVIOUS
  <2>1. disputed' \in BOOLEAN
    BY DisputedStays DEF Decoded
  <2>2. ~disputed' => (TypeOK /\ RectDecoded /\ StreamsInStep)'
    BY DecodedStep
  <2>. QED  BY <2>1, <2>2, Zenon DEF Decoded
<1>3. Decoded => DecodedUnlessDisputed
  BY DEF Decoded, DecodedUnlessDisputed
<1>. QED  BY <1>1, <1>2, <1>3, PTL DEF Spec
===============================================================================

-------------------------- MODULE VncSession_proofs ---------------------------
(***************************************************************************)
(* Proofs about VncSession, for all sizes, colours and bounds.             *)
(***************************************************************************)
EXTENDS VncSessionInv, SequenceTheorems, WellFoundedInduction, TLAPS

-------------------------------------------------------------------------------
(* The queues.                                                             *)

\* The message at the head fits what its reader has.
LEMMA BoundedHead ==
    ASSUME NEW S, NEW q \in Seq(S), q # <<>>, NEW now, Bounded(q, now)
    PROVE  InBounds(Head(q), now)
<1>1. Len(q) \in Nat /\ Len(q) >= 1 /\ Head(q) = q[1]
  BY EmptySeq, LenProperties
<1>2. 1 \in 1 .. Len(q) /\ 0 \in 0 .. Len(q) /\ Governs(q, 0, 1)
  BY <1>1 DEF Governs
<1> QED  BY <1>1, <1>2 DEF Bounded, SizeAt

\* What the reader has once it took the head.
After(m, now) == IF Sized(m) THEN m.size ELSE now

\* A position of the tail is governed as its position in the queue was.
LEMMA GovernsTail ==
    ASSUME NEW S, NEW q \in Seq(S), q # <<>>, NEW now,
           NEW i \in 1 .. Len(q), NEW j \in 0 .. Len(q) - 1, Governs(Tail(q), j, i)
    PROVE  \E k \in 0 .. Len(q) :
              /\ Governs(q, k, i + 1)
              /\ SizeAt(q, k, now) = SizeAt(Tail(q), j, After(Head(q), now))
<1> DEFINE t == Tail(q)
<1>1. /\ Len(q) \in Nat /\ Len(q) >= 1 /\ Head(q) = q[1] /\ Len(t) = Len(q) - 1
      /\ \A k \in 1 .. Len(q) - 1 : t[k] = q[k + 1]
  BY EmptySeq, LenProperties, HeadTailProperties
<1>2. j < i /\ (j # 0 => Sized(t[j])) /\ \A k \in j + 1 .. i - 1 : ~Sized(t[k])
  BY DEF Governs
<1>3. \A k \in j + 2 .. i : ~Sized(q[k])
  <2> TAKE k \in j + 2 .. i
  <2>1. k - 1 \in j + 1 .. i - 1 /\ k - 1 \in 1 .. Len(q) - 1 /\ (k - 1) + 1 = k
    BY <1>1
  <2> QED  BY <2>1, <1>1, <1>2
<1>4. CASE j # 0
  <2>1. j \in 1 .. Len(q) - 1 /\ t[j] = q[j + 1]
    BY <1>1, <1>4
  <2>2. Governs(q, j + 1, i + 1)
    BY <1>2, <1>3, <1>4, <2>1 DEF Governs
  <2>3. SizeAt(q, j + 1, now) = SizeAt(t, j, After(Head(q), now))
    BY <1>4, <2>1 DEF SizeAt
  <2> QED  BY <1>1, <2>1, <2>2, <2>3
<1>5. CASE j = 0 /\ Sized(q[1])
  <2>1. Governs(q, 1, i + 1)
    BY <1>2, <1>3, <1>5 DEF Governs
  <2>2. SizeAt(q, 1, now) = SizeAt(t, j, After(Head(q), now))
    BY <1>1, <1>5 DEF SizeAt, After
  <2> QED  BY <1>1, <2>1, <2>2
<1>6. CASE j = 0 /\ ~Sized(q[1])
  <2>1. \A k \in 1 .. i : ~Sized(q[k])
    <3> TAKE k \in 1 .. i
    <3>1. k = 1 \/ k \in 2 .. i  OBVIOUS
    <3> QED  BY <3>1, <1>3, <1>6
  <2>2. Governs(q, 0, i + 1)
    BY <2>1 DEF Governs
  <2>3. SizeAt(q, 0, now) = SizeAt(t, j, After(Head(q), now))
    BY <1>1, <1>6 DEF SizeAt, After
  <2> QED  BY <1>1, <2>2, <2>3
<1> QED  BY <1>4, <1>5, <1>6

LEMMA BoundedTail ==
    ASSUME NEW S, NEW q \in Seq(S), q # <<>>, NEW now, Bounded(q, now)
    PROVE  Bounded(Tail(q), After(Head(q), now))
<1> DEFINE t == Tail(q)
<1>1. /\ Len(q) \in Nat /\ Len(q) >= 1 /\ Len(t) = Len(q) - 1
      /\ \A k \in 1 .. Len(q) - 1 : t[k] = q[k + 1]
  BY EmptySeq, LenProperties, HeadTailProperties
<1> SUFFICES ASSUME NEW i \in 1 .. Len(t), NEW j \in 0 .. Len(t), Governs(t, j, i)
             PROVE  InBounds(t[i], SizeAt(t, j, After(Head(q), now)))
  BY DEF Bounded
<1>2. i \in 1 .. Len(q) /\ j \in 0 .. Len(q) - 1 /\ i + 1 \in 1 .. Len(q) /\ t[i] = q[i + 1]
  BY <1>1
<1>3. PICK k \in 0 .. Len(q) :
          /\ Governs(q, k, i + 1)
          /\ SizeAt(q, k, now) = SizeAt(t, j, After(Head(q), now))
  BY <1>2, GovernsTail
<1>4. InBounds(q[i + 1], SizeAt(q, k, now))
  BY <1>2, <1>3 DEF Bounded
<1> QED  BY <1>2, <1>3, <1>4

LEMMA EndsInTail ==
    ASSUME NEW S, NEW q \in Seq(S), q # <<>>, NEW now, NEW size, EndsIn(q, now, size)
    PROVE  EndsIn(Tail(q), After(Head(q), now), size)
<1> DEFINE t == Tail(q)
<1>1. Len(q) \in Nat /\ Len(q) >= 1 /\ Len(t) = Len(q) - 1
  BY EmptySeq, LenProperties, HeadTailProperties
<1> SUFFICES ASSUME NEW j \in 0 .. Len(t), Governs(t, j, Len(t) + 1)
             PROVE  SizeAt(t, j, After(Head(q), now)) = size
  BY DEF EndsIn
<1>2. Len(q) \in 1 .. Len(q) /\ j \in 0 .. Len(q) - 1 /\ Governs(t, j, Len(q))
  BY <1>1
<1>3. PICK k \in 0 .. Len(q) :
          /\ Governs(q, k, Len(q) + 1)
          /\ SizeAt(q, k, now) = SizeAt(t, j, After(Head(q), now))
  BY <1>2, GovernsTail
<1> QED  BY <1>3 DEF EndsIn

\* A message that fits the sender's size joins the queue.
LEMMA BoundedAppend ==
    ASSUME NEW S, NEW q \in Seq(S), NEW m \in S, NEW now, NEW size,
           Bounded(q, now), EndsIn(q, now, size), InBounds(m, size)
    PROVE  Bounded(Append(q, m), now)
<1> DEFINE a == Append(q, m)
<1>1. /\ Len(q) \in Nat /\ Len(a) = Len(q) + 1 /\ a[Len(q) + 1] = m
      /\ \A k \in 1 .. Len(q) : a[k] = q[k]
  BY AppendProperties, LenProperties
<1> SUFFICES ASSUME NEW i \in 1 .. Len(a), NEW j \in 0 .. Len(a), Governs(a, j, i)
             PROVE  InBounds(a[i], SizeAt(a, j, now))
  BY DEF Bounded
<1>2. j \in 0 .. Len(q) /\ j < i
  BY <1>1 DEF Governs
<1>3. Governs(q, j, i)
  BY <1>1, <1>2 DEF Governs
<1>4. SizeAt(a, j, now) = SizeAt(q, j, now)
  BY <1>1, <1>2 DEF SizeAt
<1>5. CASE i = Len(q) + 1
  BY <1>1, <1>2, <1>3, <1>4, <1>5 DEF EndsIn
<1>6. CASE i \in 1 .. Len(q)
  BY <1>1, <1>2, <1>3, <1>4, <1>6 DEF Bounded
<1> QED  BY <1>1, <1>5, <1>6

LEMMA EndsInAppend ==
    ASSUME NEW S, NEW q \in Seq(S), NEW m \in S, NEW now, NEW size, EndsIn(q, now, size)
    PROVE  EndsIn(Append(q, m), now, After(m, size))
<1> DEFINE a == Append(q, m)
<1>1. /\ Len(q) \in Nat /\ Len(a) = Len(q) + 1 /\ a[Len(q) + 1] = m
      /\ \A k \in 1 .. Len(q) : a[k] = q[k]
  BY AppendProperties, LenProperties
<1> SUFFICES ASSUME NEW j \in 0 .. Len(a), Governs(a, j, Len(a) + 1)
             PROVE  SizeAt(a, j, now) = After(m, size)
  BY DEF EndsIn
<1>2. CASE j = Len(q) + 1
  <2>1. Sized(m) /\ SizeAt(a, j, now) = m.size
    BY <1>1, <1>2 DEF Governs, SizeAt
  <2> QED  BY <2>1 DEF After
<1>3. CASE j \in 0 .. Len(q)
  <2>1. ~Sized(m)
    BY <1>1, <1>3 DEF Governs
  <2>2. Governs(q, j, Len(q) + 1)
    BY <1>1, <1>3 DEF Governs
  <2>3. SizeAt(a, j, now) = SizeAt(q, j, now)
    BY <1>1, <1>3 DEF SizeAt
  <2> QED  BY <2>1, <2>2, <2>3, <1>3 DEF EndsIn, After
<1> QED  BY <1>1, <1>2, <1>3

\* So does a sequence of messages none of which changes the size.
LEMMA BoundedConcat ==
    ASSUME NEW S, NEW q \in Seq(S), NEW r \in Seq(S), NEW now, NEW size,
           Bounded(q, now), EndsIn(q, now, size),
           \A k \in 1 .. Len(r) : ~Sized(r[k]) /\ InBounds(r[k], size)
    PROVE  Bounded(q \o r, now) /\ EndsIn(q \o r, now, size)
<1> DEFINE a == q \o r
<1>1. /\ Len(q) \in Nat /\ Len(r) \in Nat /\ Len(a) = Len(q) + Len(r)
      /\ \A k \in 1 .. Len(q) : a[k] = q[k]
      /\ \A k \in Len(q) + 1 .. Len(a) : k - Len(q) \in 1 .. Len(r) /\ a[k] = r[k - Len(q)]
  BY ConcatProperties, LenProperties
<1>2. ASSUME NEW i \in 1 .. Len(a) + 1, NEW j \in 0 .. Len(a), Governs(a, j, i), i > Len(q)
      PROVE  SizeAt(a, j, now) = size
  <2>1. j \in 0 .. Len(q)
    <3>1. j > Len(q) => ~Sized(a[j])
      BY <1>1
    <3> QED  BY <1>1, <1>2, <3>1 DEF Governs
  <2>2. Governs(q, j, Len(q) + 1)
    BY <1>1, <1>2, <2>1 DEF Governs
  <2>3. SizeAt(a, j, now) = SizeAt(q, j, now)
    BY <1>1, <2>1 DEF SizeAt
  <2> QED  BY <2>1, <2>2, <2>3 DEF EndsIn
<1>3. Bounded(a, now)
  <2> SUFFICES ASSUME NEW i \in 1 .. Len(a), NEW j \in 0 .. Len(a), Governs(a, j, i)
               PROVE  InBounds(a[i], SizeAt(a, j, now))
    BY DEF Bounded
  <2>1. CASE i > Len(q)
    BY <1>1, <1>2, <2>1
  <2>2. CASE i <= Len(q)
    <3>1. i \in 1 .. Len(q) /\ j \in 0 .. Len(q)
      BY <1>1, <2>2 DEF Governs
    <3>2. \A k \in j + 1 .. i - 1 : k \in 1 .. Len(q) /\ a[k] = q[k]
      BY <1>1, <3>1
    <3>3. j # 0 => j \in 1 .. Len(q) /\ a[j] = q[j]
      BY <1>1, <3>1
    <3>4. Governs(q, j, i)
      BY <3>2, <3>3 DEF Governs
    <3>5. SizeAt(a, j, now) = SizeAt(q, j, now)
      BY <3>3 DEF SizeAt
    <3> QED  BY <1>1, <3>1, <3>4, <3>5 DEF Bounded
  <2> QED  BY <1>1, <2>1, <2>2
<1>4. EndsIn(a, now, size)
  <2> SUFFICES ASSUME NEW j \in 0 .. Len(a), Governs(a, j, Len(a) + 1)
               PROVE  SizeAt(a, j, now) = size
    BY DEF EndsIn
  <2>1. Len(a) + 1 \in 1 .. Len(a) + 1 /\ Len(a) + 1 > Len(q)
    BY <1>1
  <2> QED  BY <2>1, <1>2
<1> QED  BY <1>3, <1>4

LEMMA EmptyQueue ==
    ASSUME NEW now
    PROVE  Bounded(<<>>, now) /\ EndsIn(<<>>, now, now)
BY EmptySeq DEF Bounded, EndsIn, Governs, SizeAt

\* A stream that is cut off stays bounded.
LEMMA BoundedPrefix ==
    ASSUME NEW S, NEW q \in Seq(S), NEW now, Bounded(q, now), NEW n \in 0 .. Len(q)
    PROVE  Bounded(SubSeq(q, 1, n), now)
<1> DEFINE p == SubSeq(q, 1, n)
<1>1. Len(q) \in Nat /\ Len(p) = n /\ \A i \in 1 .. n : p[i] = q[i]
  <2>1. \A i \in 1 .. n : q[i] \in S
    BY ElementOfSeq, LenProperties
  <2>2. n \in Int /\ 1 \in Int /\ n - 1 + 1 = n /\ (1 <= n \/ n = 0)
    BY LenProperties
  <2> QED  BY <2>1, <2>2, SubSeqProperties, LenProperties
<1> SUFFICES ASSUME NEW i \in 1 .. n, NEW j \in 0 .. n, Governs(p, j, i)
             PROVE  InBounds(p[i], SizeAt(p, j, now))
  BY <1>1 DEF Bounded
<1>2. Governs(q, j, i) /\ SizeAt(p, j, now) = SizeAt(q, j, now)
  BY <1>1 DEF Governs, SizeAt
<1> QED  BY <1>1, <1>2 DEF Bounded

\* Sending one message, or a few, one after the other.
LEMMA ConcatTwo ==
    ASSUME NEW S, NEW q \in Seq(S), NEW a \in S, NEW b \in S
    PROVE  /\ <<a, b>> \in Seq(S)
           /\ q \o <<a, b>> = Append(Append(q, a), b)
<1>1. <<a>> \in Seq(S) /\ Len(<<a>>) = 1 /\ <<a>>[1] = a /\ <<b>> \in Seq(S)
  OBVIOUS
<1>2. <<a, b>> = Append(<<a>>, b)
  <2> DEFINE l == Append(<<a>>, b)
             r == <<a, b>>
  <2>1. r \in Seq(S) /\ Len(r) = 2 /\ r[1] = a /\ r[2] = b
    OBVIOUS
  <2>2. l \in Seq(S) /\ Len(l) = 2 /\ l[1] = a /\ l[2] = b
    BY <1>1, AppendProperties
  <2> HIDE DEF l, r
  <2>3. \A i \in 1 .. Len(l) : l[i] = r[i]
    BY <2>1, <2>2
  <2>4. l = r
    BY <2>1, <2>2, <2>3, SeqEqual
  <2> QED  BY <2>4 DEF l, r
<1>3. <<a, b>> = <<a>> \o <<b>>
  BY <1>1, <1>2, AppendIsConcat
<1>4. q \o (<<a>> \o <<b>>) = (q \o <<a>>) \o <<b>>
  BY <1>1, ConcatAssociative
<1>5. q \o <<a>> = Append(q, a) /\ Append(q, a) \in Seq(S)
  BY AppendIsConcat, AppendProperties
<1>6. Append(q, a) \o <<b>> = Append(Append(q, a), b)
  BY <1>5, AppendIsConcat
<1>7. <<a, b>> \in Seq(S)
  BY <1>1, <1>2, AppendProperties
<1> QED  BY <1>3, <1>4, <1>5, <1>6, <1>7

-------------------------------------------------------------------------------
(* Framebuffers and messages have their types.                             *)

LEMMA FramebufferType ==
    ASSUME NEW f
    PROVE  f \in Framebuffers <=>
              \E s \in Sizes : \E px \in [Cells(s) -> Pixel] : f = [size |-> s, px |-> px]
BY DEF Framebuffers

LEMMA FramebufferParts ==
    ASSUME NEW f \in Framebuffers
    PROVE  /\ f.size \in Sizes
           /\ DOMAIN f.px = Cells(f.size)
           /\ f.px \in [Cells(f.size) -> Pixel]
           /\ Cells(f.size) \subseteq AllCells
BY DEF Framebuffers, AllCells

LEMMA BlackFbType ==
    ASSUME NEW s \in Sizes
    PROVE  BlackFb(s) \in Framebuffers /\ BlackFb(s).size = s
BY DEF BlackFb, Framebuffers, Pixel

LEMMA ImageType ==
    ASSUME NEW px, DOMAIN px \subseteq AllCells, px \in [DOMAIN px -> Pixel]
    PROVE  px \in Images
BY DEF Images

LEMMA ImageParts ==
    ASSUME NEW px \in Images
    PROVE  /\ DOMAIN px \subseteq AllCells
           /\ \A c \in DOMAIN px : px[c] \in Pixel
BY DEF Images

LEMMA BlitType ==
    ASSUME NEW f \in Framebuffers, NEW px, \A c \in DOMAIN px : px[c] \in Pixel
    PROVE  Blit(f, px) \in Framebuffers /\ Blit(f, px).size = f.size
<1> DEFINE g == [c \in DOMAIN f.px |-> IF c \in DOMAIN px THEN px[c] ELSE f.px[c]]
<1>1. PICK s \in Sizes : \E p \in [Cells(s) -> Pixel] : f = [size |-> s, px |-> p]
  BY FramebufferType
<1>2. g \in [Cells(s) -> Pixel]
  BY <1>1
<1>3. Blit(f, px) = [size |-> s, px |-> g]
  BY <1>1 DEF Blit
<1> HIDE DEF g
<1> QED  BY <1>1, <1>2, <1>3, FramebufferType

\* A rectangle of the stream that fits is decoded to a framebuffer.
LEMMA DecodeType ==
    ASSUME NEW f \in Framebuffers, NEW r \in Rectangle, r.t \in {"paint", "copy"},
           InBounds(r, f.size)
    PROVE  /\ Decode(f, r) \in Framebuffers /\ Decode(f, r).size = f.size
           /\ Target(r) \in SUBSET AllCells
<1>0. Cells(f.size) \subseteq AllCells /\ DOMAIN f.px = Cells(f.size)
      /\ f.px \in [Cells(f.size) -> Pixel]
  BY FramebufferParts
<1>1. CASE r.t = "paint"
  <2>1. r.px \in Images
    BY <1>1 DEF Rectangle
  <2>2. \A c \in DOMAIN r.px : r.px[c] \in Pixel
    BY <2>1, ImageParts
  <2> QED  BY <1>0, <1>1, <2>2, BlitType DEF Decode, Target, InBounds
<1>2. CASE r.t = "copy"
  <2> DEFINE px == [c \in r.to |-> f.px[Source(c, r.d)]]
  <2>1. \A c \in DOMAIN px : px[c] \in Pixel
    BY <1>0, <1>2 DEF InBounds
  <2>2. Decode(f, r) = Blit(f, px)
    BY <1>2 DEF Decode, CopyRect
  <2> HIDE DEF px
  <2> QED  BY <1>0, <1>2, <2>1, <2>2, BlitType DEF Target, InBounds
<1> QED  BY <1>1, <1>2

LEMMA SubRgbaType ==
    ASSUME NEW f \in Framebuffers, NEW cells
    PROVE  SubRgba(f, cells) \in Images /\ DOMAIN SubRgba(f, cells) \subseteq Cells(f.size)
<1>1. SubRgba(f, cells) \in [DOMAIN SubRgba(f, cells) -> Pixel]
  BY FramebufferParts DEF SubRgba
<1>2. DOMAIN SubRgba(f, cells) \subseteq Cells(f.size)
  BY FramebufferParts DEF SubRgba
<1> QED  BY <1>1, <1>2, ImageType, FramebufferParts

LEMMA DrawnType ==
    ASSUME NEW f \in Framebuffers, NEW r \in Rectangle, r.t \in {"paint", "copy"},
           InBounds(r, f.size)
    PROVE  Drawn(f, r) \in Framebuffers /\ Drawn(f, r).size = f.size
<1> DEFINE g == [c \in DOMAIN f.px |->
        IF c \notin Target(r) THEN f.px[c]
        ELSE IF r.t = "paint" THEN r.px[c] ELSE f.px[Source(c, r.d)]]
<1>1. PICK s \in Sizes : \E p \in [Cells(s) -> Pixel] : f = [size |-> s, px |-> p]
  BY FramebufferType
<1>2. r.t = "paint" => \A c \in DOMAIN r.px : r.px[c] \in Pixel
  BY ImageParts DEF Rectangle
<1>3. g \in [Cells(s) -> Pixel]
  BY <1>1, <1>2 DEF Target, InBounds
<1>4. Drawn(f, r) = [size |-> s, px |-> g]
  BY <1>1 DEF Drawn
<1> HIDE DEF g
<1> QED  BY <1>1, <1>3, <1>4, FramebufferType

LEMMA MessageTypes ==
    /\ \A s \in Sizes : SizeEvent(s) \in Event /\ FullRequest(s) \in ToServer
    /\ \A t \in {"name", "cliptext", "error", "disconnected"} : [t |-> t] \in Event
    /\ \A s \in Sizes : Request(TRUE, s) \in ToServer
    /\ \A s \in Sizes : [t |-> "resize", size |-> s] \in Rectangle
    /\ \A s \in Sizes : [t |-> "init", size |-> s] \in ToClient
    /\ \A n \in Nat : [t |-> "update", n |-> n] \in ToClient
    /\ \A t \in {"cuttext", "bell"} : [t |-> t] \in ToClient
    /\ \A t \in {"cursor", "undecodable"} : [t |-> t] \in Rectangle
    /\ Rectangle \subseteq ToClient
    /\ \A i \in Nat : [t |-> "input", id |-> i] \in Command
    /\ [t |-> "disconnect"] \in Command
    /\ \A c \in Command : c.t = "input" => c \in ToServer
BY DEF SizeEvent, FullRequest, Request, Event, ToServer, ToClient, Rectangle, Command

\* What a message of each kind holds.
LEMMA MessageParts ==
    /\ \A e \in Event : e.t = "size" => e.size \in Sizes
    /\ \A e \in Event : e.t = "rects" => e.rects \in Seq(Images)
    /\ \A m \in ToClient : Sized(m) => m.size \in Sizes
    /\ \A m \in ToClient : m.t \in {"paint", "copy"} => m \in Rectangle
    /\ \A m \in ToClient : m.t = "update" => m.n \in Nat
    /\ \A m \in ToServer : m.t = "request" => m.size \in Sizes
    /\ \A m \in ToServer : m.t = "input" => m.id \in Nat
BY DEF Event, ToServer, ToClient, Rectangle, Sized

\* What emitting does to the event queue.
LEMMA EmitType ==
    ASSUME events \in Seq(Event), NEW evs \in Seq(Event), Emit(evs)
    PROVE  events' \in Seq(Event)
BY ConcatProperties DEF Emit, Emitted

LEMMA FinishAfterType ==
    ASSUME events \in Seq(Event), NEW evs \in Seq(Event), NEW o \in Outcomes, FinishAfter(evs, o)
    PROVE  /\ pc' = o
           /\ events' = IF connection THEN Append(events \o evs, [t |-> o]) ELSE events
           /\ events' \in Seq(Event)
<1>1. [t |-> o] \in Event
  BY MessageTypes DEF Outcomes
<1>2. <<[t |-> o]>> \in Seq(Event) /\ events \o evs \in Seq(Event)
  BY <1>1, ConcatProperties
<1>3. events \o (evs \o <<[t |-> o]>>) = Append(events \o evs, [t |-> o])
  BY <1>1, <1>2, ConcatAssociative, AppendIsConcat
<1>4. Append(events \o evs, [t |-> o]) \in Seq(Event)
  BY <1>1, <1>2, AppendProperties
<1> QED  BY <1>3, <1>4 DEF FinishAfter, Emit, Emitted

LEMMA WrittenType ==
    ASSUME toServer \in Seq(ToServer), NEW m \in ToServer
    PROVE  Written(m) \in Seq(ToServer)
BY AppendProperties DEF Written

\* The head of the stream is what the background thread may decode.
LEMMA ArrivedHead ==
    ASSUME TypeOK, StreamInv, toClient # <<>>
    PROVE  /\ Head(toClient) \in ToClient /\ Tail(toClient) \in Seq(ToClient)
           /\ InBounds(Head(toClient), fb.size)
BY BoundedHead, HeadTailProperties DEF TypeOK, StreamInv

-------------------------------------------------------------------------------
(* Type correctness.                                                       *)

LEMMA TypeInit == Init => TypeOK
<1> SUFFICES ASSUME Init PROVE TypeOK
  OBVIOUS
<1>1. PICK s \in Sizes : \E px \in [Cells(s) -> Colours] :
          /\ fb = BlackFb(s) /\ shadow = BlackFb(s)
          /\ screen = [size |-> s, px |-> px]
          /\ toClient = <<[t |-> "init", size |-> s]>>
  BY DEF Init
<1>2. fb \in Framebuffers /\ shadow \in Framebuffers
  BY <1>1, BlackFbType
<1>3. screen \in Framebuffers
  BY <1>1, FramebufferType DEF Pixel
<1>4. toClient \in Seq(ToClient)
  <2>1. [t |-> "init", size |-> s] \in ToClient
    BY MessageTypes
  <2> QED  BY <1>1, <2>1
<1>5. /\ events \in Seq(Event) /\ cmds \in Seq(Command) /\ dirty \in Seq(SUBSET AllCells)
      /\ toServer \in Seq(ToServer) /\ delivered \in Seq(Nat)
  BY EmptySeq DEF Init
<1>6. /\ connection = TRUE /\ texture = None /\ uiSize = <<0, 0>> /\ sent = 0
      /\ pc = "serverinit" /\ todo = 0 /\ serverOpen = TRUE
      /\ changed = {} /\ resizing = FALSE /\ asked = {}
  BY DEF Init
<1>7. budget \in [draws : Nat, resizes : Nat, notices : Nat]
  BY BoundsAssumption DEF Init
<1> QED  BY <1>2, <1>3, <1>4, <1>5, <1>6, <1>7 DEF TypeOK

LEMMA TypeWorker == TypeOK /\ StreamInv /\ Worker => TypeOK'
<1> SUFFICES ASSUME TypeOK, StreamInv, Worker PROVE TypeOK'
  OBVIOUS
<1> USE DEF uiVars, chanVars, workerVars, wireVars, serverVars
<1>a. fb.size \in Sizes
  BY FramebufferParts DEF TypeOK
<1>1. CASE ServerInit
  <2> DEFINE size  == Head(toClient).size
             first == <<SizeEvent(size), [t |-> "name"]>>
  <2>1. size \in Sizes /\ Tail(toClient) \in Seq(ToClient)
    BY <1>1, ArrivedHead, MessageParts DEF ServerInit, Arrived, Sized
  <2>2. first \in Seq(Event)
    BY <2>1, MessageTypes, ConcatTwo DEF TypeOK
  <2>3. fb' \in Framebuffers
    BY <1>1, <2>1, BlackFbType DEF ServerInit
  <2>4. events' \in Seq(Event) /\ toServer' \in Seq(ToServer) /\ pc' \in {"drain", "error"}
    <3>1. CASE Emit(first) /\ toServer' = Written(FullRequest(size)) /\ pc' = "drain"
      BY <3>1, <2>1, <2>2, EmitType, WrittenType, MessageTypes DEF TypeOK
    <3>2. CASE WriteFailsAfter(first)
      BY <3>2, <2>2, FinishAfterType DEF WriteFailsAfter, TypeOK, Outcomes
    <3> QED  BY <1>1, <3>1, <3>2 DEF ServerInit
  <2> QED  BY <1>1, <2>1, <2>3, <2>4 DEF ServerInit, TypeOK, Outcomes
<1>2. CASE DrainInput
  <2>1. Head(cmds) \in Command /\ Tail(cmds) \in Seq(Command) /\ Head(cmds) \in ToServer
    BY <1>2, HeadTailProperties, MessageTypes DEF DrainInput, Received, TypeOK
  <2>2. events' \in Seq(Event) /\ toServer' \in Seq(ToServer) /\ pc' \in {"drain", "error"}
    <3>1. CASE toServer' = Written(Head(cmds)) /\ UNCHANGED <<pc, events>>
      BY <1>2, <3>1, <2>1, WrittenType DEF DrainInput, TypeOK
    <3>2. CASE WriteFailsAfter(<<>>)
      BY <3>2, FinishAfterType, EmptySeq DEF WriteFailsAfter, TypeOK, Outcomes
    <3> QED  BY <1>2, <3>1, <3>2 DEF DrainInput
  <2> QED  BY <1>2, <2>1, <2>2 DEF DrainInput, TypeOK, Outcomes
<1>3. CASE DrainDisconnect
  <2>1. Tail(cmds) \in Seq(Command)
    BY <1>3, HeadTailProperties DEF DrainDisconnect, Received, TypeOK
  <2>2. events' \in Seq(Event) /\ pc' = "disconnected"
    BY <1>3, FinishAfterType, EmptySeq DEF DrainDisconnect, Finish, TypeOK, Outcomes
  <2> QED  BY <1>3, <2>1, <2>2 DEF DrainDisconnect, TypeOK, Outcomes
<1>4. CASE DrainEnd
  BY <1>4 DEF DrainEnd, TypeOK
<1>5. CASE ReadTimeout
  BY <1>5 DEF ReadTimeout, TypeOK
<1>6. CASE ReadEof
  <2>1. events' \in Seq(Event) /\ pc' = "error"
    BY <1>6, FinishAfterType, EmptySeq DEF ReadEof, Finish, TypeOK, Outcomes
  <2> QED  BY <1>6, <2>1 DEF ReadEof, TypeOK, Outcomes
<1>7. CASE ReadNotice
  <2>1. Tail(toClient) \in Seq(ToClient)
    BY <1>7, ArrivedHead DEF ReadNotice, Arrived
  <2>2. <<[t |-> "cliptext"]>> \in Seq(Event) /\ <<>> \in Seq(Event)
    BY MessageTypes
  <2>3. events' \in Seq(Event)
    BY <1>7, <2>2, EmitType DEF ReadNotice, TypeOK
  <2> QED  BY <1>7, <2>1, <2>3 DEF ReadNotice, TypeOK
<1>8. CASE ReadUndecodable
  <2>1. Tail(toClient) \in Seq(ToClient)
    BY <1>8, ArrivedHead DEF ReadUndecodable, Arrived
  <2>2. events' \in Seq(Event) /\ pc' = "error"
    BY <1>8, FinishAfterType, EmptySeq DEF ReadUndecodable, Finish, TypeOK, Outcomes
  <2> QED  BY <1>8, <2>1, <2>2 DEF ReadUndecodable, TypeOK, Outcomes
<1>9. CASE UpdateStart
  <2>1. Tail(toClient) \in Seq(ToClient) /\ Head(toClient).n \in Nat
    BY <1>9, ArrivedHead, MessageParts DEF UpdateStart, Arrived
  <2> QED  BY <1>9, <2>1 DEF UpdateStart, TypeOK
<1>10. CASE UpdateDraw
  <2>1. Tail(toClient) \in Seq(ToClient) /\ InBounds(Head(toClient), fb.size)
    BY <1>10, ArrivedHead DEF UpdateDraw, Arrived
  <2>2. Head(toClient) \in Rectangle /\ Head(toClient).t \in {"paint", "copy"}
    BY <1>10, ArrivedHead, MessageParts DEF UpdateDraw, Arrived
  <2>3. fb' \in Framebuffers /\ Target(Head(toClient)) \in SUBSET AllCells
    BY <1>10, <2>1, <2>2, DecodeType DEF UpdateDraw, TypeOK
  <2>4. dirty' \in Seq(SUBSET AllCells)
    BY <1>10, <2>3, AppendProperties DEF UpdateDraw, TypeOK
  <2> QED  BY <1>10, <2>1, <2>3, <2>4 DEF UpdateDraw, TypeOK
<1>11. CASE UpdateResize
  <2> DEFINE size == Head(toClient).size
  <2>1. size \in Sizes /\ Tail(toClient) \in Seq(ToClient)
    BY <1>11, ArrivedHead, MessageParts DEF UpdateResize, Arrived, Sized
  <2>2. <<SizeEvent(size)>> \in Seq(Event)
    BY <2>1, MessageTypes
  <2>3. fb' \in Framebuffers
    BY <1>11, <2>1, BlackFbType DEF UpdateResize, Resized
  <2>4. events' \in Seq(Event) /\ toServer' \in Seq(ToServer) /\ pc' \in {"rects", "error"}
    <3>1. CASE Emit(<<SizeEvent(size)>>) /\ toServer' = Written(FullRequest(size)) /\ UNCHANGED pc
      BY <1>11, <3>1, <2>1, <2>2, EmitType, WrittenType, MessageTypes DEF TypeOK, UpdateResize
    <3>2. CASE WriteFailsAfter(<<SizeEvent(size)>>)
      BY <3>2, <2>2, FinishAfterType DEF WriteFailsAfter, TypeOK, Outcomes
    <3> QED  BY <1>11, <3>1, <3>2 DEF UpdateResize
  <2> QED  BY <1>11, <2>1, <2>3, <2>4 DEF UpdateResize, TypeOK, Outcomes
<1>12. CASE UpdateEnd
  <2>1. RectsEvent \in Seq(Event)
    <3>1. \A i \in 1 .. Len(dirty) : SubRgba(fb, dirty[i]) \in Images
      BY SubRgbaType DEF TypeOK
    <3>2. DirtyRects \in Seq(Images)
      BY <3>1, LenProperties DEF DirtyRects, TypeOK
    <3>3. [t |-> "rects", rects |-> DirtyRects] \in Event
      BY <3>2 DEF Event
    <3> QED  BY <3>3 DEF RectsEvent
  <2>2. events' \in Seq(Event) /\ toServer' \in Seq(ToServer) /\ pc' \in {"drain", "error"}
    <3>1. CASE Emit(RectsEvent) /\ toServer' = NextRequest /\ pc' = "drain"
      BY <1>a, <3>1, <2>1, EmitType, WrittenType, MessageTypes DEF TypeOK, NextRequest
    <3>2. CASE WriteFailsAfter(RectsEvent)
      BY <3>2, <2>1, FinishAfterType DEF WriteFailsAfter, TypeOK, Outcomes
    <3> QED  BY <1>12, <3>1, <3>2 DEF UpdateEnd
  <2> QED  BY <1>12, <2>2 DEF UpdateEnd, TypeOK, Outcomes
<1>13. CASE UpdateCursor
  <2>1. Tail(toClient) \in Seq(ToClient)
    BY <1>13, ArrivedHead DEF UpdateCursor, Arrived
  <2> QED  BY <1>13, <2>1 DEF UpdateCursor, TypeOK
<1> QED  BY <1>1, <1>2, <1>3, <1>4, <1>5, <1>6, <1>7, <1>8, <1>9, <1>10, <1>11, <1>12, <1>13
   DEF Worker, Read

\* The texture is a framebuffer of its own.
LEMMA TextureType ==
    ASSUME TypeOK, texture # None
    PROVE  texture[1] \in Framebuffers /\ texture = <<texture[1]>>
BY DEF TypeOK

LEMMA PaintedType ==
    ASSUME NEW tex \in Framebuffers, NEW rects \in Seq(Images)
    PROVE  Painted(tex, rects) \in Framebuffers /\ Painted(tex, rects).size = tex.size
<1> DEFINE px == [c \in {d \in DOMAIN tex.px : Topmost(rects, d) # {}} |->
                     rects[CHOOSE i \in Topmost(rects, c) : TRUE][c]]
<1>1. ASSUME NEW c \in DOMAIN px PROVE px[c] \in Pixel
  <2>1. (CHOOSE i \in Topmost(rects, c) : TRUE) \in Topmost(rects, c)
    BY <1>1
  <2>2. PICK i \in 1 .. Len(rects) :
            i = (CHOOSE k \in Topmost(rects, c) : TRUE) /\ c \in DOMAIN rects[i]
    BY <2>1 DEF Topmost, Shown
  <2>3. rects[i] \in Images
    BY ElementOfSeq
  <2> QED  BY <2>2, <2>3, ImageParts
<1>2. Painted(tex, rects) = Blit(tex, px)
  BY DEF Painted
<1> HIDE DEF px
<1> QED  BY <1>1, <1>2, BlitType

LEMMA TypeUi == TypeOK /\ (Frame \/ User) => TypeOK'
<1> SUFFICES ASSUME TypeOK, Frame \/ User PROVE TypeOK'
  OBVIOUS
<1> USE DEF uiVars, chanVars, workerVars, wireVars, serverVars
<1>a. events # <<>> => Head(events) \in Event /\ Tail(events) \in Seq(Event)
  BY HeadTailProperties DEF TypeOK
<1>1. CASE HandleSize
  <2>1. Head(events).size \in Sizes /\ Tail(events) \in Seq(Event)
    BY <1>1, <1>a, MessageParts DEF HandleSize
  <2>2. texture' \in {None} \cup {<<f>> : f \in Framebuffers}
    BY <1>1, <2>1, BlackFbType DEF HandleSize, TypeOK
  <2> QED  BY <1>1, <2>1, <2>2 DEF HandleSize, TypeOK
<1>2. CASE HandleRects
  <2>1. Head(events).rects \in Seq(Images) /\ Tail(events) \in Seq(Event)
    BY <1>2, <1>a, MessageParts DEF HandleRects
  <2>2. texture' \in {None} \cup {<<f>> : f \in Framebuffers}
    BY <1>2, <2>1, TextureType, PaintedType DEF HandleRects
  <2> QED  BY <1>2, <2>1, <2>2 DEF HandleRects, TypeOK
<1>3. CASE HandleNotice
  BY <1>3, <1>a DEF HandleNotice, TypeOK
<1>4. CASE HandleEnd
  BY <1>4, <1>a DEF HandleEnd, TypeOK
<1>5. CASE UserInput
  <2>1. cmds' \in Seq(Command) /\ sent' \in Nat
    BY <1>5, AppendProperties, MessageTypes DEF UserInput, TypeOK
  <2> QED  BY <1>5, <2>1 DEF UserInput, TypeOK
<1>6. CASE UserDisconnect
  <2>1. cmds' \in Seq(Command) /\ events' \in Seq(Event)
    BY <1>6, AppendProperties, MessageTypes, EmptySeq DEF UserDisconnect, TypeOK
  <2> QED  BY <1>6, <2>1 DEF UserDisconnect, TypeOK
<1> QED  BY <1>1, <1>2, <1>3, <1>4, <1>5, <1>6 DEF Frame, User

-------------------------------------------------------------------------------
(* What the server draws fits its desktop.                                 *)

LEMMA RectsInBounds ==
    ASSUME NEW s \in Sizes, NEW cells \in RectsOf(s)
    PROVE  cells \subseteq Cells(s)
<1>1. s[1] \in Nat /\ s[2] \in Nat
  BY SizesAssumption
<1>2. PICK x \in (0 .. s[1] - 1) \X (0 .. s[1] - 1), y \in (0 .. s[2] - 1) \X (0 .. s[2] - 1) :
          cells = (x[1] .. x[2]) \X (y[1] .. y[2])
  BY DEF RectsOf
<1>3. x[1] .. x[2] \subseteq 0 .. s[1] - 1 /\ y[1] .. y[2] \subseteq 0 .. s[2] - 1
  BY <1>1, <1>2
<1> QED  BY <1>2, <1>3 DEF Cells

LEMMA DrawingsType ==
    ASSUME NEW g \in Framebuffers, screen \in Framebuffers, g.size = screen.size,
           NEW r \in Drawings(g)
    PROVE  r \in Rectangle /\ r.t \in {"paint", "copy"} /\ InBounds(r, g.size)
<1>1. PICK cells \in RectsOf(g.size) : r \in Paints(cells, screen) \cup Copies(cells, g)
  BY DEF Drawings
<1>2. cells \subseteq Cells(g.size) /\ Cells(g.size) \subseteq AllCells
  BY RectsInBounds, FramebufferParts
<1>3. CASE r \in Paints(cells, screen)
  <2> DEFINE px == [c \in cells |-> screen.px[c]]
  <2>1. px \in [DOMAIN px -> Pixel] /\ DOMAIN px \subseteq AllCells
    BY <1>2, FramebufferParts
  <2>2. px \in Images
    BY <2>1, ImageType
  <2>3. r = [t |-> "paint", px |-> px]
    BY <1>3 DEF Paints
  <2> QED  BY <1>2, <2>2, <2>3 DEF Rectangle, InBounds
<1>4. CASE r \in Copies(cells, g)
  <2>1. PICK d \in (-1 .. 1) \X (-1 .. 1) :
            /\ r = [t |-> "copy", to |-> cells, d |-> d]
            /\ \A c \in cells : Source(c, d) \in DOMAIN g.px
    BY <1>4 DEF Copies
  <2>2. r \in Rectangle
    BY <1>2, <2>1 DEF Rectangle
  <2> QED  BY <1>2, <2>1, <2>2, FramebufferParts DEF InBounds
<1> QED  BY <1>1, <1>3, <1>4

LEMMA StalePaintsType ==
    ASSUME NEW g \in Framebuffers, NEW cells \in RectsOf(g.size), NEW r \in StalePaints(cells)
    PROVE  r \in Rectangle /\ InBounds(r, g.size) /\ ~Sized(r)
<1>1. cells \subseteq Cells(g.size) /\ Cells(g.size) \subseteq AllCells
  BY RectsInBounds, FramebufferParts
<1>2. PICK v \in Colours : r = [t |-> "paint", px |-> [c \in cells |-> v]]
  BY DEF StalePaints
<1> DEFINE px == [c \in cells |-> v]
<1>3. px \in [DOMAIN px -> Pixel] /\ DOMAIN px \subseteq AllCells
  BY <1>1 DEF Pixel
<1>4. px \in Images
  BY <1>3, ImageType
<1> QED  BY <1>1, <1>2, <1>4 DEF Rectangle, InBounds, Sized

LEMMA DrawableUnsized ==
    ASSUME NEW r, r.t \in {"paint", "copy"}
    PROVE  ~Sized(r)
BY DEF Sized

\* A shadow of the screen's size takes an update and keeps its size.
LEMMA UpdateParts ==
    ASSUME TypeOK, StreamInv, Update
    PROVE  /\ shadow' \in Framebuffers /\ shadow'.size = shadow.size
           /\ \E rects \in Seq(Rectangle) :
                 /\ SendUpdate(rects)
                 /\ \A k \in 1 .. Len(rects) : ~Sized(rects[k]) /\ InBounds(rects[k], shadow.size)
<1>1. shadow \in Framebuffers /\ screen \in Framebuffers /\ shadow.size = screen.size
  BY DEF TypeOK, StreamInv, Update, Serving
<1>2. PICK r1 \in Drawings(shadow) :
      \E rest \in {<<>>} \cup {<<r2>> : r2 \in Drawings(Drawn(shadow, r1))} :
          /\ shadow' = IF rest = <<>> THEN Drawn(shadow, r1) ELSE Drawn(Drawn(shadow, r1), rest[1])
          /\ SendUpdate(<<r1>> \o rest)
  BY DEF Update
<1> DEFINE once == Drawn(shadow, r1)
<1>3. r1 \in Rectangle /\ r1.t \in {"paint", "copy"} /\ InBounds(r1, shadow.size)
  BY <1>1, DrawingsType
<1>4. once \in Framebuffers /\ once.size = shadow.size
  BY <1>1, <1>3, DrawnType
<1> HIDE DEF once
<1>5. CASE shadow' = once /\ SendUpdate(<<r1>> \o <<>>)
  <2>1. <<r1>> \o <<>> = <<r1>> /\ <<r1>> \in Seq(Rectangle) /\ Len(<<r1>>) = 1 /\ <<r1>>[1] = r1
    BY <1>3, ConcatEmptySeq
  <2>2. \A k \in 1 .. Len(<<r1>>) : ~Sized(<<r1>>[k]) /\ InBounds(<<r1>>[k], shadow.size)
    BY <1>3, <2>1, DrawableUnsized
  <2> QED  BY <1>4, <1>5, <2>1, <2>2
<1>6. ASSUME NEW r2 \in Drawings(once), shadow' = Drawn(once, r2), SendUpdate(<<r1>> \o <<r2>>)
      PROVE  /\ shadow' \in Framebuffers /\ shadow'.size = shadow.size
             /\ \E rects \in Seq(Rectangle) :
                   /\ SendUpdate(rects)
                   /\ \A k \in 1 .. Len(rects) : ~Sized(rects[k]) /\ InBounds(rects[k], shadow.size)
  <2>1. r2 \in Rectangle /\ r2.t \in {"paint", "copy"} /\ InBounds(r2, shadow.size)
    BY <1>1, <1>4, DrawingsType
  <2>2. Drawn(once, r2) \in Framebuffers /\ Drawn(once, r2).size = shadow.size
    BY <1>4, <2>1, DrawnType
  <2> DEFINE rects == <<r1>> \o <<r2>>
  <2>3. /\ <<r1>> \in Seq(Rectangle) /\ Len(<<r1>>) = 1 /\ <<r1>>[1] = r1
        /\ <<r2>> \in Seq(Rectangle) /\ Len(<<r2>>) = 1 /\ <<r2>>[1] = r2
    BY <1>3, <2>1
  <2>4. rects \in Seq(Rectangle) /\ Len(rects) = 2 /\ rects[1] = r1 /\ rects[2] = r2
    BY <2>3, ConcatProperties
  <2> HIDE DEF rects
  <2>5. \A k \in 1 .. Len(rects) : ~Sized(rects[k]) /\ InBounds(rects[k], shadow.size)
    BY <1>3, <2>1, <2>4, DrawableUnsized
  <2> QED  BY <1>6, <2>2, <2>4, <2>5 DEF rects
<1>7. PICK rest \in {<<>>} \cup {<<r2>> : r2 \in Drawings(once)} :
          /\ shadow' = IF rest = <<>> THEN once ELSE Drawn(once, rest[1])
          /\ SendUpdate(<<r1>> \o rest)
  BY <1>2 DEF once
<1>8. CASE rest = <<>>
  BY <1>5, <1>7, <1>8
<1>9. CASE rest \in {<<r2>> : r2 \in Drawings(once)}
  <2>1. PICK r2 \in Drawings(once) : rest = <<r2>>
    BY <1>9
  <2>2. rest # <<>> /\ rest[1] = r2
    BY <2>1
  <2> QED  BY <1>6, <1>7, <2>1, <2>2
<1> QED  BY <1>7, <1>8, <1>9

\* An update that ends in a new size may begin with a rectangle of the old.
LEMMA UpdateSizeParts ==
    ASSUME TypeOK, UpdateSize
    PROVE  \E before \in Seq(Rectangle) :
              /\ SendUpdate(Append(before, [t |-> "resize", size |-> screen.size]))
              /\ \A k \in 1 .. Len(before) : ~Sized(before[k]) /\ InBounds(before[k], shadow.size)
<1>1. PICK before \in {<<>>} \cup
            {<<r>> : r \in UNION {StalePaints(cs) : cs \in RectsOf(shadow.size)}} :
          SendUpdate(Append(before, [t |-> "resize", size |-> screen.size]))
  BY DEF UpdateSize
<1>2. CASE before = <<>>
  <2>1. before \in Seq(Rectangle) /\ 1 .. Len(before) = {}
    BY <1>2, EmptySeq
  <2> QED  BY <1>1, <2>1
<1>3. CASE before # <<>>
  <2>1. PICK cs \in RectsOf(shadow.size) : \E r \in StalePaints(cs) : before = <<r>>
    BY <1>1, <1>3
  <2>2. PICK r \in StalePaints(cs) : before = <<r>>
    BY <2>1
  <2>3. r \in Rectangle /\ InBounds(r, shadow.size) /\ ~Sized(r)
    BY StalePaintsType DEF TypeOK
  <2>4. before \in Seq(Rectangle) /\ Len(before) = 1 /\ before[1] = r
    BY <2>2, <2>3
  <2> QED  BY <1>1, <2>3, <2>4
<1> QED  BY <1>2, <1>3

\* An update on its way.
LEMMA SendUpdateType ==
    ASSUME toClient \in Seq(ToClient), NEW rects \in Seq(Rectangle), SendUpdate(rects)
    PROVE  /\ [t |-> "update", n |-> Len(rects)] \in ToClient
           /\ rects \in Seq(ToClient)
           /\ Append(toClient, [t |-> "update", n |-> Len(rects)]) \in Seq(ToClient)
           /\ toClient' = Append(toClient, [t |-> "update", n |-> Len(rects)]) \o rects
           /\ toClient' \in Seq(ToClient)
<1> DEFINE hdr == [t |-> "update", n |-> Len(rects)]
<1>1. hdr \in ToClient
  BY LenProperties, MessageTypes
<1>2. rects \in Seq(ToClient)
  BY MessageTypes, SeqMonotonic
<1>3. Append(toClient, hdr) \in Seq(ToClient) /\ toClient \o <<hdr>> = Append(toClient, hdr)
  BY <1>1, AppendProperties, AppendIsConcat
<1> HIDE DEF hdr
<1>4. toClient' = Append(toClient, hdr) \o rects
  BY <1>3 DEF SendUpdate, hdr
<1>5. toClient' \in Seq(ToClient)
  BY <1>2, <1>3, <1>4, ConcatProperties
<1> QED  BY <1>1, <1>2, <1>3, <1>4, <1>5 DEF hdr

LEMMA BudgetType ==
    ASSUME NEW b \in [draws : Nat, resizes : Nat, notices : Nat]
    PROVE  /\ b.draws > 0 => [b EXCEPT !.draws = @ - 1] \in [draws : Nat, resizes : Nat, notices : Nat]
           /\ b.resizes > 0 => [b EXCEPT !.resizes = @ - 1] \in [draws : Nat, resizes : Nat, notices : Nat]
           /\ b.notices > 0 => [b EXCEPT !.notices = @ - 1] \in [draws : Nat, resizes : Nat, notices : Nat]
OBVIOUS

LEMMA TypeServer == TypeOK /\ StreamInv /\ (Serve \/ Answer \/ Environment) => TypeOK'
<1> SUFFICES ASSUME TypeOK, StreamInv, Serve \/ Answer \/ Environment PROVE TypeOK'
  OBVIOUS
<1> USE DEF uiVars, chanVars, workerVars, wireVars, serverVars
<1>a. screen.size \in Sizes /\ Cells(screen.size) \subseteq AllCells
  BY FramebufferParts DEF TypeOK
<1>1. CASE Draw
  <2>1. PICK c \in Cells(screen.size), v \in Colours :
            screen' = [screen EXCEPT !.px[c] = v] /\ changed' = changed \cup {c}
    BY <1>1 DEF Draw
  <2>2. screen' \in Framebuffers
    <3>1. PICK s \in Sizes : \E p \in [Cells(s) -> Pixel] : screen = [size |-> s, px |-> p]
      BY FramebufferType DEF TypeOK
    <3>2. PICK p \in [Cells(s) -> Pixel] : screen = [size |-> s, px |-> p]
      BY <3>1
    <3>3. screen' = [size |-> s, px |-> [p EXCEPT ![c] = v]]
      BY <2>1, <3>2
    <3>4. [p EXCEPT ![c] = v] \in [Cells(s) -> Pixel]
      BY <3>2 DEF Pixel
    <3> QED  BY <3>3, <3>4, FramebufferType
  <2>3. changed' \in SUBSET AllCells
    BY <1>a, <2>1 DEF TypeOK
  <2>4. budget' \in [draws : Nat, resizes : Nat, notices : Nat]
    BY <1>1, BudgetType DEF Draw, TypeOK
  <2> QED  BY <1>1, <2>2, <2>3, <2>4 DEF Draw, TypeOK
<1>2. CASE Resize
  <2>1. PICK s \in Sizes, v \in Colours :
            /\ screen' = [size |-> s, px |-> [c \in Cells(s) |->
                             IF c \in Cells(screen.size) THEN screen.px[c] ELSE v]]
            /\ changed' = Cells(s)
    BY <1>2 DEF Resize
  <2>2. screen' \in Framebuffers
    <3> DEFINE px == [c \in Cells(s) |-> IF c \in Cells(screen.size) THEN screen.px[c] ELSE v]
    <3>1. px \in [Cells(s) -> Pixel]
      BY FramebufferParts DEF TypeOK, Pixel
    <3> HIDE DEF px
    <3>2. screen' = [size |-> s, px |-> px]
      BY <2>1 DEF px
    <3> QED  BY <3>1, <3>2, FramebufferType
  <2>3. changed' \in SUBSET AllCells
    BY <2>1 DEF AllCells
  <2>4. budget' \in [draws : Nat, resizes : Nat, notices : Nat]
    BY <1>2, BudgetType DEF Resize, TypeOK
  <2> QED  BY <1>2, <2>2, <2>3, <2>4 DEF Resize, TypeOK
<1>3. CASE ServeRequest
  <2>1. Head(toServer) \in ToServer /\ Tail(toServer) \in Seq(ToServer)
    BY <1>3, HeadTailProperties DEF ServeRequest, TypeOK
  <2>2. Cells(Head(toServer).size) \subseteq AllCells
    BY <1>3, <2>1, MessageParts DEF ServeRequest, AllCells
  <2>3. asked' \in SUBSET AllCells /\ changed' \in SUBSET AllCells
    BY <1>3, <2>2 DEF ServeRequest, TypeOK
  <2> QED  BY <1>3, <2>1, <2>3 DEF ServeRequest, TypeOK
<1>4. CASE ServeInput
  <2>1. Head(toServer) \in ToServer /\ Tail(toServer) \in Seq(ToServer)
    BY <1>4, HeadTailProperties DEF ServeInput, TypeOK
  <2>2. delivered' \in Seq(Nat)
    BY <1>4, <2>1, MessageParts, AppendProperties DEF ServeInput, TypeOK
  <2> QED  BY <1>4, <2>1, <2>2 DEF ServeInput, TypeOK
<1>5. CASE Update
  <2>1. shadow' \in Framebuffers
    BY <1>5, UpdateParts
  <2>2. toClient' \in Seq(ToClient)
    BY <1>5, UpdateParts, SendUpdateType DEF TypeOK
  <2>3. changed' \in SUBSET AllCells /\ asked' \in SUBSET AllCells
    BY <1>5 DEF Update, TypeOK
  <2> QED  BY <1>5, <2>1, <2>2, <2>3 DEF Update, TypeOK
<1>6. CASE UpdateSize
  <2>1. [t |-> "resize", size |-> screen.size] \in Rectangle
    BY <1>a, MessageTypes
  <2>2. toClient' \in Seq(ToClient)
    BY <1>6, <2>1, UpdateSizeParts, AppendProperties, SendUpdateType DEF TypeOK
  <2>3. shadow' \in Framebuffers
    BY <1>6, <1>a, BlackFbType DEF UpdateSize
  <2>4. changed' \in SUBSET AllCells /\ asked' \in SUBSET AllCells /\ resizing' \in BOOLEAN
    BY <1>6, <1>a DEF UpdateSize
  <2> QED  BY <1>6, <2>2, <2>3, <2>4 DEF UpdateSize, TypeOK
<1>7. CASE SendNotice
  <2>1. toClient' \in Seq(ToClient)
    <3>1. \A t \in {"cuttext", "bell", "undecodable"} : [t |-> t] \in ToClient
      BY MessageTypes
    <3>2. \A t \in {"cursor", "undecodable"} : <<[t |-> t]>> \in Seq(Rectangle)
      BY MessageTypes
    <3>3. CASE \E t \in {"cursor", "undecodable"} : SendUpdate(<<[t |-> t]>>)
      BY <3>2, <3>3, SendUpdateType DEF TypeOK
    <3>4. CASE \E t \in {"cuttext", "bell", "undecodable"} : toClient' = Append(toClient, [t |-> t])
      BY <3>1, <3>4, AppendProperties DEF TypeOK
    <3> QED  BY <1>7, <3>3, <3>4 DEF SendNotice
  <2>2. budget' \in [draws : Nat, resizes : Nat, notices : Nat]
    BY <1>7, BudgetType DEF SendNotice, TypeOK
  <2>3. asked' \in SUBSET AllCells
    BY <1>7 DEF SendNotice, TypeOK
  <2> QED  BY <1>7, <2>1, <2>2, <2>3 DEF SendNotice, TypeOK
<1>8. CASE CloseServer
  <2>1. PICK k \in 0 .. Len(toClient) : toClient' = SubSeq(toClient, 1, k)
    BY <1>8 DEF CloseServer
  <2>2. \A i \in 1 .. k : toClient[i] \in ToClient
    BY ElementOfSeq, LenProperties DEF TypeOK
  <2>3. toClient' \in Seq(ToClient)
    BY <2>1, <2>2, SubSeqProperties, LenProperties DEF TypeOK
  <2>4. toServer' \in Seq(ToServer)
    BY <1>8, EmptySeq DEF CloseServer
  <2> QED  BY <1>8, <2>3, <2>4 DEF CloseServer, TypeOK
<1> QED  BY <1>1, <1>2, <1>3, <1>4, <1>5, <1>6, <1>7, <1>8 DEF Serve, Answer, Environment

-------------------------------------------------------------------------------
(* The stream.                                                             *)

\* The background thread takes a message and does what it says of the size.
LEMMA StreamTaken ==
    ASSUME TypeOK, StreamInv, toClient # <<>>, toClient' = Tail(toClient),
           fb'.size = After(Head(toClient), fb.size), UNCHANGED serverVars
    PROVE  StreamInv'
<1>1. Bounded(Tail(toClient), After(Head(toClient), fb.size))
  BY BoundedTail DEF TypeOK, StreamInv
<1>2. serverOpen => EndsIn(Tail(toClient), After(Head(toClient), fb.size), shadow.size)
  BY EndsInTail DEF TypeOK, StreamInv
<1> QED  BY <1>1, <1>2 DEF StreamInv, serverVars

LEMMA StreamKept ==
    ASSUME StreamInv, UNCHANGED <<toClient, fb, serverVars>>
    PROVE  StreamInv'
BY DEF StreamInv, serverVars

\* The server sends an update none of whose rectangles changes the size, ...
LEMMA StreamDrawn ==
    ASSUME TypeOK, StreamInv, serverOpen, NEW rects \in Seq(Rectangle), SendUpdate(rects),
           \A k \in 1 .. Len(rects) : ~Sized(rects[k]) /\ InBounds(rects[k], shadow.size)
    PROVE  Bounded(toClient', fb.size) /\ EndsIn(toClient', fb.size, shadow.size)
<1> DEFINE hdr == [t |-> "update", n |-> Len(rects)]
           q   == Append(toClient, hdr)
<1>1. /\ toClient \in Seq(ToClient) /\ hdr \in ToClient /\ q \in Seq(ToClient)
      /\ rects \in Seq(ToClient) /\ toClient' = q \o rects
  BY SendUpdateType DEF TypeOK
<1>2. InBounds(hdr, shadow.size) /\ ~Sized(hdr) /\ After(hdr, shadow.size) = shadow.size
  BY DEF InBounds, Sized, After
<1>3. Bounded(toClient, fb.size) /\ EndsIn(toClient, fb.size, shadow.size)
  BY DEF StreamInv
<1> HIDE DEF hdr
<1>4. Bounded(q, fb.size) /\ EndsIn(q, fb.size, shadow.size)
  BY <1>1, <1>2, <1>3, BoundedAppend, EndsInAppend
<1> HIDE DEF q
<1> QED  BY <1>1, <1>4, BoundedConcat

\* ... or one that ends in a change of size.
LEMMA StreamSized ==
    ASSUME TypeOK, StreamInv, serverOpen, NEW before \in Seq(Rectangle), NEW s \in Sizes,
           SendUpdate(Append(before, [t |-> "resize", size |-> s])),
           \A k \in 1 .. Len(before) : ~Sized(before[k]) /\ InBounds(before[k], shadow.size)
    PROVE  Bounded(toClient', fb.size) /\ EndsIn(toClient', fb.size, s)
<1> DEFINE last  == [t |-> "resize", size |-> s]
           rects == Append(before, last)
           hdr   == [t |-> "update", n |-> Len(rects)]
           q     == Append(toClient, hdr)
<1>1. last \in Rectangle /\ last \in ToClient
  BY MessageTypes
<1>2. rects \in Seq(Rectangle) /\ rects = before \o <<last>>
  BY <1>1, AppendProperties, AppendIsConcat
<1>3. /\ toClient \in Seq(ToClient) /\ hdr \in ToClient /\ q \in Seq(ToClient)
      /\ toClient' = q \o rects
  BY <1>2, SendUpdateType DEF TypeOK
<1>4. InBounds(hdr, shadow.size) /\ ~Sized(hdr) /\ After(hdr, shadow.size) = shadow.size
  BY DEF InBounds, Sized, After
<1>5. Bounded(toClient, fb.size) /\ EndsIn(toClient, fb.size, shadow.size)
  BY DEF StreamInv
<1>6. InBounds(last, shadow.size) /\ After(last, shadow.size) = s
  BY DEF InBounds, Sized, After
<1>7. before \in Seq(ToClient)
  BY MessageTypes, SeqMonotonic
<1> HIDE DEF hdr
<1>8. Bounded(q, fb.size) /\ EndsIn(q, fb.size, shadow.size)
  BY <1>3, <1>4, <1>5, BoundedAppend, EndsInAppend
<1> HIDE DEF q, last
<1>9. Bounded(q \o before, fb.size) /\ EndsIn(q \o before, fb.size, shadow.size)
  BY <1>3, <1>7, <1>8, BoundedConcat DEF last
<1>10. toClient' = Append(q \o before, last) /\ q \o before \in Seq(ToClient)
  <2>1. <<last>> \in Seq(ToClient)
    BY <1>1
  <2> HIDE DEF rects
  <2>2. q \o (before \o <<last>>) = (q \o before) \o <<last>> /\ q \o before \in Seq(ToClient)
    BY <1>3, <1>7, <2>1, ConcatAssociative, ConcatProperties
  <2> QED  BY <1>1, <1>2, <1>3, <2>2, AppendIsConcat
<1> QED  BY <1>1, <1>6, <1>9, <1>10, BoundedAppend, EndsInAppend

LEMMA StreamStep == TypeOK /\ StreamInv /\ Next => StreamInv'
<1> SUFFICES ASSUME TypeOK, StreamInv, Next PROVE StreamInv'
  OBVIOUS
<1> USE DEF uiVars, chanVars, workerVars, wireVars
<1>1. CASE Worker
  <2>1. CASE ServerInit
    <3>1. Head(toClient).size \in Sizes /\ Sized(Head(toClient)) /\ toClient # <<>>
      BY <2>1, ArrivedHead, MessageParts DEF ServerInit, Arrived, Sized
    <3>2. fb'.size = After(Head(toClient), fb.size)
      BY <2>1, <3>1, BlackFbType DEF ServerInit, After
    <3> QED  BY <2>1, <3>1, <3>2, StreamTaken DEF ServerInit
  <2>2. CASE UpdateResize
    <3>1. Head(toClient).size \in Sizes /\ Sized(Head(toClient)) /\ toClient # <<>>
      BY <2>2, ArrivedHead, MessageParts DEF UpdateResize, Arrived, Sized
    <3>2. fb'.size = After(Head(toClient), fb.size)
      BY <2>2, <3>1, BlackFbType DEF UpdateResize, Resized, After
    <3> QED  BY <2>2, <3>1, <3>2, StreamTaken DEF UpdateResize
  <2>3. CASE UpdateDraw
    <3>1. /\ toClient # <<>> /\ Head(toClient).t \in {"paint", "copy"}
          /\ Head(toClient) \in Rectangle /\ InBounds(Head(toClient), fb.size)
      BY <2>3, ArrivedHead, MessageParts DEF UpdateDraw, Arrived
    <3>2. fb'.size = After(Head(toClient), fb.size)
      BY <2>3, <3>1, DecodeType, DrawableUnsized DEF UpdateDraw, After, TypeOK
    <3> QED  BY <2>3, <3>1, <3>2, StreamTaken DEF UpdateDraw
  <2>4. CASE UpdateStart \/ ReadNotice \/ ReadUndecodable \/ UpdateCursor
    <3>1. /\ toClient # <<>>
          /\ Head(toClient).t \in {"update", "cuttext", "bell", "undecodable", "cursor"}
      BY <2>4 DEF UpdateStart, ReadNotice, ReadUndecodable, UpdateCursor, Arrived
    <3>2. fb'.size = After(Head(toClient), fb.size)
      BY <2>4, <3>1 DEF UpdateStart, ReadNotice, ReadUndecodable, UpdateCursor, After, Sized
    <3>3. toClient' = Tail(toClient) /\ UNCHANGED serverVars
      BY <2>4 DEF UpdateStart, ReadNotice, ReadUndecodable, UpdateCursor
    <3> QED  BY <3>1, <3>2, <3>3, StreamTaken
  <2>5. CASE DrainInput \/ DrainDisconnect \/ DrainEnd \/ ReadTimeout \/ ReadEof \/ UpdateEnd
    <3>1. UNCHANGED <<toClient, fb, serverVars>>
      BY <2>5 DEF DrainInput, DrainDisconnect, DrainEnd, ReadTimeout, ReadEof, UpdateEnd
    <3> QED  BY <3>1, StreamKept
  <2> QED  BY <1>1, <2>1, <2>2, <2>3, <2>4, <2>5 DEF Worker, Read
<1>2. CASE Frame \/ User
  <2>1. UNCHANGED <<toClient, fb, serverVars>>
    BY <1>2 DEF Frame, User, HandleSize, HandleRects, HandleNotice, HandleEnd, UserInput,
                UserDisconnect
  <2> QED  BY <2>1, StreamKept
<1>3. CASE Serve \/ Answer \/ Environment
  <2>1. CASE Draw
    <3>1. PICK c \in Cells(screen.size), v \in Colours : screen' = [screen EXCEPT !.px[c] = v]
      BY <2>1 DEF Draw
    <3>2. screen'.size = screen.size
      BY <3>1, FramebufferType DEF TypeOK
    <3> QED  BY <2>1, <3>2 DEF Draw, StreamInv
  <2>2. CASE Resize
    BY <2>2 DEF Resize, StreamInv
  <2>3. CASE ServeRequest \/ ServeInput
    BY <2>3 DEF ServeRequest, ServeInput, StreamInv
  <2>4. CASE Update
    <3>1. shadow'.size = shadow.size /\ serverOpen
      BY <2>4, UpdateParts DEF Update, Serving
    <3>2. Bounded(toClient', fb.size) /\ EndsIn(toClient', fb.size, shadow.size)
      BY <2>4, <3>1, UpdateParts, StreamDrawn
    <3> QED  BY <2>4, <3>1, <3>2 DEF Update, StreamInv
  <2>5. CASE UpdateSize
    <3>1. screen.size \in Sizes /\ serverOpen
      BY <2>5, FramebufferParts DEF UpdateSize, Serving, TypeOK
    <3>2. shadow'.size = screen.size
      BY <2>5, <3>1, BlackFbType DEF UpdateSize
    <3>3. Bounded(toClient', fb.size) /\ EndsIn(toClient', fb.size, screen.size)
      BY <2>5, <3>1, UpdateSizeParts, StreamSized
    <3> QED  BY <2>5, <3>2, <3>3 DEF UpdateSize, StreamInv
  <2>6. CASE SendNotice
    <3>1. serverOpen
      BY <2>6 DEF SendNotice, Serving
    <3>2. ASSUME NEW t \in {"cursor", "undecodable"}, SendUpdate(<<[t |-> t]>>)
          PROVE  StreamInv'
      <4> DEFINE r == [t |-> t]
      <4>1. r \in Rectangle /\ ~Sized(r) /\ InBounds(r, shadow.size)
        BY MessageTypes DEF Sized, InBounds
      <4> HIDE DEF r
      <4>2. <<r>> \in Seq(Rectangle) /\ Len(<<r>>) = 1 /\ <<r>>[1] = r
        BY <4>1
      <4>a. \A k \in 1 .. Len(<<r>>) : ~Sized(<<r>>[k]) /\ InBounds(<<r>>[k], shadow.size)
        BY <4>1, <4>2
      <4>b. SendUpdate(<<r>>)
        BY <3>2 DEF r
      <4>3. Bounded(toClient', fb.size) /\ EndsIn(toClient', fb.size, shadow.size)
        BY <3>1, <4>a, <4>b, <4>2, StreamDrawn
      <4> QED  BY <2>6, <4>3 DEF SendNotice, StreamInv
    <3>3. ASSUME NEW t \in {"cuttext", "bell", "undecodable"}, toClient' = Append(toClient, [t |-> t])
          PROVE  StreamInv'
      <4> DEFINE m == [t |-> t]
      <4>1. m \in ToClient /\ InBounds(m, shadow.size) /\ After(m, shadow.size) = shadow.size
        BY MessageTypes DEF Sized, InBounds, After
      <4> HIDE DEF m
      <4>2. Bounded(toClient, fb.size) /\ EndsIn(toClient, fb.size, shadow.size)
            /\ toClient \in Seq(ToClient)
        BY <3>1 DEF StreamInv, TypeOK
      <4>3. Bounded(toClient', fb.size) /\ EndsIn(toClient', fb.size, shadow.size)
        BY <3>3, <4>1, <4>2, BoundedAppend, EndsInAppend DEF m
      <4> QED  BY <2>6, <4>3 DEF SendNotice, StreamInv
    <3> QED  BY <2>6, <3>2, <3>3 DEF SendNotice
  <2>7. CASE CloseServer
    <3>1. Bounded(toClient', fb.size)
      BY <2>7, BoundedPrefix DEF CloseServer, StreamInv, TypeOK
    <3> QED  BY <2>7, <3>1 DEF CloseServer, StreamInv
  <2> QED  BY <1>3, <2>1, <2>2, <2>3, <2>4, <2>5, <2>6, <2>7 DEF Serve, Answer, Environment
<1> QED  BY <1>1, <1>2, <1>3 DEF Next

-------------------------------------------------------------------------------
(* The events.                                                             *)

\* A queue of events the thread has sent while it lives, that ends in a size.
EventsGood(q, size) ==
    /\ q \in Seq(Event)
    /\ Bounded(q, uiSize) /\ EndsIn(q, uiSize, size)
    /\ \A i \in 1 .. Len(q) : q[i].t \notin Outcomes
    /\ texture = None /\ q # <<>> => Head(q).t = "size"

LEMMA GoodEmpty == EventsGood(<<>>, uiSize)
BY EmptyQueue, EmptySeq DEF EventsGood

LEMMA GoodAppend ==
    ASSUME NEW q, NEW size, EventsGood(q, size), NEW m \in Event, m.t \notin Outcomes,
           InBounds(m, size), texture = None /\ q = <<>> => m.t = "size"
    PROVE  EventsGood(Append(q, m), After(m, size)) /\ Append(q, m) # <<>>
<1> DEFINE a == Append(q, m)
<1>1. /\ q \in Seq(Event) /\ Len(q) \in Nat /\ a \in Seq(Event) /\ Len(a) = Len(q) + 1
      /\ a[Len(q) + 1] = m /\ \A k \in 1 .. Len(q) : a[k] = q[k]
  BY AppendProperties, LenProperties DEF EventsGood
<1>2. Bounded(a, uiSize) /\ EndsIn(a, uiSize, After(m, size))
  BY <1>1, BoundedAppend, EndsInAppend DEF EventsGood
<1>3. a # <<>> /\ Head(a) = a[1]
  BY <1>1, EmptySeq, HeadTailProperties
<1>4. \A i \in 1 .. Len(a) : a[i].t \notin Outcomes
  <2> TAKE i \in 1 .. Len(a)
  <2>1. i \in 1 .. Len(q) \/ i = Len(q) + 1
    BY <1>1
  <2> QED  BY <1>1, <2>1 DEF EventsGood
<1>5. ASSUME texture = None PROVE Head(a).t = "size"
  <2>1. CASE q = <<>>
    <3>1. Len(q) = 0
      BY <2>1, EmptySeq
    <3> QED  BY <1>1, <1>3, <1>5, <2>1, <3>1
  <2>2. CASE q # <<>>
    <3>1. 1 \in 1 .. Len(q) /\ Head(q) = q[1]
      BY <1>1, <2>2, EmptySeq, HeadTailProperties
    <3> QED  BY <1>1, <1>3, <1>5, <2>2, <3>1 DEF EventsGood
  <2> QED  BY <2>1, <2>2
<1> HIDE DEF a
<1>6. EventsGood(a, After(m, size)) /\ a # <<>>
  BY <1>1, <1>2, <1>3, <1>4, <1>5 DEF EventsGood
<1> QED  BY <1>6 DEF a

\* The queue, while the thread is in its loop.
LEMMA GoodNow ==
    ASSUME TypeOK, EventsInv, EndAnnounced, connection, pc \in {"drain", "read", "rects"}
    PROVE  EventsGood(events, fb.size) /\ (texture = None => events # <<>>)
<1>1. events \in Seq(Event) /\ Bounded(events, uiSize) /\ EndsIn(events, uiSize, fb.size)
  BY DEF TypeOK, EventsInv
<1>2. \A i \in 1 .. Len(events) : events[i].t \notin Outcomes
  BY DEF EndAnnounced, Outcomes
<1>3. events # <<>> => 1 \in 1 .. Len(events) /\ Head(events) = events[1]
  BY <1>1, EmptySeq, LenProperties, HeadTailProperties
<1> QED  BY <1>1, <1>2, <1>3 DEF EventsInv, EventsGood

\* The thread sends events and goes on, ...
LEMMA EventsGoOn ==
    ASSUME EventsInv, UNCHANGED <<connection, texture, uiSize>>, NEW evs, Emit(evs),
           pc' \in {"drain", "read", "rects"},
           connection => /\ EventsGood(events \o evs, fb'.size)
                         /\ texture = None => events \o evs # <<>>
    PROVE  EventsInv' /\ EndAnnounced'
<1>1. CASE connection
  <2>1. events' = events \o evs /\ connection'
    BY <1>1 DEF Emit, Emitted
  <2>2. /\ Bounded(events', uiSize') /\ EndsIn(events', uiSize', fb'.size)
        /\ \A i \in 1 .. Len(events') : events'[i].t \notin Outcomes
        /\ texture' = None => events' # <<>> /\ Head(events').t = "size"
    BY <1>1, <2>1 DEF EventsGood
  <2> QED  BY <2>1, <2>2 DEF EventsInv, EndAnnounced, Outcomes
<1>2. CASE ~connection
  <2>1. events' = <<>> /\ ~connection'
    BY <1>2 DEF Emit, Emitted, EventsInv
  <2> QED  BY <2>1, EmptyQueue DEF EventsInv, EndAnnounced
<1> QED  BY <1>1, <1>2

\* ... or sends events and ends.
LEMMA EventsFinish ==
    ASSUME TypeOK, EventsInv, UNCHANGED <<connection, texture, uiSize>>,
           NEW evs \in Seq(Event), NEW size, NEW o \in Outcomes, FinishAfter(evs, o),
           connection => EventsGood(events \o evs, size)
    PROVE  EventsInv' /\ EndAnnounced'
<1>a. pc' = o /\ events' = IF connection THEN Append(events \o evs, [t |-> o]) ELSE events
  BY FinishAfterType DEF TypeOK
<1>b. pc' \notin {"serverinit", "drain", "read", "rects"}
  BY <1>a DEF Outcomes
<1>1. CASE connection
  <2> DEFINE q == events \o evs
             m == [t |-> o]
             a == Append(q, m)
  <2>1. m \in Event /\ m.t = o /\ InBounds(m, size)
    BY MessageTypes DEF Outcomes, InBounds
  <2>2. EventsGood(q, size)
    BY <1>1
  <2> HIDE DEF m, q
  <2>3. /\ q \in Seq(Event) /\ Len(q) \in Nat /\ a \in Seq(Event) /\ Len(a) = Len(q) + 1
        /\ a[Len(q) + 1] = m /\ \A k \in 1 .. Len(q) : a[k] = q[k]
    BY <2>1, <2>2, AppendProperties, LenProperties DEF EventsGood
  <2>4. Bounded(a, uiSize)
    BY <2>1, <2>2, <2>3, BoundedAppend DEF EventsGood
  <2> HIDE DEF a
  <2>5. a # <<>> /\ Head(a) = a[1]
    BY <2>3, EmptySeq, HeadTailProperties
  <2>6. texture = None => Head(a).t \in {"size"} \cup Outcomes
    <3>1. CASE q = <<>>
      <4>1. Len(q) = 0
        BY <3>1, EmptySeq
      <4> QED  BY <2>1, <2>3, <2>5, <4>1
    <3>2. CASE q # <<>>
      <4>1. 1 \in 1 .. Len(q) /\ Head(q) = q[1]
        BY <2>3, <3>2, EmptySeq, HeadTailProperties
      <4> QED  BY <2>2, <2>3, <2>5, <3>2, <4>1 DEF EventsGood
    <3> QED  BY <3>1, <3>2
  <2>7. \A i \in 1 .. Len(a) : a[i].t \in Outcomes => i = Len(a)
    <3> TAKE i \in 1 .. Len(a)
    <3>1. i \in 1 .. Len(q) \/ i = Len(a)
      BY <2>3
    <3> QED  BY <2>2, <2>3, <3>1 DEF EventsGood
  <2>8. a[Len(a)].t = o
    BY <2>1, <2>3
  <2>9. events' = a /\ connection' /\ uiSize' = uiSize /\ texture' = texture
    BY <1>1, <1>a DEF q, m, a
  <2>10. EventsInv'
    BY <1>b, <2>4, <2>5, <2>6, <2>9 DEF EventsInv
  <2>11. EndAnnounced'
    BY <1>a, <2>5, <2>7, <2>8, <2>9 DEF EndAnnounced
  <2> QED  BY <2>10, <2>11
<1>2. CASE ~connection
  <2>1. events' = <<>> /\ ~connection'
    BY <1>2, <1>a DEF EventsInv
  <2> QED  BY <2>1, EmptyQueue DEF EventsInv, EndAnnounced
<1> QED  BY <1>1, <1>2

\* What the thread sends in one step fits what was sent before.
LEMMA WorkerEvents ==
    ASSUME TypeOK, StreamInv, EventsInv, EndAnnounced, Worker
    PROVE  EventsInv' /\ EndAnnounced'
<1>a. UNCHANGED <<connection, texture, uiSize>>
  BY DEF Worker, Read, ServerInit, DrainInput, DrainDisconnect, DrainEnd, ReadTimeout, ReadEof,
         ReadNotice, ReadUndecodable, UpdateStart, UpdateDraw, UpdateResize,
         UpdateCursor, UpdateEnd, uiVars
<1>b. events \in Seq(Event) /\ events \o <<>> = events /\ <<>> \in Seq(Event)
  BY ConcatEmptySeq, EmptySeq DEF TypeOK
<1>c. connection /\ pc = "serverinit" => events = <<>>
  BY DEF EventsInv
<1>d. UNCHANGED events => Emit(<<>>)
  BY <1>b DEF Emit, Emitted
\* The thread ends with nothing more to say.
<1>e. ASSUME NEW o \in Outcomes, FinishAfter(<<>>, o), pc \in {"serverinit", "drain", "read", "rects"}
      PROVE  EventsInv' /\ EndAnnounced'
  <2>1. CASE pc = "serverinit"
    BY <1>a, <1>b, <1>c, <1>e, <2>1, GoodEmpty, EventsFinish
  <2>2. CASE pc \in {"drain", "read", "rects"}
    BY <1>a, <1>b, <1>e, <2>2, GoodNow, EventsFinish
  <2> QED  BY <1>e, <2>1, <2>2
\* The thread goes on without an event.
<1>f. ASSUME UNCHANGED events, fb'.size = fb.size, pc \in {"drain", "read", "rects"},
             pc' \in {"drain", "read", "rects"}
      PROVE  EventsInv' /\ EndAnnounced'
  BY <1>a, <1>b, <1>d, <1>f, GoodNow, EventsGoOn
\* The thread sends one event, and goes on or ends.
<1>g. ASSUME NEW m \in Event, m.t \notin Outcomes, InBounds(m, fb.size), fb'.size = After(m, fb.size),
             pc \in {"drain", "read", "rects"},
             \/ Emit(<<m>>) /\ pc' \in {"drain", "read", "rects"}
             \/ FinishAfter(<<m>>, "error")
      PROVE  EventsInv' /\ EndAnnounced'
  <2>1. <<m>> \in Seq(Event) /\ events \o <<m>> = Append(events, m)
    BY <1>b, <1>g, AppendIsConcat
  <2>2. connection => /\ EventsGood(events \o <<m>>, After(m, fb.size))
                      /\ events \o <<m>> # <<>>
    BY <1>g, <2>1, GoodNow, GoodAppend
  <2>3. CASE Emit(<<m>>) /\ pc' \in {"drain", "read", "rects"}
    BY <1>a, <1>g, <2>2, <2>3, EventsGoOn
  <2>4. CASE FinishAfter(<<m>>, "error")
    BY <1>a, <1>g, <2>1, <2>2, <2>4, EventsFinish DEF Outcomes
  <2> QED  BY <1>g, <2>3, <2>4
<1>1. CASE ServerInit
  <2> DEFINE size == Head(toClient).size
             e == SizeEvent(size)
             n == [t |-> "name"]
  <2>1. size \in Sizes
    BY <1>1, ArrivedHead, MessageParts DEF ServerInit, Arrived, Sized
  <2>2. /\ e \in Event /\ n \in Event /\ e.t = "size" /\ e.t \notin Outcomes /\ n.t \notin Outcomes
        /\ InBounds(e, uiSize) /\ InBounds(n, size)
        /\ After(e, uiSize) = size /\ After(n, size) = size
    BY <2>1, MessageTypes DEF SizeEvent, InBounds, After, Sized, Outcomes
  <2>3. fb'.size = size
    BY <1>1, <2>1, BlackFbType DEF ServerInit
  <2>4. \/ Emit(<<e, n>>) /\ pc' = "drain"
        \/ FinishAfter(<<e, n>>, "error")
    BY <1>1 DEF ServerInit, WriteFailsAfter
  <2>5. pc = "serverinit"
    BY <1>1 DEF ServerInit
  <2> HIDE DEF size, e, n
  <2>6. <<e, n>> \in Seq(Event) /\ events \o <<e, n>> = Append(Append(events, e), n)
    BY <1>b, <2>2, ConcatTwo
  <2>7. connection => EventsGood(events \o <<e, n>>, size) /\ events \o <<e, n>> # <<>>
    <3> SUFFICES ASSUME connection
                 PROVE EventsGood(events \o <<e, n>>, size) /\ events \o <<e, n>> # <<>>
      OBVIOUS
    <3>1. EventsGood(events, uiSize)
      BY <1>c, <2>5, GoodEmpty
    <3>2. EventsGood(Append(events, e), size) /\ Append(events, e) # <<>>
      BY <2>2, <3>1, GoodAppend
    <3>3. EventsGood(Append(Append(events, e), n), size) /\ Append(Append(events, e), n) # <<>>
      BY <2>2, <3>2, GoodAppend
    <3> QED  BY <2>6, <3>3
  <2>8. CASE Emit(<<e, n>>) /\ pc' = "drain"
    BY <1>a, <2>3, <2>7, <2>8, EventsGoOn
  <2>9. CASE FinishAfter(<<e, n>>, "error")
    BY <1>a, <2>6, <2>7, <2>9, EventsFinish DEF Outcomes
  <2> QED  BY <2>4, <2>8, <2>9
<1>2. CASE DrainInput
  <2>1. \/ UNCHANGED <<pc, events>>
        \/ FinishAfter(<<>>, "error")
    BY <1>2 DEF DrainInput, WriteFailsAfter
  <2>2. pc = "drain" /\ UNCHANGED fb
    BY <1>2 DEF DrainInput
  <2> QED  BY <1>e, <1>f, <2>1, <2>2 DEF Outcomes
<1>3. CASE DrainDisconnect
  BY <1>3, <1>e DEF DrainDisconnect, Finish, Outcomes
<1>4. CASE DrainEnd \/ ReadTimeout \/ UpdateStart \/ UpdateCursor
  <2>1. /\ UNCHANGED <<events, fb>> /\ pc \in {"drain", "read", "rects"}
        /\ pc' \in {"drain", "read", "rects"}
    BY <1>4 DEF DrainEnd, ReadTimeout, UpdateStart, UpdateCursor, chanVars
  <2> QED  BY <1>f, <2>1
<1>5. CASE ReadEof
  BY <1>5, <1>e DEF ReadEof, Finish, Outcomes
<1>6. CASE ReadUndecodable
  BY <1>6, <1>e DEF ReadUndecodable, Finish, Outcomes
<1>7. CASE ReadNotice
  <2>1. pc = "read" /\ pc' = "drain" /\ UNCHANGED fb
        /\ Emit(IF Arrived("cuttext") THEN <<[t |-> "cliptext"]>> ELSE <<>>)
    BY <1>7 DEF ReadNotice
  <2>2. CASE Arrived("cuttext")
    <3> DEFINE m == [t |-> "cliptext"]
    <3>1. m \in Event /\ m.t \notin Outcomes /\ InBounds(m, fb.size) /\ After(m, fb.size) = fb.size
      BY MessageTypes DEF Outcomes, InBounds, After, Sized
    <3>2. Emit(<<m>>)
      BY <2>1, <2>2
    <3> HIDE DEF m
    <3> QED  BY <1>g, <2>1, <3>1, <3>2
  <2>3. CASE ~Arrived("cuttext")
    <3>1. UNCHANGED events
      BY <1>b, <2>1, <2>3 DEF Emit, Emitted
    <3> QED  BY <1>f, <2>1, <3>1
  <2> QED  BY <2>2, <2>3
<1>8. CASE UpdateDraw
  <2>1. /\ toClient # <<>> /\ Head(toClient) \in Rectangle /\ Head(toClient).t \in {"paint", "copy"}
        /\ InBounds(Head(toClient), fb.size)
    BY <1>8, ArrivedHead, MessageParts DEF UpdateDraw, Arrived
  <2>2. fb'.size = fb.size
    BY <1>8, <2>1, DecodeType DEF UpdateDraw, TypeOK
  <2> QED  BY <1>8, <1>f, <2>2 DEF UpdateDraw, chanVars
<1>9. CASE UpdateResize
  <2> DEFINE size == Head(toClient).size
             m == SizeEvent(size)
  <2>1. size \in Sizes
    BY <1>9, ArrivedHead, MessageParts DEF UpdateResize, Arrived, Sized
  <2>2. m \in Event /\ m.t \notin Outcomes /\ InBounds(m, fb.size) /\ After(m, fb.size) = size
    BY <2>1, MessageTypes DEF SizeEvent, Outcomes, InBounds, After, Sized
  <2>3. fb'.size = size
    BY <1>9, <2>1, BlackFbType DEF UpdateResize, Resized
  <2>4. /\ pc = "rects"
        /\ \/ Emit(<<m>>) /\ pc' = "rects"
           \/ FinishAfter(<<m>>, "error")
    BY <1>9 DEF UpdateResize, WriteFailsAfter
  <2> HIDE DEF size, m
  <2> QED  BY <1>g, <2>2, <2>3, <2>4
<1>10. CASE UpdateEnd
  <2>1. /\ pc = "rects" /\ UNCHANGED fb
        /\ \/ Emit(RectsEvent) /\ pc' = "drain"
           \/ FinishAfter(RectsEvent, "error")
    BY <1>10 DEF UpdateEnd, WriteFailsAfter
  <2>2. CASE dirty = <<>>
    <3>1. RectsEvent = <<>>
      BY <2>2 DEF RectsEvent
    <3>2. Emit(<<>>) => UNCHANGED events
      BY <1>b DEF Emit, Emitted
    <3> QED  BY <1>e, <1>f, <2>1, <3>1, <3>2 DEF Outcomes
  <2>3. CASE dirty # <<>>
    <3> DEFINE m == [t |-> "rects", rects |-> DirtyRects]
    <3>1. \A i \in 1 .. Len(dirty) : /\ SubRgba(fb, dirty[i]) \in Images
                                     /\ DOMAIN SubRgba(fb, dirty[i]) \subseteq Cells(fb.size)
      BY SubRgbaType DEF TypeOK
    <3>2. /\ DirtyRects \in Seq(Images)
          /\ \A i \in 1 .. Len(DirtyRects) : DOMAIN DirtyRects[i] \subseteq Cells(fb.size)
      BY <3>1, LenProperties DEF DirtyRects, TypeOK
    <3>3. m \in Event /\ m.t \notin Outcomes /\ InBounds(m, fb.size) /\ After(m, fb.size) = fb.size
      BY <3>2 DEF Event, Outcomes, InBounds, After, Sized
    <3>4. RectsEvent = <<m>>
      BY <2>3 DEF RectsEvent
    <3> HIDE DEF m
    <3> QED  BY <1>g, <2>1, <3>3, <3>4
  <2> QED  BY <2>2, <2>3
<1> QED
  BY <1>1, <1>2, <1>3, <1>4, <1>5, <1>6, <1>7, <1>8, <1>9, <1>10 DEF Worker, Read

\* The UI takes an event that does not end the session.
LEMMA EventTaken ==
    ASSUME TypeOK, EventsInv, EndAnnounced, events # <<>>, Head(events).t \notin Outcomes,
           events' = Tail(events), uiSize' = After(Head(events), uiSize), texture' # None,
           UNCHANGED <<connection, pc, fb>>
    PROVE  EventsInv' /\ EndAnnounced'
<1>1. /\ events \in Seq(Event) /\ Len(events) \in Nat /\ Len(events) >= 1 /\ Head(events) = events[1]
      /\ Len(events') = Len(events) - 1
      /\ \A k \in 1 .. Len(events) - 1 : events'[k] = events[k + 1]
  BY EmptySeq, LenProperties, HeadTailProperties DEF TypeOK
<1>2. connection /\ pc # "serverinit"
  BY DEF EventsInv
<1>3. Bounded(events', uiSize')
  BY <1>1, BoundedTail DEF EventsInv
<1>4. pc \in {"drain", "read", "rects"} => EndsIn(events', uiSize', fb.size)
  BY <1>1, <1>2, EndsInTail DEF EventsInv
<1>5. EventsInv'
  BY <1>2, <1>3, <1>4 DEF EventsInv
<1>6. ASSUME pc \in Outcomes PROVE events' # <<>> /\ events'[Len(events')].t = pc
  <2>1. events[Len(events)].t = pc
    BY <1>2, <1>6 DEF EndAnnounced
  <2>2. Len(events) # 1
    BY <1>1, <1>6, <2>1
  <2>3. Len(events') >= 1 /\ events'[Len(events')] = events[Len(events)]
    BY <1>1, <2>2
  <2>4. events' # <<>>
    BY <2>3, EmptySeq
  <2> QED  BY <2>1, <2>3, <2>4
<1>7. ASSUME NEW i \in 1 .. Len(events'), events'[i].t \in Outcomes
      PROVE  pc \in Outcomes /\ i = Len(events')
  <2>1. i + 1 \in 1 .. Len(events) /\ events[i + 1].t \in Outcomes
    BY <1>1, <1>7
  <2>2. pc \in Outcomes /\ i + 1 = Len(events)
    BY <1>2, <2>1 DEF EndAnnounced
  <2>3. i \in Int /\ Len(events') = Len(events) - 1
    BY <1>1
  <2>4. \A n \in Nat : i + 1 = n => i = n - 1
    BY <2>3
  <2>5. i = Len(events) - 1
    BY <1>1, <2>2, <2>4
  <2> QED  BY <2>2, <2>3, <2>5
<1>8. EndAnnounced'
  BY <1>6, <1>7 DEF EndAnnounced
<1> QED  BY <1>5, <1>8

LEMMA EventsKept ==
    ASSUME EventsInv, EndAnnounced, TextureFits,
           UNCHANGED <<connection, texture, uiSize, events, pc, fb>>
    PROVE  EventsInv' /\ EndAnnounced' /\ TextureFits'
BY DEF EventsInv, EndAnnounced, TextureFits

LEMMA EventsDropped ==
    ASSUME ~connection', events' = <<>>, texture' = None
    PROVE  EventsInv' /\ EndAnnounced' /\ TextureFits'
<1>1. Bounded(events', uiSize')
  BY EmptyQueue
<1> QED  BY <1>1 DEF EventsInv, EndAnnounced, TextureFits

LEMMA EventsStep == Inv /\ Next => EventsInv' /\ EndAnnounced' /\ TextureFits'
<1> SUFFICES ASSUME Inv, Next PROVE EventsInv' /\ EndAnnounced' /\ TextureFits'
  OBVIOUS
<1> USE DEF Inv
<1>a. events # <<>> => /\ Head(events) \in Event
                       /\ InBounds(Head(events), uiSize)
                       /\ connection
                       /\ texture = None => Head(events).t \in {"size"} \cup Outcomes
  BY BoundedHead, HeadTailProperties DEF TypeOK, EventsInv
<1>1. CASE Worker
  <2>1. UNCHANGED <<texture, uiSize>>
    BY <1>1 DEF Worker, Read, ServerInit, DrainInput, DrainDisconnect, DrainEnd, ReadTimeout,
           ReadEof, ReadNotice, ReadUndecodable, UpdateStart, UpdateDraw, UpdateResize,
           UpdateCursor, UpdateEnd, uiVars
  <2> QED  BY <1>1, <2>1, WorkerEvents DEF TextureFits
<1>2. CASE HandleSize
  <2> DEFINE size == Head(events).size
  <2>1. /\ events # <<>> /\ Head(events).t = "size" /\ size \in Sizes /\ uiSize' = size
        /\ texture' = IF NewTexture(size) THEN <<BlackFb(size)>> ELSE texture
        /\ UNCHANGED <<connection, pc, fb>> /\ events' = Tail(events)
    BY <1>2, <1>a, MessageParts DEF HandleSize, workerVars
  <2>2. size = After(Head(events), uiSize) /\ Head(events).t \notin Outcomes
    BY <2>1 DEF After, Sized, Outcomes
  <2>3. texture' # None /\ TextureFits'
    BY <2>1, BlackFbType DEF NewTexture, TextureFits, None
  <2> QED  BY <2>1, <2>2, <2>3, EventTaken
<1>3. CASE HandleRects
  <2>1. /\ events # <<>> /\ Head(events).t = "rects" /\ Head(events).rects \in Seq(Images)
        /\ UNCHANGED <<connection, uiSize, pc, fb>> /\ events' = Tail(events)
        /\ texture # None /\ texture' = <<Painted(texture[1], Head(events).rects)>>
    BY <1>3, <1>a, MessageParts DEF HandleRects, workerVars, Outcomes
  <2>2. uiSize' = After(Head(events), uiSize) /\ Head(events).t \notin Outcomes
    BY <2>1 DEF After, Sized, Outcomes
  <2>3. Painted(texture[1], Head(events).rects).size = texture[1].size
    BY <2>1, TextureType, PaintedType
  <2>4. texture' # None /\ TextureFits'
    BY <2>1, <2>3 DEF TextureFits, None
  <2> QED  BY <2>1, <2>2, <2>4, EventTaken
<1>4. CASE HandleNotice
  <2>1. /\ events # <<>> /\ Head(events).t \in {"name", "cliptext"}
        /\ UNCHANGED <<connection, texture, uiSize, pc, fb>> /\ events' = Tail(events)
    BY <1>4 DEF HandleNotice, workerVars, uiVars
  <2>2. /\ uiSize' = After(Head(events), uiSize) /\ Head(events).t \notin Outcomes
        /\ texture' # None
    BY <1>a, <2>1 DEF After, Sized, Outcomes
  <2>3. TextureFits'
    BY <2>1 DEF TextureFits
  <2> QED  BY <2>1, <2>2, <2>3, EventTaken
<1>5. CASE HandleEnd
  <2>1. /\ events # <<>> /\ Head(events).t \in Outcomes
        /\ ~connection' /\ texture' = None /\ events' = Tail(events)
    BY <1>5 DEF HandleEnd, Outcomes
  <2>2. events \in Seq(Event) /\ Len(events) \in Nat /\ Len(events) >= 1 /\ Head(events) = events[1]
    BY <2>1, EmptySeq, LenProperties, HeadTailProperties DEF TypeOK
  <2>3. Len(events) = 1
    <3>1. 1 \in 1 .. Len(events) /\ events[1].t \in Outcomes /\ connection
      BY <1>a, <2>1, <2>2
    <3>2. EndAnnounced
      OBVIOUS
    <3> QED  BY <3>1, <3>2 DEF EndAnnounced
  <2>4. Tail(events) = <<>>
    <3>1. Tail(events) \in Seq(Event) /\ Len(Tail(events)) = 0
      BY <2>1, <2>2, <2>3, HeadTailProperties
    <3> QED  BY <3>1, EmptySeq
  <2> QED  BY <2>1, <2>4, EventsDropped
<1>6. CASE UserInput
  BY <1>6, EventsKept DEF UserInput, workerVars
<1>7. CASE UserDisconnect
  BY <1>7, EventsDropped DEF UserDisconnect
<1>8. CASE Serve \/ Answer \/ Environment
  <2>1. UNCHANGED <<uiVars, chanVars, workerVars>>
    BY <1>8 DEF Serve, Answer, Environment, ServeRequest, ServeInput, Update, UpdateSize,
                Draw, Resize, SendNotice, CloseServer
  <2> QED  BY <2>1, EventsKept DEF uiVars, chanVars, workerVars
<1> QED  BY <1>1, <1>2, <1>3, <1>4, <1>5, <1>6, <1>7, <1>8 DEF Next, Frame, User

-------------------------------------------------------------------------------
(* The invariant and its consequences.                                     *)

\* Init implies Inv: the only message in flight is ServerInit.
LEMMA InvInit == Init => Inv
<1> SUFFICES ASSUME Init PROVE Inv
  OBVIOUS
<1>1. TypeOK
  BY TypeInit
<1>2. PICK s \in Sizes : \E px \in [Cells(s) -> Colours] :
          /\ fb = BlackFb(s) /\ shadow = BlackFb(s)
          /\ screen = [size |-> s, px |-> px]
          /\ toClient = <<[t |-> "init", size |-> s]>>
  BY DEF Init
<1>3. StreamInv
  <2> DEFINE m == [t |-> "init", size |-> s]
  <2>1. InBounds(m, s) /\ After(m, s) = s /\ m \in ToClient
    BY MessageTypes DEF InBounds, After, Sized
  <2>2. toClient = Append(<<>>, m) /\ <<>> \in Seq(ToClient)
    BY <1>2
  <2>3. fb.size = s /\ shadow.size = s /\ screen.size = s
    BY <1>2, BlackFbType
  <2> HIDE DEF m
  <2>4. Bounded(toClient, s) /\ EndsIn(toClient, s, s)
    <3>1. Bounded(<<>>, s) /\ EndsIn(<<>>, s, s)
      BY EmptyQueue
    <3>2. Bounded(Append(<<>>, m), s)
      BY <2>1, <2>2, <3>1, BoundedAppend
    <3>3. EndsIn(Append(<<>>, m), s, After(m, s))
      BY <2>1, <2>2, <3>1, EndsInAppend
    <3> QED  BY <2>1, <2>2, <3>2, <3>3
  <2> QED  BY <2>3, <2>4 DEF StreamInv
<1>4. /\ connection = TRUE /\ texture = None /\ uiSize = <<0, 0>> /\ events = <<>>
      /\ pc = "serverinit"
  BY DEF Init
<1>5. EventsInv
  BY <1>4, EmptyQueue DEF EventsInv
<1>6. EndAnnounced /\ TextureFits
  <2>1. 1 .. Len(events) = {}
    BY <1>4, EmptySeq
  <2> QED  BY <1>4, <2>1 DEF EndAnnounced, TextureFits, Outcomes
<1> QED  BY <1>1, <1>3, <1>5, <1>6 DEF Inv

\* Every step keeps Inv.
LEMMA InvStep == Inv /\ [Next]_vars => Inv'
<1> SUFFICES ASSUME Inv, [Next]_vars PROVE Inv'
  OBVIOUS
<1>1. CASE Next
  <2>1. TypeOK'
    BY <1>1, TypeWorker, TypeUi, TypeServer DEF Next, Inv
  <2>2. StreamInv'
    BY <1>1, StreamStep DEF Inv
  <2>3. EventsInv' /\ EndAnnounced' /\ TextureFits'
    BY <1>1, EventsStep
  <2> QED  BY <2>1, <2>2, <2>3 DEF Inv
<1>2. CASE UNCHANGED vars
  BY <1>2 DEF Inv, TypeOK, StreamInv, EventsInv, EndAnnounced, TextureFits, vars, uiVars, chanVars,
              workerVars, wireVars, serverVars
<1> QED  BY <1>1, <1>2

\* In every reachable state, for all sizes, colours and bounds, both queues
\* toward the screen hold only messages that fit the size in force where they
\* stand, and end in the size of their sender.
THEOREM Invariance == Spec => []Inv
BY InvInit, InvStep, PTL DEF Spec

\* Every variable of the two threads, the channels and the server has its type;
\* in particular the framebuffer has one pixel for each cell of its size.
THEOREM TypeCorrect == Spec => []TypeOK
<1>1. Inv => TypeOK  BY DEF Inv
<1> QED  BY <1>1, Invariance, PTL

\* The texture has the size (fb_width, fb_height) the UI computes with.
THEOREM TextureFitsAlways == Spec => []TextureFits
<1>1. Inv => TextureFits  BY DEF Inv
<1> QED  BY <1>1, Invariance, PTL

\* The thread's end is the last event the UI is sent, and it is sent only then.
THEOREM EndAnnouncedAlways == Spec => []EndAnnounced
<1>1. Inv => EndAnnounced  BY DEF Inv
<1> QED  BY <1>1, Invariance, PTL

\* process_events never skips a rectangle: the check of its bounds against the
\* texture cannot fail, whatever resizes and updates are in flight.
THEOREM NoRectSkippedAlways == Spec => []NoRectSkipped
<1>1. ASSUME Inv, events # <<>>, Head(events).t = "rects"
      PROVE  /\ texture # None
             /\ \A i \in 1 .. Len(Head(events).rects) :
                   DOMAIN Head(events).rects[i] \subseteq Cells(uiSize)
  <2>1. connection /\ texture # None
    BY <1>1 DEF Inv, EventsInv, Outcomes
  <2>2. InBounds(Head(events), uiSize)
    BY <1>1, BoundedHead DEF Inv, TypeOK, EventsInv
  <2> QED  BY <1>1, <2>1, <2>2 DEF InBounds
<1>2. Inv => NoRectSkipped
  BY <1>1 DEF NoRectSkipped
<1> QED  BY <1>2, Invariance, PTL

\* Framebuffer::copy_rect and blit_rgba never leave the framebuffer of a client
\* whose server follows the protocol.
THEOREM DecodeInBoundsAlways == Spec => []DecodeInBounds
<1>1. ASSUME Inv, Arrived("paint") \/ Arrived("copy")
      PROVE  /\ Target(Head(toClient)) \subseteq Cells(fb.size)
             /\ Head(toClient).t = "copy" =>
                   \A c \in Head(toClient).to : Source(c, Head(toClient).d) \in Cells(fb.size)
  <2>1. toClient # <<>> /\ Head(toClient).t \in {"paint", "copy"}
    BY <1>1 DEF Arrived
  <2>2. InBounds(Head(toClient), fb.size)
    BY <1>1, <2>1, ArrivedHead DEF Inv
  <2> QED  BY <2>1, <2>2 DEF InBounds, Target
<1>2. Inv => DecodeInBounds
  BY <1>1 DEF DecodeInBounds
<1> QED  BY <1>2, Invariance, PTL

-------------------------------------------------------------------------------
(* The request that is outstanding.                                        *)

\* A full picture of the framebuffer is owed: the server knows, or will read it.
Owed == \/ Cells(fb.size) \subseteq asked
        \/ \E i \in 1 .. Len(toServer) : toServer[i].t = "request" /\ toServer[i].size = fb.size
Coming == \E i \in 1 .. Len(toClient) : toClient[i].t = "update"

\* What is appended to the stream to the server stays owed.
LEMMA OwedAppend ==
    ASSUME toServer \in Seq(ToServer), NEW m \in ToServer, toServer' = Append(toServer, m),
           UNCHANGED <<fb, asked>>,
           Owed \/ (m.t = "request" /\ m.size = fb.size)
    PROVE  Owed'
<1>1. /\ Len(toServer) \in Nat /\ Len(toServer') = Len(toServer) + 1
      /\ toServer'[Len(toServer) + 1] = m
      /\ \A i \in 1 .. Len(toServer) : i \in 1 .. Len(toServer') /\ toServer'[i] = toServer[i]
  BY AppendProperties, LenProperties
<1>2. Len(toServer) + 1 \in 1 .. Len(toServer')
  BY <1>1
<1> QED  BY <1>1, <1>2 DEF Owed

\* What is taken from it was not owed, or is now due.
LEMMA OwedTail ==
    ASSUME toServer \in Seq(ToServer), toServer # <<>>, toServer' = Tail(toServer), fb' = fb,
           asked \subseteq asked',
           Head(toServer).t = "request" => Cells(Head(toServer).size) \subseteq asked',
           Owed
    PROVE  Owed'
<1>1. /\ Len(toServer') = Len(toServer) - 1 /\ Len(toServer) \in Nat /\ Head(toServer) = toServer[1]
      /\ \A i \in 1 .. Len(toServer) - 1 : toServer'[i] = toServer[i + 1]
  <2>1. Tail(toServer) \in Seq(ToServer) /\ Len(Tail(toServer)) = Len(toServer) - 1
        /\ \A i \in 1 .. Len(Tail(toServer)) : Tail(toServer)[i] = toServer[i + 1]
    BY HeadTailProperties
  <2>2. Head(toServer) = toServer[1]
    OBVIOUS
  <2> QED  BY <2>1, <2>2, LenProperties
<1>2. ASSUME NEW i \in 1 .. Len(toServer), i # 1
      PROVE  i - 1 \in 1 .. Len(toServer') /\ toServer'[i - 1] = toServer[i]
  <2>1. i - 1 \in 1 .. Len(toServer) - 1 /\ i - 1 + 1 = i
    BY <1>1, <1>2
  <2> QED  BY <1>1, <2>1
<1>3. CASE Cells(fb.size) \subseteq asked
  BY <1>3 DEF Owed
<1>4. CASE ~(Cells(fb.size) \subseteq asked)
  <2>1. PICK i \in 1 .. Len(toServer) : toServer[i].t = "request" /\ toServer[i].size = fb.size
    BY <1>4 DEF Owed
  <2>2. CASE i = 1
    BY <1>1, <2>1, <2>2 DEF Owed
  <2>3. CASE i # 1
    BY <1>2, <2>1, <2>3 DEF Owed
  <2> QED  BY <2>2, <2>3
<1> QED  BY <1>3, <1>4

\* An update is lost from the stream to the client only by reading it.
LEMMA ComingTail ==
    ASSUME toClient \in Seq(ToClient), toClient # <<>>, toClient' = Tail(toClient),
           Head(toClient).t # "update", Coming
    PROVE  Coming'
<1>1. PICK i \in 1 .. Len(toClient) : toClient[i].t = "update"
  BY DEF Coming
<1>2. /\ Len(Tail(toClient)) = Len(toClient) - 1 /\ Len(toClient) \in Nat
      /\ \A k \in 1 .. Len(Tail(toClient)) : Tail(toClient)[k] = toClient[k + 1]
  BY HeadTailProperties, LenProperties
<1>3. Head(toClient) = toClient[1]
  OBVIOUS
<1>4. i # 1
  BY <1>1, <1>3
<1>5. i - 1 \in 1 .. Len(Tail(toClient)) /\ i - 1 + 1 = i
  BY <1>2, <1>4
<1> QED  BY <1>1, <1>2, <1>5 DEF Coming

LEMMA ComingConcat ==
    ASSUME toClient \in Seq(ToClient), NEW ms \in Seq(ToClient), toClient' = toClient \o ms,
           Coming \/ \E i \in 1 .. Len(ms) : ms[i].t = "update"
    PROVE  Coming'
<1>1. /\ Len(toClient \o ms) = Len(toClient) + Len(ms) /\ Len(toClient) \in Nat /\ Len(ms) \in Nat
      /\ \A i \in 1 .. Len(toClient) + Len(ms) : (toClient \o ms)[i] =
              IF i <= Len(toClient) THEN toClient[i] ELSE ms[i - Len(toClient)]
  BY ConcatProperties, LenProperties
<1>2. CASE Coming
  <2>1. PICK i \in 1 .. Len(toClient) : toClient[i].t = "update"
    BY <1>2 DEF Coming
  <2>2. i \in 1 .. Len(toClient \o ms) /\ (toClient \o ms)[i] = toClient[i]
    BY <1>1
  <2> QED  BY <2>1, <2>2 DEF Coming
<1>3. CASE \E i \in 1 .. Len(ms) : ms[i].t = "update"
  <2>1. PICK i \in 1 .. Len(ms) : ms[i].t = "update"
    BY <1>3
  <2>2. /\ Len(toClient) + i \in 1 .. Len(toClient) + Len(ms) /\ ~(Len(toClient) + i <= Len(toClient))
        /\ Len(toClient) + i - Len(toClient) = i
    BY <1>1
  <2>3. (toClient \o ms)[Len(toClient) + i] = ms[i] /\ Len(toClient) + i \in 1 .. Len(toClient \o ms)
    BY <1>1, <2>2
  <2> QED  BY <2>1, <2>3 DEF Coming
<1> QED  BY <1>2, <1>3

LEMMA RequestWorker ==
    ASSUME TypeOK, RequestOutstanding, Worker
    PROVE  RequestOutstanding'
<1> SUFFICES ASSUME serverOpen', pc' \in {"drain", "read"} PROVE Owed' \/ Coming'
  BY DEF RequestOutstanding, Owed, Coming
<1>0. /\ serverOpen /\ asked' = asked /\ "error" \notin {"drain", "read"} /\ "disconnected" \notin {"drain", "read"}
      /\ toServer \in Seq(ToServer) /\ toClient \in Seq(ToClient) /\ cmds \in Seq(Command)
  BY DEF Worker, ServerInit, DrainInput, DrainDisconnect, DrainEnd, ReadTimeout, Read, ReadEof, ReadNotice,
         ReadUndecodable, UpdateStart, UpdateDraw, UpdateResize, UpdateCursor, UpdateEnd, serverVars, TypeOK
<1>1. pc \in {"drain", "read"} => Owed \/ Coming
  BY <1>0 DEF RequestOutstanding, Owed, Coming
<1> USE <1>0 DEF WriteFailsAfter, FinishAfter, Finish
<1>2. CASE ServerInit
  <2>1. toClient # <<>> /\ Head(toClient) \in ToClient /\ Head(toClient).t = "init"
    BY <1>2, HeadTailProperties DEF ServerInit, Arrived
  <2>2. Head(toClient).size \in Sizes
    BY <2>1, MessageParts DEF Sized
  <2> DEFINE size == Head(toClient).size
  <2>3. toServer' = Append(toServer, FullRequest(size)) /\ fb' = BlackFb(size)
    BY <1>2 DEF ServerInit, Written
  <2>4. FullRequest(size) \in ToServer /\ FullRequest(size).t = "request" /\ FullRequest(size).size = size
    BY <2>2, MessageTypes DEF FullRequest, Request
  <2>5. fb'.size = size
    BY <2>3 DEF BlackFb
  <2> HIDE DEF size
  <2>6. /\ Len(toServer) + 1 \in 1 .. Len(toServer') /\ toServer'[Len(toServer) + 1] = FullRequest(size)
    BY <2>3, <2>4, AppendProperties, LenProperties
  <2> QED  BY <2>4, <2>5, <2>6 DEF Owed
<1>3. CASE DrainInput
  <2>1. pc = "drain" /\ fb' = fb /\ toClient' = toClient /\ toServer' = Append(toServer, Head(cmds))
        /\ cmds # <<>> /\ Head(cmds).t = "input"
    BY <1>3 DEF DrainInput, Received, Written
  <2>2. Head(cmds) \in ToServer
    BY <2>1, HeadTailProperties, MessageTypes
  <2>3. Coming => Coming'
    BY <2>1 DEF Coming
  <2> QED  BY <1>1, <2>1, <2>2, <2>3, OwedAppend
<1>4. CASE DrainEnd \/ ReadTimeout
  <2>1. pc \in {"drain", "read"} /\ UNCHANGED <<fb, toServer, toClient>>
    BY <1>4 DEF DrainEnd, ReadTimeout, wireVars
  <2> QED  BY <1>1, <2>1 DEF Owed, Coming
<1>5. CASE ReadNotice
  <2>1. /\ pc = "read" /\ UNCHANGED <<fb, toServer>> /\ toClient # <<>> /\ toClient' = Tail(toClient)
        /\ Head(toClient).t # "update"
    BY <1>5 DEF ReadNotice, Arrived
  <2>2. Owed => Owed'
    BY <2>1 DEF Owed
  <2> QED  BY <1>1, <2>1, <2>2, ComingTail
<1>6. CASE UpdateEnd
  <2>1. toServer' = Append(toServer, Request(TRUE, fb.size)) /\ fb' = fb
    BY <1>6 DEF UpdateEnd, NextRequest, Written
  <2>2. fb.size \in Sizes
    BY FramebufferParts DEF TypeOK
  <2>3. Request(TRUE, fb.size) \in ToServer /\ Request(TRUE, fb.size).t = "request"
        /\ Request(TRUE, fb.size).size = fb.size
    BY <2>2, MessageTypes DEF Request
  <2> QED  BY <2>1, <2>3, OwedAppend
<1>7. CASE DrainDisconnect \/ ReadEof \/ ReadUndecodable \/ UpdateStart
  BY <1>7 DEF DrainDisconnect, ReadEof, ReadUndecodable, UpdateStart
<1>8. CASE UpdateDraw \/ UpdateResize \/ UpdateCursor
  BY <1>8 DEF UpdateDraw, UpdateResize, UpdateCursor
<1> QED  BY <1>2, <1>3, <1>4, <1>5, <1>6, <1>7, <1>8 DEF Worker, Read

LEMMA RequestServer ==
    ASSUME TypeOK, TypeOK', StreamInv, RequestOutstanding, Serve \/ Answer \/ Environment
    PROVE  RequestOutstanding'
<1> SUFFICES ASSUME serverOpen', pc' \in {"drain", "read"} PROVE Owed' \/ Coming'
  BY DEF RequestOutstanding, Owed, Coming
<1>0. /\ serverOpen /\ UNCHANGED <<pc, fb>>
      /\ toServer \in Seq(ToServer) /\ toClient \in Seq(ToClient)
  BY DEF Serve, ServeRequest, ServeInput, Answer, Update, UpdateSize, Environment, Draw, Resize, SendNotice,
         CloseServer, Serving, workerVars, TypeOK
<1>1. Owed \/ Coming
  BY <1>0 DEF RequestOutstanding, Owed, Coming
<1>2. CASE Serve
  <2>1. /\ toServer # <<>> /\ toServer' = Tail(toServer) /\ toClient' = toClient
        /\ asked \subseteq asked'
        /\ Head(toServer).t = "request" => Cells(Head(toServer).size) \subseteq asked'
    BY <1>2 DEF Serve, ServeRequest, ServeInput
  <2>2. Coming => Coming'
    BY <2>1 DEF Coming
  <2> QED  BY <1>0, <1>1, <2>1, <2>2, OwedTail
<1>3. ASSUME NEW rects \in Seq(Rectangle), SendUpdate(rects) PROVE Coming'
  <2> DEFINE u == <<[t |-> "update", n |-> Len(rects)]>>
  <2>1. Len(rects) \in Nat
    BY LenProperties
  <2>2. [t |-> "update", n |-> Len(rects)] \in ToClient
    BY <2>1, MessageTypes
  <2>3. u \in Seq(ToClient) /\ Len(u) = 1 /\ u[1].t = "update"
    BY <2>2
  <2>4. rects \in Seq(ToClient)
    BY MessageTypes, SeqMonotonic
  <2>5. toClient' = toClient \o (u \o rects)
    BY <1>0, <1>3, <2>3, <2>4, ConcatAssociative DEF SendUpdate
  <2> HIDE DEF u
  <2>6. u \o rects \in Seq(ToClient) /\ Len(u \o rects) = 1 + Len(rects) /\ (u \o rects)[1] = u[1]
    BY <2>1, <2>3, <2>4, ConcatProperties
  <2>7. 1 \in 1 .. Len(u \o rects)
    BY <2>1, <2>6
  <2> QED  BY <1>0, <2>3, <2>5, <2>6, <2>7, ComingConcat
<1>4. CASE Draw \/ Resize
  <2>1. UNCHANGED <<asked, toServer, toClient>>
    BY <1>4 DEF Draw, Resize, wireVars
  <2> QED  BY <1>0, <1>1, <2>1 DEF Owed, Coming
<1>5. CASE SendNotice /\ asked' = asked /\ \E t \in {"cuttext", "bell", "undecodable"} : toClient' = Append(toClient, [t |-> t])
  <2>1. PICK t \in {"cuttext", "bell", "undecodable"} : toClient' = Append(toClient, [t |-> t])
    BY <1>5
  <2>2. [t |-> t] \in ToClient
    BY MessageTypes
  <2>3. toClient' = toClient \o <<[t |-> t]>> /\ <<[t |-> t]>> \in Seq(ToClient)
    BY <1>0, <2>1, <2>2, AppendIsConcat
  <2>4. Coming => Coming'
    BY <1>0, <2>3, ComingConcat
  <2>5. UNCHANGED <<asked, toServer>>
    BY <1>5 DEF SendNotice
  <2>6. Owed => Owed'
    BY <1>0, <2>5 DEF Owed
  <2> QED  BY <1>1, <2>4, <2>6
<1>6. ASSUME NEW t \in {"cursor", "undecodable"}, SendUpdate(<<[t |-> t]>>) PROVE Coming'
  <2>1. <<[t |-> t]>> \in Seq(Rectangle)
    BY MessageTypes
  <2> QED  BY <1>3, <1>6, <2>1
<1>7. CASE SendNotice
  BY <1>5, <1>6, <1>7 DEF SendNotice
<1>8. CASE Update
  BY <1>3, <1>8, UpdateParts
<1>9. CASE UpdateSize
  <2>1. PICK before \in Seq(Rectangle) : SendUpdate(Append(before, [t |-> "resize", size |-> screen.size]))
    BY <1>9, UpdateSizeParts
  <2>2. [t |-> "resize", size |-> screen.size] \in Rectangle
    BY FramebufferParts, MessageTypes DEF TypeOK
  <2>3. Append(before, [t |-> "resize", size |-> screen.size]) \in Seq(Rectangle)
    BY <2>2, AppendProperties
  <2> QED  BY <1>3, <2>1, <2>3
<1>10. CASE CloseServer
  BY <1>10 DEF CloseServer
<1> QED  BY <1>2, <1>4, <1>7, <1>8, <1>9, <1>10 DEF Answer, Environment

\* The server always owes the client a picture of the whole framebuffer of the size
\* the client has now, or has it on the way, whenever the thread waits: for any
\* sizes, resizes, updates and inputs (client.rs: the requests of the main loop).
THEOREM RequestAlways == Spec => []RequestOutstanding
<1>1. Init => RequestOutstanding
  BY DEF Init, RequestOutstanding
<1>2. ASSUME Inv, Inv', RequestOutstanding, [Next]_vars PROVE RequestOutstanding'
  <2>1. TypeOK /\ TypeOK' /\ StreamInv
    BY <1>2 DEF Inv
  <2>2. CASE Worker
    BY <1>2, <2>1, <2>2, RequestWorker
  <2>3. CASE Serve \/ Answer \/ Environment
    BY <1>2, <2>1, <2>3, RequestServer
  <2>4. CASE Frame \/ User \/ UNCHANGED vars
    <3>1. UNCHANGED <<pc, fb, asked, serverOpen, toServer, toClient>>
      BY <2>4 DEF Frame, HandleSize, HandleRects, HandleNotice, HandleEnd, User, UserInput, UserDisconnect,
                  vars, workerVars, wireVars, serverVars
    <3> QED  BY <1>2, <3>1 DEF RequestOutstanding
  <2> QED  BY <1>2, <2>2, <2>3, <2>4 DEF Next
<1> QED  BY <1>1, <1>2, Invariance, PTL DEF Spec

-------------------------------------------------------------------------------
(* What the client shows when it has read the stream.                      *)

\* The framebuffer after a message, for one that shows f before it.
Shows(m, f) ==
    IF m.t \in {"init", "resize"} THEN BlackFb(m.size)
    ELSE IF m.t \in {"paint", "copy"} THEN Decode(f, m) ELSE f

\* The messages of q, one after the other, lead from f to g.
Leads(q, f, g) ==
    \E v : /\ v[0] = f /\ v[Len(q)] = g
           /\ \A i \in 1 .. Len(q) : v[i] = Shows(q[i], v[i - 1])

\* While the server is there, the stream leads from the framebuffer to what the
\* server takes the client to show.
Following == serverOpen => Leads(toClient, fb, shadow)

LEMMA LeadsNone ==
    ASSUME NEW f, NEW g
    PROVE  Leads(<<>>, f, g) <=> f = g
<1>1. Len(<<>>) = 0 /\ 1 .. 0 = {}
  BY EmptySeq
<1>2. ASSUME f = g PROVE Leads(<<>>, f, g)
  <2> DEFINE v == [i \in {0} |-> f]
  <2>1. v[0] = f
    OBVIOUS
  <2> HIDE DEF v
  <2> QED  BY <1>1, <1>2, <2>1 DEF Leads
<1> QED  BY <1>1, <1>2 DEF Leads

LEMMA LeadsTail ==
    ASSUME NEW S, NEW q \in Seq(S), q # <<>>, NEW f, NEW g, Leads(q, f, g)
    PROVE  Leads(Tail(q), Shows(Head(q), f), g)
<1> DEFINE t == Tail(q)
<1>1. /\ Len(q) \in Nat /\ Len(q) >= 1 /\ Head(q) = q[1] /\ Len(t) = Len(q) - 1
      /\ \A k \in 1 .. Len(q) - 1 : t[k] = q[k + 1]
  BY EmptySeq, LenProperties, HeadTailProperties
<1> HIDE DEF t
<1>2. PICK v : /\ v[0] = f /\ v[Len(q)] = g
               /\ \A i \in 1 .. Len(q) : v[i] = Shows(q[i], v[i - 1])
  BY DEF Leads
<1> DEFINE w == [i \in 0 .. Len(t) |-> v[i + 1]]
<1>3. w[0] = Shows(Head(q), f)
  <2>1. 0 \in 0 .. Len(t) /\ 1 \in 1 .. Len(q) /\ 0 + 1 = 1 /\ 1 - 1 = 0
    BY <1>1
  <2>2. v[1] = Shows(q[1], v[0])
    BY <1>2, <2>1
  <2> QED  BY <1>1, <1>2, <2>1, <2>2
<1>4. w[Len(t)] = g
  <2>1. Len(t) \in 0 .. Len(t) /\ Len(t) + 1 = Len(q)
    BY <1>1
  <2> QED  BY <1>2, <2>1
<1>5. ASSUME NEW i \in 1 .. Len(t) PROVE w[i] = Shows(t[i], w[i - 1])
  <2>1. /\ i \in 0 .. Len(t) /\ i - 1 \in 0 .. Len(t) /\ i + 1 \in 1 .. Len(q)
        /\ (i + 1) - 1 = i /\ (i - 1) + 1 = i /\ t[i] = q[i + 1]
    BY <1>1
  <2>2. v[i + 1] = Shows(q[i + 1], v[i])
    BY <1>2, <2>1
  <2>3. w[i] = v[i + 1] /\ w[i - 1] = v[i]
    BY <2>1
  <2> QED  BY <2>1, <2>2, <2>3
<1> HIDE DEF w
<1>6. Leads(t, Shows(Head(q), f), g)
  BY <1>3, <1>4, <1>5 DEF Leads
<1> QED  BY <1>6 DEF t

LEMMA LeadsAppend ==
    ASSUME NEW S, NEW q \in Seq(S), NEW m \in S, NEW f, NEW g, Leads(q, f, g)
    PROVE  Leads(Append(q, m), f, Shows(m, g))
<1> DEFINE a == Append(q, m)
<1>1. /\ Len(q) \in Nat /\ Len(a) = Len(q) + 1 /\ a[Len(q) + 1] = m
      /\ \A k \in 1 .. Len(q) : a[k] = q[k]
  BY AppendProperties, LenProperties
<1> HIDE DEF a
<1>2. PICK v : /\ v[0] = f /\ v[Len(q)] = g
               /\ \A i \in 1 .. Len(q) : v[i] = Shows(q[i], v[i - 1])
  BY DEF Leads
<1> DEFINE w == [i \in 0 .. Len(a) |-> IF i = Len(a) THEN Shows(m, g) ELSE v[i]]
<1>3. ASSUME NEW i \in 0 .. Len(q) PROVE w[i] = v[i]
  <2>1. i \in 0 .. Len(a) /\ i # Len(a)
    BY <1>1
  <2> QED  BY <2>1
<1>4. w[Len(a)] = Shows(m, g)
  <2>1. Len(a) \in 0 .. Len(a)
    BY <1>1
  <2> QED  BY <2>1
<1> HIDE DEF w
<1>5. w[0] = f
  BY <1>1, <1>2, <1>3
<1>6. ASSUME NEW i \in 1 .. Len(a) PROVE w[i] = Shows(a[i], w[i - 1])
  <2>1. CASE i = Len(a)
    <3>1. i - 1 = Len(q) /\ Len(q) \in 0 .. Len(q) /\ a[i] = m
      BY <1>1, <2>1
    <3>2. w[i - 1] = g
      BY <1>2, <1>3, <3>1
    <3> QED  BY <1>4, <2>1, <3>1, <3>2
  <2>2. CASE i # Len(a)
    <3>1. i \in 1 .. Len(q) /\ i \in 0 .. Len(q) /\ i - 1 \in 0 .. Len(q) /\ a[i] = q[i]
      BY <1>1, <2>2
    <3>2. w[i] = v[i] /\ w[i - 1] = v[i - 1]
      BY <1>3, <3>1
    <3> QED  BY <1>2, <3>1, <3>2
  <2> QED  BY <2>1, <2>2
<1>7. Leads(a, f, Shows(m, g))
  BY <1>4, <1>5, <1>6 DEF Leads
<1> QED  BY <1>7 DEF a

\* RFB's account of a rectangle is what the client does with it.
LEMMA DrawnIsDecoded ==
    ASSUME NEW f, NEW r, r.t \in {"paint", "copy"}
    PROVE  Drawn(f, r) = Shows(r, f)
<1>1. Shows(r, f) = Decode(f, r)
  BY DEF Shows
<1>2. CASE r.t = "paint"
  BY <1>1, <1>2 DEF Drawn, Decode, Target, Blit
<1>3. CASE r.t = "copy"
  <2> DEFINE px == [c \in r.to |-> f.px[Source(c, r.d)]]
             new == [c \in DOMAIN f.px |-> IF c \in DOMAIN px THEN px[c] ELSE f.px[c]]
             old == [c \in DOMAIN f.px |->
                       IF c \notin Target(r) THEN f.px[c]
                       ELSE IF r.t = "paint" THEN r.px[c] ELSE f.px[Source(c, r.d)]]
  <2>1. new = old
    BY <1>3 DEF Target
  <2>2. Decode(f, r) = [f EXCEPT !.px = new]
    BY <1>3 DEF Decode, CopyRect, Blit
  <2>3. Drawn(f, r) = [f EXCEPT !.px = old]
    BY DEF Drawn
  <2> QED  BY <1>1, <2>1, <2>2, <2>3
<1> QED  BY <1>2, <1>3

LEMMA LeadsConcat ==
    ASSUME NEW S, NEW q \in Seq(S), NEW r \in Seq(S), NEW f, NEW g, NEW h,
           Leads(q, f, g), Leads(r, g, h)
    PROVE  Leads(q \o r, f, h)
<1> DEFINE a == q \o r
<1>1. /\ Len(q) \in Nat /\ Len(r) \in Nat /\ Len(a) = Len(q) + Len(r)
      /\ \A i \in 1 .. Len(q) : a[i] = q[i]
      /\ \A i \in 1 .. Len(r) : a[Len(q) + i] = r[i]
  <2>1. /\ Len(q) \in Nat /\ Len(r) \in Nat /\ Len(a) = Len(q) + Len(r)
        /\ \A i \in 1 .. Len(q) + Len(r) : a[i] = IF i <= Len(q) THEN q[i] ELSE r[i - Len(q)]
    BY ConcatProperties, LenProperties
  <2> HIDE DEF a
  <2>2. ASSUME NEW i \in 1 .. Len(r) PROVE a[Len(q) + i] = r[i]
    <3>1. Len(q) + i \in 1 .. Len(q) + Len(r) /\ ~(Len(q) + i <= Len(q))
          /\ (Len(q) + i) - Len(q) = i
      BY <2>1
    <3> QED  BY <2>1, <3>1
  <2>3. ASSUME NEW i \in 1 .. Len(q) PROVE a[i] = q[i]
    <3>1. i \in 1 .. Len(q) + Len(r) /\ i <= Len(q)
      BY <2>1
    <3> QED  BY <2>1, <3>1
  <2> QED  BY <2>1, <2>2, <2>3
<1> HIDE DEF a
<1>2. PICK v : /\ v[0] = f /\ v[Len(q)] = g
               /\ \A i \in 1 .. Len(q) : v[i] = Shows(q[i], v[i - 1])
  BY DEF Leads
<1>3. PICK w : /\ w[0] = g /\ w[Len(r)] = h
               /\ \A i \in 1 .. Len(r) : w[i] = Shows(r[i], w[i - 1])
  BY DEF Leads
<1> DEFINE z == [i \in 0 .. Len(a) |-> IF i <= Len(q) THEN v[i] ELSE w[i - Len(q)]]
<1>4. ASSUME NEW i \in 0 .. Len(q) PROVE z[i] = v[i]
  <2>1. i \in 0 .. Len(a) /\ i <= Len(q)
    BY <1>1
  <2> QED  BY <2>1
<1>5. ASSUME NEW i \in 0 .. Len(r) PROVE z[Len(q) + i] = w[i]
  <2>1. Len(q) + i \in 0 .. Len(a) /\ (Len(q) + i) - Len(q) = i /\ (Len(q) + i <= Len(q) <=> i = 0)
    BY <1>1
  <2>2. CASE i = 0
    <3>1. Len(q) \in 0 .. Len(q) /\ Len(q) + i = Len(q)
      BY <1>1, <2>2
    <3> QED  BY <1>2, <1>3, <1>4, <2>2, <3>1
  <2> QED  BY <2>1, <2>2
<1> HIDE DEF z
<1>6. z[0] = f /\ z[Len(a)] = h
  <2>1. 0 \in 0 .. Len(q) /\ Len(r) \in 0 .. Len(r)
    BY <1>1
  <2> QED  BY <1>1, <1>2, <1>3, <1>4, <1>5, <2>1
<1>7. ASSUME NEW k \in 1 .. Len(a) PROVE z[k] = Shows(a[k], z[k - 1])
  <2>1. CASE k <= Len(q)
    <3>1. k \in 1 .. Len(q) /\ k \in 0 .. Len(q) /\ k - 1 \in 0 .. Len(q)
      BY <1>1, <2>1
    <3>2. z[k] = v[k] /\ z[k - 1] = v[k - 1]
      BY <1>4, <3>1
    <3> QED  BY <1>1, <1>2, <3>1, <3>2
  <2>2. CASE ~(k <= Len(q))
    <3> DEFINE i == k - Len(q)
    <3>1. /\ i \in 1 .. Len(r) /\ i \in 0 .. Len(r) /\ i - 1 \in 0 .. Len(r)
          /\ k = Len(q) + i /\ k - 1 = Len(q) + (i - 1)
      BY <1>1, <2>2
    <3> HIDE DEF i
    <3>2. z[k] = w[i] /\ z[k - 1] = w[i - 1] /\ a[k] = r[i]
      BY <1>1, <1>5, <3>1
    <3> QED  BY <1>3, <3>1, <3>2
  <2> QED  BY <2>1, <2>2
<1>8. Leads(a, f, h)
  BY <1>6, <1>7 DEF Leads
<1> QED  BY <1>8 DEF a

LEMMA LeadsOne ==
    ASSUME NEW S, NEW m \in S, NEW f
    PROVE  <<m>> \in Seq(S) /\ Leads(<<m>>, f, Shows(m, f))
<1>1. <<>> \in Seq(S) /\ Append(<<>>, m) = <<m>>
  OBVIOUS
<1>2. Leads(<<>>, f, f)
  BY LeadsNone
<1>3. Leads(Append(<<>>, m), f, Shows(m, f))
  BY <1>1, <1>2, LeadsAppend
<1>4. <<m>> \in Seq(S)
  OBVIOUS
<1> QED  BY <1>1, <1>3, <1>4

\* An update on its way ends where its rectangles lead.
LEMMA UpdateLeads ==
    ASSUME TypeOK, Leads(toClient, fb, shadow), NEW rects \in Seq(Rectangle), SendUpdate(rects),
           NEW g, Leads(rects, shadow, g)
    PROVE  Leads(toClient', fb, g)
<1> DEFINE hdr == [t |-> "update", n |-> Len(rects)]
<1>1. /\ hdr \in ToClient /\ rects \in Seq(ToClient) /\ Append(toClient, hdr) \in Seq(ToClient)
      /\ toClient' = Append(toClient, hdr) \o rects /\ toClient \in Seq(ToClient)
  BY SendUpdateType DEF TypeOK
<1>2. Shows(hdr, shadow) = shadow
  BY DEF Shows
<1> HIDE DEF hdr
<1>3. Leads(Append(toClient, hdr), fb, shadow)
  BY <1>1, <1>2, LeadsAppend
<1> QED  BY <1>1, <1>3, LeadsConcat

LEMMA FollowingServer ==
    ASSUME TypeOK, StreamInv, Following, Serve \/ Answer \/ Environment
    PROVE  Following'
<1> SUFFICES ASSUME serverOpen' PROVE Leads(toClient', fb', shadow')
  BY DEF Following
<1>0. serverOpen /\ fb' = fb /\ Leads(toClient, fb, shadow) /\ toClient \in Seq(ToClient)
  BY DEF Serve, ServeRequest, ServeInput, Answer, Update, UpdateSize, Environment, Draw, Resize,
         SendNotice, CloseServer, Serving, workerVars, Following, TypeOK
<1>1. CASE Serve \/ Draw \/ Resize
  <2>1. UNCHANGED <<toClient, shadow>>
    BY <1>1 DEF Serve, ServeRequest, ServeInput, Draw, Resize, wireVars
  <2> QED  BY <1>0, <2>1
<1>2. CASE Update
  <2>1. shadow \in Framebuffers /\ screen \in Framebuffers /\ shadow.size = screen.size
    BY <1>2 DEF TypeOK, StreamInv, Update, Serving
  <2>2. PICK r1 \in Drawings(shadow) :
        \E rest \in {<<>>} \cup {<<r2>> : r2 \in Drawings(Drawn(shadow, r1))} :
            /\ shadow' = IF rest = <<>> THEN Drawn(shadow, r1) ELSE Drawn(Drawn(shadow, r1), rest[1])
            /\ SendUpdate(<<r1>> \o rest)
    BY <1>2 DEF Update
  <2> DEFINE once == Drawn(shadow, r1)
  <2>3. r1 \in Rectangle /\ r1.t \in {"paint", "copy"} /\ InBounds(r1, shadow.size)
    BY <2>1, DrawingsType
  <2>4. once \in Framebuffers /\ once.size = shadow.size /\ once = Shows(r1, shadow)
    BY <2>1, <2>3, DrawnType, DrawnIsDecoded
  <2> HIDE DEF once
  <2>5. <<r1>> \in Seq(Rectangle) /\ Leads(<<r1>>, shadow, once)
    BY <2>3, <2>4, LeadsOne
  <2>6. PICK rest \in {<<>>} \cup {<<r2>> : r2 \in Drawings(once)} :
            /\ shadow' = IF rest = <<>> THEN once ELSE Drawn(once, rest[1])
            /\ SendUpdate(<<r1>> \o rest)
    BY <2>2 DEF once
  <2>7. CASE rest = <<>>
    <3>1. <<r1>> \o <<>> = <<r1>>
      BY <2>5, ConcatEmptySeq
    <3>2. SendUpdate(<<r1>>) /\ shadow' = once
      BY <2>6, <2>7, <3>1
    <3> QED  BY <1>0, <2>5, <3>2, UpdateLeads
  <2>8. CASE rest \in {<<r2>> : r2 \in Drawings(once)}
    <3>1. PICK r2 \in Drawings(once) : rest = <<r2>>
      BY <2>8
    <3>2. rest # <<>> /\ rest[1] = r2
      BY <3>1
    <3>3. r2 \in Rectangle /\ r2.t \in {"paint", "copy"}
      BY <2>1, <2>4, DrawingsType
    <3>4. <<r2>> \in Seq(Rectangle) /\ Leads(<<r2>>, once, Shows(r2, once))
      BY <3>3, LeadsOne
    <3>5. shadow' = Shows(r2, once) /\ SendUpdate(<<r1>> \o <<r2>>)
      BY <2>6, <3>1, <3>2, <3>3, DrawnIsDecoded
    <3>6. <<r1>> \o <<r2>> \in Seq(Rectangle)
      BY <2>5, <3>4, ConcatProperties
    <3>7. Leads(<<r1>> \o <<r2>>, shadow, shadow')
      BY <2>5, <3>4, <3>5, LeadsConcat
    <3> QED  BY <1>0, <3>5, <3>6, <3>7, UpdateLeads
  <2> QED  BY <2>6, <2>7, <2>8
<1>3. CASE UpdateSize
  <2> DEFINE last == [t |-> "resize", size |-> screen.size]
  <2>1. PICK before \in {<<>>} \cup
              {<<r>> : r \in UNION {StalePaints(cs) : cs \in RectsOf(shadow.size)}} :
            SendUpdate(Append(before, last))
    BY <1>3 DEF UpdateSize
  <2>2. last \in Rectangle /\ \A g : Shows(last, g) = BlackFb(screen.size)
    BY FramebufferParts, MessageTypes DEF TypeOK, Shows
  <2> HIDE DEF last
  <2>3. before \in Seq(Rectangle) /\ \E g : Leads(before, shadow, g)
    <3>1. CASE before = <<>>
      BY <3>1, LeadsNone, EmptySeq
    <3>2. CASE before # <<>>
      <4>1. PICK cs \in RectsOf(shadow.size) : \E r \in StalePaints(cs) : before = <<r>>
        BY <2>1, <3>2
      <4>2. PICK r \in StalePaints(cs) : before = <<r>>
        BY <4>1
      <4>3. r \in Rectangle
        BY StalePaintsType DEF TypeOK
      <4>4. <<r>> \in Seq(Rectangle) /\ Leads(<<r>>, shadow, Shows(r, shadow))
        BY <4>3, LeadsOne
      <4> QED  BY <4>2, <4>4
    <3> QED  BY <3>1, <3>2
  <2>4. PICK g : Leads(before, shadow, g)
    BY <2>3
  <2>5. /\ Append(before, last) \in Seq(Rectangle)
        /\ Leads(Append(before, last), shadow, BlackFb(screen.size))
    <3>1. Leads(Append(before, last), shadow, Shows(last, g))
      BY <2>2, <2>3, <2>4, LeadsAppend
    <3> QED  BY <2>2, <2>3, <3>1, AppendProperties
  <2>6. shadow' = BlackFb(screen.size)
    BY <1>3 DEF UpdateSize
  <2> QED  BY <1>0, <2>1, <2>5, <2>6, UpdateLeads
<1>4. CASE SendNotice
  <2>1. shadow' = shadow
    BY <1>4 DEF SendNotice
  <2>2. ASSUME NEW t \in {"cursor", "undecodable"}, SendUpdate(<<[t |-> t]>>)
        PROVE  Leads(toClient', fb, shadow)
    <3> DEFINE r == [t |-> t]
    <3>1. r \in Rectangle /\ Shows(r, shadow) = shadow
      BY MessageTypes DEF Shows
    <3>2. SendUpdate(<<r>>)
      BY <2>2
    <3> HIDE DEF r
    <3>3. <<r>> \in Seq(Rectangle) /\ Leads(<<r>>, shadow, shadow)
      BY <3>1, LeadsOne
    <3> QED  BY <1>0, <3>2, <3>3, UpdateLeads
  <2>3. ASSUME NEW t \in {"cuttext", "bell", "undecodable"}, toClient' = Append(toClient, [t |-> t])
        PROVE  Leads(toClient', fb, shadow)
    <3> DEFINE m == [t |-> t]
    <3>1. m \in ToClient /\ Shows(m, shadow) = shadow
      BY MessageTypes DEF Shows
    <3>2. toClient' = Append(toClient, m)
      BY <2>3
    <3> HIDE DEF m
    <3>3. Leads(Append(toClient, m), fb, Shows(m, shadow))
      BY <1>0, <3>1, LeadsAppend
    <3> QED  BY <3>1, <3>2, <3>3
  <2> QED  BY <1>0, <1>4, <2>1, <2>2, <2>3 DEF SendNotice
<1>5. CASE CloseServer
  BY <1>5 DEF CloseServer
<1> QED  BY <1>1, <1>2, <1>3, <1>4, <1>5 DEF Serve, Answer, Environment

\* What the background thread reads it does to its framebuffer.
LEMMA FollowingTaken ==
    ASSUME TypeOK, Following, toClient # <<>>, toClient' = Tail(toClient),
           fb' = Shows(Head(toClient), fb), UNCHANGED serverVars
    PROVE  Following'
<1> SUFFICES ASSUME serverOpen' PROVE Leads(toClient', fb', shadow')
  BY DEF Following
<1>1. serverOpen /\ shadow' = shadow /\ toClient \in Seq(ToClient)
  BY DEF serverVars, TypeOK
<1>2. Leads(Tail(toClient), Shows(Head(toClient), fb), shadow)
  BY <1>1, LeadsTail DEF Following
<1> QED  BY <1>1, <1>2

LEMMA FollowingStep ==
    ASSUME TypeOK, StreamInv, Following, Next
    PROVE  Following'
<1> USE DEF uiVars, chanVars, workerVars, wireVars
<1>1. CASE ServerInit
  <2>1. /\ toClient # <<>> /\ toClient' = Tail(toClient) /\ UNCHANGED serverVars
        /\ Head(toClient).t = "init" /\ fb' = BlackFb(Head(toClient).size)
    BY <1>1 DEF ServerInit, Arrived
  <2>2. fb' = Shows(Head(toClient), fb)
    BY <2>1 DEF Shows
  <2> QED  BY <2>1, <2>2, FollowingTaken
<1>2. CASE UpdateResize
  <2>1. /\ toClient # <<>> /\ toClient' = Tail(toClient) /\ UNCHANGED serverVars
        /\ Head(toClient).t = "resize" /\ fb' = BlackFb(Head(toClient).size)
    BY <1>2 DEF UpdateResize, Arrived, Resized
  <2>2. fb' = Shows(Head(toClient), fb)
    BY <2>1 DEF Shows
  <2> QED  BY <2>1, <2>2, FollowingTaken
<1>3. CASE UpdateDraw
  <2>1. /\ toClient # <<>> /\ toClient' = Tail(toClient) /\ UNCHANGED serverVars
        /\ Head(toClient).t \in {"paint", "copy"} /\ fb' = Decode(fb, Head(toClient))
    BY <1>3 DEF UpdateDraw, Arrived
  <2>2. fb' = Shows(Head(toClient), fb)
    BY <2>1 DEF Shows
  <2> QED  BY <2>1, <2>2, FollowingTaken
<1>4. CASE UpdateStart \/ ReadNotice \/ ReadUndecodable \/ UpdateCursor
  <2>1. /\ toClient # <<>> /\ toClient' = Tail(toClient) /\ UNCHANGED serverVars
        /\ Head(toClient).t \in {"update", "cuttext", "bell", "undecodable", "cursor"} /\ fb' = fb
    BY <1>4 DEF UpdateStart, ReadNotice, ReadUndecodable, UpdateCursor, Arrived
  <2>2. fb' = Shows(Head(toClient), fb)
    BY <2>1 DEF Shows
  <2> QED  BY <2>1, <2>2, FollowingTaken
<1>5. CASE \/ DrainInput \/ DrainDisconnect \/ DrainEnd \/ ReadTimeout \/ ReadEof \/ UpdateEnd
           \/ Frame \/ User
  <2>1. UNCHANGED <<toClient, fb, serverOpen, shadow>>
    BY <1>5 DEF DrainInput, DrainDisconnect, DrainEnd, ReadTimeout, ReadEof, UpdateEnd, Frame, User,
                HandleSize, HandleRects, HandleNotice, HandleEnd, UserInput, UserDisconnect, serverVars
  <2> QED  BY <2>1 DEF Following
<1>6. CASE Serve \/ Answer \/ Environment
  BY <1>6, FollowingServer
<1> QED  BY <1>1, <1>2, <1>3, <1>4, <1>5, <1>6 DEF Next, Worker, Read

LEMMA FollowingInit == Init => Following
<1> SUFFICES ASSUME Init PROVE Leads(toClient, fb, shadow)
  BY DEF Following
<1>1. PICK s \in Sizes : /\ toClient = <<[t |-> "init", size |-> s]>>
                         /\ fb = BlackFb(s) /\ shadow = BlackFb(s)
  BY DEF Init
<1> DEFINE m == [t |-> "init", size |-> s]
<1>2. Shows(m, fb) = shadow /\ m \in ToClient /\ toClient = <<m>>
  BY <1>1, MessageTypes DEF Shows
<1> HIDE DEF m
<1> QED  BY <1>2, LeadsOne

-------------------------------------------------------------------------------
(* What the window shows when it has taken the events.                     *)

\* An event of an update shows the colour x at the cell c, if it shows c at all.
Agrees(m, c, x) ==
    /\ m.t # "size"
    /\ m.t = "rects" => \A k \in 1 .. Len(m.rects) : c \in DOMAIN m.rects[k] => m.rects[k][c] = x
Covers(m, c) == m.t = "rects" /\ \E k \in 1 .. Len(m.rects) : c \in DOMAIN m.rects[k]
Has(tex, c, x) == tex # None /\ c \in DOMAIN tex[1].px /\ tex[1].px[c] = x

\* The colour is in the texture or in an event, and no later event takes it away.
OnItsWay(q, tex, c, x) ==
    \E i \in 0 .. Len(q) :
        /\ IF i = 0 THEN Has(tex, c, x) ELSE Covers(q[i], c)
        /\ \A j \in 1 .. Len(q) : j >= i => Agrees(q[j], c, x)

\* What is in the framebuffer, and not in a rectangle the thread has yet to tell
\* of, is on its way to the window.
Settled ==
    connection /\ pc \in {"drain", "read", "rects"} =>
        \A c \in Cells(fb.size) :
            fb.px[c] # Black /\ (\A k \in 1 .. Len(dirty) : c \notin dirty[k]) =>
                OnItsWay(events, texture, c, fb.px[c])

\* Between updates it has told of all.
Clean == pc \in {"serverinit", "drain", "read"} => dirty = <<>>

LEMMA OnTail ==
    ASSUME NEW S, NEW q \in Seq(S), q # <<>>, NEW tex, NEW new, NEW c, NEW x,
           OnItsWay(q, tex, c, x),
           Agrees(Head(q), c, x) /\ (Has(tex, c, x) \/ Covers(Head(q), c)) => Has(new, c, x)
    PROVE  OnItsWay(Tail(q), new, c, x)
<1> DEFINE t == Tail(q)
<1>1. /\ Len(q) \in Nat /\ Len(q) >= 1 /\ Head(q) = q[1] /\ Len(t) = Len(q) - 1
      /\ \A k \in 1 .. Len(q) - 1 : t[k] = q[k + 1]
  BY EmptySeq, LenProperties, HeadTailProperties
<1> HIDE DEF t
<1>2. PICK i \in 0 .. Len(q) :
          /\ IF i = 0 THEN Has(tex, c, x) ELSE Covers(q[i], c)
          /\ \A j \in 1 .. Len(q) : j >= i => Agrees(q[j], c, x)
  BY DEF OnItsWay
<1>3. ASSUME NEW j \in 1 .. Len(t), j + 1 >= i PROVE Agrees(t[j], c, x)
  <2>1. j + 1 \in 1 .. Len(q) /\ t[j] = q[j + 1]
    BY <1>1
  <2> QED  BY <1>2, <1>3, <2>1
<1>4. CASE i \in {0, 1}
  <2>1. Agrees(q[1], c, x)
    BY <1>1, <1>2, <1>4
  <2>2. Has(tex, c, x) \/ Covers(q[1], c)
    BY <1>2, <1>4
  <2>3. Has(new, c, x)
    BY <1>1, <2>1, <2>2
  <2>4. \A j \in 1 .. Len(t) : Agrees(t[j], c, x)
    BY <1>1, <1>3, <1>4
  <2>5. 0 \in 0 .. Len(t)
    BY <1>1
  <2>6. OnItsWay(t, new, c, x)
    BY <2>3, <2>4, <2>5 DEF OnItsWay
  <2> QED  BY <2>6 DEF t
<1>5. CASE i \notin {0, 1}
  <2>1. i - 1 \in 0 .. Len(t) /\ i - 1 # 0 /\ t[i - 1] = q[i]
    <3>1. i - 1 \in 1 .. Len(q) - 1 /\ (i - 1) + 1 = i
      BY <1>1, <1>5
    <3> QED  BY <1>1, <3>1
  <2>2. Covers(t[i - 1], c)
    BY <1>2, <1>5, <2>1
  <2>3. ASSUME NEW j \in 1 .. Len(t), j >= i - 1 PROVE Agrees(t[j], c, x)
    <3>1. j + 1 >= i
      BY <1>1, <2>3
    <3> QED  BY <1>3, <3>1
  <2>4. OnItsWay(t, new, c, x)
    BY <2>1, <2>2, <2>3 DEF OnItsWay
  <2> QED  BY <2>4 DEF t
<1> QED  BY <1>4, <1>5

LEMMA OnAppend ==
    ASSUME NEW S, NEW q \in Seq(S), NEW m \in S, NEW tex, NEW c, NEW x,
           Agrees(m, c, x), OnItsWay(q, tex, c, x) \/ Covers(m, c)
    PROVE  OnItsWay(Append(q, m), tex, c, x)
<1> DEFINE a == Append(q, m)
<1>1. /\ Len(q) \in Nat /\ Len(a) = Len(q) + 1 /\ a[Len(q) + 1] = m
      /\ \A k \in 1 .. Len(q) : a[k] = q[k]
  BY AppendProperties, LenProperties
<1> HIDE DEF a
<1>2. CASE Covers(m, c)
  <2>1. Len(a) \in 0 .. Len(a) /\ Len(a) # 0 /\ a[Len(a)] = m
    BY <1>1
  <2>2. ASSUME NEW j \in 1 .. Len(a), j >= Len(a) PROVE Agrees(a[j], c, x)
    <3>1. j = Len(a)
      BY <1>1, <2>2
    <3> QED  BY <2>1, <3>1
  <2>3. OnItsWay(a, tex, c, x)
    BY <1>2, <2>1, <2>2 DEF OnItsWay
  <2> QED  BY <2>3 DEF a
<1>3. CASE OnItsWay(q, tex, c, x)
  <2>1. PICK i \in 0 .. Len(q) :
            /\ IF i = 0 THEN Has(tex, c, x) ELSE Covers(q[i], c)
            /\ \A j \in 1 .. Len(q) : j >= i => Agrees(q[j], c, x)
    BY <1>3 DEF OnItsWay
  <2>2. i \in 0 .. Len(a) /\ (i # 0 => a[i] = q[i])
    BY <1>1
  <2>3. ASSUME NEW j \in 1 .. Len(a), j >= i PROVE Agrees(a[j], c, x)
    <3>1. j \in 1 .. Len(q) \/ j = Len(q) + 1
      BY <1>1
    <3> QED  BY <1>1, <2>1, <2>3, <3>1
  <2>4. IF i = 0 THEN Has(tex, c, x) ELSE Covers(a[i], c)
    BY <2>1, <2>2
  <2>5. OnItsWay(a, tex, c, x)
    BY <2>2, <2>3, <2>4 DEF OnItsWay
  <2> QED  BY <2>5 DEF a
<1> QED  BY <1>2, <1>3

\* A set of indices has a largest one.
LEMMA Largest ==
    ASSUME NEW n \in Nat, NEW found \in SUBSET (1 .. n), found # {}
    PROVE  \E i \in found : \A j \in found : j <= i
<1> DEFINE LessThan == OpToRel(<, Nat)
           above == {n - i : i \in found}
<1>1. LessThan = {z \in Nat \X Nat : z[1] < z[2]}
  BY DEF OpToRel
<1>2. IsWellFoundedOn(LessThan, Nat)
  BY NatLessThanWellFounded, Zenon DEF LessThan
<1>3. above \subseteq Nat /\ above # {}
  <2>1. \A i \in found : n - i \in Nat
    OBVIOUS
  <2>2. PICK i \in found : TRUE
    OBVIOUS
  <2>3. n - i \in above
    OBVIOUS
  <2> QED  BY <2>1, <2>3
<1> HIDE DEF LessThan, above
<1>4. PICK k \in above : \A j \in above : ~ (<<j, k>> \in LessThan)
  BY <1>2, <1>3, WFMin
<1>5. PICK i \in found : k = n - i
  BY <1>4 DEF above
<1>6. ASSUME NEW j \in found PROVE j <= i
  <2>1. n - j \in above /\ n - j \in Nat /\ n - i \in Nat
    BY DEF above
  <2>2. ~(n - j < n - i)
    BY <1>1, <1>4, <1>5, <2>1
  <2> QED  BY <2>2
<1> QED  BY <1>6

\* Painting the rectangles of an event, all of which fit, shows the colour they
\* agree on.
LEMMA PaintedHas ==
    ASSUME NEW f \in Framebuffers, f.size = uiSize,
           NEW m \in Event, m.t = "rects", InBounds(m, uiSize), NEW c, NEW x,
           Agrees(m, c, x), Has(<<f>>, c, x) \/ Covers(m, c)
    PROVE  Has(<<Painted(f, m.rects)>>, c, x)
<1> DEFINE rects == m.rects
<1>a. rects \in Seq(Images) /\ DOMAIN f.px = Cells(uiSize)
  BY MessageParts, FramebufferParts
<1>b. \A k \in 1 .. Len(rects) : DOMAIN rects[k] \subseteq Cells(uiSize)
  BY DEF InBounds
<1>c. \A k \in 1 .. Len(rects) : c \in DOMAIN rects[k] => rects[k][c] = x
  BY DEF Agrees
<1>d. f.px[c] = x \/ \E k \in 1 .. Len(rects) : c \in DOMAIN rects[k]
  BY DEF Has, Covers
<1>e. c \in DOMAIN f.px
  BY <1>a, <1>b DEF Has, Covers
<1> HIDE DEF rects
<1> DEFINE px == [d \in {e \in DOMAIN f.px : Topmost(rects, e) # {}} |->
                     rects[CHOOSE i \in Topmost(rects, d) : TRUE][d]]
           new == [d \in DOMAIN f.px |-> IF d \in DOMAIN px THEN px[d] ELSE f.px[d]]
<1>1. Painted(f, rects).px = new
  <2>1. PICK s \in Sizes : \E p \in [Cells(s) -> Pixel] : f = [size |-> s, px |-> p]
    BY FramebufferType
  <2>2. Painted(f, rects) = [f EXCEPT !.px = new]
    BY DEF Painted, Blit
  <2> HIDE DEF new
  <2> QED  BY <2>1, <2>2
<1>2. new[c] = x
  <2>1. CASE Topmost(rects, c) # {}
    <3>1. PICK i \in Topmost(rects, c) : i = CHOOSE k \in Topmost(rects, c) : TRUE
      BY <2>1
    <3>2. i \in 1 .. Len(rects) /\ c \in DOMAIN rects[i]
      BY DEF Topmost, Shown
    <3>3. c \in DOMAIN px /\ px[c] = rects[i][c]
      BY <1>e, <2>1, <3>1
    <3> QED  BY <1>c, <1>e, <3>2, <3>3
  <2>2. CASE Topmost(rects, c) = {}
    <3>1. Len(rects) \in Nat /\ Shown(rects, c) \in SUBSET (1 .. Len(rects))
      BY <1>a, LenProperties DEF Shown
    <3>2. Shown(rects, c) = {}
      BY <2>2, <3>1, Largest DEF Topmost
    <3>3. \A k \in 1 .. Len(rects) : c \notin DOMAIN rects[k]
      BY <1>b, <3>2 DEF Shown, Fits
    <3>4. c \notin DOMAIN px
      BY <2>2
    <3> QED  BY <1>d, <1>e, <3>3, <3>4
  <2> QED  BY <2>1, <2>2
<1> QED  BY <1>1, <1>2, <1>e DEF Has, None, rects

\* Decoding a rectangle leaves the cells outside it alone.
LEMMA DecodeElsewhere ==
    ASSUME NEW f \in Framebuffers, NEW r, r.t \in {"paint", "copy"}, NEW c \in Cells(f.size),
           c \notin Target(r)
    PROVE  Decode(f, r).px[c] = f.px[c]
<1> DEFINE px == IF r.t = "paint" THEN r.px ELSE [d \in r.to |-> f.px[Source(d, r.d)]]
           new == [d \in DOMAIN f.px |-> IF d \in DOMAIN px THEN px[d] ELSE f.px[d]]
<1>1. Decode(f, r) = [f EXCEPT !.px = new]
  BY DEF Decode, CopyRect, Blit
<1>2. DOMAIN px = Target(r)
  BY DEF Target
<1> HIDE DEF px
<1>3. new[c] = f.px[c]
  BY <1>2, FramebufferParts
<1> HIDE DEF new
<1>4. PICK s \in Sizes : \E p \in [Cells(s) -> Pixel] : f = [size |-> s, px |-> p]
  BY FramebufferType
<1> QED  BY <1>1, <1>3, <1>4

\* A black framebuffer has nothing to show.
LEMMA SettledBlack ==
    ASSUME NEW s, fb' = BlackFb(s)
    PROVE  Settled'
BY DEF Settled, BlackFb

\* A step that does not touch the cell c keeps it on its way.
LEMMA SettledKept ==
    ASSUME Settled, UNCHANGED <<connection, texture, events, fb, dirty>>,
           connection /\ pc' \in {"drain", "read", "rects"} => pc \in {"drain", "read", "rects"}
    PROVE  Settled'
BY DEF Settled

LEMMA SettledWorker ==
    ASSUME TypeOK, StreamInv, Settled, Clean, Worker
    PROVE  Settled' /\ Clean'
<1>a. UNCHANGED <<connection, texture, uiSize>>
  BY DEF Worker, Read, ServerInit, DrainInput, DrainDisconnect, DrainEnd, ReadTimeout, ReadEof,
         ReadNotice, ReadUndecodable, UpdateStart, UpdateDraw, UpdateResize,
         UpdateCursor, UpdateEnd, uiVars
<1>b. events \in Seq(Event) /\ events \o <<>> = events
  BY ConcatEmptySeq DEF TypeOK
\* The thread ends.
<1>c. ASSUME NEW evs, \E o \in Outcomes : FinishAfter(evs, o) PROVE Settled' /\ Clean'
  <2>1. pc' \notin {"serverinit", "drain", "read", "rects"}
    BY <1>c DEF FinishAfter, Outcomes
  <2> QED  BY <2>1 DEF Settled, Clean
\* The thread sends an event that shows nothing else.
<1>d. ASSUME NEW m \in Event, Emit(<<m>>), UNCHANGED fb, connection => pc \in {"drain", "read", "rects"},
             \A c \in Cells(fb.size) : Agrees(m, c, fb.px[c]),
             \A c \in Cells(fb.size) : (\E k \in 1 .. Len(dirty) : c \in dirty[k]) =>
                 Covers(m, c) \/ \E k \in 1 .. Len(dirty') : c \in dirty'[k]
      PROVE  Settled'
  <2> SUFFICES ASSUME connection, NEW c \in Cells(fb.size), fb.px[c] # Black,
                      \A k \in 1 .. Len(dirty') : c \notin dirty'[k]
               PROVE  OnItsWay(events', texture, c, fb.px[c])
    BY <1>a, <1>d DEF Settled
  <2>1. events' = Append(events, m)
    BY <1>b, <1>d, AppendIsConcat DEF Emit, Emitted
  <2>2. OnItsWay(events, texture, c, fb.px[c]) \/ Covers(m, c)
    BY <1>d DEF Settled
  <2>3. Agrees(m, c, fb.px[c])
    BY <1>d
  <2> HIDE DEF Settled
  <2> QED  BY <1>b, <2>1, <2>2, <2>3, OnAppend
<1>1. CASE ServerInit
  <2>1. fb' = BlackFb(Head(toClient).size) /\ dirty' = dirty /\ dirty = <<>>
    BY <1>1 DEF ServerInit, Clean
  <2> QED  BY <2>1, SettledBlack DEF Clean
<1>2. CASE DrainInput
  <2>1. \/ UNCHANGED <<pc, events>>
        \/ FinishAfter(<<>>, "error")
    BY <1>2 DEF DrainInput, WriteFailsAfter
  <2>2. UNCHANGED <<fb, dirty>>
    BY <1>2 DEF DrainInput
  <2>3. CASE UNCHANGED <<pc, events>>
    BY <1>a, <2>2, <2>3, SettledKept DEF Clean
  <2> QED  BY <1>c, <2>1, <2>3 DEF Outcomes
<1>3. CASE DrainDisconnect
  BY <1>3, <1>c DEF DrainDisconnect, Finish, Outcomes
<1>4. CASE DrainEnd \/ ReadTimeout
  <2>1. UNCHANGED <<events, fb, dirty>> /\ pc \in {"drain", "read"}
    BY <1>4 DEF DrainEnd, ReadTimeout, chanVars
  <2> QED  BY <1>a, <2>1, SettledKept DEF Clean
<1>5. CASE ReadEof
  BY <1>5, <1>c DEF ReadEof, Finish, Outcomes
<1>6. CASE ReadUndecodable
  BY <1>6, <1>c DEF ReadUndecodable, Finish, Outcomes
<1>7. CASE UpdateStart
  <2>1. UNCHANGED <<events, fb>> /\ pc = "read" /\ dirty' = <<>> /\ dirty = <<>> /\ pc' = "rects"
    BY <1>7 DEF UpdateStart, chanVars, Clean
  <2> QED  BY <1>a, <2>1, SettledKept DEF Clean
<1>8. CASE UpdateCursor
  <2>1. UNCHANGED <<events, fb, dirty>> /\ pc = "rects" /\ pc' = "rects"
    BY <1>8 DEF UpdateCursor, chanVars
  <2> QED  BY <1>a, <2>1, SettledKept DEF Clean
<1>9. CASE ReadNotice
  <2>1. pc = "read" /\ pc' = "drain" /\ UNCHANGED <<fb, dirty>> /\ dirty = <<>>
        /\ Emit(IF Arrived("cuttext") THEN <<[t |-> "cliptext"]>> ELSE <<>>)
    BY <1>9 DEF ReadNotice, Clean
  <2>2. CASE Arrived("cuttext")
    <3> DEFINE m == [t |-> "cliptext"]
    <3>1. m \in Event /\ \A c \in Cells(fb.size) : Agrees(m, c, fb.px[c])
      BY MessageTypes DEF Agrees
    <3>2. Emit(<<m>>)
      BY <2>1, <2>2
    <3> HIDE DEF m
    <3>3. 1 .. Len(dirty) = {}
      BY <2>1, EmptySeq
    <3>4. Settled'
      BY <1>d, <2>1, <3>1, <3>2, <3>3
    <3> QED  BY <2>1, <3>4 DEF Clean
  <2>3. CASE ~Arrived("cuttext")
    <3>1. UNCHANGED events
      BY <1>b, <2>1, <2>3 DEF Emit, Emitted
    <3> QED  BY <1>a, <2>1, <3>1, SettledKept DEF Clean
  <2> QED  BY <2>2, <2>3
<1>10. CASE UpdateDraw
  <2> DEFINE r == Head(toClient)
  <2>1. /\ toClient # <<>> /\ r \in Rectangle /\ r.t \in {"paint", "copy"} /\ InBounds(r, fb.size)
    BY <1>10, ArrivedHead, MessageParts DEF UpdateDraw, Arrived
  <2>2. /\ pc = "rects" /\ pc' = "rects" /\ UNCHANGED events
        /\ fb' = Decode(fb, r) /\ dirty' = Append(dirty, Target(r))
    BY <1>10 DEF UpdateDraw, chanVars
  <2> HIDE DEF r
  <2>3. fb'.size = fb.size /\ Target(r) \in SUBSET AllCells
    BY <2>1, <2>2, DecodeType DEF TypeOK
  <2>4. /\ Len(dirty) \in Nat /\ Len(dirty') = Len(dirty) + 1 /\ dirty'[Len(dirty) + 1] = Target(r)
        /\ \A k \in 1 .. Len(dirty) : dirty'[k] = dirty[k]
    BY <2>2, <2>3, AppendProperties, LenProperties DEF TypeOK
  <2>5. ASSUME NEW c \in Cells(fb.size), \A k \in 1 .. Len(dirty') : c \notin dirty'[k]
        PROVE  fb'.px[c] = fb.px[c] /\ \A k \in 1 .. Len(dirty) : c \notin dirty[k]
    <3>1. c \notin Target(r)
      <4>1. Len(dirty) + 1 \in 1 .. Len(dirty')
        BY <2>4
      <4> QED  BY <2>4, <2>5, <4>1
    <3>2. Decode(fb, r).px[c] = fb.px[c]
      BY <2>1, <3>1, DecodeElsewhere DEF TypeOK
    <3>3. \A k \in 1 .. Len(dirty) : c \notin dirty[k]
      BY <2>4, <2>5
    <3> QED  BY <2>2, <3>2, <3>3
  <2>6. Settled'
    <3> SUFFICES ASSUME connection, NEW c \in Cells(fb.size), fb'.px[c] # Black,
                        \A k \in 1 .. Len(dirty') : c \notin dirty'[k]
                 PROVE  OnItsWay(events, texture, c, fb'.px[c])
      BY <1>a, <2>2, <2>3 DEF Settled
    <3>1. fb'.px[c] = fb.px[c] /\ \A k \in 1 .. Len(dirty) : c \notin dirty[k]
      BY <2>5
    <3> QED  BY <2>2, <3>1 DEF Settled
  <2> QED  BY <2>2, <2>6 DEF Clean
<1>11. CASE UpdateResize
  <2>1. fb' = BlackFb(Head(toClient).size)
    BY <1>11 DEF UpdateResize, Resized
  <2>2. pc' = "rects" \/ pc' = "error"
    BY <1>11 DEF UpdateResize, WriteFailsAfter, FinishAfter
  <2> QED  BY <2>1, <2>2, SettledBlack DEF Clean
<1>12. CASE UpdateEnd
  <2>1. /\ pc = "rects" /\ UNCHANGED fb /\ dirty' = <<>>
        /\ \/ Emit(RectsEvent) /\ pc' = "drain"
           \/ FinishAfter(RectsEvent, "error")
    BY <1>12 DEF UpdateEnd, WriteFailsAfter
  <2>2. CASE Emit(RectsEvent) /\ dirty = <<>>
    <3>1. RectsEvent = <<>>
      BY <2>2 DEF RectsEvent
    <3>2. UNCHANGED events
      BY <1>b, <2>2, <3>1 DEF Emit, Emitted
    <3> QED  BY <1>a, <2>1, <2>2, <3>2, SettledKept DEF Clean
  <2>3. CASE Emit(RectsEvent) /\ dirty # <<>>
    <3> DEFINE m == [t |-> "rects", rects |-> DirtyRects]
    <3>1. /\ Len(DirtyRects) = Len(dirty)
          /\ \A k \in 1 .. Len(dirty) : DirtyRects[k] = SubRgba(fb, dirty[k])
      BY LenProperties DEF DirtyRects, TypeOK
    <3>2. \A k \in 1 .. Len(dirty) : SubRgba(fb, dirty[k]) \in Images
      BY SubRgbaType DEF TypeOK
    <3>3. DirtyRects \in Seq(Images)
      BY <3>2, LenProperties DEF DirtyRects, TypeOK
    <3>4. m \in Event /\ m.t = "rects" /\ m.rects = DirtyRects
      BY <3>3 DEF Event
    <3>5. Emit(<<m>>)
      BY <2>3 DEF RectsEvent
    <3>6. DOMAIN fb.px = Cells(fb.size)
      BY FramebufferParts DEF TypeOK
    <3> HIDE DEF m
    <3>a. \A k \in 1 .. Len(dirty) :
              /\ DOMAIN DirtyRects[k] = dirty[k] \cap DOMAIN fb.px
              /\ \A c \in DOMAIN DirtyRects[k] : DirtyRects[k][c] = fb.px[c]
      <4>1. \A cells : /\ DOMAIN SubRgba(fb, cells) = cells \cap DOMAIN fb.px
                       /\ \A c \in DOMAIN SubRgba(fb, cells) : SubRgba(fb, cells)[c] = fb.px[c]
        BY DEF SubRgba
      <4> TAKE k \in 1 .. Len(dirty)
      <4>2. DirtyRects[k] = SubRgba(fb, dirty[k])
        BY <3>1
      <4> QED  BY <4>1, <4>2, Zenon
    <3>7. \A c \in Cells(fb.size) : Agrees(m, c, fb.px[c])
      BY <3>1, <3>4, <3>a DEF Agrees
    <3>8. ASSUME NEW c \in Cells(fb.size), \E k \in 1 .. Len(dirty) : c \in dirty[k]
          PROVE  Covers(m, c)
      <4>1. PICK k \in 1 .. Len(dirty) : c \in dirty[k]
        BY <3>8
      <4>2. c \in DOMAIN DirtyRects[k]
        BY <3>a, <3>6, <4>1
      <4> QED  BY <3>1, <3>4, <4>2 DEF Covers
    <3>9. Settled'
      BY <1>d, <2>1, <3>4, <3>5, <3>7, <3>8
    <3> QED  BY <2>1, <3>9 DEF Clean
  <2> QED  BY <1>c, <2>1, <2>2, <2>3 DEF Outcomes
<1> QED  BY <1>1, <1>2, <1>3, <1>4, <1>5, <1>6, <1>7, <1>8, <1>9, <1>10, <1>11, <1>12 DEF Worker, Read

\* The window takes an event.
LEMMA SettledTaken ==
    ASSUME TypeOK, Settled, events # <<>>, events' = Tail(events), UNCHANGED <<connection, workerVars>>,
           \A c \in Cells(fb.size) :
               /\ Agrees(Head(events), c, fb.px[c])
               /\ Has(texture, c, fb.px[c]) \/ Covers(Head(events), c)
               => Has(texture', c, fb.px[c])
    PROVE  Settled'
<1> SUFFICES ASSUME connection, pc \in {"drain", "read", "rects"},
                    NEW c \in Cells(fb.size), fb.px[c] # Black,
                    \A k \in 1 .. Len(dirty) : c \notin dirty[k]
             PROVE  OnItsWay(Tail(events), texture', c, fb.px[c])
  BY DEF Settled, workerVars
<1>1. OnItsWay(events, texture, c, fb.px[c])
  BY DEF Settled
<1>2. events \in Seq(Event)
  BY DEF TypeOK
<1>3. /\ Agrees(Head(events), c, fb.px[c])
      /\ Has(texture, c, fb.px[c]) \/ Covers(Head(events), c)
      => Has(texture', c, fb.px[c])
  OBVIOUS
<1> QED  BY <1>1, <1>2, <1>3, OnTail

LEMMA SettledStep ==
    ASSUME Inv, Settled, Clean, Next
    PROVE  Settled' /\ Clean'
<1>a. TypeOK /\ StreamInv /\ EventsInv
  BY DEF Inv
<1>b. events # <<>> => /\ Head(events) \in Event
                       /\ InBounds(Head(events), uiSize)
                       /\ texture = None => Head(events).t \in {"size"} \cup Outcomes
  BY <1>a, BoundedHead, HeadTailProperties DEF TypeOK, EventsInv
<1>1. CASE Worker
  BY <1>1, <1>a, SettledWorker
<1>2. CASE HandleSize
  <2>1. /\ events # <<>> /\ Head(events).t = "size" /\ events' = Tail(events)
        /\ UNCHANGED <<connection, workerVars>>
    BY <1>2 DEF HandleSize
  <2>2. \A c : ~Agrees(Head(events), c, fb.px[c])
    BY <2>1 DEF Agrees
  <2>3. Settled'
    BY <1>a, <2>1, <2>2, SettledTaken
  <2> QED  BY <2>1, <2>3 DEF Clean, workerVars
<1>3. CASE HandleRects
  <2> DEFINE rects == Head(events).rects
  <2>1. /\ events # <<>> /\ Head(events).t = "rects" /\ events' = Tail(events)
        /\ rects \in Seq(Images) /\ UNCHANGED <<connection, workerVars, uiSize>>
        /\ texture # None /\ texture' = <<Painted(texture[1], rects)>>
    BY <1>3, <1>b, MessageParts DEF HandleRects, Outcomes
  <2>2. texture[1] \in Framebuffers /\ texture[1].size = uiSize
    BY <2>1, <1>a, TextureType DEF Inv, TextureFits
  <2>3. ASSUME NEW c \in Cells(fb.size), Agrees(Head(events), c, fb.px[c]),
               Has(texture, c, fb.px[c]) \/ Covers(Head(events), c)
        PROVE  Has(texture', c, fb.px[c])
    <3>1. Has(<<texture[1]>>, c, fb.px[c]) \/ Covers(Head(events), c)
      BY <2>3 DEF Has, None
    <3> HIDE DEF rects
    <3>2. Has(<<Painted(texture[1], Head(events).rects)>>, c, fb.px[c])
      BY <1>b, <2>1, <2>2, <2>3, <3>1, PaintedHas
    <3> QED  BY <2>1, <3>2 DEF rects
  <2>4. Settled'
    BY <1>a, <2>1, <2>3, SettledTaken
  <2> QED  BY <2>1, <2>4 DEF Clean, workerVars
<1>4. CASE HandleNotice
  <2>1. /\ events # <<>> /\ Head(events).t \in {"name", "cliptext"} /\ events' = Tail(events)
        /\ UNCHANGED <<connection, texture, workerVars>>
    BY <1>4 DEF HandleNotice, uiVars
  <2>2. \A c : ~Covers(Head(events), c)
    BY <2>1 DEF Covers
  <2>3. Settled'
    BY <1>a, <2>1, <2>2, SettledTaken DEF Has
  <2> QED  BY <2>1, <2>3 DEF Clean, workerVars
<1>5. CASE HandleEnd \/ UserDisconnect
  <2>1. ~connection' /\ UNCHANGED workerVars
    BY <1>5 DEF HandleEnd, UserDisconnect
  <2> QED  BY <2>1 DEF Settled, Clean, workerVars
<1>6. CASE UserInput \/ Serve \/ Answer \/ Environment
  <2>1. UNCHANGED <<connection, texture, events, workerVars>>
    BY <1>6 DEF UserInput, Serve, Answer, Environment, ServeRequest, ServeInput, Update, UpdateSize,
                Draw, Resize, SendNotice, CloseServer, uiVars, chanVars
  <2> QED  BY <2>1, SettledKept DEF Clean, workerVars
<1> QED  BY <1>1, <1>2, <1>3, <1>4, <1>5, <1>6 DEF Next, Frame, User

\* With both queues empty, what follows and what is settled meet in the texture.
LEMMA ShownWhenSettled ==
    ASSUME Inv, Following, Settled, Clean
    PROVE  ShownAsSent
<1> SUFFICES ASSUME connection, events = <<>>, serverOpen, toClient = <<>>, pc \in {"drain", "read"}
             PROVE  /\ texture # None /\ texture[1].size = shadow.size
                    /\ \A c \in Cells(shadow.size) :
                          shadow.px[c] # Black => texture[1].px[c] = shadow.px[c]
  BY DEF ShownAsSent
<1>1. fb = shadow
  BY LeadsNone DEF Following
<1>2. texture # None /\ texture[1].size = uiSize
  BY DEF Inv, EventsInv, TextureFits
<1>3. uiSize = fb.size
  <2>1. Len(events) = 0 /\ EndsIn(events, uiSize, fb.size)
    BY EmptySeq DEF Inv, EventsInv
  <2>2. Governs(events, 0, 1)
    BY DEF Governs
  <2> QED  BY <2>1, <2>2 DEF EndsIn, SizeAt
<1>4. ASSUME NEW c \in Cells(shadow.size), shadow.px[c] # Black
      PROVE  texture[1].px[c] = shadow.px[c]
  <2>1. Len(dirty) = 0 /\ Len(events) = 0
    BY EmptySeq DEF Clean
  <2>2. OnItsWay(events, texture, c, fb.px[c])
    BY <1>1, <1>4, <2>1 DEF Settled
  <2>3. Has(texture, c, fb.px[c])
    BY <2>1, <2>2 DEF OnItsWay
  <2> QED  BY <1>1, <2>3 DEF Has
<1> QED  BY <1>1, <1>2, <1>3, <1>4

\* When the window has taken all events and the thread has read all the server
\* sent, every pixel the server has ever painted is in the texture at its place:
\* for any sizes, colours, copies, resizes and numbers of updates, partial updates
\* lose and misplace nothing (client.rs: the update loop and sub_rgba of the dirty
\* rectangles; app.rs: process_events).
THEOREM ShownAsSentAlways == Spec => []ShownAsSent
<1>1. Init => Following /\ Settled /\ Clean
  <2>1. Init => Following
    BY FollowingInit
  <2>2. Init => Settled /\ Clean
    BY DEF Init, Settled, Clean
  <2> QED  BY <2>1, <2>2
<1>2. ASSUME Inv, Following, Settled, Clean, [Next]_vars
      PROVE  Following' /\ Settled' /\ Clean'
  <2>1. CASE Next
    <3>1. TypeOK /\ StreamInv
      BY <1>2 DEF Inv
    <3> QED  BY <1>2, <2>1, <3>1, FollowingStep, SettledStep
  <2>2. CASE UNCHANGED vars
    BY <1>2, <2>2 DEF Following, Settled, Clean, vars, uiVars, chanVars, workerVars, wireVars, serverVars
  <2> QED  BY <1>2, <2>1, <2>2
<1>3. Inv /\ Following /\ Settled /\ Clean => ShownAsSent
  BY ShownWhenSettled
<1> QED  BY <1>1, <1>2, <1>3, Invariance, PTL DEF Spec
===============================================================================

--------------------------- MODULE VncSession_inputs ---------------------------
(***************************************************************************)
(* VncSession implements InputPipe, for all sizes, colours and bounds: the  *)
(* command channel, the drain loop and the stream carry the user's inputs   *)
(* in order, once, and without a gap.                                      *)
(***************************************************************************)
EXTENDS VncSession_proofs

IsInput(m) == m.t = "input"

\* The queue q carries the inputs lo + 1 .. hi, in order, and no other.
Carries(q, lo, hi) ==
    /\ lo <= hi
    /\ \A i \in 1 .. Len(q) : IsInput(q[i]) => q[i].id \in lo + 1 .. hi
    /\ \A n \in lo + 1 .. hi : \E i \in 1 .. Len(q) : IsInput(q[i]) /\ q[i].id = n
    /\ \A i, j \in 1 .. Len(q) :
          i < j /\ IsInput(q[i]) /\ IsInput(q[j]) => q[i].id < q[j].id

\* What has arrived, the stream up to the input `mid`, and the channel after it.
Stream(mid) ==
    /\ mid \in Nat
    /\ Carries(toServer, Len(delivered), mid)
    /\ PipeBroken \/ Carries(cmds, mid, sent)

InputInv ==
    /\ \E mid : Stream(mid)
    /\ ~serverOpen => toServer = <<>>
    /\ connection => pc # "disconnected" /\ \A i \in 1 .. Len(cmds) : cmds[i].t # "disconnect"

-------------------------------------------------------------------------------
(* Queues that carry inputs.                                               *)

LEMMA CarriesNone ==
    ASSUME NEW n \in Nat
    PROVE  Carries(<<>>, n, n)
<1>1. Len(<<>>) = 0
  BY EmptySeq
<1>. QED  BY <1>1 DEF Carries

LEMMA CarriesAppend ==
    ASSUME NEW S, NEW q \in Seq(S), NEW lo \in Nat, NEW hi \in Nat, Carries(q, lo, hi), NEW m \in S
    PROVE  /\ IsInput(m) /\ m.id = hi + 1 => Carries(Append(q, m), lo, hi + 1)
           /\ ~IsInput(m) => Carries(Append(q, m), lo, hi)
<1>. DEFINE a == Append(q, m)
<1>1. /\ Len(q) \in Nat /\ Len(a) = Len(q) + 1 /\ a[Len(q) + 1] = m
      /\ \A i \in 1 .. Len(q) : a[i] = q[i] /\ i \in 1 .. Len(a)
      /\ Len(q) + 1 \in 1 .. Len(a)
      /\ \A i \in 1 .. Len(a) : i \in 1 .. Len(q) \/ i = Len(q) + 1
  BY AppendProperties, LenProperties
<1>. HIDE DEF a
<1>2. /\ lo <= hi
      /\ \A i \in 1 .. Len(q) : IsInput(q[i]) => q[i].id \in lo + 1 .. hi
      /\ \A n \in lo + 1 .. hi : \E i \in 1 .. Len(q) : IsInput(q[i]) /\ q[i].id = n
      /\ \A i, j \in 1 .. Len(q) :
            i < j /\ IsInput(q[i]) /\ IsInput(q[j]) => q[i].id < q[j].id
  BY DEF Carries
<1>3. ASSUME IsInput(m), m.id = hi + 1 PROVE Carries(a, lo, hi + 1)
  <2>1. \A i \in 1 .. Len(a) : IsInput(a[i]) => a[i].id \in lo + 1 .. hi + 1
    BY <1>1, <1>2, <1>3
  <2>2. ASSUME NEW n \in lo + 1 .. hi + 1
        PROVE  \E i \in 1 .. Len(a) : IsInput(a[i]) /\ a[i].id = n
    <3>1. CASE n = hi + 1
      BY <1>1, <1>3, <3>1
    <3>2. CASE n \in lo + 1 .. hi
      BY <1>1, <1>2, <3>2
    <3>. QED  BY <3>1, <3>2
  <2>3. ASSUME NEW i \in 1 .. Len(a), NEW j \in 1 .. Len(a), i < j, IsInput(a[i]), IsInput(a[j])
        PROVE  a[i].id < a[j].id
    <3>1. i \in 1 .. Len(q)
      BY <1>1, <2>3
    <3>2. CASE j \in 1 .. Len(q)
      BY <1>1, <1>2, <2>3, <3>1, <3>2
    <3>3. CASE j = Len(q) + 1
      <4>1. a[i].id \in lo + 1 .. hi /\ a[j].id = hi + 1
        BY <1>1, <1>2, <1>3, <2>3, <3>1, <3>3
      <4>. QED  BY <4>1
    <3>. QED  BY <1>1, <3>2, <3>3
  <2>. QED  BY <1>2, <2>1, <2>2, <2>3 DEF Carries
<1>4. ASSUME ~IsInput(m) PROVE Carries(a, lo, hi)
  BY <1>1, <1>2, <1>4 DEF Carries
<1>. QED  BY <1>3, <1>4 DEF a

LEMMA CarriesTail ==
    ASSUME NEW S, NEW q \in Seq(S), q # <<>>, NEW lo \in Nat, NEW hi \in Nat, Carries(q, lo, hi)
    PROVE  /\ IsInput(Head(q)) => Head(q).id = lo + 1 /\ Carries(Tail(q), lo + 1, hi)
           /\ ~IsInput(Head(q)) => Carries(Tail(q), lo, hi)
<1>. DEFINE t == Tail(q)
<1>1. /\ Len(q) \in Nat /\ Len(q) >= 1 /\ Head(q) = q[1] /\ Len(t) = Len(q) - 1
      /\ \A i \in 1 .. Len(t) : t[i] = q[i + 1] /\ i + 1 \in 1 .. Len(q)
      /\ \A i \in 1 .. Len(q) : i = 1 \/ (i - 1 \in 1 .. Len(t) /\ t[i - 1] = q[i])
  <2>1. /\ Len(q) \in Nat /\ Len(q) >= 1 /\ Head(q) = q[1] /\ Len(t) = Len(q) - 1
        /\ \A i \in 1 .. Len(t) : t[i] = q[i + 1]
    BY EmptySeq, LenProperties, HeadTailProperties
  <2>2. ASSUME NEW i \in 1 .. Len(q), i # 1 PROVE i - 1 \in 1 .. Len(t) /\ t[i - 1] = q[i]
    <3>1. i - 1 \in 1 .. Len(t) /\ (i - 1) + 1 = i
      BY <2>1, <2>2
    <3>. QED  BY <2>1, <3>1
  <2>. QED  BY <2>1, <2>2
<1>. HIDE DEF t
<1>2. /\ lo <= hi
      /\ \A i \in 1 .. Len(q) : IsInput(q[i]) => q[i].id \in lo + 1 .. hi
      /\ \A n \in lo + 1 .. hi : \E i \in 1 .. Len(q) : IsInput(q[i]) /\ q[i].id = n
      /\ \A i, j \in 1 .. Len(q) :
            i < j /\ IsInput(q[i]) /\ IsInput(q[j]) => q[i].id < q[j].id
  BY DEF Carries
<1>3. ASSUME NEW i \in 1 .. Len(t), NEW j \in 1 .. Len(t), i < j, IsInput(t[i]), IsInput(t[j])
      PROVE  t[i].id < t[j].id
  <2>1. /\ i + 1 \in 1 .. Len(q) /\ t[i] = q[i + 1]
        /\ j + 1 \in 1 .. Len(q) /\ t[j] = q[j + 1] /\ i + 1 < j + 1
    BY <1>1, <1>3
  <2>. QED  BY <1>2, <1>3, <2>1
<1>4. ASSUME IsInput(q[1]) PROVE q[1].id = lo + 1 /\ Carries(t, lo + 1, hi)
  <2>1. 1 \in 1 .. Len(q) /\ q[1].id \in lo + 1 .. hi
    BY <1>1, <1>2, <1>4
  <2>2. q[1].id = lo + 1
    <3>1. lo + 1 \in lo + 1 .. hi
      BY <2>1
    <3>2. PICK i \in 1 .. Len(q) : IsInput(q[i]) /\ q[i].id = lo + 1
      BY <1>2, <3>1
    <3>3. CASE i # 1
      <4>1. q[1].id < q[i].id
        BY <1>2, <1>4, <2>1, <3>2, <3>3
      <4>. QED  BY <2>1, <3>2, <4>1
    <3>. QED  BY <3>2, <3>3
  <2>3. \A i \in 1 .. Len(t) : IsInput(t[i]) => t[i].id \in lo + 1 + 1 .. hi
    <3>. SUFFICES ASSUME NEW i \in 1 .. Len(t), IsInput(t[i]) PROVE t[i].id \in lo + 1 + 1 .. hi
      OBVIOUS
    <3>1. i + 1 \in 1 .. Len(q) /\ t[i] = q[i + 1] /\ 1 < i + 1
      BY <1>1
    <3>2. q[i + 1].id \in lo + 1 .. hi /\ q[1].id < q[i + 1].id
      BY <1>2, <1>4, <2>1, <3>1
    <3>. QED  BY <2>2, <3>1, <3>2
  <2>4. \A n \in lo + 1 + 1 .. hi : \E i \in 1 .. Len(t) : IsInput(t[i]) /\ t[i].id = n
    <3>. SUFFICES ASSUME NEW n \in lo + 1 + 1 .. hi
                  PROVE  \E i \in 1 .. Len(t) : IsInput(t[i]) /\ t[i].id = n
      OBVIOUS
    <3>0. n \in lo + 1 .. hi
      OBVIOUS
    <3>1. PICK i \in 1 .. Len(q) : IsInput(q[i]) /\ q[i].id = n
      BY <1>2, <3>0
    <3>2. i # 1
      BY <2>2, <3>1
    <3>3. i - 1 \in 1 .. Len(t) /\ t[i - 1] = q[i]
      BY <1>1, <3>1, <3>2
    <3>. QED  BY <3>1, <3>3
  <2>5. lo + 1 <= hi
    BY <2>1
  <2>. QED  BY <1>3, <2>2, <2>3, <2>4, <2>5 DEF Carries
<1>5. ASSUME ~IsInput(q[1]) PROVE Carries(t, lo, hi)
  <2>1. \A n \in lo + 1 .. hi : \E i \in 1 .. Len(t) : IsInput(t[i]) /\ t[i].id = n
    <3>. SUFFICES ASSUME NEW n \in lo + 1 .. hi
                  PROVE  \E i \in 1 .. Len(t) : IsInput(t[i]) /\ t[i].id = n
      OBVIOUS
    <3>1. PICK i \in 1 .. Len(q) : IsInput(q[i]) /\ q[i].id = n
      BY <1>2
    <3>. QED  BY <1>1, <1>5, <3>1
  <2>2. \A i \in 1 .. Len(t) : IsInput(t[i]) => t[i].id \in lo + 1 .. hi
    BY <1>1, <1>2
  <2>. QED  BY <1>2, <1>3, <2>1, <2>2 DEF Carries
<1>. QED  BY <1>1, <1>4, <1>5 DEF t

LEMMA CarriedIds ==
    ASSUME NEW q, NEW lo \in Nat, NEW hi \in Nat, Carries(q, lo, hi)
    PROVE  InputsIn(q) = lo + 1 .. hi /\ lo <= hi
BY DEF Carries, InputsIn, IsInput

-------------------------------------------------------------------------------
(* What is pending, as InputPipe sees it.                                  *)

\* The inputs after lo, up to hi.
Upto(lo, hi) == [i \in 1 .. hi - lo |-> lo + i]

LEMMA UptoParts ==
    ASSUME NEW lo \in Nat, NEW hi \in Nat, lo <= hi
    PROVE  /\ Upto(lo, hi) \in Seq(Nat) /\ Len(Upto(lo, hi)) = hi - lo
           /\ \A i \in 1 .. hi - lo : Upto(lo, hi)[i] = lo + i
<1>1. hi - lo \in Nat /\ \A i \in 1 .. hi - lo : lo + i \in Nat
  OBVIOUS
<1>. QED  BY <1>1, IsASeq, LenProperties DEF Upto

LEMMA UptoAppend ==
    ASSUME NEW lo \in Nat, NEW hi \in Nat, lo <= hi
    PROVE  Append(Upto(lo, hi), hi + 1) = Upto(lo, hi + 1)
<1>1. /\ Upto(lo, hi) \in Seq(Nat) /\ Len(Upto(lo, hi)) = hi - lo
      /\ \A i \in 1 .. hi - lo : Upto(lo, hi)[i] = lo + i
  BY UptoParts
<1>2. /\ Upto(lo, hi + 1) \in Seq(Nat) /\ Len(Upto(lo, hi + 1)) = hi + 1 - lo
      /\ \A i \in 1 .. hi + 1 - lo : Upto(lo, hi + 1)[i] = lo + i
  BY UptoParts
<1>. DEFINE u == Upto(lo, hi)  v == Upto(lo, hi + 1)
<1>. HIDE DEF u, v
<1>3. /\ Append(u, hi + 1) \in Seq(Nat) /\ Len(Append(u, hi + 1)) = hi + 1 - lo
      /\ Append(u, hi + 1)[hi + 1 - lo] = hi + 1
      /\ \A i \in 1 .. hi - lo : Append(u, hi + 1)[i] = lo + i
  <2>1. hi + 1 \in Nat /\ u \in Seq(Nat) /\ Len(u) = hi - lo /\ Len(u) + 1 = hi + 1 - lo
    BY <1>1 DEF u
  <2>2. /\ Append(u, hi + 1) \in Seq(Nat) /\ Len(Append(u, hi + 1)) = Len(u) + 1
        /\ \A i \in 1 .. Len(u) : Append(u, hi + 1)[i] = u[i]
        /\ Append(u, hi + 1)[Len(u) + 1] = hi + 1
    BY <2>1, AppendProperties
  <2>. QED  BY <1>1, <2>1, <2>2 DEF u
<1>4. \A i \in 1 .. hi + 1 - lo : Append(u, hi + 1)[i] = lo + i
  <2>. TAKE i \in 1 .. hi + 1 - lo
  <2>1. CASE i = hi + 1 - lo
    <3>1. lo + i = hi + 1
      BY <2>1
    <3>2. Append(u, hi + 1)[i] = hi + 1
      BY <1>3, <2>1
    <3>. QED  BY <3>1, <3>2
  <2>2. CASE i # hi + 1 - lo
    <3>1. i \in 1 .. hi - lo
      BY <2>2
    <3>. QED  BY <1>3, <3>1
  <2>. QED  BY <2>1, <2>2
<1>5. Append(u, hi + 1) = v
  <2>1. /\ v \in Seq(Nat) /\ Len(v) = hi + 1 - lo
        /\ \A i \in 1 .. hi + 1 - lo : v[i] = lo + i
    BY <1>2 DEF v
  <2>. DEFINE a == Append(u, hi + 1)
  <2>2. a \in Seq(Nat) /\ Len(a) = Len(v) /\ \A i \in 1 .. Len(a) : a[i] = v[i]
    BY <1>3, <1>4, <2>1
  <2>. HIDE DEF a
  <2>3. a = v
    BY <2>1, <2>2, SeqEqual
  <2>. QED  BY <2>3 DEF a
<1>. QED  BY <1>5 DEF u, v

LEMMA UptoHead ==
    ASSUME NEW lo \in Nat, NEW hi \in Nat, lo < hi
    PROVE  /\ Upto(lo, hi) # <<>> /\ Head(Upto(lo, hi)) = lo + 1
           /\ Tail(Upto(lo, hi)) = Upto(lo + 1, hi)
<1>. DEFINE u == Upto(lo, hi)  v == Upto(lo + 1, hi)
<1>1. u \in Seq(Nat) /\ Len(u) = hi - lo /\ \A i \in 1 .. hi - lo : u[i] = lo + i
  BY UptoParts
<1>2. v \in Seq(Nat) /\ Len(v) = hi - (lo + 1) /\ \A i \in 1 .. hi - (lo + 1) : v[i] = lo + 1 + i
  BY UptoParts
<1>. HIDE DEF u, v
<1>3. u # <<>> /\ Head(u) = lo + 1
  <2>1. u # <<>>
    BY <1>1, EmptySeq
  <2>2. Head(u) = u[1] /\ 1 \in 1 .. hi - lo
    BY <1>1, <2>1
  <2>. QED  BY <1>1, <2>1, <2>2
<1>4. Tail(u) \in Seq(Nat) /\ Len(Tail(u)) = Len(u) - 1
      /\ \A i \in 1 .. Len(Tail(u)) : Tail(u)[i] = u[i + 1]
  BY <1>1, <1>3, HeadTailProperties
<1>5. Len(Tail(u)) = Len(v)
  BY <1>1, <1>2, <1>4
<1>6. \A i \in 1 .. Len(v) : Tail(u)[i] = v[i]
  <2>. TAKE i \in 1 .. Len(v)
  <2>1. i \in 1 .. Len(Tail(u)) /\ i + 1 \in 1 .. hi - lo /\ i \in 1 .. hi - (lo + 1)
    BY <1>1, <1>2, <1>4
  <2>2. u[i + 1] = lo + (i + 1) /\ v[i] = lo + 1 + i
    BY <1>1, <1>2, <2>1
  <2>. QED  BY <1>4, <2>1, <2>2
<1>7. Tail(u) = v
  BY <1>2, <1>4, <1>5, <1>6, SeqEqual
<1>. QED  BY <1>3, <1>7 DEF u, v

LEMMA UptoPrefix ==
    ASSUME NEW lo \in Nat, NEW mid \in Nat, NEW hi \in Nat, lo <= mid, mid <= hi
    PROVE  \E k \in 0 .. Len(Upto(lo, hi)) : Upto(lo, mid) = SubSeq(Upto(lo, hi), 1, k)
<1>. DEFINE u == Upto(lo, hi)  v == Upto(lo, mid)  k == mid - lo
<1>1. u \in Seq(Nat) /\ Len(u) = hi - lo /\ \A i \in 1 .. hi - lo : u[i] = lo + i
  BY UptoParts
<1>2. v \in Seq(Nat) /\ Len(v) = mid - lo /\ \A i \in 1 .. mid - lo : v[i] = lo + i
  BY UptoParts
<1>3. k \in 0 .. Len(u) /\ k \in Int /\ 1 \in Int
  BY <1>1
<1>. HIDE DEF u, v
<1>4. /\ SubSeq(u, 1, k) \in Seq(Nat)
      /\ Len(SubSeq(u, 1, k)) = IF 1 <= k THEN k - 1 + 1 ELSE 0
      /\ \A i \in 1 .. k - 1 + 1 : SubSeq(u, 1, k)[i] = u[1 + i - 1]
  <2>1. \A i \in 1 .. k : u[i] \in Nat
    BY <1>1
  <2>. QED  BY <1>3, <2>1, SubSeqProperties
<1>5. SubSeq(u, 1, k) = v
  <2>1. Len(SubSeq(u, 1, k)) = Len(v)
    BY <1>2, <1>3, <1>4
  <2>2. \A i \in 1 .. Len(v) : SubSeq(u, 1, k)[i] = v[i]
    <3>. TAKE i \in 1 .. Len(v)
    <3>1. i \in 1 .. k - 1 + 1 /\ 1 + i - 1 = i /\ i \in 1 .. hi - lo /\ i \in 1 .. mid - lo
      BY <1>2
    <3>. QED  BY <1>1, <1>2, <1>4, <3>1
  <2>. QED  BY <1>2, <1>4, <2>1, <2>2, SeqEqual
<1>. QED  BY <1>3, <1>5 DEF u, v

\* While the pipe holds, all that was sent is pending; when it is broken, what is
\* in the stream.
Reach(mid) == IF PipeBroken THEN mid ELSE sent

LEMMA PendingIs ==
    ASSUME sent \in Nat, Len(delivered) \in Nat, NEW mid, Stream(mid)
    PROVE  /\ Pending = Upto(Len(delivered), Reach(mid))
           /\ Reach(mid) \in Nat /\ Len(delivered) <= mid /\ mid <= Reach(mid)
<1>. DEFINE lo == Len(delivered)
<1>1. mid \in Nat /\ InputsIn(toServer) = lo + 1 .. mid /\ lo <= mid
  BY CarriedIds DEF Stream
<1>2. ~PipeBroken => InputsIn(cmds) = mid + 1 .. sent /\ mid <= sent
  BY <1>1, CarriedIds DEF Stream
<1>3. Reach(mid) \in Nat /\ mid <= Reach(mid)
  BY <1>1, <1>2 DEF Reach
<1>4. UnderWay = lo + 1 .. Reach(mid)
  BY <1>1, <1>2 DEF UnderWay, Reach
<1>5. UnderWay \cup {lo} = lo .. Reach(mid)
  BY <1>1, <1>3, <1>4
<1>6. Newest = Reach(mid)
  <2>1. Reach(mid) \in lo .. Reach(mid) /\ \A m \in lo .. Reach(mid) : m <= Reach(mid)
    BY <1>1, <1>3
  <2>2. \A n \in lo .. Reach(mid) : (\A m \in lo .. Reach(mid) : m <= n) => n = Reach(mid)
    BY <1>1, <1>3
  <2>3. Newest = CHOOSE n \in lo .. Reach(mid) : \A m \in lo .. Reach(mid) : m <= n
    BY <1>5 DEF Newest
  <2>. QED  BY <2>1, <2>2, <2>3
<1>. QED  BY <1>1, <1>3, <1>6 DEF Pending, Upto

\* The same of the next state.
LEMMA PendingNext ==
    (\A mid : sent \in Nat /\ Len(delivered) \in Nat /\ Stream(mid) =>
        /\ Pending = Upto(Len(delivered), Reach(mid))
        /\ Reach(mid) \in Nat /\ Len(delivered) <= mid /\ mid <= Reach(mid))'
<1>1. \A mid : sent \in Nat /\ Len(delivered) \in Nat /\ Stream(mid) =>
        /\ Pending = Upto(Len(delivered), Reach(mid))
        /\ Reach(mid) \in Nat /\ Len(delivered) <= mid /\ mid <= Reach(mid)
  BY PendingIs
<1>. QED  BY <1>1, PTL

-------------------------------------------------------------------------------
(* The steps.                                                              *)

\* A step that neither sends nor delivers an input.  It may lose a suffix of the
\* inputs when it breaks the pipe, and it may close it.
LEMMA Mapped ==
    ASSUME TypeOK, TypeOK', NEW m, Stream(m), NEW n, Stream(n)', UNCHANGED <<sent, delivered>>,
           PipeBroken => PipeBroken', PipeBroken' => n <= m, connection' => connection
    PROVE  [Pipe!Next]_(Pipe!vars)
<1>. DEFINE lo == Len(delivered)
<1>1. sent \in Nat /\ lo \in Nat /\ sent' = sent /\ delivered' = delivered
      /\ connection \in BOOLEAN /\ connection' \in BOOLEAN
  BY LenProperties DEF TypeOK
<1>2. Pending = Upto(lo, Reach(m)) /\ Reach(m) \in Nat /\ lo <= m /\ m <= Reach(m) /\ m \in Nat
  BY <1>1, PendingIs DEF Stream
<1>3. Pending' = Upto(lo, Reach(n)') /\ Reach(n)' \in Nat /\ lo <= n /\ n <= Reach(n)' /\ n \in Nat
  <2>1. sent' \in Nat /\ Len(delivered') \in Nat /\ Len(delivered') = lo
    BY <1>1
  <2>2. /\ Pending' = Upto(Len(delivered'), Reach(n)')
        /\ Reach(n)' \in Nat /\ Len(delivered') <= n /\ n <= Reach(n)'
    BY <2>1, PendingNext
  <2>. QED  BY <2>1, <2>2 DEF Stream
<1>4. CASE PipeBroken'
  <2>1. Reach(n)' = n /\ PipeState' = "broken"
    BY <1>4 DEF Reach, PipeState
  <2>2. \E k \in 0 .. Len(Pending) : Pending' = SubSeq(Pending, 1, k)
    <3>1. n \in Nat /\ lo <= n /\ n <= Reach(m) /\ Reach(m) \in Nat /\ lo \in Nat
      BY <1>1, <1>2, <1>3, <1>4
    <3>2. \E k \in 0 .. Len(Upto(lo, Reach(m))) : Upto(lo, n) = SubSeq(Upto(lo, Reach(m)), 1, k)
      BY <3>1, UptoPrefix
    <3>. QED  BY <1>2, <1>3, <2>1, <3>2
  <2>3. Pipe!Break
    BY <1>1, <2>1, <2>2 DEF Pipe!Break
  <2>. QED  BY <2>3 DEF Pipe!Next
<1>5. CASE ~PipeBroken'
  <2>1. ~PipeBroken /\ Pending' = Pending
    BY <1>1, <1>2, <1>3, <1>5 DEF Reach
  <2>2. CASE connection' = connection
    <3>1. PipeState' = PipeState
      BY <1>5, <2>1, <2>2 DEF PipeState
    <3>. QED  BY <1>1, <2>1, <3>1 DEF Pipe!vars
  <2>3. CASE connection' # connection
    <3>1. PipeState = "open" /\ PipeState' = "closed"
      BY <1>1, <1>5, <2>1, <2>3 DEF PipeState
    <3>. QED  BY <1>1, <2>1, <3>1 DEF Pipe!Next, Pipe!Close
  <2>. QED  BY <2>2, <2>3
<1>. QED  BY <1>4, <1>5

\* The stream carries the same inputs after a request has joined it.
LEMMA StreamRequested ==
    ASSUME TypeOK, NEW m, Stream(m), UNCHANGED <<sent, delivered, cmds>>,
           PipeBroken => PipeBroken',
           \/ toServer' = toServer
           \/ \E r : r.t = "request" /\ toServer' = Append(toServer, r)
    PROVE  Stream(m)'
<1>1. Carries(toServer', Len(delivered), m)
  <2>1. CASE toServer' = toServer
    BY <2>1 DEF Stream
  <2>2. CASE \E r : r.t = "request" /\ toServer' = Append(toServer, r)
    <3>1. PICK r : r.t = "request" /\ toServer' = Append(toServer, r)
      BY <2>2
    <3>. DEFINE S == ToServer \cup {r}
    <3>2. toServer \in Seq(S) /\ r \in S /\ ~IsInput(r)
      BY <3>1, SeqMonotonic DEF TypeOK, IsInput
    <3>3. Len(delivered) \in Nat /\ m \in Nat
      BY LenProperties DEF TypeOK, Stream
    <3>. HIDE DEF S
    <3>. QED  BY <3>1, <3>2, <3>3, CarriesAppend DEF Stream
  <2>. QED  BY <2>1, <2>2
<1>. QED  BY <1>1 DEF Stream

LEMMA RequestWritten ==
    ASSUME NEW inc, NEW size, toServer' = Written(Request(inc, size))
    PROVE  \/ toServer' = toServer
           \/ serverOpen /\ \E r : r.t = "request" /\ toServer' = Append(toServer, r)
<1>1. Request(inc, size).t = "request"
  BY DEF Request
<1>. QED  BY <1>1 DEF Written

\* The worker's steps other than taking a command.
LEMMA WorkerQuiet ==
    ASSUME Worker, ~DrainInput, ~DrainDisconnect
    PROVE  /\ UNCHANGED <<sent, delivered, cmds, serverOpen, connection>>
           /\ \/ toServer' = toServer
              \/ serverOpen /\ \E r : r.t = "request" /\ toServer' = Append(toServer, r)
           /\ pc # "error" /\ pc' # "disconnected"
<1>. USE DEF uiVars, chanVars, wireVars, serverVars, FullRequest
<1>1. CASE ServerInit
  <2>1. /\ UNCHANGED <<uiVars, cmds, serverVars>> /\ pc = "serverinit"
        /\ \/ toServer' = Written(Request(FALSE, Head(toClient).size)) /\ pc' = "drain"
           \/ toServer' = toServer /\ pc' = "error"
    BY <1>1 DEF ServerInit, WriteFailsAfter, FinishAfter
  <2>. QED  BY <2>1, RequestWritten
<1>2. CASE UpdateResize
  <2>1. /\ UNCHANGED <<uiVars, cmds, serverVars>> /\ pc = "rects"
        /\ \/ toServer' = Written(Request(FALSE, Head(toClient).size)) /\ pc' = pc
           \/ toServer' = toServer /\ pc' = "error"
    BY <1>2 DEF UpdateResize, WriteFailsAfter, FinishAfter
  <2>. QED  BY <2>1, RequestWritten
<1>3. CASE UpdateEnd
  <2>1. /\ UNCHANGED <<uiVars, cmds, serverVars>> /\ pc = "rects"
        /\ \/ toServer' = Written(Request(TRUE, fb.size)) /\ pc' = "drain"
           \/ toServer' = toServer /\ pc' = "error"
    BY <1>3 DEF UpdateEnd, WriteFailsAfter, FinishAfter, NextRequest
  <2>. QED  BY <2>1, RequestWritten
<1>4. CASE DrainEnd \/ ReadTimeout \/ UpdateStart \/ UpdateDraw \/ UpdateCursor
  BY <1>4 DEF DrainEnd, ReadTimeout, UpdateStart, UpdateDraw, UpdateCursor
<1>5. CASE ReadEof \/ ReadNotice \/ ReadUndecodable
  BY <1>5 DEF ReadEof, ReadNotice, ReadUndecodable, Finish, FinishAfter
<1>. QED  BY <1>1, <1>2, <1>3, <1>4, <1>5 DEF Worker, Read

LEMMA QuietStep ==
    ASSUME TypeOK, TypeOK', InputInv, UNCHANGED <<sent, delivered, cmds, serverOpen>>,
           \/ toServer' = toServer
           \/ serverOpen /\ \E r : r.t = "request" /\ toServer' = Append(toServer, r),
           pc' = pc \/ (pc # "error" /\ pc' # "disconnected"),
           connection' => connection
    PROVE  InputInv' /\ [Pipe!Next]_(Pipe!vars)
<1>1. PICK m : Stream(m)
  BY DEF InputInv
<1>2. PipeBroken => PipeBroken'
  BY DEF PipeBroken
<1>3. Stream(m)'
  BY <1>1, <1>2, StreamRequested
<1>4. [Pipe!Next]_(Pipe!vars)
  <2>1. m \in Nat /\ m <= m
    BY <1>1 DEF Stream
  <2>. QED  BY <1>1, <1>2, <1>3, <2>1, Mapped
<1>5. InputInv'
  BY <1>3 DEF InputInv
<1>. QED  BY <1>4, <1>5

\* The drain loop moves the next input from the channel to the stream.
LEMMA DrainInputStep ==
    ASSUME TypeOK, TypeOK', InputInv, DrainInput
    PROVE  InputInv' /\ [Pipe!Next]_(Pipe!vars)
<1>1. PICK m : Stream(m)
  BY DEF InputInv
<1>. DEFINE c == Head(cmds)
<1>2. /\ UNCHANGED <<sent, delivered, serverOpen, connection>> /\ pc = "drain"
      /\ cmds # <<>> /\ IsInput(c) /\ cmds' = Tail(cmds)
      /\ \/ toServer' = Written(c) /\ pc' = pc
         \/ ~serverOpen /\ pc' = "error" /\ toServer' = toServer
  BY DEF DrainInput, Received, WriteFailsAfter, FinishAfter, IsInput, uiVars, serverVars
<1>3. m \in Nat /\ sent \in Nat /\ Len(delivered) \in Nat /\ cmds \in Seq(Command)
      /\ toServer \in Seq(ToServer) /\ c \in Command
  BY <1>1, <1>2, LenProperties, HeadTailProperties DEF TypeOK, Stream
<1>4. \A i \in 1 .. Len(cmds') : cmds'[i].t # "disconnect" \/ ~connection
  <2>1. \A i \in 1 .. Len(cmds') : cmds'[i] = cmds[i + 1] /\ i + 1 \in 1 .. Len(cmds)
    BY <1>2, <1>3, HeadTailProperties, LenProperties
  <2>. QED  BY <2>1 DEF InputInv
<1>5. CASE serverOpen
  <2>1. ~PipeBroken /\ ~PipeBroken' /\ toServer' = Append(toServer, c) /\ pc' = pc
    BY <1>2, <1>5 DEF PipeBroken, Written
  <2>2. c.id = m + 1 /\ Carries(cmds', m + 1, sent)
    BY <1>1, <1>2, <1>3, <2>1, CarriesTail DEF Stream
  <2>3. c \in ToServer
    BY <1>2, <1>3, MessageTypes DEF IsInput
  <2>4. Carries(toServer', Len(delivered), m + 1)
    BY <1>1, <1>2, <1>3, <2>1, <2>2, <2>3, CarriesAppend DEF Stream
  <2>5. Stream(m + 1)'
    <3>1. m + 1 \in Nat
      BY <1>3
    <3>. QED  BY <1>2, <2>2, <2>4, <3>1 DEF Stream
  <2>6. InputInv'
    <3>1. connection' => pc' # "disconnected" /\ \A i \in 1 .. Len(cmds') : cmds'[i].t # "disconnect"
      BY <1>2, <1>4, <2>1
    <3>2. \E n : Stream(n)'
      BY <2>5
    <3>. QED  BY <1>2, <1>5, <3>1, <3>2 DEF InputInv
  <2>7. [Pipe!Next]_(Pipe!vars)
    <3>. DEFINE n == m + 1
    <3>. HIDE DEF n
    <3>1. Stream(n)'
      BY <2>5 DEF n
    <3>. QED  BY <1>1, <1>2, <2>1, <3>1, Mapped
  <2>. QED  BY <2>6, <2>7
<1>6. CASE ~serverOpen
  <2>1. toServer' = toServer /\ PipeBroken /\ PipeBroken'
    BY <1>2, <1>6 DEF PipeBroken, Written
  <2>2. Stream(m)'
    BY <1>1, <1>2, <2>1 DEF Stream
  <2>3. InputInv'
    BY <1>2, <1>4, <2>1, <2>2 DEF InputInv
  <2>4. [Pipe!Next]_(Pipe!vars)
    <3>1. m <= m
      BY <1>3
    <3>. QED  BY <1>1, <1>2, <2>1, <2>2, <3>1, Mapped
  <2>. QED  BY <2>3, <2>4
<1>. QED  BY <1>5, <1>6

\* A disconnect ends the thread with every input before it in the stream.
LEMMA DrainDisconnectStep ==
    ASSUME TypeOK, TypeOK', InputInv, DrainDisconnect
    PROVE  InputInv' /\ [Pipe!Next]_(Pipe!vars)
<1>1. PICK m : Stream(m)
  BY DEF InputInv
<1>2. /\ UNCHANGED <<sent, delivered, serverOpen, connection, toServer>> /\ pc = "drain"
      /\ cmds # <<>> /\ Head(cmds).t = "disconnect" /\ cmds' = Tail(cmds)
      /\ pc' = "disconnected"
  BY DEF DrainDisconnect, Received, Finish, FinishAfter, uiVars, serverVars, wireVars
<1>3. m \in Nat /\ sent \in Nat /\ cmds \in Seq(Command)
  BY <1>1 DEF TypeOK, Stream
<1>4. ~connection
  <2>1. cmds[1] = Head(cmds) /\ 1 \in 1 .. Len(cmds)
    BY <1>2, <1>3, EmptySeq, LenProperties
  <2>. QED  BY <1>2, <2>1 DEF InputInv
<1>5. PipeBroken' = PipeBroken
  BY <1>2 DEF PipeBroken
<1>6. ~PipeBroken => Carries(cmds', m, sent)
  <2>1. ~IsInput(Head(cmds))
    BY <1>2 DEF IsInput
  <2>. QED  BY <1>1, <1>2, <1>3, <2>1, CarriesTail DEF Stream
<1>7. Stream(m)'
  BY <1>1, <1>2, <1>5, <1>6 DEF Stream
<1>8. InputInv'
  BY <1>2, <1>4, <1>7 DEF InputInv
<1>9. [Pipe!Next]_(Pipe!vars)
  <2>1. m <= m
    BY <1>3
  <2>. QED  BY <1>1, <1>2, <1>5, <1>7, <2>1, Mapped
<1>. QED  BY <1>8, <1>9

\* The user's input joins the channel.
LEMMA UserInputStep ==
    ASSUME TypeOK, TypeOK', InputInv, UserInput
    PROVE  InputInv' /\ [Pipe!Next]_(Pipe!vars)
<1>1. PICK m : Stream(m)
  BY DEF InputInv
<1>. DEFINE c == [t |-> "input", id |-> sent + 1]
<1>2. /\ UNCHANGED <<delivered, serverOpen, connection, toServer, pc>>
      /\ connection /\ sent' = sent + 1 /\ cmds' = Append(cmds, c)
  BY DEF UserInput, workerVars, wireVars, serverVars
<1>3. m \in Nat /\ sent \in Nat /\ sent' \in Nat /\ Len(delivered) \in Nat /\ cmds \in Seq(Command)
  BY <1>1, <1>2, LenProperties DEF TypeOK, Stream
<1>4. IsInput(c) /\ c.id = sent + 1 /\ c.t = "input" /\ c \in Command
  BY <1>3, MessageTypes DEF IsInput
<1>. HIDE DEF c
<1>5. PipeBroken' = PipeBroken
  BY <1>2 DEF PipeBroken
<1>6. ~PipeBroken => Carries(cmds', m, sent + 1)
  BY <1>1, <1>2, <1>3, <1>4, CarriesAppend DEF Stream
<1>7. Stream(m)'
  BY <1>1, <1>2, <1>5, <1>6 DEF Stream
<1>8. InputInv'
  <2>1. \A i \in 1 .. Len(cmds') : cmds'[i].t # "disconnect"
    <3>1. /\ Len(cmds') = Len(cmds) + 1 /\ Len(cmds) \in Nat /\ cmds'[Len(cmds) + 1] = c
          /\ \A i \in 1 .. Len(cmds) : cmds'[i] = cmds[i]
      BY <1>2, <1>3, <1>4, AppendProperties, LenProperties
    <3>. QED  BY <1>2, <1>4, <3>1 DEF InputInv
  <2>. QED  BY <1>2, <1>7, <2>1 DEF InputInv
<1>9. Pending = Upto(Len(delivered), Reach(m)) /\ Len(delivered) <= m /\ m <= Reach(m)
      /\ Reach(m) \in Nat
  BY <1>1, <1>3, PendingIs
<1>10. Pending' = Upto(Len(delivered), Reach(m)')
  <2>1. Len(delivered') \in Nat
    BY <1>2, <1>3
  <2>2. Pending' = Upto(Len(delivered'), Reach(m)')
    BY <1>3, <1>7, <2>1, PendingNext
  <2>. QED  BY <1>2, <2>2
<1>11. CASE PipeBroken
  <2>1. Pending' = Pending /\ PipeState = "broken" /\ PipeState' = "broken"
    BY <1>5, <1>9, <1>10, <1>11 DEF Reach, PipeState
  <2>. QED  BY <1>2, <1>8, <2>1 DEF Pipe!Next, Pipe!SendInVain
<1>12. CASE ~PipeBroken
  <2>1. Reach(m) = sent /\ Reach(m)' = sent + 1
    BY <1>2, <1>5, <1>12 DEF Reach
  <2>2. Pending' = Append(Pending, sent + 1)
    <3>1. Len(delivered) <= sent
      BY <1>1, <1>3, <1>9, <2>1 DEF Stream
    <3>2. Append(Upto(Len(delivered), sent), sent + 1) = Upto(Len(delivered), sent + 1)
      BY <1>3, <3>1, UptoAppend
    <3>3. Pending = Upto(Len(delivered), sent) /\ Pending' = Upto(Len(delivered), sent + 1)
      BY <1>9, <1>10, <2>1
    <3>. QED  BY <3>2, <3>3
  <2>3. PipeState = "open" /\ PipeState' = "open"
    BY <1>2, <1>5, <1>12 DEF PipeState
  <2>. QED  BY <1>2, <1>8, <2>2, <2>3 DEF Pipe!Next, Pipe!Send
<1>. QED  BY <1>11, <1>12

LEMMA UserDisconnectStep ==
    ASSUME TypeOK, TypeOK', InputInv, UserDisconnect
    PROVE  InputInv' /\ [Pipe!Next]_(Pipe!vars)
<1>1. PICK m : Stream(m)
  BY DEF InputInv
<1>. DEFINE c == [t |-> "disconnect"]
<1>2. /\ UNCHANGED <<sent, delivered, serverOpen, toServer, pc>>
      /\ ~connection' /\ cmds' = Append(cmds, c)
  BY DEF UserDisconnect, workerVars, wireVars, serverVars
<1>3. m \in Nat /\ sent \in Nat /\ cmds \in Seq(Command) /\ c \in Command /\ ~IsInput(c)
  BY <1>1, MessageTypes DEF TypeOK, Stream, IsInput
<1>4. PipeBroken' = PipeBroken
  BY <1>2 DEF PipeBroken
<1>5. Stream(m)'
  <2>1. ~PipeBroken => Carries(cmds', m, sent)
    BY <1>1, <1>2, <1>3, CarriesAppend DEF Stream
  <2>. QED  BY <1>1, <1>2, <1>4, <2>1 DEF Stream
<1>6. InputInv'
  BY <1>2, <1>5 DEF InputInv
<1>7. [Pipe!Next]_(Pipe!vars)
  <2>1. m <= m
    BY <1>3
  <2>. QED  BY <1>1, <1>2, <1>4, <1>5, <2>1, Mapped
<1>. QED  BY <1>6, <1>7

\* What a server reads next is the next input, or a request.
LEMMA ServeStep ==
    ASSUME TypeOK, TypeOK', InputInv, Serve
    PROVE  InputInv' /\ [Pipe!Next]_(Pipe!vars)
<1>1. PICK m : Stream(m)
  BY DEF InputInv
<1>2. /\ UNCHANGED <<sent, cmds, serverOpen, connection, pc>> /\ serverOpen
      /\ toServer # <<>> /\ toServer' = Tail(toServer)
  BY DEF Serve, ServeRequest, ServeInput, uiVars, chanVars, workerVars
<1>3. m \in Nat /\ sent \in Nat /\ Len(delivered) \in Nat /\ toServer \in Seq(ToServer)
      /\ delivered \in Seq(Nat)
  BY <1>1, LenProperties DEF TypeOK, Stream
<1>4. PipeBroken' = PipeBroken
  BY <1>2 DEF PipeBroken
<1>5. CASE ServeRequest
  <2>1. ~IsInput(Head(toServer)) /\ delivered' = delivered
    BY <1>5 DEF ServeRequest, IsInput
  <2>2. Stream(m)'
    <3>1. Carries(toServer', Len(delivered), m)
      BY <1>1, <1>2, <1>3, <2>1, CarriesTail DEF Stream
    <3>. QED  BY <1>1, <1>2, <1>4, <2>1, <3>1 DEF Stream
  <2>3. InputInv'
    BY <1>2, <2>2 DEF InputInv
  <2>4. [Pipe!Next]_(Pipe!vars)
    <3>1. m <= m
      BY <1>3
    <3>. QED  BY <1>1, <1>2, <1>4, <2>1, <2>2, <3>1, Mapped
  <2>. QED  BY <2>3, <2>4
<1>6. CASE ServeInput
  <2>. DEFINE lo == Len(delivered)
  <2>1. IsInput(Head(toServer)) /\ delivered' = Append(delivered, Head(toServer).id)
    BY <1>6 DEF ServeInput, IsInput
  <2>2. Head(toServer).id = lo + 1 /\ Carries(toServer', lo + 1, m)
    BY <1>1, <1>2, <1>3, <2>1, CarriesTail DEF Stream
  <2>3. Len(delivered') = lo + 1
    BY <1>3, <2>1, <2>2, AppendProperties
  <2>4. Stream(m)'
    BY <1>1, <1>2, <1>4, <2>2, <2>3 DEF Stream
  <2>5. InputInv'
    BY <1>2, <2>4 DEF InputInv
  <2>6. Pending = Upto(lo, Reach(m)) /\ Reach(m) \in Nat /\ m <= Reach(m) /\ lo + 1 <= m
    <3>1. Pending = Upto(lo, Reach(m)) /\ Reach(m) \in Nat /\ m <= Reach(m)
      BY <1>1, <1>3, PendingIs
    <3>2. lo + 1 <= m
      BY <2>2 DEF Carries
    <3>. QED  BY <3>1, <3>2
  <2>7. Pending' = Upto(lo + 1, Reach(m))
    <3>1. Reach(m)' = Reach(m)
      BY <1>2, <1>4 DEF Reach
    <3>2. sent' \in Nat /\ Len(delivered') \in Nat
      BY <1>2, <1>3, <2>3
    <3>. QED  BY <2>3, <2>4, <3>1, <3>2, PendingNext
  <2>8. lo < Reach(m)
    BY <1>3, <2>6
  <2>9. Pending # <<>> /\ Head(Pending) = lo + 1 /\ Pending' = Tail(Pending)
    BY <1>3, <2>6, <2>7, <2>8, UptoHead
  <2>10. PipeState' = PipeState
    BY <1>2, <1>4 DEF PipeState
  <2>11. Pipe!Deliver
    BY <1>2, <2>1, <2>2, <2>9, <2>10 DEF Pipe!Deliver
  <2>. QED  BY <2>5, <2>11 DEF Pipe!Next
<1>. QED  BY <1>5, <1>6 DEF Serve

\* The end of the stream loses what is in it.
LEMMA CloseServerStep ==
    ASSUME TypeOK, TypeOK', InputInv, CloseServer
    PROVE  InputInv' /\ [Pipe!Next]_(Pipe!vars)
<1>1. PICK m : Stream(m)
  BY DEF InputInv
<1>2. /\ UNCHANGED <<sent, delivered, cmds, connection, pc>>
      /\ serverOpen' = FALSE /\ toServer' = <<>>
  BY DEF CloseServer, uiVars, chanVars, workerVars
<1>a. PICK lo : lo = Len(delivered)
  OBVIOUS
<1>3. lo \in Nat /\ lo <= m /\ PipeBroken'
  BY <1>1, <1>2, <1>a, LenProperties DEF TypeOK, Stream, Carries, PipeBroken
<1>4. Stream(lo)'
  BY <1>2, <1>3, <1>a, CarriesNone DEF Stream
<1>5. InputInv'
  BY <1>2, <1>4 DEF InputInv
<1>6. [Pipe!Next]_(Pipe!vars)
  BY <1>1, <1>2, <1>3, <1>4, Mapped
<1>. QED  BY <1>5, <1>6

LEMMA OtherStep ==
    ASSUME TypeOK, TypeOK', InputInv,
           Frame \/ Answer \/ Draw \/ Resize \/ SendNotice \/ UNCHANGED vars
    PROVE  InputInv' /\ [Pipe!Next]_(Pipe!vars)
<1>. USE DEF uiVars, chanVars, workerVars, wireVars, serverVars
<1>1. UNCHANGED <<sent, delivered, cmds, serverOpen, toServer, pc>> /\ connection' \in {connection, FALSE}
  <2>1. CASE Frame
    BY <2>1 DEF Frame, HandleSize, HandleRects, HandleNotice, HandleEnd
  <2>2. CASE Answer
    BY <2>2 DEF Answer, Update, UpdateSize
  <2>3. CASE Draw \/ Resize \/ SendNotice
    BY <2>3 DEF Draw, Resize, SendNotice
  <2>. QED  BY <2>1, <2>2, <2>3 DEF vars
<1>2. connection' => connection
  BY <1>1
<1>. QED  BY <1>1, <1>2, QuietStep

LEMMA InputStep ==
    ASSUME TypeOK, TypeOK', InputInv, [Next]_vars
    PROVE  InputInv' /\ [Pipe!Next]_(Pipe!vars)
<1>1. CASE Worker
  <2>1. CASE ~DrainInput /\ ~DrainDisconnect
    <3>1. /\ UNCHANGED <<sent, delivered, cmds, serverOpen, connection>>
          /\ \/ toServer' = toServer
             \/ serverOpen /\ \E r : r.t = "request" /\ toServer' = Append(toServer, r)
          /\ pc # "error" /\ pc' # "disconnected"
      BY <1>1, <2>1, WorkerQuiet
    <3>. QED  BY <3>1, QuietStep
  <2>. QED  BY <2>1, DrainInputStep, DrainDisconnectStep
<1>2. CASE User
  BY <1>2, UserInputStep, UserDisconnectStep DEF User
<1>3. CASE Serve
  BY <1>3, ServeStep
<1>4. CASE CloseServer
  BY <1>4, CloseServerStep
<1>5. CASE Frame \/ Answer \/ Draw \/ Resize \/ SendNotice \/ UNCHANGED vars
  BY <1>5, OtherStep
<1>. QED  BY <1>1, <1>2, <1>3, <1>4, <1>5 DEF Next, Environment

LEMMA InputInit == Init => InputInv /\ Pipe!Init
<1>. SUFFICES ASSUME Init PROVE InputInv /\ Pipe!Init
  OBVIOUS
<1>1. /\ toServer = <<>> /\ cmds = <<>> /\ delivered = <<>> /\ Len(delivered) = 0 /\ sent = 0
      /\ pc = "serverinit" /\ serverOpen /\ connection /\ Len(cmds) = 0
  BY EmptySeq DEF Init
<1>2. Stream(0)
  BY <1>1, CarriesNone DEF Stream
<1>3. InputInv
  BY <1>1, <1>2 DEF InputInv
<1>4. Pending = Upto(0, 0)
  BY <1>1, <1>2, PendingIs DEF Reach
<1>5. Upto(0, 0) = <<>>
  <2>1. Upto(0, 0) \in Seq(Nat) /\ Len(Upto(0, 0)) = 0
    BY UptoParts
  <2>. QED  BY <2>1, EmptySeq
<1>. QED  BY <1>1, <1>3, <1>4, <1>5 DEF Pipe!Init, PipeState, PipeBroken

-------------------------------------------------------------------------------
(* The theorems.                                                           *)

\* What has arrived, the stream and the channel hold the user's inputs one after
\* the other.
THEOREM InputInvariance == Spec => []InputInv
<1>1. TypeOK /\ TypeOK' /\ InputInv /\ [Next]_vars => InputInv'
  BY InputStep
<1>. QED  BY <1>1, InputInit, TypeCorrect, PTL DEF Spec

\* The drain loop, the two channels and the stream implement InputPipe: however
\* inputs, requests, updates and the ends of the session are interleaved, inputs
\* reach the server in order, once and without a gap, and a disconnect does not
\* overtake them (client.rs:134-168).
THEOREM InputsImplementPipe == Spec => InputsInOrder
<1>1. TypeOK /\ TypeOK' /\ InputInv /\ [Next]_vars => [Pipe!Next]_(Pipe!vars)
  BY InputStep
<1>2. Init => Pipe!Init
  BY InputInit
<1>. QED  BY <1>1, <1>2, InputInvariance, TypeCorrect, PTL DEF Spec, InputsInOrder, Pipe!Spec
===============================================================================

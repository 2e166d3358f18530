---------------------------- MODULE Ra2Bridge_proofs ----------------------------
(***************************************************************************)
(* Ra2Bridge for any duplex, buffer, network and amount of data: the types, *)
(* the capacities, the nonces and the units of the two directions.         *)
(***************************************************************************)
EXTENDS Ra2Bridge, SequenceTheorems, TLAPS

\* The frames from the server to the client: their nonces, and the server's
\* counter.  Without the client nothing is on its way.
DownInStep ==
    /\ client => \A i \in 1 .. Len(wireDown) : wireDown[i].nonce = recvCtr + i - 1
    /\ client /\ serverOpen => srvSend = recvCtr + Len(wireDown)
    /\ ~client => wireDown = <<>>

\* The frames to the server, and the one pump_encrypt is about to write.
UpInStep ==
    serverOpen =>
        /\ \A i \in 1 .. Len(wireUp) : wireUp[i].nonce = srvRecv + i - 1
        /\ enc.frame # <<>> => enc.frame[1].nonce = srvRecv + Len(wireUp)
        /\ client => sendCtr = srvRecv + Len(wireUp) + Len(enc.frame)

\* Only the bridge's pumps have frames and run, and only while connect has not
\* returned.
PumpsOfBridge ==
    /\ enc.on \/ dec.on => client /\ hs = "bridge"
    /\ hs # "bridge" => enc.frame = <<>>
    /\ enc.frame # <<>> => enc.on

\* TypeOK, one variable at a time.
Typed ==
    /\ hs \in {"serverHash", "clientHash", "subtype", "creds", "spawn", "bridge"}
    /\ client \in BOOLEAN /\ serverOpen \in BOOLEAN
    /\ sendCtr \in Nat /\ recvCtr \in Nat /\ srvSend \in Nat /\ srvRecv \in Nat
    /\ writing \in Nat /\ wrote \in Nat /\ wrote + writing <= MaxUp
    /\ sent \in Nat /\ sent <= MaxDown
    /\ read \in Seq(1 .. sent) /\ down \in Seq(1 .. sent) /\ Len(down) <= Cap
    /\ got \in Seq(1 .. wrote) /\ up \in Seq(1 .. wrote) /\ Len(up) <= Cap
    /\ dec.left \in Seq(1 .. sent) /\ enc.frame \in Seq(FrameOf(wrote)) /\ Len(enc.frame) <= 1
    /\ wireDown \in Seq(FrameOf(sent)) /\ Len(wireDown) <= WireCap
    /\ wireUp \in Seq(FrameOf(wrote)) /\ Len(wireUp) <= WireCap

Pumps ==
    /\ dec \in [on : BOOLEAN, left : Seq(1 .. sent)]
    /\ enc \in [on : BOOLEAN, frame : Seq(FrameOf(wrote))]

Inv == Typed /\ Pumps /\ DownInStep /\ UpInStep /\ PumpsOfBridge

-----------------------------------------------------------------------------
(* Sequences.                                                              *)

LEMMA ElementsIn ==
    ASSUME NEW S, NEW s \in Seq(S)
    PROVE  Len(s) \in Nat /\ \A i \in 1 .. Len(s) : s[i] \in S
BY ElementOfSeq, LenProperties

LEMMA Sizes ==
    /\ Cap \in Nat /\ Cap >= 1 /\ Buf \in Nat /\ Buf >= 1 /\ WireCap \in Nat /\ WireCap >= 1
    /\ MaxUp \in Nat /\ MaxDown \in Nat
BY SizesAssumption, BoundsAssumption

LEMMA TailFacts ==
    ASSUME NEW S, NEW s \in Seq(S), s # <<>>
    PROVE  /\ Head(s) \in S /\ Head(s) = s[1]
           /\ Tail(s) \in Seq(S) /\ Len(Tail(s)) = Len(s) - 1
           /\ \A i \in 1 .. Len(s) - 1 : Tail(s)[i] = s[i + 1]
           /\ Len(s) \in Nat \ {0}
OBVIOUS

LEMMA PartFacts ==
    ASSUME NEW S, NEW s \in Seq(S), NEW m \in 1 .. Len(s) + 1, NEW n \in 0 .. Len(s), m <= n + 1
    PROVE  /\ SubSeq(s, m, n) \in Seq(S)
           /\ Len(SubSeq(s, m, n)) = n - m + 1
           /\ \A i \in 1 .. n - m + 1 : SubSeq(s, m, n)[i] = s[m + i - 1]
<1>1. Len(s) \in Nat /\ \A i \in 1 .. Len(s) : s[i] \in S
  BY ElementsIn
<1>2. m \in Int /\ n \in Int /\ \A i \in m .. n : s[i] \in S
  BY <1>1
<1>3. /\ SubSeq(s, m, n) \in Seq(S)
      /\ Len(SubSeq(s, m, n)) = IF m <= n THEN n - m + 1 ELSE 0
      /\ \A i \in 1 .. n - m + 1 : SubSeq(s, m, n)[i] = s[m + i - 1]
  BY <1>2, SubSeqProperties
<1>. QED  BY <1>2, <1>3

LEMMA NoUnits == ASSUME NEW S PROVE <<>> \in Seq(S) /\ Len(<<>>) = 0
OBVIOUS

LEMMA OneFrame ==
    ASSUME NEW S, NEW s \in Seq(S), Len(s) <= 1, s # <<>>
    PROVE  Len(s) = 1 /\ s[1] \in S
OBVIOUS

\* The records of the two pumps with one field changed.
LEMMA DecFields ==
    ASSUME NEW S, NEW r \in [on : BOOLEAN, left : S], NEW b \in BOOLEAN, NEW x \in S
    PROVE  /\ [r EXCEPT !.on = b] \in [on : BOOLEAN, left : S]
           /\ [r EXCEPT !.on = b].on = b /\ [r EXCEPT !.on = b].left = r.left
           /\ [r EXCEPT !.left = x] \in [on : BOOLEAN, left : S]
           /\ [r EXCEPT !.left = x].left = x /\ [r EXCEPT !.left = x].on = r.on
OBVIOUS

LEMMA EncFields ==
    ASSUME NEW S, NEW r \in [on : BOOLEAN, frame : S], NEW b \in BOOLEAN, NEW x \in S
    PROVE  /\ [r EXCEPT !.on = b] \in [on : BOOLEAN, frame : S]
           /\ [r EXCEPT !.on = b].on = b /\ [r EXCEPT !.on = b].frame = r.frame
           /\ [r EXCEPT !.frame = x] \in [on : BOOLEAN, frame : S]
           /\ [r EXCEPT !.frame = x].frame = x /\ [r EXCEPT !.frame = x].on = r.on
OBVIOUS

\* More units may be in a frame once more are sent.
LEMMA MoreUnits ==
    ASSUME NEW m \in Nat, NEW n \in Nat, m <= n
    PROVE  /\ Seq(1 .. m) \subseteq Seq(1 .. n)
           /\ FrameOf(m) \subseteq FrameOf(n)
           /\ Seq(FrameOf(m)) \subseteq Seq(FrameOf(n))
<1>1. 1 .. m \subseteq 1 .. n
  OBVIOUS
<1>2. Seq(1 .. m) \subseteq Seq(1 .. n)
  BY <1>1, SeqMonotonic
<1>3. FrameOf(m) \subseteq FrameOf(n)
  BY <1>2 DEF FrameOf
<1>. QED  BY <1>2, <1>3, SeqMonotonic

\* TypeOK follows from its facts, one variable at a time.
LEMMA TypedIsTypeOK == Typed /\ Pumps => TypeOK
<1>. SUFFICES ASSUME Typed, Pumps PROVE TypeOK
  OBVIOUS
<1>1. {client, serverOpen} \subseteq BOOLEAN /\ {sendCtr, recvCtr, srvSend, srvRecv} \subseteq Nat
  BY DEF Typed
<1>2. writing \in 0 .. MaxUp /\ wrote \in 0 .. MaxUp - writing /\ sent \in 0 .. MaxDown
  BY BoundsAssumption DEF Typed
<1>3. dec \in [on : BOOLEAN, left : Seq(1 .. sent)] /\ enc \in [on : BOOLEAN, frame : Seq(FrameOf(wrote))]
  BY DEF Typed, Pumps
<1>. QED  BY <1>1, <1>2, <1>3 DEF Typed, TypeOK

-----------------------------------------------------------------------------
(* The steps.                                                              *)

\* The session ends: its frames and its pumps are gone, what is sent stays.
LEMMA EndStep ==
    ASSUME Inv, End
    PROVE  Inv'
<1>1. Typed'
  <2>1. /\ <<>> \in Seq(1 .. sent) /\ <<>> \in Seq(1 .. wrote) /\ Len(<<>>) = 0
        /\ <<>> \in Seq(FrameOf(wrote)) /\ <<>> \in Seq(FrameOf(sent))
    BY NoUnits
  <2>2. dec'.left = <<>> /\ enc'.frame = <<>>
    BY DEF End
  <2>3. wrote' + writing' <= MaxUp /\ 0 <= Cap /\ 0 <= WireCap
    BY Sizes DEF End, Inv, Typed
  <2>4. /\ down' \in Seq(1 .. sent) /\ Len(down') <= Cap /\ up' \in Seq(1 .. wrote) /\ Len(up') <= Cap
        /\ wireDown' \in Seq(FrameOf(sent)) /\ Len(wireDown') <= WireCap
        /\ dec'.left \in Seq(1 .. sent) /\ enc'.frame \in Seq(FrameOf(wrote)) /\ Len(enc'.frame) <= 1
    BY <2>1, <2>2, <2>3 DEF End
  <2>5. UNCHANGED <<hs, wrote, read, sendCtr, recvCtr, wireUp, serverOpen, srvSend, srvRecv, sent, got>>
        /\ client' = FALSE /\ writing' = 0
    BY DEF End, serverVars
  <2>. QED  BY <2>3, <2>4, <2>5 DEF Inv, Typed
<1>a. Pumps'
  BY NoUnits DEF End, Pumps, serverVars
<1>2. DownInStep' /\ PumpsOfBridge'
  BY DEF End, DownInStep, PumpsOfBridge
<1>3. UpInStep'
  BY DEF End, Inv, UpInStep, serverVars
<1>. QED  BY <1>1, <1>a, <1>2, <1>3 DEF Inv

LEMMA HandshakeReadStep ==
    ASSUME Inv, NEW step, NEW next \in {"clientHash", "creds"}, step # "bridge",
           HandshakeRead(step, next)
    PROVE  Inv'
<1>1. CASE End
  BY <1>1, EndStep
<1>2. CASE ~End
  <2>0. /\ client /\ hs # "bridge" /\ wireDown # <<>>
        /\ recvCtr' = recvCtr + 1 /\ wireDown' = Tail(wireDown) /\ hs' = next
        /\ UNCHANGED <<client, writing, wrote, read, sendCtr, bridgeVars, wireUp, serverVars>>
    BY <1>2 DEF HandshakeRead
  <2>1. /\ wireDown' \in Seq(FrameOf(sent)) /\ Len(wireDown') = Len(wireDown) - 1
        /\ \A i \in 1 .. Len(wireDown) - 1 : wireDown'[i] = wireDown[i + 1]
        /\ Len(wireDown) \in Nat
    BY <2>0, TailFacts DEF Inv, Typed
  <2>2. Typed'
    BY <2>0, <2>1, Sizes DEF Inv, Typed, bridgeVars, serverVars
  <2>a. recvCtr \in Nat /\ srvSend \in Nat /\ client' = client /\ serverOpen' = serverOpen
        /\ srvSend' = srvSend /\ client
    BY <2>0 DEF Inv, Typed, serverVars
  <2>3. DownInStep'
    <3>1. \A i \in 1 .. Len(wireDown') : wireDown'[i].nonce = recvCtr' + i - 1
      BY <2>0, <2>1, <2>a DEF Inv, DownInStep
    <3>2. serverOpen => srvSend = recvCtr' + Len(wireDown')
      BY <2>0, <2>1, <2>a DEF Inv, DownInStep
    <3>. QED  BY <2>0, <2>a, <3>1, <3>2 DEF DownInStep
  <2>4. UpInStep' /\ PumpsOfBridge' /\ Pumps'
    BY <2>0 DEF Inv, UpInStep, PumpsOfBridge, Pumps, bridgeVars, serverVars
  <2>. QED  BY <2>2, <2>3, <2>4 DEF Inv
<1>. QED  BY <1>1, <1>2

LEMMA HandshakeWriteStep ==
    ASSUME Inv, NEW step, NEW next \in {"subtype", "spawn"}, step # "bridge",
           HandshakeWrite(step, next)
    PROVE  Inv'
<1>1. CASE End
  BY <1>1, EndStep
<1>2. CASE ~End
  <2>. DEFINE f == Frame(sendCtr, <<>>)
  <2>0. /\ client /\ hs # "bridge" /\ Len(wireUp) < WireCap
        /\ wireUp' = IF serverOpen THEN Append(wireUp, f) ELSE wireUp
        /\ sendCtr' = sendCtr + 1 /\ hs' = next
        /\ UNCHANGED <<client, writing, wrote, read, recvCtr, bridgeVars, wireDown, serverVars>>
    BY <1>2 DEF HandshakeWrite
  <2>a. sendCtr \in Nat /\ srvRecv \in Nat /\ <<>> \in Seq(1 .. wrote)
    BY NoUnits DEF Inv, Typed
  <2>1. f \in FrameOf(wrote) /\ f.nonce = sendCtr
    BY <2>a DEF Frame, FrameOf
  <2>. HIDE DEF f
  <2>2. /\ Append(wireUp, f) \in Seq(FrameOf(wrote)) /\ Len(Append(wireUp, f)) = Len(wireUp) + 1
        /\ \A i \in 1 .. Len(wireUp) : Append(wireUp, f)[i] = wireUp[i]
        /\ Append(wireUp, f)[Len(wireUp) + 1] = f
        /\ Len(wireUp) \in Nat /\ wireUp \in Seq(FrameOf(wrote))
    BY <2>1, AppendProperties, ElementsIn DEF Inv, Typed
  <2>3. Typed'
    <3>1. wireUp' \in Seq(FrameOf(wrote)) /\ Len(wireUp') <= WireCap
      BY <2>0, <2>2, Sizes DEF Inv, Typed
    <3>. QED  BY <2>0, <2>a, <3>1 DEF Inv, Typed, bridgeVars, serverVars
  <2>4. enc.frame = <<>> /\ Len(enc.frame) = 0 /\ enc' = enc
    BY <2>0, NoUnits DEF Inv, PumpsOfBridge, bridgeVars
  <2>5. UpInStep'
    <3>. SUFFICES ASSUME serverOpen PROVE UpInStep'
      BY <2>0 DEF UpInStep, serverVars
    <3>1. /\ sendCtr = srvRecv + Len(wireUp)
          /\ \A i \in 1 .. Len(wireUp) : wireUp[i].nonce = srvRecv + i - 1
      BY <2>0, <2>2, <2>4, <2>a DEF Inv, UpInStep
    <3>2. \A i \in 1 .. Len(wireUp') : wireUp'[i].nonce = srvRecv + i - 1
      <4>1. wireUp' = Append(wireUp, f) /\ Len(wireUp') = Len(wireUp) + 1
        BY <2>0, <2>2
      <4>2. ASSUME NEW i \in 1 .. Len(wireUp') PROVE wireUp'[i].nonce = srvRecv + i - 1
        <5>1. CASE i = Len(wireUp) + 1
          BY <2>1, <2>2, <2>a, <3>1, <4>1, <5>1
        <5>2. CASE i \in 1 .. Len(wireUp)
          BY <2>2, <3>1, <4>1, <5>2
        <5>. QED  BY <2>2, <4>1, <5>1, <5>2
      <4>. QED  BY <4>2
    <3>3. sendCtr' = srvRecv + Len(wireUp') + Len(enc.frame)
      BY <2>0, <2>2, <2>4, <2>a, <3>1
    <3>. QED  BY <2>0, <2>4, <3>2, <3>3 DEF UpInStep, serverVars
  <2>6. DownInStep' /\ PumpsOfBridge' /\ Pumps'
    BY <2>0 DEF Inv, DownInStep, PumpsOfBridge, Pumps, bridgeVars, serverVars
  <2>. QED  BY <2>3, <2>5, <2>6 DEF Inv
<1>. QED  BY <1>1, <1>2

LEMMA HandshakeStep ==
    ASSUME Inv, Handshake
    PROVE  Inv'
<1>1. CASE ReadServerHash \/ ReadSubtype
  BY <1>1, HandshakeReadStep DEF ReadServerHash, ReadSubtype
<1>2. CASE WriteClientHash \/ WriteCreds
  BY <1>2, HandshakeWriteStep DEF WriteClientHash, WriteCreds
<1>3. CASE HandshakeEof
  BY <1>3, EndStep DEF HandshakeEof
<1>4. CASE SpawnPumps
  <2>0. /\ client /\ hs' = "bridge"
        /\ dec' = [dec EXCEPT !.on = TRUE] /\ enc' = [enc EXCEPT !.on = TRUE]
        /\ UNCHANGED <<client, writing, wrote, read, sendCtr, recvCtr, down, up, wireDown, wireUp, serverVars>>
    BY <1>4 DEF SpawnPumps, Handed
  <2>1. Pumps' /\ dec'.left = dec.left /\ enc'.frame = enc.frame /\ enc'.on
    BY <2>0, DecFields, EncFields DEF Inv, Pumps, serverVars
  <2>2. Typed'
    BY <2>0, <2>1 DEF Inv, Typed, serverVars
  <2>3. DownInStep' /\ UpInStep' /\ PumpsOfBridge'
    BY <2>0, <2>1 DEF Inv, DownInStep, UpInStep, PumpsOfBridge, serverVars
  <2>. QED  BY <2>1, <2>2, <2>3 DEF Inv
<1>. QED  BY <1>1, <1>2, <1>3, <1>4 DEF Handshake

LEMMA DecryptStep ==
    ASSUME Inv, Decrypt
    PROVE  Inv'
<1>0. /\ dec \in [on : BOOLEAN, left : Seq(1 .. sent)] /\ recvCtr \in Nat /\ srvSend \in Nat
      /\ down \in Seq(1 .. sent) /\ Len(down) \in Nat /\ wireDown \in Seq(FrameOf(sent))
      /\ sent \in Nat /\ Len(down) <= Cap /\ Len(wireDown) <= WireCap
  BY LenProperties DEF Inv, Typed, Pumps
<1>1. /\ UNCHANGED <<clientVars, sendCtr, up, enc, wireUp, serverVars>>
      /\ dec.on
  BY DEF Decrypt, DecryptFrame, DecryptPush, DecryptEof
<1>2. ASSUME Pumps', dec'.left \in Seq(1 .. sent), dec'.on => dec.on,
             recvCtr' \in Nat, down' \in Seq(1 .. sent), Len(down') <= Cap,
             wireDown' \in Seq(FrameOf(sent)), Len(wireDown') <= WireCap, DownInStep'
      PROVE  Inv'
  <2>1. Typed'
    BY <1>1, <1>2 DEF Inv, Typed, clientVars, serverVars
  <2>2. UpInStep' /\ PumpsOfBridge'
    BY <1>1, <1>2 DEF Inv, UpInStep, PumpsOfBridge, clientVars, serverVars
  <2>. QED  BY <1>2, <2>1, <2>2 DEF Inv
<1>3. ASSUME NEW d \in [on : BOOLEAN, left : Seq(1 .. sent)], dec' = d PROVE Pumps'
  BY <1>1, <1>3 DEF Inv, Pumps, clientVars, serverVars
<1>4. CASE DecryptFrame
  <2>0. /\ wireDown # <<>> /\ wireDown' = Tail(wireDown) /\ recvCtr' = recvCtr + 1 /\ down' = down
        /\ dec' \in {[dec EXCEPT !.left = Head(wireDown).body], [dec EXCEPT !.on = FALSE]}
    BY <1>4 DEF DecryptFrame
  <2>1. /\ Head(wireDown) \in FrameOf(sent)
        /\ wireDown' \in Seq(FrameOf(sent)) /\ Len(wireDown') = Len(wireDown) - 1
        /\ \A i \in 1 .. Len(wireDown) - 1 : wireDown'[i] = wireDown[i + 1]
        /\ Len(wireDown) \in Nat
    BY <1>0, <2>0, TailFacts
  <2>2. Head(wireDown).body \in Seq(1 .. sent)
    BY <2>1 DEF FrameOf
  <2>3. dec' \in [on : BOOLEAN, left : Seq(1 .. sent)]
    <3>1. [dec EXCEPT !.left = Head(wireDown).body] \in [on : BOOLEAN, left : Seq(1 .. sent)]
      BY <1>0, <2>2, DecFields
    <3>2. [dec EXCEPT !.on = FALSE] \in [on : BOOLEAN, left : Seq(1 .. sent)]
      BY <1>0, DecFields
    <3>. QED  BY <2>0, <3>1, <3>2
  <2>4. client /\ client' = client /\ serverOpen' = serverOpen /\ srvSend' = srvSend
    BY <1>1 DEF Inv, PumpsOfBridge, clientVars, serverVars
  <2>5. DownInStep'
    <3>1. \A i \in 1 .. Len(wireDown') : wireDown'[i].nonce = recvCtr' + i - 1
      BY <1>0, <2>0, <2>1, <2>4 DEF Inv, DownInStep
    <3>2. serverOpen => srvSend = recvCtr' + Len(wireDown')
      BY <1>0, <2>0, <2>1, <2>4 DEF Inv, DownInStep
    <3>. QED  BY <2>4, <3>1, <3>2 DEF DownInStep
  <2>6. dec'.left \in Seq(1 .. sent)
    BY <2>3
  <2>. QED  BY <1>0, <1>1, <1>2, <1>3, <2>0, <2>1, <2>3, <2>5, <2>6, Sizes
<1>5. CASE DecryptPush
  <2>0. /\ dec.left # <<>> /\ Len(down) < Cap /\ down' = Append(down, Head(dec.left))
        /\ dec' = [dec EXCEPT !.left = Tail(dec.left)]
        /\ UNCHANGED <<recvCtr, wireDown>>
    BY <1>5 DEF DecryptPush, Room, Rest
  <2>1. Head(dec.left) \in 1 .. sent /\ Tail(dec.left) \in Seq(1 .. sent)
    <3>1. dec.left \in Seq(1 .. sent)
      BY <1>0
    <3>. QED  BY <2>0, <3>1, TailFacts
  <2>2. down' \in Seq(1 .. sent) /\ Len(down') = Len(down) + 1
    BY <1>0, <2>0, <2>1, AppendProperties
  <2>3. dec' \in [on : BOOLEAN, left : Seq(1 .. sent)] /\ dec'.on = dec.on
    BY <1>0, <2>0, <2>1, DecFields
  <2>4. DownInStep'
    BY <1>1, <2>0 DEF Inv, DownInStep, clientVars, serverVars
  <2>5. dec'.left \in Seq(1 .. sent) /\ Len(down') <= Cap
    BY <1>0, <2>0, <2>2, <2>3, Sizes
  <2>. QED  BY <1>0, <1>2, <1>3, <2>0, <2>2, <2>3, <2>4, <2>5
<1>6. CASE DecryptEof
  <2>0. dec' = [dec EXCEPT !.on = FALSE] /\ UNCHANGED <<recvCtr, down, wireDown>>
    BY <1>6 DEF DecryptEof
  <2>1. dec' \in [on : BOOLEAN, left : Seq(1 .. sent)]
    BY <1>0, <2>0, DecFields
  <2>2. DownInStep'
    BY <1>1, <2>0 DEF Inv, DownInStep, clientVars, serverVars
  <2>3. dec'.left \in Seq(1 .. sent)
    BY <2>1
  <2>. QED  BY <1>0, <1>1, <1>2, <1>3, <2>0, <2>1, <2>2, <2>3
<1>. QED  BY <1>4, <1>5, <1>6 DEF Decrypt

LEMMA EncryptStep ==
    ASSUME Inv, Encrypt
    PROVE  Inv'
<1>0. /\ enc \in [on : BOOLEAN, frame : Seq(FrameOf(wrote))] /\ sendCtr \in Nat /\ srvRecv \in Nat
      /\ enc.frame \in Seq(FrameOf(wrote)) /\ Len(enc.frame) <= 1
      /\ up \in Seq(1 .. wrote) /\ Len(up) \in Nat /\ Len(up) <= Cap /\ wrote \in Nat
      /\ wireUp \in Seq(FrameOf(wrote)) /\ Len(wireUp) \in Nat /\ Len(wireUp) <= WireCap
      /\ serverOpen \in BOOLEAN /\ client \in BOOLEAN
  BY LenProperties DEF Inv, Typed, Pumps
<1>1. /\ UNCHANGED <<clientVars, recvCtr, down, dec, wireDown, serverVars>>
      /\ enc.on /\ client /\ hs = "bridge"
  BY DEF Encrypt, EncryptFrame, EncryptPush, Inv, PumpsOfBridge
<1>2. ASSUME enc' \in [on : BOOLEAN, frame : Seq(FrameOf(wrote))],
             enc'.frame \in Seq(FrameOf(wrote)), Len(enc'.frame) <= 1,
             sendCtr' \in Nat, up' \in Seq(1 .. wrote), Len(up') <= Cap,
             wireUp' \in Seq(FrameOf(wrote)), Len(wireUp') <= WireCap,
             enc'.frame # <<>> => enc'.on, UpInStep'
      PROVE  Inv'
  <2>1. Typed'
    BY <1>1, <1>2 DEF Inv, Typed, clientVars, serverVars
  <2>2. Pumps'
    BY <1>1, <1>2 DEF Inv, Pumps, clientVars, serverVars
  <2>3. DownInStep' /\ PumpsOfBridge'
    BY <1>1, <1>2 DEF Inv, DownInStep, PumpsOfBridge, clientVars, serverVars
  <2>. QED  BY <1>2, <2>1, <2>2, <2>3 DEF Inv
<1>3. CASE EncryptFrame
  <2>. DEFINE n == Taken(Len(up))
              f == Frame(sendCtr, SubSeq(up, 1, n))
  <2>0. /\ enc.frame = <<>> /\ n > 0
        /\ enc' = [enc EXCEPT !.frame = <<f>>] /\ up' = SubSeq(up, n + 1, Len(up))
        /\ sendCtr' = sendCtr + 1 /\ wireUp' = wireUp
    BY <1>3 DEF EncryptFrame
  <2>1. n \in 1 .. Len(up)
    BY <1>0, <2>0, Sizes DEF Taken
  <2>2. SubSeq(up, 1, n) \in Seq(1 .. wrote)
    <3>1. 1 \in 1 .. Len(up) + 1 /\ n \in 0 .. Len(up) /\ 1 <= n + 1
      BY <2>1
    <3>. HIDE DEF n
    <3>. QED  BY <1>0, <3>1, PartFacts
  <2>3. up' \in Seq(1 .. wrote) /\ Len(up') = Len(up) - n
    <3>1. n + 1 \in 1 .. Len(up) + 1 /\ Len(up) \in 0 .. Len(up) /\ n + 1 <= Len(up) + 1
      BY <1>0, <2>1
    <3>2. /\ SubSeq(up, n + 1, Len(up)) \in Seq(1 .. wrote)
          /\ Len(SubSeq(up, n + 1, Len(up))) = Len(up) - (n + 1) + 1
      <4>. DEFINE k == n + 1  l == Len(up)
      <4>1. k \in 1 .. Len(up) + 1 /\ l \in 0 .. Len(up) /\ k <= l + 1 /\ up \in Seq(1 .. wrote)
        BY <1>0, <3>1
      <4>. HIDE DEF k, l
      <4>2. SubSeq(up, k, l) \in Seq(1 .. wrote) /\ Len(SubSeq(up, k, l)) = l - k + 1
        BY <4>1, PartFacts
      <4>. QED  BY <4>2 DEF k, l
    <3>3. up' = SubSeq(up, n + 1, Len(up))
      BY <2>0
    <3>4. Len(up) \in Nat
      BY <1>0
    <3>5. Len(up) - (n + 1) + 1 = Len(up) - n
      BY <2>1, <3>4
    <3>. QED  BY <3>2, <3>3, <3>5
  <2>4. f \in FrameOf(wrote) /\ f.nonce = sendCtr
    BY <1>0, <2>2 DEF Frame, FrameOf
  <2>. HIDE DEF f, n
  <2>5. <<f>> \in Seq(FrameOf(wrote)) /\ Len(<<f>>) = 1 /\ <<f>>[1] = f /\ <<f>> # <<>>
    BY <2>4
  <2>6. /\ enc' \in [on : BOOLEAN, frame : Seq(FrameOf(wrote))]
        /\ enc'.frame = <<f>> /\ enc'.on = enc.on
    BY <1>0, <2>0, <2>5, EncFields
  <2>7. UpInStep'
    <3>. SUFFICES ASSUME serverOpen PROVE UpInStep'
      BY <1>1 DEF UpInStep, serverVars
    <3>1. Len(enc.frame) = 0
      BY <2>0
    <3>2. /\ sendCtr = srvRecv + Len(wireUp)
          /\ \A i \in 1 .. Len(wireUp) : wireUp[i].nonce = srvRecv + i - 1
      BY <1>0, <1>1, <3>1 DEF Inv, UpInStep
    <3>3. enc'.frame[1].nonce = srvRecv + Len(wireUp)
      BY <2>4, <2>5, <2>6, <3>2
    <3>4. sendCtr' = srvRecv + Len(wireUp) + Len(enc'.frame)
      BY <1>0, <2>0, <2>5, <2>6, <3>2
    <3>. QED  BY <1>1, <2>0, <3>2, <3>3, <3>4 DEF UpInStep, serverVars
  <2>8. Len(up') <= Cap /\ Len(enc'.frame) <= 1 /\ sendCtr' \in Nat
    <3>1. Len(up') <= Cap
      BY <1>0, <2>1, <2>3, Sizes
    <3>2. Len(enc'.frame) = 1
      BY <2>5, <2>6
    <3>3. sendCtr' = sendCtr + 1 /\ sendCtr \in Nat
      BY <1>0, <2>0
    <3>. QED  BY <3>1, <3>2, <3>3
  <2>. QED  BY <1>0, <1>1, <1>2, <2>0, <2>3, <2>5, <2>6, <2>7, <2>8
<1>4. CASE EncryptPush
  <2>0. enc.frame # <<>> /\ Len(enc.frame) = 1 /\ enc.frame[1] \in FrameOf(wrote)
        /\ sendCtr' = sendCtr /\ up' = up
    BY <1>0, <1>4, OneFrame DEF EncryptPush
  <2>1. <<>> \in Seq(FrameOf(wrote)) /\ Len(<<>>) = 0
    BY NoUnits
  <2>2. CASE serverOpen
    <3>0. /\ Len(wireUp) < WireCap /\ wireUp' = wireUp \o enc.frame
          /\ enc' = [enc EXCEPT !.frame = <<>>]
      BY <1>4, <2>2 DEF EncryptPush
    <3>1. /\ wireUp' \in Seq(FrameOf(wrote)) /\ Len(wireUp') = Len(wireUp) + 1
          /\ \A i \in 1 .. Len(wireUp) + 1 :
                wireUp'[i] = IF i <= Len(wireUp) THEN wireUp[i] ELSE enc.frame[i - Len(wireUp)]
      BY <1>0, <2>0, <3>0, ConcatProperties
    <3>2. /\ enc' \in [on : BOOLEAN, frame : Seq(FrameOf(wrote))]
          /\ enc'.frame = <<>>
      BY <1>0, <2>1, <3>0, EncFields
    <3>3. UpInStep'
      <4>1. /\ sendCtr = srvRecv + Len(wireUp) + 1
            /\ enc.frame[1].nonce = srvRecv + Len(wireUp)
            /\ \A i \in 1 .. Len(wireUp) : wireUp[i].nonce = srvRecv + i - 1
        BY <1>0, <1>1, <2>0, <2>2 DEF Inv, UpInStep
      <4>2. ASSUME NEW i \in 1 .. Len(wireUp') PROVE wireUp'[i].nonce = srvRecv + i - 1
        <5>1. CASE i <= Len(wireUp)
          <6>1. wireUp'[i] = wireUp[i] /\ i \in 1 .. Len(wireUp)
            BY <1>0, <3>1, <5>1
          <6>. QED  BY <4>1, <6>1
        <5>2. CASE i = Len(wireUp) + 1
          <6>1. wireUp'[i] = enc.frame[1]
            BY <1>0, <3>1, <5>2
          <6>. QED  BY <1>0, <4>1, <5>2, <6>1
        <5>. QED  BY <1>0, <3>1, <5>1, <5>2
      <4>3. sendCtr' = srvRecv + Len(wireUp') + Len(enc'.frame)
        BY <1>0, <2>0, <2>1, <3>1, <3>2, <4>1
      <4>. QED  BY <1>1, <3>2, <4>2, <4>3 DEF UpInStep, serverVars
    <3>4. Len(wireUp') <= WireCap /\ Len(enc'.frame) <= 1
      BY <1>0, <2>1, <3>0, <3>1, <3>2, Sizes
    <3>. QED  BY <1>0, <1>2, <2>0, <2>1, <3>1, <3>2, <3>3, <3>4
  <2>3. CASE ~serverOpen
    <3>0. /\ wireUp' = wireUp
          /\ enc' \in {[enc EXCEPT !.frame = <<>>], [on |-> FALSE, frame |-> <<>>]}
      BY <1>4, <2>3 DEF EncryptPush
    <3>1. /\ [enc EXCEPT !.frame = <<>>] \in [on : BOOLEAN, frame : Seq(FrameOf(wrote))]
          /\ [enc EXCEPT !.frame = <<>>].frame = <<>>
      BY <1>0, <2>1, EncFields
    <3>2. /\ enc' \in [on : BOOLEAN, frame : Seq(FrameOf(wrote))]
          /\ enc'.frame = <<>>
      <4>1. CASE enc' = [enc EXCEPT !.frame = <<>>]
        BY <3>1, <4>1
      <4>2. CASE enc' = [on |-> FALSE, frame |-> <<>>]
        BY <2>1, <4>2
      <4>. QED  BY <3>0, <4>1, <4>2
    <3>3. UpInStep'
      BY <1>1, <2>3 DEF UpInStep, serverVars
    <3>4. Len(enc'.frame) <= 1
      BY <2>1, <3>2
    <3>. QED  BY <1>0, <1>2, <2>0, <2>1, <3>0, <3>2, <3>3, <3>4
  <2>. QED  BY <1>0, <2>2, <2>3
<1>. QED  BY <1>3, <1>4 DEF Encrypt

LEMMA ClientStep ==
    ASSUME Inv, ClientWrite \/ Client \/ ClientEnd
    PROVE  Inv'
<1>0. /\ down \in Seq(1 .. sent) /\ read \in Seq(1 .. sent) /\ Len(down) \in Nat /\ Len(down) <= Cap
      /\ up \in Seq(1 .. wrote) /\ Len(up) \in Nat /\ Len(up) <= Cap /\ wrote \in Nat /\ writing \in Nat
      /\ wrote + writing <= MaxUp
  BY LenProperties DEF Inv, Typed
<1>1. CASE ClientEof \/ ClientEnd
  BY <1>1, EndStep DEF ClientEof, ClientEnd
<1>2. ASSUME UNCHANGED <<client, hs, sendCtr, recvCtr, dec, enc, wireDown, wireUp, serverVars>>
      PROVE  DownInStep' /\ UpInStep' /\ PumpsOfBridge'
  BY <1>2 DEF Inv, DownInStep, UpInStep, PumpsOfBridge, serverVars
<1>3. CASE ClientWrite
  <2>0. /\ writing = 0 /\ writing' \in 1 .. MaxUp - wrote
        /\ UNCHANGED <<hs, client, wrote, read, sendCtr, recvCtr, down, up, dec, enc, wireDown, wireUp, serverVars>>
    BY <1>3 DEF ClientWrite, bridgeVars
  <2>1. writing' \in Nat /\ wrote' + writing' <= MaxUp
    <3>1. writing' \in 1 .. MaxUp - wrote /\ wrote' = wrote /\ wrote \in Nat
      BY <1>0, <2>0
    <3>2. ASSUME NEW n \in 1 .. MaxUp - wrote PROVE n \in Nat /\ wrote + n <= MaxUp
      BY <3>1, <3>2, Sizes
    <3>. QED  BY <3>1, <3>2
  <2>2. Typed' /\ Pumps'
    BY <2>0, <2>1 DEF Inv, Typed, Pumps, serverVars
  <2>. QED  BY <1>2, <2>0, <2>2 DEF Inv
<1>4. CASE ClientPush
  <2>0. /\ writing > 0 /\ Len(up) < Cap /\ up' = Append(up, wrote + 1)
        /\ wrote' = wrote + 1 /\ writing' = writing - 1
        /\ UNCHANGED <<hs, client, read, sendCtr, recvCtr, down, dec, enc, wireDown, wireUp, serverVars>>
    BY <1>4 DEF ClientPush, Room
  <2>1. wrote' \in Nat /\ wrote <= wrote' /\ writing' \in Nat /\ wrote' + writing' <= MaxUp
    BY <1>0, <2>0, Sizes
  <2>2. /\ Seq(1 .. wrote) \subseteq Seq(1 .. wrote') /\ FrameOf(wrote) \subseteq FrameOf(wrote')
        /\ Seq(FrameOf(wrote)) \subseteq Seq(FrameOf(wrote'))
    BY <1>0, <2>1, MoreUnits
  <2>3. wrote + 1 \in 1 .. wrote' /\ up \in Seq(1 .. wrote')
    BY <1>0, <2>0, <2>2
  <2>4. up' \in Seq(1 .. wrote') /\ Len(up') = Len(up) + 1
    BY <2>0, <2>3, AppendProperties
  <2>5. Len(up') <= Cap
    BY <1>0, <2>0, <2>4, Sizes
  <2>6. /\ got' \in Seq(1 .. wrote') /\ enc'.frame \in Seq(FrameOf(wrote'))
        /\ wireUp' \in Seq(FrameOf(wrote'))
    BY <2>0, <2>2 DEF Inv, Typed, serverVars
  <2>7. Typed'
    BY <2>0, <2>1, <2>4, <2>5, <2>6 DEF Inv, Typed, serverVars
  <2>8. Pumps'
    BY <2>0, <2>2 DEF Inv, Pumps, serverVars
  <2>. QED  BY <1>2, <2>0, <2>7, <2>8 DEF Inv
<1>5. CASE ClientRead
  <2>0. /\ down # <<>> /\ read' = Append(read, Head(down)) /\ down' = Tail(down)
        /\ UNCHANGED <<hs, client, writing, wrote, sendCtr, recvCtr, up, dec, enc, wireDown, wireUp, serverVars>>
    BY <1>5 DEF ClientRead
  <2>1. Head(down) \in 1 .. sent /\ down' \in Seq(1 .. sent) /\ Len(down') = Len(down) - 1
    BY <1>0, <2>0, TailFacts
  <2>2. read' \in Seq(1 .. sent) /\ Len(down') <= Cap
    BY <1>0, <2>0, <2>1, AppendProperties, Sizes
  <2>3. Typed' /\ Pumps'
    BY <2>0, <2>1, <2>2 DEF Inv, Typed, Pumps, serverVars
  <2>. QED  BY <1>2, <2>0, <2>3 DEF Inv
<1>. QED  BY <1>1, <1>3, <1>4, <1>5 DEF Client

LEMMA ServerSendStep ==
    ASSUME Inv, ServerHandshake \/ ServerData
    PROVE  Inv'
<1>0. /\ sent \in Nat /\ sent <= MaxDown /\ srvSend \in Nat /\ recvCtr \in Nat
      /\ wireDown \in Seq(FrameOf(sent)) /\ Len(wireDown) \in Nat /\ Len(wireDown) <= WireCap
  BY LenProperties DEF Inv, Typed
<1>1. PICK n, body : /\ n \in Nat /\ body \in Seq(1 .. sent + n) /\ Len(body) = n
                     /\ ServerSends(body) /\ sent + n <= MaxDown
  <2>1. CASE ServerHandshake
    <3>1. ServerSends(<<>>)
      BY <2>1 DEF ServerHandshake
    <3>2. 0 \in Nat /\ <<>> \in Seq(1 .. sent + 0) /\ Len(<<>>) = 0 /\ sent + 0 <= MaxDown
      BY <1>0, NoUnits
    <3>. QED  BY <3>1, <3>2
  <2>2. CASE ServerData
    <3>1. PICK n \in 1 .. MaxFrame : sent + n <= MaxDown /\ ServerSends(Units(sent, n))
      BY <2>2 DEF ServerData
    <3>2. Units(sent, n) \in Seq(1 .. sent + n) /\ Len(Units(sent, n)) = n
      BY <1>0, SizesAssumption DEF Units
    <3>. QED  BY <3>1, <3>2, SizesAssumption
  <2>. QED  BY <2>1, <2>2
<1>. DEFINE f == Frame(srvSend, body)
<1>2. /\ serverOpen /\ client /\ Len(wireDown) < WireCap
      /\ wireDown' = Append(wireDown, f) /\ srvSend' = srvSend + 1 /\ sent' = sent + n
      /\ UNCHANGED <<clientVars, sendCtr, recvCtr, bridgeVars, wireUp, serverOpen, srvRecv, got>>
  BY <1>1 DEF ServerSends
<1>3. f \in FrameOf(sent') /\ f.nonce = srvSend
  <2>1. srvSend \in Nat /\ body \in Seq(1 .. sent')
    BY <1>0, <1>1, <1>2
  <2>. QED  BY <2>1 DEF Frame, FrameOf
<1>. HIDE DEF f
<1>4. sent' \in Nat /\ sent <= sent' /\ sent' <= MaxDown
  BY <1>0, <1>1, <1>2
<1>5. Seq(1 .. sent) \subseteq Seq(1 .. sent') /\ Seq(FrameOf(sent)) \subseteq Seq(FrameOf(sent'))
  BY <1>0, <1>4, MoreUnits
<1>6. /\ wireDown' \in Seq(FrameOf(sent')) /\ Len(wireDown') = Len(wireDown) + 1
      /\ \A i \in 1 .. Len(wireDown) : wireDown'[i] = wireDown[i]
      /\ wireDown'[Len(wireDown) + 1] = f
  BY <1>0, <1>2, <1>3, <1>5, AppendProperties
<1>7. Typed'
  <2>1. /\ read' \in Seq(1 .. sent') /\ down' \in Seq(1 .. sent') /\ dec'.left \in Seq(1 .. sent')
        /\ Len(wireDown') <= WireCap
    <3>1. read \in Seq(1 .. sent) /\ down \in Seq(1 .. sent) /\ dec.left \in Seq(1 .. sent)
      BY DEF Inv, Typed
    <3>2. read' = read /\ down' = down /\ dec' = dec
      BY <1>2 DEF clientVars, bridgeVars
    <3>3. Len(wireDown') <= WireCap
      BY <1>0, <1>2, <1>6, Sizes
    <3>. QED  BY <1>5, <3>1, <3>2, <3>3
  <2>2. srvSend' \in Nat
    BY <1>0, <1>2
  <2>. QED  BY <1>2, <1>4, <1>6, <2>1, <2>2 DEF Inv, Typed, clientVars, bridgeVars
<1>8. Pumps'
  BY <1>2, <1>5 DEF Inv, Pumps, clientVars, bridgeVars
<1>9. DownInStep'
  <2>1. /\ srvSend = recvCtr + Len(wireDown)
        /\ \A i \in 1 .. Len(wireDown) : wireDown[i].nonce = recvCtr + i - 1
    BY <1>2 DEF Inv, DownInStep
  <2>2. ASSUME NEW i \in 1 .. Len(wireDown') PROVE wireDown'[i].nonce = recvCtr + i - 1
    <3>1. CASE i \in 1 .. Len(wireDown)
      BY <1>6, <2>1, <3>1
    <3>2. CASE i = Len(wireDown) + 1
      BY <1>0, <1>3, <1>6, <2>1, <3>2
    <3>. QED  BY <1>0, <1>6, <3>1, <3>2
  <2>3. srvSend' = recvCtr + Len(wireDown')
    BY <1>0, <1>2, <1>6, <2>1
  <2>. QED  BY <1>2, <2>2, <2>3 DEF DownInStep, clientVars
<1>10. UpInStep' /\ PumpsOfBridge'
  BY <1>2 DEF Inv, UpInStep, PumpsOfBridge, clientVars, bridgeVars
<1>. QED  BY <1>7, <1>8, <1>9, <1>10 DEF Inv

LEMMA ServerReadsStep ==
    ASSUME Inv, ServerReads
    PROVE  Inv'
<1>0. /\ serverOpen /\ wireUp # <<>> /\ wireUp' = Tail(wireUp) /\ srvRecv' = srvRecv + 1
      /\ got' = IF Opens(Head(wireUp), srvRecv) THEN got \o Head(wireUp).body ELSE got
      /\ serverOpen' = Opens(Head(wireUp), srvRecv)
      /\ UNCHANGED <<clientVars, sendCtr, recvCtr, bridgeVars, wireDown, srvSend, sent>>
  BY DEF ServerReads
<1>1. /\ wireUp \in Seq(FrameOf(wrote)) /\ got \in Seq(1 .. wrote) /\ Len(wireUp) <= WireCap
      /\ srvRecv \in Nat /\ sendCtr \in Nat /\ enc.frame \in Seq(FrameOf(wrote)) /\ Len(enc.frame) \in Nat
  BY LenProperties DEF Inv, Typed
<1>2. /\ Head(wireUp) \in FrameOf(wrote) /\ Head(wireUp) = wireUp[1]
      /\ wireUp' \in Seq(FrameOf(wrote)) /\ Len(wireUp') = Len(wireUp) - 1
      /\ \A i \in 1 .. Len(wireUp) - 1 : wireUp'[i] = wireUp[i + 1]
      /\ Len(wireUp) \in Nat \ {0}
  BY <1>0, <1>1, TailFacts
<1>3. Head(wireUp).body \in Seq(1 .. wrote)
  BY <1>2 DEF FrameOf
<1>4. got' \in Seq(1 .. wrote)
  BY <1>0, <1>1, <1>3, ConcatProperties
<1>5. /\ \A i \in 1 .. Len(wireUp) : wireUp[i].nonce = srvRecv + i - 1
      /\ enc.frame # <<>> => enc.frame[1].nonce = srvRecv + Len(wireUp)
      /\ client => sendCtr = srvRecv + Len(wireUp) + Len(enc.frame)
  BY <1>0 DEF Inv, UpInStep
<1>6. serverOpen' = TRUE
  <2>1. wireUp[1].nonce = srvRecv + 1 - 1
    BY <1>2, <1>5
  <2>2. Head(wireUp).nonce = srvRecv
    BY <1>1, <1>2, <2>1
  <2>. QED  BY <1>0, <2>2 DEF Opens
<1>7. Typed'
  <2>1. srvRecv' \in Nat /\ Len(wireUp') <= WireCap
    BY <1>0, <1>1, <1>2, Sizes
  <2>. QED  BY <1>0, <1>2, <1>4, <1>6, <2>1 DEF Inv, Typed, clientVars, bridgeVars
<1>8. UpInStep'
  <2>1. \A i \in 1 .. Len(wireUp') : wireUp'[i].nonce = srvRecv' + i - 1
    BY <1>0, <1>1, <1>2, <1>5
  <2>2. /\ enc.frame # <<>> => enc.frame[1].nonce = srvRecv' + Len(wireUp')
        /\ client => sendCtr = srvRecv' + Len(wireUp') + Len(enc.frame)
    <3>1. srvRecv' + Len(wireUp') = srvRecv + Len(wireUp)
      BY <1>0, <1>1, <1>2
    <3>. QED  BY <1>5, <3>1
  <2>. QED  BY <1>0, <2>1, <2>2 DEF UpInStep, clientVars, bridgeVars
<1>9. Pumps' /\ DownInStep' /\ PumpsOfBridge'
  BY <1>0, <1>6 DEF Inv, Pumps, DownInStep, PumpsOfBridge, clientVars, bridgeVars
<1>. QED  BY <1>7, <1>8, <1>9 DEF Inv

LEMMA ServerClosesStep ==
    ASSUME Inv, ServerCloses
    PROVE  Inv'
<1>0. PICK k \in 0 .. Len(wireDown) :
         /\ serverOpen' = FALSE /\ wireUp' = <<>> /\ wireDown' = SubSeq(wireDown, 1, k)
         /\ UNCHANGED <<clientVars, sendCtr, recvCtr, bridgeVars, srvSend, srvRecv, sent, got>>
  BY DEF ServerCloses
<1>1. wireDown \in Seq(FrameOf(sent)) /\ Len(wireDown) \in Nat /\ Len(wireDown) <= WireCap
  BY LenProperties DEF Inv, Typed
<1>2. /\ SubSeq(wireDown, 1, k) \in Seq(FrameOf(sent)) /\ Len(SubSeq(wireDown, 1, k)) = k - 1 + 1
      /\ \A i \in 1 .. k - 1 + 1 : SubSeq(wireDown, 1, k)[i] = wireDown[1 + i - 1]
  <2>1. 1 \in 1 .. Len(wireDown) + 1 /\ 1 <= k + 1
    BY <1>1
  <2>. QED  BY <1>1, <2>1, PartFacts
<1>3. /\ wireDown' \in Seq(FrameOf(sent)) /\ Len(wireDown') = k
      /\ \A i \in 1 .. k : wireDown'[i] = wireDown[i]
  BY <1>0, <1>1, <1>2
<1>4. Typed'
  <2>1. Len(wireDown') <= WireCap /\ wireUp' \in Seq(FrameOf(wrote)) /\ Len(wireUp') <= WireCap
    BY <1>0, <1>1, <1>3, NoUnits, Sizes
  <2>. QED  BY <1>0, <1>3, <2>1 DEF Inv, Typed, clientVars, bridgeVars
<1>5. DownInStep'
  <2>1. client => \A i \in 1 .. Len(wireDown') : wireDown'[i].nonce = recvCtr + i - 1
    BY <1>1, <1>3 DEF Inv, DownInStep
  <2>2. ~client => wireDown' = <<>>
    <3>1. SUFFICES ASSUME ~client PROVE wireDown' = <<>>
      OBVIOUS
    <3>2. Len(wireDown) = 0
      BY <3>1 DEF Inv, DownInStep
    <3>. QED  BY <1>3, <3>2, EmptySeq
  <2>. QED  BY <1>0, <2>1, <2>2 DEF DownInStep, clientVars
<1>6. Pumps' /\ UpInStep' /\ PumpsOfBridge'
  BY <1>0 DEF Inv, Pumps, UpInStep, PumpsOfBridge, clientVars, bridgeVars
<1>. QED  BY <1>4, <1>5, <1>6 DEF Inv

LEMMA InitInv == Init => Inv
<1>. SUFFICES ASSUME Init PROVE Inv
  OBVIOUS
<1>1. /\ <<>> \in Seq(1 .. 0) /\ <<>> \in Seq(FrameOf(0)) /\ Len(<<>>) = 0
  BY NoUnits
<1>2. sent = 0 /\ wrote = 0 /\ dec.left = <<>> /\ enc.frame = <<>>
  BY DEF Init
<1>3. Typed
  <2>1. 0 <= Cap /\ 0 <= WireCap /\ 0 + 0 <= MaxUp /\ 0 <= MaxDown /\ 0 \in Nat
    BY Sizes
  <2>. QED  BY <1>1, <1>2, <2>1 DEF Init, Typed
<1>4. Pumps
  BY <1>1, <1>2 DEF Init, Pumps
<1>5. DownInStep /\ UpInStep /\ PumpsOfBridge
  <2>1. \A i \in 1 .. Len(<<>>) : FALSE
    BY <1>1
  <2>. QED  BY <1>1, <1>2, <2>1 DEF Init, DownInStep, UpInStep, PumpsOfBridge
<1>. QED  BY <1>3, <1>4, <1>5 DEF Inv

-----------------------------------------------------------------------------
(* The theorems.                                                           *)

\* Inv is inductive.
THEOREM Invariance == Spec => []Inv
<1>1. ASSUME Inv, [Next]_vars PROVE Inv'
  <2>1. CASE Handshake \/ Decrypt \/ Encrypt
    BY <1>1, <2>1, HandshakeStep, DecryptStep, EncryptStep
  <2>2. CASE ClientWrite \/ Client \/ ClientEnd
    BY <1>1, <2>2, ClientStep
  <2>3. CASE ServerHandshake \/ ServerData \/ ServerReads \/ ServerCloses
    BY <1>1, <2>3, ServerSendStep, ServerReadsStep, ServerClosesStep
  <2>4. CASE UNCHANGED vars
    <3>. USE DEF vars, clientVars, bridgeVars, serverVars
    <3>1. Typed' /\ Pumps'
      BY <1>1, <2>4 DEF Inv, Typed, Pumps
    <3>2. DownInStep' /\ UpInStep' /\ PumpsOfBridge'
      BY <1>1, <2>4 DEF Inv, DownInStep, UpInStep, PumpsOfBridge
    <3>. QED  BY <3>1, <3>2 DEF Inv
  <2>. QED  BY <1>1, <2>1, <2>2, <2>3, <2>4 DEF Next
<1>. QED  BY <1>1, InitInv, PTL DEF Spec

\* The capacities of the duplex and of the network hold, and every unit that is
\* anywhere has been sent.
THEOREM TypeCorrect == Spec => []TypeOK
<1>1. Inv => TypeOK
  BY TypedIsTypeOK DEF Inv
<1>. QED  BY <1>1, Invariance, PTL

\* For any sizes and any amount of data in the two directions, no frame is sent
\* under a nonce the other side does not expect at its turn, over the handshake,
\* the hand-over to the pumps and the session (ra2.rs: next_nonce).
THEOREM NoncesAlways == Spec => []NoncesInStep
<1>1. Inv => NoncesInStep
  <2>. SUFFICES ASSUME Inv PROVE NoncesInStep
    OBVIOUS
  <2>1. /\ wireDown \in Seq(FrameOf(sent)) /\ DOMAIN wireDown = 1 .. Len(wireDown)
        /\ wireUp \in Seq(FrameOf(wrote)) /\ enc.frame \in Seq(FrameOf(wrote)) /\ Len(enc.frame) <= 1
        /\ Len(wireUp) \in Nat /\ Len(enc.frame) \in Nat /\ srvRecv \in Nat
    BY LenProperties DEF Inv, Typed
  <2>2. client => \A i \in DOMAIN wireDown : wireDown[i].nonce = recvCtr + i - 1
    BY <2>1 DEF Inv, DownInStep
  <2>3. ASSUME serverOpen, NEW i \in DOMAIN (wireUp \o enc.frame)
        PROVE  (wireUp \o enc.frame)[i].nonce = srvRecv + i - 1
    <3>1. /\ i \in 1 .. Len(wireUp) + Len(enc.frame)
          /\ (wireUp \o enc.frame)[i] =
                IF i <= Len(wireUp) THEN wireUp[i] ELSE enc.frame[i - Len(wireUp)]
      <4>1. wireUp \o enc.frame \in Seq(FrameOf(wrote))
            /\ Len(wireUp \o enc.frame) = Len(wireUp) + Len(enc.frame)
        BY <2>1, ConcatProperties
      <4>2. i \in 1 .. Len(wireUp) + Len(enc.frame)
        BY <4>1, LenProperties
      <4>. QED  BY <2>1, <4>2, ConcatProperties
    <3>2. CASE i <= Len(wireUp)
      <4>1. i \in 1 .. Len(wireUp) /\ (wireUp \o enc.frame)[i] = wireUp[i]
        BY <2>1, <3>1, <3>2
      <4>. QED  BY <2>3, <4>1 DEF Inv, UpInStep
    <3>3. CASE ~(i <= Len(wireUp))
      <4>1. i = Len(wireUp) + 1 /\ Len(enc.frame) = 1 /\ (wireUp \o enc.frame)[i] = enc.frame[1]
        <5>. DEFINE m == Len(wireUp)
                    k == Len(enc.frame)
        <5>1. i \in 1 .. m + k /\ ~(i <= m) /\ m \in Nat /\ k \in Nat /\ k <= 1
          BY <2>1, <3>1, <3>3
        <5>. HIDE DEF m, k
        <5>2. i = m + 1 /\ k = 1 /\ i - m = 1
          BY <5>1
        <5>. QED  BY <3>1, <3>3, <5>2 DEF m, k
      <4>2. enc.frame # <<>>
        BY <4>1
      <4>3. enc.frame[1].nonce = srvRecv + Len(wireUp)
        BY <2>3, <4>2 DEF Inv, UpInStep
      <4>. QED  BY <2>1, <4>1, <4>3
    <3>. QED  BY <3>2, <3>3
  <2>. QED  BY <2>2, <2>3 DEF NoncesInStep
<1>. QED  BY <1>1, Invariance, PTL

-----------------------------------------------------------------------------
(* Nothing is lost: the units of a sequence, and the marks of the frames.  *)

LEMMA UnitsFacts ==
    ASSUME NEW a \in Nat, NEW n \in Nat
    PROVE  /\ Units(a, n) \in Seq(Nat) /\ Len(Units(a, n)) = n
           /\ \A i \in 1 .. n : Units(a, n)[i] = a + i
BY DEF Units

\* A sequence is a stretch of units when each of its elements is the next one.
LEMMA UnitsAre ==
    ASSUME NEW s \in Seq(Nat), NEW a \in Nat, NEW n \in Nat, Len(s) = n,
           \A i \in 1 .. n : s[i] = a + i
    PROVE  s = Units(a, n)
<1>1. /\ Units(a, n) \in Seq(Nat) /\ Len(Units(a, n)) = Len(s)
      /\ \A i \in 1 .. Len(s) : s[i] = Units(a, n)[i]
  BY UnitsFacts
<1>. QED  BY <1>1, SeqEqual

\* Two stretches one after the other are one, and a stretch falls into two at
\* any place.
LEMMA UnitsJoin ==
    ASSUME NEW a \in Nat, NEW m \in Nat, NEW n \in Nat
    PROVE  Units(a, m) \o Units(a + m, n) = Units(a, m + n)
<1>. DEFINE s == Units(a, m)
            t == Units(a + m, n)
<1>0. a + m \in Nat
  OBVIOUS
<1>1. /\ s \in Seq(Nat) /\ Len(s) = m /\ t \in Seq(Nat) /\ Len(t) = n
      /\ \A i \in 1 .. m : s[i] = a + i
      /\ \A i \in 1 .. n : t[i] = a + m + i
  <2>1. s \in Seq(Nat) /\ Len(s) = m /\ \A i \in 1 .. m : s[i] = a + i
    BY UnitsFacts
  <2>2. t \in Seq(Nat) /\ Len(t) = n /\ \A i \in 1 .. n : t[i] = a + m + i
    BY <1>0, UnitsFacts
  <2>. QED  BY <2>1, <2>2
<1>. HIDE DEF s, t
<1>2. /\ s \o t \in Seq(Nat) /\ Len(s \o t) = m + n
      /\ \A i \in 1 .. m + n : (s \o t)[i] = IF i <= m THEN s[i] ELSE t[i - m]
  <2>1. s \in Seq(Nat) /\ t \in Seq(Nat)
    BY <1>1
  <2>2. /\ s \o t \in Seq(Nat) /\ Len(s \o t) = Len(s) + Len(t)
        /\ \A i \in 1 .. Len(s) + Len(t) :
              (s \o t)[i] = IF i <= Len(s) THEN s[i] ELSE t[i - Len(s)]
    BY <2>1, ConcatProperties
  <2>. QED  BY <1>1, <2>2
<1>3. ASSUME NEW i \in 1 .. m + n PROVE (s \o t)[i] = a + i
  <2>1. CASE i <= m
    <3>1. i \in 1 .. m /\ (s \o t)[i] = s[i]
      BY <1>2, <2>1
    <3>. QED  BY <1>1, <3>1
  <2>2. CASE ~(i <= m)
    <3>1. i - m \in 1 .. n
      BY <2>2
    <3>. QED  BY <1>1, <1>2, <2>2, <3>1
  <2>. QED  BY <2>1, <2>2
<1>4. m + n \in Nat
  OBVIOUS
<1>5. s \o t = Units(a, m + n)
  BY <1>2, <1>3, <1>4, UnitsAre
<1>. QED  BY <1>5 DEF s, t

LEMMA UnitsFrom0 ==
    ASSUME NEW m \in Nat, NEW n \in Nat
    PROVE  Units(0, m) \o Units(m, n) = Units(0, m + n)
<1>1. 0 \in Nat /\ 0 + m = m
  OBVIOUS
<1>2. Units(0, m) \o Units(0 + m, n) = Units(0, m + n)
  BY UnitsJoin
<1>. QED  BY <1>1, <1>2

LEMMA UnitsPart ==
    ASSUME NEW a \in Nat, NEW n \in Nat, NEW k \in 0 .. n
    PROVE  /\ SubSeq(Units(a, n), 1, k) = Units(a, k)
           /\ SubSeq(Units(a, n), k + 1, n) = Units(a + k, n - k)
<1>. DEFINE s == Units(a, n)
<1>1. s \in Seq(Nat) /\ Len(s) = n /\ \A i \in 1 .. n : s[i] = a + i
  BY UnitsFacts
<1>. HIDE DEF s
<1>2. SubSeq(s, 1, k) = Units(a, k)
  <2>1. 1 \in 1 .. Len(s) + 1 /\ k \in 0 .. Len(s) /\ 1 <= k + 1
    BY <1>1
  <2>2. /\ SubSeq(s, 1, k) \in Seq(Nat) /\ Len(SubSeq(s, 1, k)) = k - 1 + 1
        /\ \A i \in 1 .. k - 1 + 1 : SubSeq(s, 1, k)[i] = s[1 + i - 1]
    BY <1>1, <2>1, PartFacts
  <2>3. /\ Len(SubSeq(s, 1, k)) = k /\ k \in Nat
        /\ \A i \in 1 .. k : SubSeq(s, 1, k)[i] = a + i
    BY <1>1, <2>2
  <2>. QED  BY <2>2, <2>3, UnitsAre
<1>3. SubSeq(s, k + 1, n) = Units(a + k, n - k)
  <2>1. k + 1 \in 1 .. Len(s) + 1 /\ n \in 0 .. Len(s) /\ k + 1 <= n + 1
    BY <1>1
  <2>2. /\ SubSeq(s, k + 1, n) \in Seq(Nat) /\ Len(SubSeq(s, k + 1, n)) = n - (k + 1) + 1
        /\ \A i \in 1 .. n - (k + 1) + 1 : SubSeq(s, k + 1, n)[i] = s[k + 1 + i - 1]
    BY <1>1, <2>1, PartFacts
  <2>3. /\ Len(SubSeq(s, k + 1, n)) = n - k /\ n - k \in Nat /\ a + k \in Nat
        /\ \A i \in 1 .. n - k : SubSeq(s, k + 1, n)[i] = a + k + i
    BY <1>1, <2>2
  <2>. QED  BY <2>2, <2>3, UnitsAre
<1>. QED  BY <1>2, <1>3 DEF s

LEMMA UnitsAppend ==
    ASSUME NEW a \in Nat, NEW n \in Nat
    PROVE  Append(Units(a, n), a + n + 1) = Units(a, n + 1)
<1>. DEFINE s == Units(a, n)
<1>1. s \in Seq(Nat) /\ Len(s) = n /\ (\A i \in 1 .. n : s[i] = a + i) /\ a + n + 1 \in Nat
  BY UnitsFacts
<1>. HIDE DEF s
<1>2. /\ Append(s, a + n + 1) \in Seq(Nat) /\ Len(Append(s, a + n + 1)) = n + 1
      /\ \A i \in 1 .. n : Append(s, a + n + 1)[i] = s[i]
      /\ Append(s, a + n + 1)[n + 1] = a + n + 1
  BY <1>1, AppendProperties
<1>3. n + 1 \in Nat /\ \A i \in 1 .. n + 1 : Append(s, a + n + 1)[i] = a + i
  BY <1>1, <1>2
<1>4. Append(s, a + n + 1) = Units(a, n + 1)
  BY <1>2, <1>3, UnitsAre
<1>. QED  BY <1>4 DEF s

\* Handing the first element of the last of three sequences on changes nothing.
LEMMA HandOn ==
    ASSUME NEW s \in Seq(Nat), NEW t \in Seq(Nat), t # <<>>
    PROVE  Append(s, Head(t)) \o Tail(t) = s \o t
<1>1. Head(t) \in Nat /\ Tail(t) \in Seq(Nat) /\ Head(t) = t[1] /\ Len(t) \in Nat \ {0}
      /\ Len(Tail(t)) = Len(t) - 1 /\ \A i \in 1 .. Len(t) - 1 : Tail(t)[i] = t[i + 1]
  BY TailFacts
<1>2. /\ Append(s, Head(t)) \in Seq(Nat) /\ Len(Append(s, Head(t))) = Len(s) + 1 /\ Len(s) \in Nat
      /\ \A i \in 1 .. Len(s) : Append(s, Head(t))[i] = s[i]
      /\ Append(s, Head(t))[Len(s) + 1] = Head(t)
  BY <1>1, AppendProperties, LenProperties
<1>. DEFINE u == Append(s, Head(t))
            w == Tail(t)
            m == Len(s)
            n == Len(t)
<1>3. /\ u \o w \in Seq(Nat) /\ Len(u \o w) = Len(u) + Len(w)
      /\ \A i \in 1 .. Len(u) + Len(w) : (u \o w)[i] = IF i <= Len(u) THEN u[i] ELSE w[i - Len(u)]
  BY <1>1, <1>2, ConcatProperties
<1>4. /\ s \o t \in Seq(Nat) /\ Len(s \o t) = m + n
      /\ \A i \in 1 .. m + n : (s \o t)[i] = IF i <= m THEN s[i] ELSE t[i - m]
  BY ConcatProperties
<1>5. m \in Nat /\ n \in Nat \ {0} /\ Len(u) = m + 1 /\ Len(w) = n - 1 /\ u[m + 1] = t[1]
      /\ (\A i \in 1 .. m : u[i] = s[i]) /\ \A i \in 1 .. n - 1 : w[i] = t[i + 1]
  BY <1>1, <1>2
<1>. HIDE DEF u, w, m, n
<1>a. /\ Len(u \o w) = m + n
      /\ \A i \in 1 .. m + n : (u \o w)[i] = IF i <= m + 1 THEN u[i] ELSE w[i - (m + 1)]
  <2>1. Len(u) + Len(w) = m + n
    BY <1>5
  <2>. QED  BY <1>3, <1>5, <2>1
<1>6. ASSUME NEW i \in 1 .. m + n PROVE (u \o w)[i] = (s \o t)[i]
  <2>0. (u \o w)[i] = IF i <= m + 1 THEN u[i] ELSE w[i - (m + 1)]
    BY <1>a
  <2>1. CASE i <= m
    <3>1. i \in 1 .. m /\ i <= m + 1
      BY <1>5, <2>1
    <3>2. (u \o w)[i] = u[i] /\ u[i] = s[i]
      BY <1>5, <2>0, <3>1
    <3>3. (s \o t)[i] = s[i]
      BY <1>4, <2>1
    <3>. QED  BY <3>2, <3>3
  <2>2. CASE i = m + 1
    <3>1. i <= m + 1 /\ ~(i <= m) /\ i - m = 1
      BY <1>5, <2>2
    <3>2. (u \o w)[i] = u[m + 1]
      BY <2>0, <2>2, <3>1
    <3>3. (s \o t)[i] = t[1]
      BY <1>4, <3>1
    <3>. QED  BY <1>5, <3>2, <3>3
  <2>3. CASE i > m + 1
    <3>1. i - (m + 1) \in 1 .. n - 1 /\ i - (m + 1) + 1 = i - m /\ ~(i <= m)
      BY <1>5, <2>3
    <3>2. (u \o w)[i] = w[i - (m + 1)] /\ w[i - (m + 1)] = t[i - (m + 1) + 1]
      <4>1. ~(i <= m + 1)
        BY <1>5, <2>3
      <4>. QED  BY <1>5, <2>0, <3>1, <4>1
    <3>3. (s \o t)[i] = t[i - m]
      BY <1>4, <3>1
    <3>. QED  BY <3>1, <3>2, <3>3
  <2>4. m \in Nat /\ i \in Nat
    BY <1>5
  <2>5. i <= m \/ i = m + 1 \/ i > m + 1
    BY <2>4
  <2>. QED  BY <2>1, <2>2, <2>3, <2>5
<1>7. u \o w = s \o t
  <2>1. Len(u \o w) = Len(s \o t) /\ \A i \in 1 .. Len(u \o w) : (u \o w)[i] = (s \o t)[i]
    BY <1>4, <1>a, <1>6
  <2>. QED  BY <1>3, <1>4, <2>1, SeqEqual
<1>. QED  BY <1>7 DEF u, w

LEMMA NoneAt == ASSUME NEW a \in Nat PROVE <<>> = Units(a, 0)
<1>1. <<>> \in Seq(Nat) /\ Len(<<>>) = 0 /\ 0 \in Nat /\ \A i \in 1 .. 0 : <<>>[i] = a + i
  OBVIOUS
<1>. QED  BY <1>1, UnitsAre

\* What the marks of the frames say, one frame at a time.
LEMMA MarksFacts ==
    ASSUME NEW m, NEW frames \in Seq(FrameOf(m)), NEW from, NEW max \in Nat,
           NEW at \in Marks(frames, from, max)
    PROVE  /\ from \in 0 .. max /\ at[0] = from
           /\ \A i \in 0 .. Len(frames) : at[i] \in 0 .. max
           /\ at[Len(frames)] \in 0 .. max
           /\ \A i \in 1 .. Len(frames) :
                 /\ frames[i].body = Units(at[i - 1], Len(frames[i].body))
                 /\ at[i] = at[i - 1] + Len(frames[i].body)
<1>1. Len(frames) \in Nat
  BY LenProperties
<1>2. /\ at \in [0 .. Len(frames) -> 0 .. max] /\ at[0] = from
      /\ \A i \in 1 .. Len(frames) :
            /\ frames[i].body = Units(at[i - 1], Len(frames[i].body))
            /\ at[i] = at[i - 1] + Len(frames[i].body)
  BY DEF Marks
<1>3. 0 \in 0 .. Len(frames) /\ Len(frames) \in 0 .. Len(frames)
  BY <1>1
<1>. QED  BY <1>2, <1>3

LEMMA MarksFrom ==
    ASSUME NEW frames, NEW from, NEW max \in Nat, NEW at,
           at \in [0 .. Len(frames) -> 0 .. max], at[0] = from,
           \A i \in 1 .. Len(frames) :
                 /\ frames[i].body = Units(at[i - 1], Len(frames[i].body))
                 /\ at[i] = at[i - 1] + Len(frames[i].body)
    PROVE  at \in Marks(frames, from, max)
BY DEF Marks

\* No frames have their marks; so have the frames after the first, the first
\* few, and one more that goes on where the last ends.
LEMMA MarksOfNone ==
    ASSUME NEW max \in Nat, NEW from \in 0 .. max
    PROVE  [i \in {0} |-> from] \in Marks(<<>>, from, max) /\ [i \in {0} |-> from][0] = from
BY DEF Marks

LEMMA MarksOfTail ==
    ASSUME NEW m, NEW frames \in Seq(FrameOf(m)), NEW from, NEW max \in Nat, frames # <<>>,
           NEW at \in Marks(frames, from, max)
    PROVE  /\ Head(frames).body = Units(from, Len(Head(frames).body))
           /\ at[1] = from + Len(Head(frames).body) /\ at[1] \in 0 .. max
           /\ \E b \in Marks(Tail(frames), at[1], max) : b[Len(Tail(frames))] = at[Len(frames)]
<1>1. /\ from \in 0 .. max /\ at[0] = from
      /\ \A i \in 0 .. Len(frames) : at[i] \in 0 .. max
      /\ \A i \in 1 .. Len(frames) :
                 /\ frames[i].body = Units(at[i - 1], Len(frames[i].body))
                 /\ at[i] = at[i - 1] + Len(frames[i].body)
  BY MarksFacts
<1>2. /\ Head(frames) = frames[1] /\ Len(Tail(frames)) = Len(frames) - 1
      /\ \A i \in 1 .. Len(frames) - 1 : Tail(frames)[i] = frames[i + 1]
      /\ Len(frames) \in Nat \ {0}
  BY TailFacts
<1>. DEFINE n == Len(frames)
            b == [i \in 0 .. n - 1 |-> at[i + 1]]
<1>3. n \in Nat \ {0} /\ 1 \in 1 .. n /\ 1 - 1 = 0 /\ 1 \in 0 .. n
  BY <1>2
<1>4. /\ Head(frames).body = Units(from, Len(Head(frames).body))
      /\ at[1] = from + Len(Head(frames).body) /\ at[1] \in 0 .. max
  <2>1. /\ frames[1].body = Units(at[1 - 1], Len(frames[1].body))
        /\ at[1] = at[1 - 1] + Len(frames[1].body)
    BY <1>1, <1>3
  <2>. QED  BY <1>1, <1>2, <1>3, <2>1
<1>5. /\ b \in [0 .. n - 1 -> 0 .. max] /\ b[0] = at[1] /\ b[n - 1] = at[n]
      /\ \A i \in 1 .. n - 1 : b[i] = at[i + 1] /\ b[i - 1] = at[i]
  <2>1. \A i \in 0 .. n - 1 : i + 1 \in 0 .. n /\ at[i + 1] \in 0 .. max
    BY <1>1, <1>3
  <2>2. 0 \in 0 .. n - 1 /\ n - 1 \in 0 .. n - 1 /\ n - 1 + 1 = n /\ 0 + 1 = 1
    BY <1>3
  <2>3. \A i \in 1 .. n - 1 : i \in 0 .. n - 1 /\ i - 1 \in 0 .. n - 1 /\ i - 1 + 1 = i
    BY <1>3
  <2>. QED  BY <2>1, <2>2, <2>3
<1>6. \A i \in 1 .. n - 1 :
         /\ Tail(frames)[i].body = Units(b[i - 1], Len(Tail(frames)[i].body))
         /\ b[i] = b[i - 1] + Len(Tail(frames)[i].body)
  <2>1. \A i \in 1 .. n - 1 : i + 1 \in 1 .. n /\ i + 1 - 1 = i
    BY <1>3
  <2>. SUFFICES ASSUME NEW i \in 1 .. n - 1
                PROVE  /\ Tail(frames)[i].body = Units(b[i - 1], Len(Tail(frames)[i].body))
                       /\ b[i] = b[i - 1] + Len(Tail(frames)[i].body)
    OBVIOUS
  <2>2. Tail(frames)[i] = frames[i + 1] /\ b[i] = at[i + 1] /\ b[i - 1] = at[i]
    BY <1>2, <1>5
  <2>3. /\ frames[i + 1].body = Units(at[i + 1 - 1], Len(frames[i + 1].body))
        /\ at[i + 1] = at[i + 1 - 1] + Len(frames[i + 1].body)
    BY <1>1, <2>1
  <2>. QED  BY <2>1, <2>2, <2>3
<1>. HIDE DEF b
<1>7. b \in Marks(Tail(frames), at[1], max) /\ b[Len(Tail(frames))] = at[Len(frames)]
  BY <1>2, <1>5, <1>6, MarksFrom
<1>. QED  BY <1>4, <1>7

LEMMA MarksOfPart ==
    ASSUME NEW m, NEW frames \in Seq(FrameOf(m)), NEW from, NEW max \in Nat,
           NEW at \in Marks(frames, from, max), NEW k \in 0 .. Len(frames)
    PROVE  \E b : b \in Marks(SubSeq(frames, 1, k), from, max)
<1>1. /\ from \in 0 .. max /\ at[0] = from
      /\ \A i \in 0 .. Len(frames) : at[i] \in 0 .. max
      /\ \A i \in 1 .. Len(frames) :
                 /\ frames[i].body = Units(at[i - 1], Len(frames[i].body))
                 /\ at[i] = at[i - 1] + Len(frames[i].body)
  BY MarksFacts
<1>2. Len(frames) \in Nat
  BY LenProperties
<1>3. /\ Len(SubSeq(frames, 1, k)) = k - 1 + 1
      /\ \A i \in 1 .. k - 1 + 1 : SubSeq(frames, 1, k)[i] = frames[1 + i - 1]
  <2>1. 1 \in 1 .. Len(frames) + 1 /\ 1 <= k + 1
    BY <1>2
  <2>. QED  BY <2>1, PartFacts
<1>. DEFINE s == SubSeq(frames, 1, k)
            b == [i \in 0 .. k |-> at[i]]
<1>4. k \in Nat /\ Len(s) = k /\ \A i \in 1 .. k : s[i] = frames[i] /\ i \in 1 .. Len(frames)
  BY <1>2, <1>3
<1>5. /\ b \in [0 .. k -> 0 .. max] /\ b[0] = from
      /\ \A i \in 1 .. k : b[i] = at[i] /\ b[i - 1] = at[i - 1]
  <2>1. \A i \in 0 .. k : at[i] \in 0 .. max
    BY <1>1, <1>2
  <2>2. \A i \in 1 .. k : i \in 0 .. k /\ i - 1 \in 0 .. k
    BY <1>4
  <2>. QED  BY <1>1, <1>4, <2>1, <2>2
<1>. HIDE DEF s, b
<1>6. \A i \in 1 .. k : /\ s[i].body = Units(b[i - 1], Len(s[i].body))
                        /\ b[i] = b[i - 1] + Len(s[i].body)
  BY <1>1, <1>4, <1>5
<1>7. b \in Marks(s, from, max)
  BY <1>4, <1>5, <1>6, MarksFrom
<1>. QED  BY <1>7 DEF s

LEMMA MarksOfMore ==
    ASSUME NEW m, NEW frames \in Seq(FrameOf(m)), NEW from, NEW max \in Nat,
           NEW at \in Marks(frames, from, max),
           NEW f \in FrameOf(m), NEW more \in Nat, max <= more,
           f.body = Units(at[Len(frames)], Len(f.body)),
           at[Len(frames)] + Len(f.body) <= more
    PROVE  \E b \in Marks(Append(frames, f), from, more) :
              b[Len(Append(frames, f))] = at[Len(frames)] + Len(f.body)
<1>1. /\ from \in 0 .. max /\ at[0] = from
      /\ \A i \in 0 .. Len(frames) : at[i] \in 0 .. max
      /\ \A i \in 1 .. Len(frames) :
                 /\ frames[i].body = Units(at[i - 1], Len(frames[i].body))
                 /\ at[i] = at[i - 1] + Len(frames[i].body)
  BY MarksFacts
<1>. DEFINE n == Len(frames)
            s == Append(frames, f)
            last == at[n] + Len(f.body)
            b == [i \in 0 .. n + 1 |-> IF i = n + 1 THEN last ELSE at[i]]
<1>2. /\ n \in Nat /\ Len(s) = n + 1 /\ s[n + 1] = f
      /\ \A i \in 1 .. n : s[i] = frames[i]
  BY AppendProperties, LenProperties
<1>3. last \in 0 .. more
  <2>1. Len(f.body) \in Nat
    BY LenProperties DEF FrameOf
  <2>2. at[n] \in 0 .. max
    BY <1>1, <1>2
  <2>. QED  BY <2>1, <2>2
<1>4. /\ b \in [0 .. n + 1 -> 0 .. more] /\ b[0] = from /\ b[n + 1] = last /\ b[n] = at[n]
      /\ \A i \in 1 .. n : b[i] = at[i] /\ b[i - 1] = at[i - 1]
  <2>1. ASSUME NEW i \in 0 .. n + 1 PROVE (IF i = n + 1 THEN last ELSE at[i]) \in 0 .. more
    <3>1. CASE i = n + 1
      BY <1>3, <3>1
    <3>2. CASE i # n + 1
      <4>1. i \in 0 .. n
        BY <1>2, <3>2
      <4>2. at[i] \in 0 .. max
        BY <1>1, <4>1
      <4>. QED  BY <3>2, <4>2
    <3>. QED  BY <3>1, <3>2
  <2>2. 0 \in 0 .. n + 1 /\ 0 # n + 1 /\ n \in 0 .. n + 1 /\ n # n + 1 /\ n + 1 \in 0 .. n + 1
    BY <1>2
  <2>3. \A i \in 1 .. n : /\ i \in 0 .. n + 1 /\ i # n + 1
                          /\ i - 1 \in 0 .. n + 1 /\ i - 1 # n + 1
    BY <1>2
  <2>. HIDE DEF last
  <2>4. \A i \in 0 .. n + 1 : b[i] = IF i = n + 1 THEN last ELSE at[i]
    OBVIOUS
  <2>5. b \in [0 .. n + 1 -> 0 .. more]
    BY <2>1
  <2>. HIDE DEF b
  <2>. QED  BY <1>1, <2>2, <2>3, <2>4, <2>5
<1>. HIDE DEF b
<1>5. ASSUME NEW i \in 1 .. n + 1
      PROVE  /\ s[i].body = Units(b[i - 1], Len(s[i].body))
             /\ b[i] = b[i - 1] + Len(s[i].body)
  <2>1. CASE i = n + 1
    <3>1. i - 1 = n
      BY <1>2, <2>1
    <3>. QED  BY <1>2, <1>4, <2>1, <3>1
  <2>2. CASE i # n + 1
    <3>1. i \in 1 .. n
      BY <1>2, <2>2
    <3>. QED  BY <1>1, <1>2, <1>4, <3>1
  <2>. QED  BY <2>1, <2>2
<1>6. b \in Marks(s, from, more)
  <2>. HIDE DEF s, n
  <2>. QED  BY <1>2, <1>4, <1>5, MarksFrom
<1>. QED  BY <1>2, <1>4, <1>6

LEMMA TailOfJoined ==
    ASSUME NEW S, NEW s \in Seq(S), NEW t \in Seq(S), s # <<>>
    PROVE  Tail(s \o t) = Tail(s) \o t /\ Head(s \o t) = Head(s) /\ s \o t # <<>>
<1>1. /\ Tail(s) \in Seq(S) /\ Len(Tail(s)) = Len(s) - 1 /\ Len(s) \in Nat \ {0} /\ Head(s) = s[1]
      /\ \A i \in 1 .. Len(s) - 1 : Tail(s)[i] = s[i + 1]
  BY TailFacts
<1>. DEFINE u == s \o t
            v == Tail(s) \o t
            m == Len(s)
            n == Len(t)
<1>2. /\ u \in Seq(S) /\ Len(u) = m + n
      /\ \A i \in 1 .. m + n : u[i] = IF i <= m THEN s[i] ELSE t[i - m]
  BY ConcatProperties
<1>3. /\ v \in Seq(S) /\ Len(v) = m - 1 + n
      /\ \A i \in 1 .. m - 1 + n : v[i] = IF i <= m - 1 THEN Tail(s)[i] ELSE t[i - (m - 1)]
  BY <1>1, ConcatProperties
<1>4. m \in Nat \ {0} /\ n \in Nat /\ \A i \in 1 .. m - 1 : Tail(s)[i] = s[i + 1]
  BY <1>1, LenProperties
<1>. HIDE DEF u, v, m, n
<1>5. u # <<>>
  BY <1>2, <1>4
<1>6. /\ Tail(u) \in Seq(S) /\ Len(Tail(u)) = m + n - 1 /\ Head(u) = u[1]
      /\ \A i \in 1 .. m + n - 1 : Tail(u)[i] = u[i + 1]
  <2>1. u \in Seq(S) /\ Len(u) - 1 = m + n - 1
    BY <1>2, <1>4
  <2>2. /\ Tail(u) \in Seq(S) /\ Len(Tail(u)) = Len(u) - 1 /\ Head(u) = u[1]
        /\ \A i \in 1 .. Len(u) - 1 : Tail(u)[i] = u[i + 1]
    BY <1>5, <2>1, TailFacts
  <2>. QED  BY <2>1, <2>2
<1>7. ASSUME NEW i \in 1 .. m + n - 1 PROVE Tail(u)[i] = v[i]
  <2>0. i \in 1 .. m - 1 + n /\ i + 1 \in 1 .. m + n /\ (i + 1) - m = i - (m - 1)
    BY <1>4
  <2>1. CASE i <= m - 1
    <3>1. i + 1 <= m /\ i \in 1 .. m - 1
      BY <1>4, <2>1
    <3>2. u[i + 1] = s[i + 1] /\ v[i] = Tail(s)[i]
      BY <1>2, <1>3, <2>0, <2>1, <3>1
    <3>3. Tail(u)[i] = u[i + 1] /\ Tail(s)[i] = s[i + 1]
      BY <1>4, <1>6, <3>1
    <3>. QED  BY <3>2, <3>3
  <2>2. CASE ~(i <= m - 1)
    <3>1. ~(i + 1 <= m)
      BY <1>4, <2>2
    <3>2. u[i + 1] = t[(i + 1) - m]
      <4>. DEFINE j == i + 1
      <4>1. j \in 1 .. m + n /\ ~(j <= m)
        BY <2>0, <3>1
      <4>. HIDE DEF j
      <4>2. u[j] = t[j - m]
        BY <1>2, <4>1
      <4>. QED  BY <4>2 DEF j
    <3>4. v[i] = t[i - (m - 1)]
      BY <1>3, <2>0, <2>2
    <3>3. Tail(u)[i] = u[i + 1]
      BY <1>6
    <3>. QED  BY <2>0, <3>2, <3>3, <3>4
  <2>. QED  BY <2>1, <2>2
<1>8. Tail(u) = v
  <2>1. Len(Tail(u)) = Len(v) /\ \A i \in 1 .. Len(Tail(u)) : Tail(u)[i] = v[i]
    BY <1>3, <1>4, <1>6, <1>7
  <2>. QED  BY <1>3, <1>6, <2>1, SeqEqual
<1>9. Head(u) = Head(s)
  BY <1>1, <1>2, <1>4, <1>6
<1>. QED  BY <1>5, <1>8, <1>9 DEF u, v

LEMMA MarksWider ==
    ASSUME NEW frames, NEW from, NEW max \in Nat, NEW more \in Nat, max <= more
    PROVE  Marks(frames, from, max) \subseteq Marks(frames, from, more)
BY DEF Marks

CatAssociates(S) == \A x, y, z \in Seq(S) : (x \o y) \o z = x \o (y \o z)

LEMMA Associative ==
    ASSUME NEW s \in Seq(Nat), NEW t \in Seq(Nat), NEW u \in Seq(Nat)
    PROVE  (s \o t) \o u = s \o (t \o u)
<1>1. \A S : CatAssociates(S)
  BY ConcatAssociative DEF CatAssociates
<1>2. CatAssociates(Nat)
  BY <1>1
<1>. QED  BY <1>2 DEF CatAssociates

LEMMA AppendLast ==
    ASSUME NEW s \in Seq(Nat), NEW t \in Seq(Nat), NEW e \in Nat
    PROVE  s \o Append(t, e) = Append(s \o t, e)
<1>1. s \o t \in Seq(Nat) /\ <<e>> \in Seq(Nat)
  BY ConcatProperties
<1>2. Append(t, e) = t \o <<e>> /\ Append(s \o t, e) = (s \o t) \o <<e>>
  BY <1>1, AppendIsConcat
<1>. QED  BY <1>1, <1>2, Associative

\* What the client has read, and what is on its way behind the wire.
Here == read \o down \o dec.left

WayDown ==
    /\ Here = Units(0, Len(Here))
    /\ \E at \in Marks(wireDown, Len(Here), sent) :
          client /\ serverOpen => at[Len(wireDown)] = sent

WayUp ==
    /\ got = Units(0, Len(got))
    /\ serverOpen =>
          \E at \in Marks(wireUp \o enc.frame, Len(got), wrote) :
             client => up = Units(at[Len(wireUp \o enc.frame)], wrote - at[Len(wireUp \o enc.frame)])

\* The two frames the handshake reads itself, and forgets, carry nothing.
EarlyFrames ==
    /\ client /\ hs = "serverHash" => recvCtr = 0
    /\ client /\ hs \in {"clientHash", "subtype"} => recvCtr = 1
    /\ \A i \in 1 .. Len(wireDown) : wireDown[i].nonce < 2 => Len(wireDown[i].body) = 0

Ways == WayDown /\ WayUp /\ EarlyFrames

\* Inv, as sequences of numbers.
LEMMA Counted ==
    ASSUME Inv
    PROVE  /\ sent \in Nat /\ wrote \in Nat /\ recvCtr \in Nat /\ srvSend \in Nat
           /\ read \in Seq(Nat) /\ down \in Seq(Nat) /\ dec.left \in Seq(Nat) /\ Here \in Seq(Nat)
           /\ Len(Here) \in Nat
           /\ got \in Seq(Nat) /\ up \in Seq(Nat) /\ Len(got) \in Nat /\ Len(up) \in Nat
           /\ wireDown \in Seq(FrameOf(sent)) /\ Len(wireDown) \in Nat
           /\ wireUp \in Seq(FrameOf(wrote)) /\ Len(wireUp) \in Nat
           /\ enc.frame \in Seq(FrameOf(wrote)) /\ wireUp \o enc.frame \in Seq(FrameOf(wrote))
           /\ Len(wireUp \o enc.frame) = Len(wireUp) + Len(enc.frame) /\ Len(enc.frame) \in Nat
<1>1. /\ sent \in Nat /\ wrote \in Nat /\ recvCtr \in Nat /\ srvSend \in Nat
      /\ read \in Seq(1 .. sent) /\ down \in Seq(1 .. sent) /\ dec.left \in Seq(1 .. sent)
      /\ got \in Seq(1 .. wrote) /\ up \in Seq(1 .. wrote)
      /\ wireDown \in Seq(FrameOf(sent)) /\ wireUp \in Seq(FrameOf(wrote))
      /\ enc.frame \in Seq(FrameOf(wrote))
  BY DEF Inv, Typed
<1>2. 1 .. sent \subseteq Nat /\ 1 .. wrote \subseteq Nat
  BY <1>1
<1>3. /\ read \in Seq(Nat) /\ down \in Seq(Nat) /\ dec.left \in Seq(Nat)
      /\ got \in Seq(Nat) /\ up \in Seq(Nat)
  BY <1>1, <1>2, SeqMonotonic
<1>4. Here \in Seq(Nat)
  BY <1>3, ConcatProperties DEF Here
<1>5. Len(Here) \in Nat /\ Len(got) \in Nat /\ Len(up) \in Nat
  BY <1>3, <1>4, LenProperties
<1>6. /\ wireUp \o enc.frame \in Seq(FrameOf(wrote))
      /\ Len(wireUp \o enc.frame) = Len(wireUp) + Len(enc.frame)
      /\ Len(wireUp) \in Nat /\ Len(enc.frame) \in Nat /\ Len(wireDown) \in Nat
  BY <1>1, ConcatProperties, LenProperties
<1>. QED  BY <1>1, <1>3, <1>4, <1>5, <1>6

\* A step that leaves one of the two directions alone.
LEMMA DownStays ==
    ASSUME WayDown, UNCHANGED <<read, down, wireDown, sent>>, dec'.left = dec.left,
           client' /\ serverOpen' => client /\ serverOpen
    PROVE  WayDown'
BY DEF WayDown, Here

LEMMA UpStays ==
    ASSUME WayUp, UNCHANGED <<got, wireUp, wrote, up>>, enc'.frame = enc.frame,
           serverOpen' => serverOpen, client' => client
    PROVE  WayUp'
BY DEF WayUp

LEMMA EarlyStays ==
    ASSUME EarlyFrames, UNCHANGED <<hs, recvCtr, wireDown>>, client' => client
    PROVE  EarlyFrames'
BY DEF EarlyFrames

\* The first part of a stretch of units is one.
LEMMA UnitsFirst ==
    ASSUME NEW s \in Seq(Nat), NEW t \in Seq(Nat), s \o t = Units(0, Len(s \o t))
    PROVE  s = Units(0, Len(s))
<1>1. /\ Len(s) \in Nat /\ Len(t) \in Nat /\ Len(s \o t) = Len(s) + Len(t)
      /\ \A i \in 1 .. Len(s) + Len(t) :
            (s \o t)[i] = IF i <= Len(s) THEN s[i] ELSE t[i - Len(s)]
  BY ConcatProperties, LenProperties
<1>. DEFINE n == Len(s) + Len(t)
<1>2. n \in Nat /\ 0 \in Nat /\ \A i \in 1 .. Len(s) : i \in 1 .. n /\ i <= Len(s)
  BY <1>1
<1>3. \A i \in 1 .. n : Units(0, n)[i] = 0 + i
  BY <1>2, UnitsFacts
<1>4. s \o t = Units(0, n)
  BY <1>1
<1>. HIDE DEF n
<1>5. ASSUME NEW i \in 1 .. Len(s) PROVE s[i] = 0 + i
  <2>1. i \in 1 .. n /\ i <= Len(s)
    BY <1>2
  <2>2. (s \o t)[i] = s[i]
    BY <1>1, <2>1 DEF n
  <2>. QED  BY <1>3, <1>4, <2>1, <2>2
<1>6. Len(s) \in Nat
  BY <1>1
<1>. QED  BY <1>2, <1>5, <1>6, UnitsAre

\* The end of the session cuts off what is behind the client and before the wire.
LEMMA EndWays ==
    ASSUME Inv, Ways, End
    PROVE  Ways'
<1>0. /\ client' = FALSE /\ dec'.left = <<>> /\ enc'.frame = <<>>
      /\ down' = <<>> /\ up' = <<>> /\ wireDown' = <<>>
      /\ UNCHANGED <<hs, wrote, read, recvCtr, wireUp, serverOpen, sent, got>>
  BY DEF End, serverVars
<1>1. WayDown'
  <2>1. Here' = read
    BY <1>0, Counted, ConcatEmptySeq DEF Here
  <2>2. /\ read \o (down \o dec.left) = Here /\ down \o dec.left \in Seq(Nat)
        /\ read \in Seq(Nat)
    <3>1. read \in Seq(Nat) /\ down \in Seq(Nat) /\ dec.left \in Seq(Nat)
      BY Counted
    <3>2. down \o dec.left \in Seq(Nat)
      BY <3>1, ConcatProperties
    <3>3. (read \o down) \o dec.left = read \o (down \o dec.left)
      BY <3>1, Associative
    <3>. QED  BY <3>1, <3>2, <3>3 DEF Here
  <2>3. read = Units(0, Len(read))
    BY <2>2, UnitsFirst DEF Ways, WayDown
  <2>4. Len(read) \in 0 .. sent
    <3>1. /\ Len(Here) = Len(read) + Len(down \o dec.left) /\ Len(down \o dec.left) \in Nat
          /\ Len(read) \in Nat
      BY <2>2, ConcatProperties, LenProperties
    <3>2. Len(Here) \in 0 .. sent
      <4>1. PICK at \in Marks(wireDown, Len(Here), sent) : TRUE
        BY DEF Ways, WayDown
      <4>. QED  BY <4>1, Counted, MarksFacts
    <3>. DEFINE l == Len(read)
                k == Len(down \o dec.left)
    <3>3. l \in Nat /\ k \in Nat /\ l + k \in 0 .. sent /\ sent \in Nat
      BY <3>1, <3>2, Counted
    <3>. HIDE DEF l, k
    <3>4. l \in 0 .. sent
      BY <3>3
    <3>. QED  BY <3>4 DEF l
  <2>5. sent \in Nat
    BY Counted
  <2>6. \E at : at \in Marks(<<>>, Len(read), sent)
    BY <2>4, <2>5, MarksOfNone
  <2>. QED  BY <1>0, <2>1, <2>3, <2>6 DEF WayDown
<1>2. WayUp'
  <2>. SUFFICES ASSUME serverOpen
                PROVE  \E at : at \in Marks(wireUp \o <<>>, Len(got), wrote)
    BY <1>0 DEF Ways, WayUp
  <2>1. PICK at \in Marks(wireUp \o enc.frame, Len(got), wrote) : TRUE
    BY DEF Ways, WayUp
  <2>2. SubSeq(wireUp \o enc.frame, 1, Len(wireUp)) = wireUp
    <3>. DEFINE n == Len(wireUp)
                w == wireUp \o enc.frame
    <3>1. /\ n \in Nat /\ wireUp \in Seq(FrameOf(wrote)) /\ w \in Seq(FrameOf(wrote))
          /\ n \in 0 .. Len(w) /\ 1 \in 1 .. Len(w) + 1 /\ 1 <= n + 1
      <4>1. /\ n \in Nat /\ wireUp \in Seq(FrameOf(wrote)) /\ w \in Seq(FrameOf(wrote))
            /\ Len(w) = n + Len(enc.frame) /\ Len(enc.frame) \in Nat
        BY Counted
      <4>. HIDE DEF n, w
      <4>. QED  BY <4>1
    <3>2. \A i \in 1 .. n : w[i] = wireUp[i]
      <4>1. /\ enc.frame \in Seq(FrameOf(wrote)) /\ wireUp \in Seq(FrameOf(wrote))
            /\ Len(wireUp) \in Nat /\ Len(enc.frame) \in Nat
        BY Counted
      <4>2. \A i \in 1 .. Len(wireUp) + Len(enc.frame) :
               w[i] = IF i <= Len(wireUp) THEN wireUp[i] ELSE enc.frame[i - Len(wireUp)]
        BY <4>1, ConcatProperties
      <4>. HIDE DEF w
      <4>. QED  BY <4>1, <4>2
    <3>3. Len(wireUp) = n
      OBVIOUS
    <3>. HIDE DEF n, w
    <3>4. /\ SubSeq(w, 1, n) \in Seq(FrameOf(wrote)) /\ Len(SubSeq(w, 1, n)) = n - 1 + 1
          /\ \A i \in 1 .. n - 1 + 1 : SubSeq(w, 1, n)[i] = w[1 + i - 1]
      BY <3>1, PartFacts
    <3>5. /\ Len(SubSeq(w, 1, n)) = Len(wireUp)
          /\ \A i \in 1 .. Len(SubSeq(w, 1, n)) : SubSeq(w, 1, n)[i] = wireUp[i]
      BY <3>1, <3>2, <3>3, <3>4
    <3>6. SubSeq(w, 1, n) = wireUp
      BY <3>1, <3>4, <3>5, SeqEqual
    <3>. QED  BY <3>6 DEF n, w
  <2>3. /\ Len(wireUp) \in 0 .. Len(wireUp \o enc.frame) /\ wireUp \o <<>> = wireUp
        /\ wireUp \o enc.frame \in Seq(FrameOf(wrote)) /\ wrote \in Nat
    BY Counted, ConcatEmptySeq
  <2>4. \E b : b \in Marks(SubSeq(wireUp \o enc.frame, 1, Len(wireUp)), Len(got), wrote)
    BY <2>1, <2>3, MarksOfPart
  <2>. QED  BY <2>2, <2>3, <2>4
<1>3. EarlyFrames'
  BY <1>0, EmptySeq DEF EarlyFrames
<1>. QED  BY <1>1, <1>2, <1>3 DEF Ways

LEMMA HandshakeWays ==
    ASSUME Inv, Ways, Handshake
    PROVE  Ways'
<1>1. ASSUME NEW step, NEW next, HandshakeRead(step, next),
             <<step, next>> \in {<<"serverHash", "clientHash">>, <<"subtype", "creds">>}
      PROVE  Ways'
  <2>1. CASE End
    BY <2>1, EndWays
  <2>2. CASE ~End
    <3>0. /\ client /\ hs = step /\ wireDown # <<>> /\ Opens(Head(wireDown), recvCtr)
          /\ recvCtr' = recvCtr + 1 /\ wireDown' = Tail(wireDown) /\ hs' = next
          /\ UNCHANGED <<client, writing, wrote, read, sendCtr, down, up, dec, enc, wireUp,
                         serverOpen, srvSend, srvRecv, sent, got>>
      BY <1>1, <2>2 DEF HandshakeRead, bridgeVars, serverVars
    <3>1. /\ wireDown \in Seq(FrameOf(sent)) /\ sent \in Nat /\ recvCtr \in Nat
      BY Counted
    <3>2. /\ Head(wireDown) = wireDown[1] /\ Len(Tail(wireDown)) = Len(wireDown) - 1
          /\ \A i \in 1 .. Len(wireDown) - 1 : Tail(wireDown)[i] = wireDown[i + 1]
          /\ Len(wireDown) \in Nat \ {0}
      BY <3>0, <3>1, TailFacts
    <3>3. recvCtr = (IF step = "serverHash" THEN 0 ELSE 1)
      BY <1>1, <3>0 DEF Ways, EarlyFrames
    <3>4. Len(Head(wireDown).body) = 0
      <4>1. wireDown[1].nonce < 2 /\ 1 \in 1 .. Len(wireDown)
        BY <3>0, <3>2, <3>3 DEF Opens
      <4>. QED  BY <3>2, <4>1 DEF Ways, EarlyFrames
    <3>5. PICK at \in Marks(wireDown, Len(Here), sent) :
             client /\ serverOpen => at[Len(wireDown)] = sent
      BY DEF Ways, WayDown
    <3>6. /\ at[1] = Len(Here)
          /\ \E b \in Marks(Tail(wireDown), at[1], sent) : b[Len(Tail(wireDown))] = at[Len(wireDown)]
      <4>1. Len(Here) \in Nat
        BY Counted
      <4>. QED  BY <3>0, <3>1, <3>4, <3>5, <4>1, MarksOfTail
    <3>7. WayDown'
      <4>1. Here' = Here /\ sent' = sent /\ (client /\ serverOpen)' = (client /\ serverOpen)
        BY <3>0 DEF Here
      <4>2. wireDown' = Tail(wireDown)
        BY <3>0
      <4>3. \E b \in Marks(wireDown', Len(Here'), sent') : b[Len(wireDown')] = at[Len(wireDown)]
        BY <3>6, <4>1, <4>2
      <4>4. /\ Here = Units(0, Len(Here)) /\ (client /\ serverOpen)' = (client /\ serverOpen)
            /\ sent' = sent /\ Here' = Here
        BY <4>1 DEF Ways, WayDown
      <4>. QED  BY <3>5, <4>3, <4>4 DEF WayDown
    <3>8. EarlyFrames'
      <4>1. \A i \in 1 .. Len(wireDown') : wireDown'[i].nonce < 2 => Len(wireDown'[i].body) = 0
        <5>1. \A i \in 1 .. Len(wireDown) - 1 : i + 1 \in 1 .. Len(wireDown)
          BY <3>2
        <5>. QED  BY <3>0, <3>2, <5>1 DEF Ways, EarlyFrames
      <4>2. (hs' = "clientHash" /\ recvCtr' = 1) \/ hs' = "creds"
        BY <1>1, <3>0, <3>3
      <4>. QED  BY <4>1, <4>2 DEF EarlyFrames
    <3>9. WayUp'
      BY <3>0, UpStays DEF Ways
    <3>. QED  BY <3>7, <3>8, <3>9 DEF Ways
  <2>. QED  BY <2>1, <2>2
<1>2. ASSUME NEW step, NEW next, HandshakeWrite(step, next),
             <<step, next>> \in {<<"clientHash", "subtype">>, <<"creds", "spawn">>}
      PROVE  Ways'
  <2>1. CASE End
    BY <2>1, EndWays
  <2>2. CASE ~End
    <3>. DEFINE f == Frame(sendCtr, <<>>)
    <3>0. /\ client /\ hs = step /\ hs' = next
          /\ wireUp' = IF serverOpen THEN Append(wireUp, f) ELSE wireUp
          /\ UNCHANGED <<client, writing, wrote, read, recvCtr, down, up, dec, enc, wireDown,
                         serverOpen, srvSend, srvRecv, sent, got>>
      BY <1>2, <2>2 DEF HandshakeWrite, bridgeVars, serverVars
    <3>1. enc.frame = <<>>
      BY <1>2, <3>0 DEF Inv, PumpsOfBridge
    <3>2. WayUp'
      <4>. SUFFICES ASSUME serverOpen
                    PROVE  \E b \in Marks(wireUp' \o enc.frame, Len(got), wrote) :
                              up = Units(b[Len(wireUp' \o enc.frame)], wrote - b[Len(wireUp' \o enc.frame)])
        BY <3>0 DEF Ways, WayUp
      <4>1. /\ wireUp \in Seq(FrameOf(wrote)) /\ wrote \in Nat /\ sendCtr \in Nat
            /\ wireUp \o enc.frame = wireUp
        BY <3>1, Counted, ConcatEmptySeq DEF Inv, Typed
      <4>2. f \in FrameOf(wrote) /\ f.body = <<>> /\ Len(f.body) = 0
        BY <4>1, NoUnits DEF Frame, FrameOf
      <4>. HIDE DEF f
      <4>3. Append(wireUp, f) \in Seq(FrameOf(wrote)) /\ wireUp' = Append(wireUp, f)
        BY <3>0, <4>1, <4>2, AppendProperties
      <4>4. wireUp' \o enc.frame = wireUp'
        BY <3>1, <4>3, ConcatEmptySeq
      <4>5. PICK at \in Marks(wireUp, Len(got), wrote) :
               up = Units(at[Len(wireUp)], wrote - at[Len(wireUp)])
        BY <3>0, <4>1 DEF Ways, WayUp
      <4>6. at[Len(wireUp)] \in Nat /\ at[Len(wireUp)] <= wrote
        BY <4>1, <4>5, MarksFacts
      <4>7. f.body = Units(at[Len(wireUp)], Len(f.body))
        BY <4>2, <4>6, NoneAt
      <4>8. at[Len(wireUp)] + Len(f.body) <= wrote /\ at[Len(wireUp)] + Len(f.body) = at[Len(wireUp)]
        BY <4>2, <4>6
      <4>9. \E b \in Marks(Append(wireUp, f), Len(got), wrote) :
               b[Len(Append(wireUp, f))] = at[Len(wireUp)] + Len(f.body)
        BY <4>1, <4>2, <4>5, <4>7, <4>8, MarksOfMore
      <4>. QED  BY <4>3, <4>4, <4>5, <4>8, <4>9
    <3>3. WayDown'
      BY <3>0, DownStays DEF Ways
    <3>4. EarlyFrames'
      BY <1>2, <3>0 DEF Ways, EarlyFrames
    <3>. QED  BY <3>2, <3>3, <3>4 DEF Ways
  <2>. QED  BY <2>1, <2>2
<1>3. CASE SpawnPumps
  <2>0. /\ hs' = "bridge" /\ dec' = [dec EXCEPT !.on = TRUE] /\ enc' = [enc EXCEPT !.on = TRUE]
        /\ UNCHANGED <<client, wrote, read, sendCtr, recvCtr, down, up, wireDown, wireUp,
                       serverOpen, sent, got>>
    BY <1>3 DEF SpawnPumps, Handed, serverVars
  <2>1. dec'.left = dec.left /\ enc'.frame = enc.frame
    BY <2>0, DecFields, EncFields DEF Inv, Pumps
  <2>2. WayDown' /\ WayUp'
    BY <2>0, <2>1, DownStays, UpStays DEF Ways
  <2>3. EarlyFrames'
    BY <2>0 DEF Ways, EarlyFrames
  <2>. QED  BY <2>2, <2>3 DEF Ways
<1>4. CASE HandshakeEof
  BY <1>4, EndWays DEF HandshakeEof
<1>. QED
  BY <1>1, <1>2, <1>3, <1>4
     DEF Handshake, ReadServerHash, WriteClientHash, ReadSubtype, WriteCreds

LEMMA DecryptWays ==
    ASSUME Inv, Ways, Decrypt
    PROVE  Ways'
<1>0. /\ dec.on /\ client /\ hs = "bridge"
      /\ dec \in [on : BOOLEAN, left : Seq(1 .. sent)]
      /\ UNCHANGED <<hs, client, wrote, read, up, enc, wireUp, serverOpen, sent, got>>
  BY DEF Decrypt, DecryptFrame, DecryptPush, DecryptEof, clientVars, serverVars, Inv, Pumps, PumpsOfBridge
<1>1. WayUp'
  BY <1>0, UpStays DEF Ways
<1>2. ASSUME NEW i \in 1 .. Len(wireDown'), wireDown' = wireDown \/ wireDown' = Tail(wireDown),
             wireDown # <<>>
      PROVE  wireDown'[i].nonce < 2 => Len(wireDown'[i].body) = 0
  <2>1. CASE wireDown' = wireDown
    BY <1>2, <2>1 DEF Ways, EarlyFrames
  <2>2. CASE wireDown' = Tail(wireDown)
    <3>1. /\ Len(Tail(wireDown)) = Len(wireDown) - 1 /\ Len(wireDown) \in Nat \ {0}
          /\ \A j \in 1 .. Len(wireDown) - 1 : Tail(wireDown)[j] = wireDown[j + 1]
      BY <1>2, Counted, TailFacts
    <3>2. i \in 1 .. Len(wireDown) - 1 /\ i + 1 \in 1 .. Len(wireDown)
      BY <2>2, <3>1
    <3>. QED  BY <2>2, <3>1, <3>2 DEF Ways, EarlyFrames
  <2>. QED  BY <1>2, <2>1, <2>2
<1>3. CASE DecryptFrame
  <2>0. /\ dec.left = <<>> /\ wireDown # <<>> /\ wireDown' = Tail(wireDown) /\ down' = down
        /\ dec' = IF Opens(Head(wireDown), recvCtr) THEN [dec EXCEPT !.left = Head(wireDown).body]
                  ELSE [dec EXCEPT !.on = FALSE]
    BY <1>3 DEF DecryptFrame
  <2>1. /\ wireDown \in Seq(FrameOf(sent)) /\ sent \in Nat /\ recvCtr \in Nat /\ Len(Here) \in Nat
    BY Counted
  <2>2. /\ Head(wireDown) = wireDown[1] /\ Head(wireDown) \in FrameOf(sent)
        /\ Len(wireDown) \in Nat \ {0}
    BY <2>0, <2>1, TailFacts
  <2>3. Opens(Head(wireDown), recvCtr)
    <3>1. wireDown[1].nonce = recvCtr + 1 - 1 /\ 1 \in 1 .. Len(wireDown)
      BY <1>0, <2>2 DEF Inv, DownInStep
    <3>. QED  BY <2>1, <2>2, <3>1 DEF Opens
  <2>. DEFINE body == Head(wireDown).body
  <2>4. body \in Seq(1 .. sent)
    BY <2>2 DEF FrameOf
  <2>5. dec'.left = body
    BY <1>0, <2>0, <2>3, <2>4, DecFields
  <2>6. PICK at \in Marks(wireDown, Len(Here), sent) :
           client /\ serverOpen => at[Len(wireDown)] = sent
    BY DEF Ways, WayDown
  <2>7. /\ body = Units(Len(Here), Len(body))
        /\ at[1] = Len(Here) + Len(body)
        /\ \E b \in Marks(Tail(wireDown), at[1], sent) : b[Len(Tail(wireDown))] = at[Len(wireDown)]
    BY <2>0, <2>1, <2>6, MarksOfTail
  <2>8. Len(body) \in Nat
    BY <2>4, LenProperties
  <2>. HIDE DEF body
  <2>9. Here = read \o down /\ Here' = (read \o down) \o body
    <3>1. read \o down \in Seq(Nat)
      BY Counted, ConcatProperties
    <3>2. (read \o down) \o <<>> = read \o down
      BY <3>1, ConcatEmptySeq
    <3>. QED  BY <1>0, <2>0, <2>5, <3>2 DEF Here
  <2>10. Here' = Units(0, Len(Here) + Len(body)) /\ Len(Here') = Len(Here) + Len(body)
    <3>1. Here = Units(0, Len(Here))
      BY DEF Ways, WayDown
    <3>3. Units(0, Len(Here)) \o Units(Len(Here), Len(body)) = Units(0, Len(Here) + Len(body))
      BY <2>1, <2>8, UnitsFrom0
    <3>4. Here' = Units(0, Len(Here) + Len(body))
      BY <2>7, <2>9, <3>1, <3>3
    <3>5. Len(Here) + Len(body) \in Nat /\ 0 \in Nat
      BY <2>1, <2>8
    <3>. QED  BY <3>4, <3>5, UnitsFacts
  <2>11. WayDown'
    BY <1>0, <2>0, <2>6, <2>7, <2>10 DEF WayDown
  <2>12. EarlyFrames'
    BY <1>0, <1>2, <2>0 DEF EarlyFrames
  <2>. QED  BY <1>1, <2>11, <2>12 DEF Ways
<1>4. CASE DecryptPush
  <2>0. /\ dec.left # <<>> /\ down' = Append(down, Head(dec.left))
        /\ dec' = [dec EXCEPT !.left = Tail(dec.left)]
        /\ UNCHANGED <<recvCtr, wireDown>>
    BY <1>4 DEF DecryptPush, Rest
  <2>1. /\ read \in Seq(Nat) /\ down \in Seq(Nat) /\ dec.left \in Seq(Nat)
        /\ read \o down \in Seq(Nat) /\ dec.left \in Seq(1 .. sent)
    BY Counted, ConcatProperties DEF Inv, Typed
  <2>2. Head(dec.left) \in Nat /\ Tail(dec.left) \in Seq(1 .. sent)
    BY <2>0, <2>1, TailFacts
  <2>3. dec'.left = Tail(dec.left)
    BY <1>0, <2>0, <2>2, DecFields
  <2>4. read \o Append(down, Head(dec.left)) = Append(read \o down, Head(dec.left))
    BY <2>1, <2>2, AppendLast
  <2>5. Here' = Here
    <3>1. Append(read \o down, Head(dec.left)) \o Tail(dec.left) = (read \o down) \o dec.left
      BY <2>0, <2>1, HandOn
    <3>2. read' = read
      BY <1>4 DEF DecryptPush, clientVars
    <3>. QED  BY <2>0, <2>3, <2>4, <3>1, <3>2 DEF Here
  <2>6. WayDown'
    BY <1>0, <2>0, <2>5 DEF Ways, WayDown
  <2>7. EarlyFrames'
    BY <1>0, <2>0, EarlyStays DEF Ways
  <2>. QED  BY <1>1, <2>6, <2>7 DEF Ways
<1>5. CASE DecryptEof
  <2>0. dec' = [dec EXCEPT !.on = FALSE] /\ UNCHANGED <<recvCtr, down, wireDown>>
    BY <1>5 DEF DecryptEof
  <2>1. dec'.left = dec.left
    BY <1>0, <2>0, DecFields
  <2>. QED  BY <1>0, <1>1, <2>0, <2>1, DownStays, EarlyStays DEF Ways
<1>. QED  BY <1>3, <1>4, <1>5 DEF Decrypt

LEMMA EncryptWays ==
    ASSUME Inv, Ways, Encrypt
    PROVE  Ways'
<1>0. /\ enc.on /\ client /\ hs = "bridge"
      /\ enc \in [on : BOOLEAN, frame : Seq(FrameOf(wrote))]
      /\ UNCHANGED <<hs, client, wrote, read, recvCtr, down, dec, wireDown, serverOpen, sent, got>>
  BY DEF Encrypt, EncryptFrame, EncryptPush, clientVars, serverVars, Inv, Pumps, PumpsOfBridge
<1>1. WayDown' /\ EarlyFrames'
  BY <1>0, DownStays, EarlyStays DEF Ways
<1>2. CASE ~serverOpen
  BY <1>0, <1>1, <1>2 DEF Ways, WayUp
<1>3. ASSUME serverOpen
      PROVE  WayUp'
  <2>0. /\ wireUp \in Seq(FrameOf(wrote)) /\ enc.frame \in Seq(FrameOf(wrote)) /\ wrote \in Nat
        /\ up \in Seq(1 .. wrote) /\ Len(up) \in Nat /\ sendCtr \in Nat
    BY Counted DEF Inv, Typed
  <2>. DEFINE w == wireUp \o enc.frame
  <2>1. PICK at \in Marks(w, Len(got), wrote) : up = Units(at[Len(w)], wrote - at[Len(w)])
    BY <1>0, <1>3 DEF Ways, WayUp
  <2>. HIDE DEF w
  <2>2. SUFFICES \E b \in Marks(wireUp' \o enc'.frame, Len(got), wrote) :
                    up' = Units(b[Len(wireUp' \o enc'.frame)], wrote - b[Len(wireUp' \o enc'.frame)])
    BY <1>0 DEF Ways, WayUp
  <2>3. CASE EncryptFrame
    <3>. DEFINE n == Taken(Len(up))
                f == Frame(sendCtr, SubSeq(up, 1, n))
                last == at[Len(w)]
    <3>0. /\ enc.frame = <<>> /\ n > 0 /\ wireUp' = wireUp
          /\ enc' = [enc EXCEPT !.frame = <<f>>] /\ up' = SubSeq(up, n + 1, Len(up))
      BY <2>3 DEF EncryptFrame
    <3>1. w = wireUp
      BY <2>0, <3>0, ConcatEmptySeq DEF w
    <3>2. n \in 1 .. Len(up)
      <4>1. n > 0 /\ Len(up) \in Nat
        BY <2>0, <3>0
      <4>. QED  BY <4>1, Sizes DEF Taken
    <3>3. last \in Nat /\ last <= wrote /\ wrote - last \in Nat /\ Len(up) = wrote - last
      <4>1. last \in Nat /\ last <= wrote
        BY <2>0, <2>1, <3>1, MarksFacts
      <4>2. wrote - last \in Nat
        BY <2>0, <4>1
      <4>3. Len(Units(last, wrote - last)) = wrote - last
        BY <4>1, <4>2, UnitsFacts
      <4>. QED  BY <2>1, <4>1, <4>2, <4>3
    <3>4. SubSeq(up, 1, n) \in Seq(1 .. wrote)
      BY <2>0, <3>2, PartFacts
    <3>5. f \in FrameOf(wrote) /\ f.body = SubSeq(up, 1, n)
      BY <2>0, <3>4 DEF Frame, FrameOf
    <3>. HIDE DEF f, n, last
    <3>6. /\ SubSeq(up, 1, n) = Units(last, n)
          /\ SubSeq(up, n + 1, Len(up)) = Units(last + n, Len(up) - n)
      <4>1. n \in 0 .. wrote - last /\ up = Units(last, wrote - last)
        BY <2>1, <3>2, <3>3 DEF last
      <4>2. /\ SubSeq(Units(last, wrote - last), 1, n) = Units(last, n)
            /\ SubSeq(Units(last, wrote - last), n + 1, wrote - last) = Units(last + n, wrote - last - n)
        BY <3>3, <4>1, UnitsPart
      <4>. QED  BY <3>3, <4>1, <4>2
    <3>7. Len(f.body) = n /\ f.body = Units(last, Len(f.body))
      <4>1. n \in Nat
        BY <3>2
      <4>2. Len(Units(last, n)) = n
        BY <3>3, <4>1, UnitsFacts
      <4>. QED  BY <3>5, <3>6, <4>2
    <3>8. last + Len(f.body) <= wrote /\ last + Len(f.body) = last + n /\ Len(up) - n = wrote - (last + n)
      BY <2>0, <3>2, <3>3, <3>7
    <3>9. <<f>> \in Seq(FrameOf(wrote))
      BY <3>5
    <3>10. enc'.frame = <<f>> /\ wireUp' \o enc'.frame = Append(w, f)
      BY <1>0, <2>0, <3>0, <3>1, <3>5, <3>9, EncFields, AppendIsConcat
    <3>11. \E b \in Marks(Append(w, f), Len(got), wrote) : b[Len(Append(w, f))] = last + Len(f.body)
      <4>1. w \in Seq(FrameOf(wrote)) /\ wrote <= wrote
        BY <2>0, <3>1
      <4>2. f.body = Units(at[Len(w)], Len(f.body)) /\ at[Len(w)] + Len(f.body) <= wrote
        BY <3>7, <3>8 DEF last
      <4>3. \E b \in Marks(Append(w, f), Len(got), wrote) :
               b[Len(Append(w, f))] = at[Len(w)] + Len(f.body)
        <5>1. f \in FrameOf(wrote) /\ wrote \in Nat
          BY <2>0, <3>5
        <5>. QED  BY <4>1, <4>2, <5>1, MarksOfMore
      <4>. QED  BY <4>3 DEF last
    <3>. QED  BY <3>0, <3>6, <3>8, <3>10, <3>11
  <2>4. CASE EncryptPush
    <3>0. /\ wireUp' = wireUp \o enc.frame /\ enc' = [enc EXCEPT !.frame = <<>>] /\ up' = up
      BY <1>3, <2>4 DEF EncryptPush
    <3>1. enc'.frame = <<>>
      BY <1>0, <3>0, NoUnits, EncFields
    <3>2. w \in Seq(FrameOf(wrote))
      BY Counted DEF w
    <3>3. wireUp' \o enc'.frame = w
      BY <3>0, <3>1, <3>2, ConcatEmptySeq DEF w
    <3>. QED  BY <2>1, <3>0, <3>3
  <2>. QED  BY <2>3, <2>4 DEF Encrypt
<1>. QED  BY <1>0, <1>1, <1>2, <1>3 DEF Ways

LEMMA ClientWays ==
    ASSUME Inv, Ways, ClientWrite \/ Client \/ ClientEnd
    PROVE  Ways'
<1>1. CASE ClientEof \/ ClientEnd
  BY <1>1, EndWays DEF ClientEof, ClientEnd
<1>2. CASE ClientWrite
  <2>0. UNCHANGED <<hs, client, wrote, read, recvCtr, down, up, dec, enc, wireDown, wireUp,
                    serverOpen, sent, got>>
    BY <1>2 DEF ClientWrite, bridgeVars, serverVars
  <2>. QED  BY <2>0, DownStays, UpStays, EarlyStays DEF Ways
<1>3. CASE ClientRead
  <2>0. /\ down # <<>> /\ read' = Append(read, Head(down)) /\ down' = Tail(down)
        /\ UNCHANGED <<hs, client, wrote, recvCtr, up, dec, enc, wireDown, wireUp,
                       serverOpen, sent, got>>
    BY <1>3 DEF ClientRead, serverVars
  <2>1. Append(read, Head(down)) \o Tail(down) = read \o down
    BY <2>0, Counted, HandOn
  <2>2. Here' = Here
    BY <2>0, <2>1 DEF Here
  <2>3. WayDown'
    BY <2>0, <2>2 DEF Ways, WayDown
  <2>. QED  BY <2>0, <2>3, UpStays, EarlyStays DEF Ways
<1>4. CASE ClientPush
  <2>0. /\ client /\ up' = Append(up, wrote + 1) /\ wrote' = wrote + 1
        /\ UNCHANGED <<hs, client, read, recvCtr, down, dec, enc, wireDown, wireUp,
                       serverOpen, sent, got>>
    BY <1>4 DEF ClientPush, Running, serverVars
  <2>1. WayUp'
    <3>. DEFINE w == wireUp \o enc.frame
    <3>. SUFFICES ASSUME serverOpen
                  PROVE  \E b \in Marks(w, Len(got), wrote') :
                            up' = Units(b[Len(w)], wrote' - b[Len(w)])
      BY <2>0 DEF Ways, WayUp
    <3>1. PICK at \in Marks(w, Len(got), wrote) : up = Units(at[Len(w)], wrote - at[Len(w)])
      BY <2>0 DEF Ways, WayUp
    <3>2. w \in Seq(FrameOf(wrote)) /\ wrote \in Nat
      BY Counted
    <3>. HIDE DEF w
    <3>. DEFINE last == at[Len(w)]
    <3>3. last \in Nat /\ last <= wrote
      BY <3>1, <3>2, MarksFacts
    <3>4. up = Units(last, wrote - last)
      BY <3>1
    <3>. HIDE DEF last
    <3>5. /\ wrote - last \in Nat /\ wrote' - last = wrote - last + 1
          /\ last + (wrote - last) + 1 = wrote + 1
      BY <2>0, <3>2, <3>3
    <3>6. Append(Units(last, wrote - last), last + (wrote - last) + 1) = Units(last, wrote - last + 1)
      BY <3>3, <3>5, UnitsAppend
    <3>7. up' = Units(last, wrote' - last)
      BY <2>0, <3>4, <3>5, <3>6
    <3>8. at \in Marks(w, Len(got), wrote')
      <4>1. wrote' \in Nat /\ wrote <= wrote'
        BY <2>0, <3>2
      <4>. QED  BY <3>1, <3>2, <4>1, MarksWider
    <3>. QED  BY <3>7, <3>8 DEF last
  <2>. QED  BY <2>0, <2>1, DownStays, EarlyStays DEF Ways
<1>. QED  BY <1>1, <1>2, <1>3, <1>4 DEF Client

LEMMA ServerSendWays ==
    ASSUME Inv, Ways, ServerHandshake \/ ServerData
    PROVE  Ways'
<1>0. /\ sent \in Nat /\ srvSend \in Nat /\ Len(Here) \in Nat
      /\ wireDown \in Seq(FrameOf(sent)) /\ Len(wireDown) \in Nat
  BY Counted
<1>1. PICK n \in Nat : /\ ServerSends(Units(sent, n))
                       /\ srvSend < 2 => n = 0
  <2>1. CASE ServerHandshake
    <3>1. ServerSends(Units(sent, 0))
      BY <1>0, <2>1, NoneAt DEF ServerHandshake
    <3>. QED  BY <3>1
  <2>2. CASE ServerData
    <3>1. PICK n \in 1 .. MaxFrame : ServerSends(Units(sent, n)) /\ srvSend >= 2
      BY <2>2 DEF ServerData
    <3>2. n \in Nat /\ ~(srvSend < 2)
      BY <1>0, <3>1, SizesAssumption
    <3>. QED  BY <3>1, <3>2
  <2>. QED  BY <2>1, <2>2
<1>. DEFINE body == Units(sent, n)
            f == Frame(srvSend, body)
<1>2. /\ serverOpen /\ client /\ wireDown' = Append(wireDown, f) /\ sent' = sent + Len(body)
      /\ UNCHANGED <<hs, client, wrote, read, recvCtr, down, up, dec, enc, wireUp, serverOpen, got>>
  BY <1>1 DEF ServerSends, clientVars, bridgeVars
<1>3. Len(body) = n /\ f.body = body /\ f.nonce = srvSend
  BY <1>0, UnitsFacts DEF Frame
<1>4. body \in Seq(1 .. sent + n)
  <2>1. sent + n \in Nat /\ \A i \in 1 .. n : sent + i \in 1 .. sent + n
    BY <1>0
  <2>. QED  BY <2>1 DEF Units
<1>. HIDE DEF body
<1>5. f \in FrameOf(sent + n)
  BY <1>0, <1>4 DEF Frame, FrameOf
<1>. HIDE DEF f
<1>6. wireDown \in Seq(FrameOf(sent + n)) /\ sent + n \in Nat /\ sent <= sent + n
  BY <1>0, MoreUnits
<1>7. WayDown'
  <2>1. PICK at \in Marks(wireDown, Len(Here), sent) : at[Len(wireDown)] = sent
    BY <1>2 DEF Ways, WayDown
  <2>2. f.body = Units(at[Len(wireDown)], Len(f.body)) /\ at[Len(wireDown)] + Len(f.body) = sent + n
    BY <1>3, <2>1 DEF body
  <2>3. \E b \in Marks(Append(wireDown, f), Len(Here), sent + n) :
           b[Len(Append(wireDown, f))] = at[Len(wireDown)] + Len(f.body)
    <3>1. at[Len(wireDown)] + Len(f.body) <= sent + n
      BY <1>6, <2>2
    <3>. QED  BY <1>0, <1>5, <1>6, <2>1, <2>2, <3>1, MarksOfMore
  <2>4. Here' = Here /\ sent' = sent + n
    BY <1>2, <1>3 DEF Here
  <2>. QED  BY <1>2, <2>2, <2>3, <2>4 DEF Ways, WayDown
<1>8. EarlyFrames'
  <2>1. /\ Len(wireDown') = Len(wireDown) + 1 /\ wireDown'[Len(wireDown) + 1] = f
        /\ \A i \in 1 .. Len(wireDown) : wireDown'[i] = wireDown[i]
    BY <1>2, <1>5, <1>6, AppendProperties
  <2>2. f.nonce < 2 => Len(f.body) = 0
    BY <1>1, <1>3
  <2>3. \A i \in 1 .. Len(wireDown') : wireDown'[i].nonce < 2 => Len(wireDown'[i].body) = 0
    <3>1. \A i \in 1 .. Len(wireDown) + 1 : i \in 1 .. Len(wireDown) \/ i = Len(wireDown) + 1
      BY <1>0
    <3>2. \A i \in 1 .. Len(wireDown) : wireDown[i].nonce < 2 => Len(wireDown[i].body) = 0
      BY DEF Ways, EarlyFrames
    <3>. QED  BY <2>1, <2>2, <3>1, <3>2
  <2>. QED  BY <1>2, <2>3 DEF Ways, EarlyFrames
<1>9. WayUp'
  BY <1>2, UpStays DEF Ways
<1>. QED  BY <1>7, <1>8, <1>9 DEF Ways

LEMMA ServerReadsWays ==
    ASSUME Inv, Ways, ServerReads
    PROVE  Ways'
<1>0. /\ serverOpen /\ wireUp # <<>> /\ wireUp' = Tail(wireUp)
      /\ got' = IF Opens(Head(wireUp), srvRecv) THEN got \o Head(wireUp).body ELSE got
      /\ serverOpen' = Opens(Head(wireUp), srvRecv)
      /\ UNCHANGED <<hs, client, wrote, read, recvCtr, down, up, dec, enc, wireDown, sent>>
  BY DEF ServerReads, clientVars, bridgeVars
<1>1. WayDown' /\ EarlyFrames'
  BY <1>0, DownStays, EarlyStays DEF Ways
<1>. DEFINE w == wireUp \o enc.frame
            body == Head(w).body
<1>2. /\ wireUp \in Seq(FrameOf(wrote)) /\ enc.frame \in Seq(FrameOf(wrote)) /\ wrote \in Nat
      /\ w \in Seq(FrameOf(wrote)) /\ srvRecv \in Nat /\ got \in Seq(Nat) /\ Len(got) \in Nat
  BY Counted DEF Inv, Typed
<1>3. Tail(w) = Tail(wireUp) \o enc.frame /\ Head(w) = Head(wireUp) /\ w # <<>>
  BY <1>0, <1>2, TailOfJoined
<1>4. Opens(Head(wireUp), srvRecv)
  <2>1. wireUp[1].nonce = srvRecv + 1 - 1 /\ Head(wireUp) = wireUp[1]
    <3>1. Head(wireUp) = wireUp[1] /\ Len(wireUp) \in Nat \ {0}
      BY <1>0, <1>2, TailFacts
    <3>2. 1 \in 1 .. Len(wireUp)
      BY <3>1
    <3>. QED  BY <1>0, <3>1, <3>2 DEF Inv, UpInStep
  <2>. QED  BY <1>2, <2>1 DEF Opens
<1>. HIDE DEF w
<1>5. PICK at \in Marks(w, Len(got), wrote) : client => up = Units(at[Len(w)], wrote - at[Len(w)])
  BY <1>0 DEF Ways, WayUp, w
<1>6. /\ body = Units(Len(got), Len(body)) /\ at[1] = Len(got) + Len(body)
      /\ \E b \in Marks(Tail(w), at[1], wrote) : b[Len(Tail(w))] = at[Len(w)]
  BY <1>2, <1>3, <1>5, MarksOfTail
<1>7. Len(body) \in Nat
  <2>1. Head(w) \in FrameOf(wrote)
    BY <1>2, <1>3, TailFacts
  <2>. QED  BY <2>1, LenProperties DEF FrameOf
<1>8. got' = got \o body
  BY <1>0, <1>3, <1>4
<1>. HIDE DEF body
<1>9. got' = Units(0, Len(got) + Len(body)) /\ Len(got') = Len(got) + Len(body)
  <2>1. got = Units(0, Len(got))
    BY DEF Ways, WayUp
  <2>2. Units(0, Len(got)) \o Units(Len(got), Len(body)) = Units(0, Len(got) + Len(body))
    BY <1>2, <1>7, UnitsFrom0
  <2>3. got' = Units(0, Len(got) + Len(body))
    BY <1>6, <1>8, <2>1, <2>2
  <2>4. Len(got) + Len(body) \in Nat /\ 0 \in Nat
    BY <1>2, <1>7
  <2>. QED  BY <2>3, <2>4, UnitsFacts
<1>10. wireUp' \o enc'.frame = Tail(w)
  BY <1>0, <1>3
<1>11. WayUp'
  BY <1>0, <1>5, <1>6, <1>9, <1>10 DEF WayUp
<1>. QED  BY <1>1, <1>11 DEF Ways

LEMMA ServerClosesWays ==
    ASSUME Inv, Ways, ServerCloses
    PROVE  Ways'
<1>0. PICK k \in 0 .. Len(wireDown) :
         /\ serverOpen' = FALSE /\ wireDown' = SubSeq(wireDown, 1, k)
         /\ UNCHANGED <<hs, client, wrote, read, recvCtr, down, up, dec, enc, sent, got>>
  BY DEF ServerCloses, clientVars, bridgeVars
<1>1. wireDown \in Seq(FrameOf(sent)) /\ sent \in Nat /\ Len(wireDown) \in Nat
  BY Counted
<1>2. WayDown'
  <2>1. PICK at \in Marks(wireDown, Len(Here), sent) : TRUE
    BY DEF Ways, WayDown
  <2>2. \E b : b \in Marks(SubSeq(wireDown, 1, k), Len(Here), sent)
    BY <1>1, <2>1, MarksOfPart
  <2>. QED  BY <1>0, <2>2 DEF Ways, WayDown, Here
<1>3. WayUp'
  BY <1>0 DEF Ways, WayUp
<1>4. EarlyFrames'
  <2>1. /\ Len(SubSeq(wireDown, 1, k)) = k - 1 + 1
        /\ \A i \in 1 .. k - 1 + 1 : SubSeq(wireDown, 1, k)[i] = wireDown[1 + i - 1]
    <3>1. 1 \in 1 .. Len(wireDown) + 1 /\ 1 <= k + 1
      BY <1>1
    <3>. QED  BY <1>1, <3>1, PartFacts
  <2>2. Len(wireDown') = k /\ \A i \in 1 .. k : wireDown'[i] = wireDown[i] /\ i \in 1 .. Len(wireDown)
    BY <1>0, <1>1, <2>1
  <2>. QED  BY <1>0, <2>2 DEF Ways, EarlyFrames
<1>. QED  BY <1>2, <1>3, <1>4 DEF Ways

LEMMA InitWays == Init => Ways
<1>. SUFFICES ASSUME Init PROVE Ways
  OBVIOUS
<1>1. /\ Here = <<>> /\ Len(<<>>) = 0 /\ wireUp \o enc.frame = <<>> /\ up = <<>> /\ got = <<>>
      /\ sent = 0 /\ wrote = 0 /\ wireDown = <<>> /\ hs = "serverHash" /\ recvCtr = 0
  <2>1. <<>> \o <<>> = <<>>
    BY NoUnits, ConcatEmptySeq
  <2>. QED  BY <2>1, NoUnits DEF Init, Here
<1>2. <<>> = Units(0, 0)
  BY NoneAt
<1>3. PICK at : at \in Marks(<<>>, 0, 0) /\ at[0] = 0
  <2>1. 0 \in Nat /\ 0 \in 0 .. 0
    OBVIOUS
  <2>. QED  BY <2>1, MarksOfNone
<1>4. WayDown
  BY <1>1, <1>2, <1>3 DEF WayDown
<1>5. WayUp
  <2>1. <<>> = Units(at[0], 0 - at[0])
    BY <1>2, <1>3
  <2>. QED  BY <1>1, <1>2, <1>3, <2>1 DEF WayUp
<1>6. EarlyFrames
  <2>1. \A i \in 1 .. Len(<<>>) : FALSE
    BY <1>1
  <2>. QED  BY <1>1, <2>1 DEF EarlyFrames
<1>. QED  BY <1>4, <1>5, <1>6 DEF Ways

\* For any sizes and any amount of data: in both directions what has come out at
\* the far end, and what is in the duplex, in a pump and in the frames on the
\* wire, is what was put in, in order and without a gap; as long as both ends are
\* there, all of it (ra2.rs: pump_decrypt, pump_encrypt).
THEOREM NothingLostAlways == Spec => []NothingLost
<1>1. Ways => NothingLost
  BY DEF Ways, WayDown, WayUp, Here, NothingLost
<1>2. ASSUME Inv, Ways, [Next]_vars PROVE Ways'
  <2>1. CASE Handshake \/ Decrypt \/ Encrypt
    BY <1>2, <2>1, HandshakeWays, DecryptWays, EncryptWays
  <2>2. CASE ClientWrite \/ Client \/ ClientEnd
    BY <1>2, <2>2, ClientWays
  <2>3. CASE ServerHandshake \/ ServerData \/ ServerReads \/ ServerCloses
    BY <1>2, <2>3, ServerSendWays, ServerReadsWays, ServerClosesWays
  <2>4. CASE UNCHANGED vars
    <3>1. UNCHANGED <<hs, client, wrote, read, recvCtr, down, up, dec, enc, wireDown, wireUp,
                      serverOpen, sent, got>>
      BY <2>4 DEF vars, clientVars, bridgeVars, serverVars
    <3>. QED  BY <1>2, <3>1, DownStays, UpStays, EarlyStays DEF Ways
  <2>. QED  BY <1>2, <2>1, <2>2, <2>3, <2>4 DEF Next
<1>. QED  BY <1>1, <1>2, InitWays, Invariance, PTL DEF Spec
=============================================================================

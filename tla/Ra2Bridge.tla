------------------------------- MODULE Ra2Bridge -------------------------------
(***************************************************************************)
(* An RA2 session, from the first encrypted message of the handshake on    *)
(* (ra2.rs, security.rs).  Once the credentials are sent, two pump tasks   *)
(* carry the session between the TCP stream and one end of an in-memory    *)
(* duplex; the client reads and writes plaintext at the other end.  Each   *)
(* direction of the wire has a key and a message counter of its own, the   *)
(* counter being the nonce both sides must agree on.                       *)
(*                                                                         *)
(* Plaintext is counted in units, numbered in the order they are written;  *)
(* a frame carries a few of them, and none during the handshake.  The RSA  *)
(* exchange before is over, and both sides have the session keys.          *)
(*                                                                         *)
(* A definition X_Y is X with the slip Y in it.  No action uses it: it     *)
(* stands in for X when a property is tried against a faulty program.      *)
(***************************************************************************)
EXTENDS Integers, Sequences

CONSTANTS
    Cap,         \* capacity of one direction of the duplex, in units
    Buf,         \* size of pump_encrypt's buffer, in units
    WireCap,     \* frames the network holds in one direction
    MaxFrame,    \* bound: units in a frame of the server
    MaxDown,     \* bound: units the server sends
    MaxUp        \* bound: units the client writes

ASSUME SizesAssumption == {Cap, Buf, WireCap, MaxFrame} \subseteq Nat \ {0}
ASSUME BoundsAssumption == {MaxDown, MaxUp} \subseteq Nat

VARIABLES
    \* The client's task.
    hs,          \* how far ra2::handshake is
    client,      \* VncClient::connect has not returned
    writing,     \* units left of the write_all it is in
    wrote,       \* units written to the duplex, or to be written by then
    read,        \* the units it has read
    \* The channels, and who has them: handshake first, then the pumps.
    sendCtr, recvCtr,
    \* The bridge.
    down, up,    \* what the duplex holds, oldest first
    dec,         \* pump_decrypt: whether it runs, and what is left of its write_all
    enc,         \* pump_encrypt: whether it runs, and the frame it is writing
    \* The network, and the server.
    wireDown, wireUp, serverOpen,
    srvSend, srvRecv,   \* the server's counters
    sent,        \* units it has sent
    got          \* the units it has received

clientVars == <<hs, client, writing, wrote, read>>
bridgeVars == <<down, up, dec, enc>>
serverVars == <<serverOpen, srvSend, srvRecv, sent, got>>
vars == <<clientVars, sendCtr, recvCtr, bridgeVars, wireDown, wireUp, serverVars>>

Frame(nonce, body) == [nonce |-> nonce, body |-> body]
Units(from, n)     == [i \in 1 .. n |-> from + i]

Running == client /\ hs = "bridge"

-----------------------------------------------------------------------------
(* The handshake's encrypted part (ra2::handshake).                        *)

\* Channel::open: the message authenticates only under the sender's nonce.
Opens(frame, ctr) == frame.nonce = ctr

\* connect returns, the runtime is dropped and the pumps and the duplex with it;
\* what was handed to the network still leaves.
End ==
    /\ client' = FALSE
    /\ dec' = [on |-> FALSE, left |-> <<>>]
    /\ enc' = [on |-> FALSE, frame |-> <<>>]
    /\ down' = <<>> /\ up' = <<>>
    /\ wireDown' = <<>>
    /\ writing' = 0
    /\ UNCHANGED <<hs, wrote, read, sendCtr, recvCtr, wireUp, serverVars>>

HandshakeRead(step, next) ==
    /\ client /\ hs = step
    /\ wireDown # <<>>
    /\ \/ /\ Opens(Head(wireDown), recvCtr)
          /\ recvCtr' = recvCtr + 1
          /\ wireDown' = Tail(wireDown)
          /\ hs' = next
          /\ UNCHANGED <<client, writing, wrote, read, sendCtr, bridgeVars, wireUp, serverVars>>
       \/ /\ ~Opens(Head(wireDown), recvCtr)
          /\ End

\* To a stream the server has closed a write may succeed, or fail.
HandshakeWrite(step, next) ==
    /\ client /\ hs = step
    /\ Len(wireUp) < WireCap
    /\ \/ /\ wireUp' = IF serverOpen THEN Append(wireUp, Frame(sendCtr, <<>>)) ELSE wireUp
          /\ sendCtr' = sendCtr + 1
          /\ hs' = next
          /\ UNCHANGED <<client, writing, wrote, read, recvCtr, bridgeVars, wireDown, serverVars>>
       \/ /\ ~serverOpen
          /\ End

\* The pumps start with the channels the handshake has used.
Handed_New(ctr) == 0
Handed(ctr)     == ctr

ReadServerHash  == HandshakeRead("serverHash", "clientHash")
WriteClientHash == HandshakeWrite("clientHash", "subtype")
ReadSubtype     == HandshakeRead("subtype", "creds")
WriteCreds      == HandshakeWrite("creds", "spawn")

\* negotiate: the duplex is made and the pumps are spawned.
SpawnPumps ==
    /\ client /\ hs = "spawn"
    /\ hs' = "bridge"
    /\ dec' = [dec EXCEPT !.on = TRUE]
    /\ enc' = [enc EXCEPT !.on = TRUE]
    /\ sendCtr' = Handed(sendCtr)
    /\ recvCtr' = Handed(recvCtr)
    /\ UNCHANGED <<client, writing, wrote, read, down, up, wireDown, wireUp, serverVars>>

HandshakeEof ==
    /\ client /\ hs \in {"serverHash", "subtype"}
    /\ ~serverOpen /\ wireDown = <<>>
    /\ End

Handshake == ReadServerHash \/ WriteClientHash \/ ReadSubtype \/ WriteCreds
             \/ SpawnPumps \/ HandshakeEof

-----------------------------------------------------------------------------
(* The pumps.                                                              *)

Room_One(buffer) == Len(buffer) <= Cap
Room(buffer)     == Len(buffer) < Cap

\* What write_all still has to write once the first unit is written.
Rest_Lost(left) == <<>>
Rest(left)      == Tail(left)

DecryptFrame ==
    /\ dec.on /\ dec.left = <<>>
    /\ wireDown # <<>>
    /\ wireDown' = Tail(wireDown)
    /\ recvCtr' = recvCtr + 1
    /\ dec' = IF Opens(Head(wireDown), recvCtr) THEN [dec EXCEPT !.left = Head(wireDown).body]
              ELSE [dec EXCEPT !.on = FALSE]
    /\ UNCHANGED <<clientVars, sendCtr, down, up, enc, wireUp, serverVars>>

DecryptPush ==
    /\ dec.on /\ dec.left # <<>>
    /\ Room(down)
    /\ down' = Append(down, Head(dec.left))
    /\ dec' = [dec EXCEPT !.left = Rest(dec.left)]
    /\ UNCHANGED <<clientVars, sendCtr, recvCtr, up, enc, wireDown, wireUp, serverVars>>

\* The wire has ended.  The duplex is not closed by this: the other pump has the
\* other half of the same end.
DecryptEof ==
    /\ dec.on /\ dec.left = <<>>
    /\ ~serverOpen /\ wireDown = <<>>
    /\ dec' = [dec EXCEPT !.on = FALSE]
    /\ UNCHANGED <<clientVars, sendCtr, recvCtr, down, up, enc, wireDown, wireUp, serverVars>>

\* How much of the duplex one read takes.
Taken_Exact(n) == IF n < Buf THEN 0 ELSE Buf
Taken(n)       == IF n < Buf THEN n ELSE Buf

EncryptFrame ==
    /\ enc.on /\ enc.frame = <<>>
    /\ Taken(Len(up)) > 0
    /\ LET n == Taken(Len(up))
       IN  /\ enc' = [enc EXCEPT !.frame = <<Frame(sendCtr, SubSeq(up, 1, n))>>]
           /\ up' = SubSeq(up, n + 1, Len(up))
    /\ sendCtr' = sendCtr + 1
    /\ UNCHANGED <<clientVars, recvCtr, down, dec, wireDown, wireUp, serverVars>>

\* A write to a stream the server has closed may succeed, or fail.
EncryptPush ==
    /\ enc.on /\ enc.frame # <<>>
    /\ \/ /\ serverOpen /\ Len(wireUp) < WireCap
          /\ wireUp' = wireUp \o enc.frame
          /\ enc' = [enc EXCEPT !.frame = <<>>]
       \/ /\ ~serverOpen
          /\ enc' \in {[enc EXCEPT !.frame = <<>>], [on |-> FALSE, frame |-> <<>>]}
          /\ UNCHANGED wireUp
    /\ UNCHANGED <<clientVars, sendCtr, recvCtr, down, up, dec, wireDown, serverVars>>

Decrypt == DecryptFrame \/ DecryptPush \/ DecryptEof
Encrypt == EncryptFrame \/ EncryptPush

-----------------------------------------------------------------------------
(* The client's session: reads and writes, never both at a time.           *)

BridgeDown == ~dec.on /\ ~enc.on

ClientWrite ==
    /\ Running /\ writing = 0
    /\ read # <<>>                  \* the SecurityResult comes first
    /\ \E n \in 1 .. MaxUp - wrote : writing' = n
    /\ UNCHANGED <<hs, client, wrote, read, sendCtr, recvCtr, bridgeVars, wireDown, wireUp, serverVars>>

ClientPush ==
    /\ Running /\ writing > 0
    /\ ~BridgeDown
    /\ Room(up)
    /\ up' = Append(up, wrote + 1)
    /\ wrote' = wrote + 1
    /\ writing' = writing - 1
    /\ UNCHANGED <<hs, client, read, sendCtr, recvCtr, down, dec, enc, wireDown, wireUp, serverVars>>

ClientRead ==
    /\ Running /\ writing = 0
    /\ down # <<>>
    /\ read' = Append(read, Head(down))
    /\ down' = Tail(down)
    /\ UNCHANGED <<hs, client, writing, wrote, sendCtr, recvCtr, up, dec, enc, wireDown, wireUp, serverVars>>

\* A read at the end of the stream, or a write to it.
ClientEof ==
    /\ Running /\ BridgeDown
    /\ writing > 0 \/ down = <<>>
    /\ End

\* The session ends for a reason of its own: Disconnect, or undecodable data.
ClientEnd == Running /\ End

Client == ClientPush \/ ClientRead \/ ClientEof

-----------------------------------------------------------------------------
(* The server and the network.                                             *)

ServerSends(body) ==
    /\ serverOpen /\ client
    /\ Len(wireDown) < WireCap
    /\ wireDown' = Append(wireDown, Frame(srvSend, body))
    /\ srvSend' = srvSend + 1
    /\ sent' = sent + Len(body)
    /\ UNCHANGED <<clientVars, sendCtr, recvCtr, bridgeVars, wireUp, serverOpen, srvRecv, got>>

\* Its key hash at once, the subtype after the client's hash.
ServerHandshake ==
    /\ srvSend = 0 \/ (srvSend = 1 /\ srvRecv = 1)
    /\ ServerSends(<<>>)

\* The SecurityResult and the session, after the credentials.
ServerData ==
    /\ srvSend >= 2 /\ srvRecv >= 2
    /\ \E n \in 1 .. MaxFrame : /\ sent + n <= MaxDown
                                /\ ServerSends(Units(sent, n))

\* The server reads whatever it is writing meanwhile; it gives up on a message
\* that does not authenticate.
ServerReads ==
    /\ serverOpen /\ wireUp # <<>>
    /\ wireUp' = Tail(wireUp)
    /\ srvRecv' = srvRecv + 1
    /\ got' = IF Opens(Head(wireUp), srvRecv) THEN got \o Head(wireUp).body ELSE got
    /\ serverOpen' = Opens(Head(wireUp), srvRecv)
    /\ UNCHANGED <<clientVars, sendCtr, recvCtr, bridgeVars, wireDown, srvSend, sent>>

\* What it has sent may be lost, what it has not read is.
ServerCloses ==
    /\ serverOpen
    /\ serverOpen' = FALSE
    /\ wireUp' = <<>>
    /\ \E k \in 0 .. Len(wireDown) : wireDown' = SubSeq(wireDown, 1, k)
    /\ UNCHANGED <<clientVars, sendCtr, recvCtr, bridgeVars, srvSend, srvRecv, sent, got>>

-----------------------------------------------------------------------------
Init ==
    /\ hs = "serverHash" /\ client = TRUE
    /\ writing = 0 /\ wrote = 0 /\ read = <<>>
    /\ sendCtr = 0 /\ recvCtr = 0
    /\ down = <<>> /\ up = <<>>
    /\ dec = [on |-> FALSE, left |-> <<>>]
    /\ enc = [on |-> FALSE, frame |-> <<>>]
    /\ wireDown = <<>> /\ wireUp = <<>> /\ serverOpen = TRUE
    /\ srvSend = 0 /\ srvRecv = 0 /\ sent = 0 /\ got = <<>>

Next ==
    \/ Handshake \/ Decrypt \/ Encrypt
    \/ ClientWrite \/ Client \/ ClientEnd
    \/ ServerHandshake \/ ServerData \/ ServerReads \/ ServerCloses

\* The three tasks of the runtime are polled as long as they can go on, and the
\* server goes through the handshake and reads what it is sent.
Fairness ==
    /\ WF_vars(Handshake) /\ WF_vars(Client)
    /\ WF_vars(Decrypt) /\ WF_vars(Encrypt)
    /\ WF_vars(ServerHandshake) /\ WF_vars(ServerReads)

Spec     == Init /\ [][Next]_vars
FairSpec == Spec /\ Fairness

-----------------------------------------------------------------------------
(* Properties.                                                             *)

FrameOf(max) == [nonce : Nat, body : Seq(1 .. max)]

\* Types, and the capacities of the duplex and of the network.
TypeOK ==
    /\ hs \in {"serverHash", "clientHash", "subtype", "creds", "spawn", "bridge"}
    /\ {client, serverOpen} \subseteq BOOLEAN
    /\ writing \in 0 .. MaxUp /\ wrote \in 0 .. MaxUp - writing
    /\ sent \in 0 .. MaxDown
    /\ {sendCtr, recvCtr, srvSend, srvRecv} \subseteq Nat
    /\ read \in Seq(1 .. sent) /\ down \in Seq(1 .. sent) /\ Len(down) <= Cap
    /\ got \in Seq(1 .. wrote) /\ up \in Seq(1 .. wrote) /\ Len(up) <= Cap
    /\ dec \in [on : BOOLEAN, left : Seq(1 .. sent)]
    /\ enc \in [on : BOOLEAN, frame : Seq(FrameOf(wrote))] /\ Len(enc.frame) <= 1
    /\ wireDown \in Seq(FrameOf(sent)) /\ Len(wireDown) <= WireCap
    /\ wireUp \in Seq(FrameOf(wrote)) /\ Len(wireUp) <= WireCap

\* Every frame on its way carries the nonce its receiver will expect when its
\* turn comes, through the handshake, the hand-over to the pumps and the session
\* (Channel::next_nonce): none is reused, and no message fails to authenticate.
NoncesInStep ==
    /\ client => \A i \in DOMAIN wireDown : wireDown[i].nonce = recvCtr + i - 1
    /\ serverOpen =>
          LET up_ == wireUp \o enc.frame
          IN  \A i \in DOMAIN up_ : up_[i].nonce = srvRecv + i - 1

\* How many units are before each of the frames, and after the last, when their
\* bodies go on from unit `from` without a gap.
Marks(frames, from, max) ==
    {at \in [0 .. Len(frames) -> 0 .. max] :
        /\ at[0] = from
        /\ \A i \in 1 .. Len(frames) :
              LET body == frames[i].body
              IN  body = Units(at[i - 1], Len(body)) /\ at[i] = at[i - 1] + Len(body)}

\* Nothing is lost, doubled or reordered on the way through frames, pumps and
\* duplex, in either direction (write_all of whole messages at every stage); the
\* end of the session cuts off a suffix.
NothingLost ==
    /\ LET here == read \o down \o dec.left
       IN  /\ here = Units(0, Len(here))
           /\ \E at \in Marks(wireDown, Len(here), sent) :
                 client /\ serverOpen => at[Len(wireDown)] = sent
    /\ got = Units(0, Len(got))
    /\ serverOpen =>
          LET up_ == wireUp \o enc.frame
          IN  \E at \in Marks(up_, Len(got), wrote) :
                 client => up = Units(at[Len(up_)], wrote - at[Len(up_)])

\* What the server sends is read, even while the client is in the middle of
\* writing more than the duplex holds.
DownArrives ==
    \A n \in 1 .. MaxDown : sent >= n ~> (Len(read) >= n \/ ~client \/ ~serverOpen)

\* What the client starts to write gets to the server.
UpArrives ==
    \A n \in 1 .. MaxUp : wrote + writing >= n ~> (Len(got) >= n \/ ~client \/ ~serverOpen)

\* The client learns that the server has closed the connection ("Dropping `out`
\* signals EOF to the reader side", ra2.rs:279).
CloseLearned == ~serverOpen ~> ~client
===============================================================================

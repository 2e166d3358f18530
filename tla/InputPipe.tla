------------------------------ MODULE InputPipe -------------------------------
(***************************************************************************)
(* What a viewer window promises of the keys, pointer moves and clipboard  *)
(* texts it sends (VncConnection::send_key, send_pointer, send_clipboard,  *)
(* disconnect): they reach the server in the order issued, none twice and  *)
(* none left out of the middle, and what precedes a disconnect precedes    *)
(* the end of the session.  A failure loses a suffix, never more.          *)
(***************************************************************************)
EXTENDS Naturals, Sequences

VARIABLES
    sent,       \* how many inputs were issued
    pending,    \* those that may still arrive, oldest first
    delivered,  \* those that arrived, in the order of arrival
    state       \* "open", "closed" by the user, or "broken"

vars == <<sent, pending, delivered, state>>

Init == sent = 0 /\ pending = <<>> /\ delivered = <<>> /\ state = "open"

Send ==
    /\ state = "open"
    /\ sent' = sent + 1
    /\ pending' = Append(pending, sent + 1)
    /\ UNCHANGED <<delivered, state>>

\* The session is lost, and the sender does not know it yet.
SendInVain ==
    /\ state = "broken"
    /\ sent' = sent + 1
    /\ UNCHANGED <<pending, delivered, state>>

Deliver ==
    /\ pending # <<>>
    /\ delivered' = Append(delivered, Head(pending))
    /\ pending' = Tail(pending)
    /\ UNCHANGED <<sent, state>>

\* Disconnect: nothing more is sent, everything sent still arrives.
Close ==
    /\ state = "open"
    /\ state' = "closed"
    /\ UNCHANGED <<sent, pending, delivered>>

Break ==
    /\ state' = "broken"
    /\ \E k \in 0 .. Len(pending) : pending' = SubSeq(pending, 1, k)
    /\ UNCHANGED <<sent, delivered>>

Next == Send \/ SendInVain \/ Deliver \/ Close \/ Break

Spec == Init /\ [][Next]_vars
===============================================================================

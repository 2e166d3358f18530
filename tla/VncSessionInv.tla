---------------------------- MODULE VncSessionInv -----------------------------
(***************************************************************************)
(* The inductive invariant behind the safety properties of VncSession.     *)
(*                                                                         *)
(* Both queues toward the screen, the stream toClient and the channel      *)
(* events, carry sizes and, between them, things that must fit a size.     *)
(* What fits is decided when a message is sent and needed when it is       *)
(* taken, many steps later: so the invariant speaks of every position of   *)
(* the two queues, and of the size in force there.                         *)
(***************************************************************************)
EXTENDS VncSession

Sized(m) == m.t \in {"init", "resize", "size"}

\* What m draws, and what it reads, lies in a framebuffer of the size.
InBounds(m, size) ==
    /\ m.t = "paint" => DOMAIN m.px \subseteq Cells(size)
    /\ m.t = "copy"  => /\ m.to \subseteq Cells(size)
                        /\ \A c \in m.to : Source(c, m.d) \in Cells(size)
    /\ m.t = "rects" => \A k \in 1 .. Len(m.rects) : DOMAIN m.rects[k] \subseteq Cells(size)

\* Position j holds the size in force before position i of the queue q; for
\* j = 0 it is the size its reader has now.
Governs(q, j, i) ==
    /\ j < i
    /\ j # 0 => Sized(q[j])
    /\ \A k \in j + 1 .. i - 1 : ~Sized(q[k])
SizeAt(q, j, now) == IF j = 0 THEN now ELSE q[j].size

\* Every message fits the size in force where it is.
Bounded(q, now) ==
    \A i \in 1 .. Len(q) : \A j \in 0 .. Len(q) :
        Governs(q, j, i) => InBounds(q[i], SizeAt(q, j, now))

\* The size in force after the last message is the sender's.
EndsIn(q, now, size) ==
    \A j \in 0 .. Len(q) : Governs(q, j, Len(q) + 1) => SizeAt(q, j, now) = size

\* The stream, from the server's shadow to the framebuffer.
StreamInv ==
    /\ Bounded(toClient, fb.size)
    /\ serverOpen => EndsIn(toClient, fb.size, shadow.size)
    /\ serverOpen /\ ~resizing => shadow.size = screen.size

\* The events, from the framebuffer to the texture.
EventsInv ==
    /\ Bounded(events, uiSize)
    /\ connection /\ pc \in {"drain", "read", "rects"} => EndsIn(events, uiSize, fb.size)
    /\ pc = "serverinit" => events = <<>>
    /\ ~connection => events = <<>>
    /\ connection /\ texture = None =>
          IF events = <<>> THEN pc = "serverinit"
          ELSE Head(events).t \in {"size"} \cup Outcomes

Inv ==
    /\ TypeOK
    /\ StreamInv
    /\ EventsInv
    /\ EndAnnounced
    /\ TextureFits
===============================================================================

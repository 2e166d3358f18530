------------------------------ MODULE VncSession ------------------------------
(***************************************************************************)
(* One viewer window and its RFB session, from ServerInit to the end of    *)
(* the connection: the UI thread (VncApp, app.rs), the VNC background      *)
(* thread (VncClient::connect, client.rs), the two unbounded crossbeam     *)
(* channels between them (VncConnection, connection.rs), and the RFB       *)
(* server at the other end of the byte stream.                             *)
(*                                                                         *)
(* Pixels are abstract colours; a framebuffer is a map from the cells of   *)
(* its size to colours, a rectangle the set of its cells.  Key, pointer    *)
(* and clipboard commands are one kind, "input", numbered in the order the *)
(* user issues them: the background thread treats them all alike.          *)
(*                                                                         *)
(* A definition X_Y is X with the slip Y in it.  No action uses it: it     *)
(* stands in for X when a property is tried against a faulty program.      *)
(***************************************************************************)
EXTENDS Integers, Sequences

CONSTANTS
    Sizes,        \* the desktop sizes <<width, height>> the server may have
    Colours,      \* the colours the server may show
    Black,        \* the value of a pixel nothing was painted on yet
    MaxInputs,    \* bound: input commands the user issues
    MaxDraws,     \* bound: changes of one pixel of the remote screen
    MaxResizes,   \* bound: changes of the size of the remote screen
    MaxRects,     \* bound: rectangles in an update that draws, 1 or 2
    MaxNotices,   \* bound: server messages other than updates
    Endings       \* bound: who may end the session, a subset of {"user", "server"}

ASSUME SizesAssumption == Sizes \subseteq Nat \X Nat
ASSUME BlackAssumption == Black \notin Colours
ASSUME BoundsAssumption ==
    MaxInputs \in Nat /\ MaxDraws \in Nat /\ MaxResizes \in Nat /\ MaxNotices \in Nat

VARIABLES
    \* The UI thread.
    connection,   \* connection.is_some()
    texture,      \* the texture: None, or <<[size, px]>>
    uiSize,       \* (fb_width, fb_height)
    sent,         \* ghost: the number of input commands issued so far
    \* The channels.
    events,       \* VncEvents on their way to the UI, oldest first
    cmds,         \* VncCommands on their way to the background thread
    \* The background thread.
    pc,           \* where it is in VncClient::connect
    fb,           \* its Framebuffer
    todo,         \* rectangles of the current update still to be read
    dirty,        \* the rectangles drawn so far by the current update
    \* The byte stream, as the messages in flight, and the server.
    toServer, toClient,
    serverOpen,   \* the server has not closed the connection
    screen,       \* what the server's desktop shows
    shadow,       \* what the client shows once it has read all that was sent
    changed,      \* cells of `screen` the client has to be told about
    resizing,     \* a change of size the client has to be told about
    asked,        \* the cells an unanswered update request asks for
    delivered,    \* the input commands the server received, oldest first
    budget        \* what is left of the bounds MaxDraws, MaxResizes, MaxNotices

uiVars     == <<connection, texture, uiSize, sent>>
chanVars   == <<events, cmds>>
workerVars == <<pc, fb, todo, dirty>>
serverVars == <<serverOpen, screen, shadow, changed, resizing, asked, delivered,
                budget>>
wireVars   == <<toServer, toClient>>
vars       == <<uiVars, chanVars, workerVars, wireVars, serverVars>>

-------------------------------------------------------------------------------
(* Framebuffers and rectangles.                                            *)

Pixel == Colours \cup {Black}
Cells(size) == (0 .. size[1] - 1) \X (0 .. size[2] - 1)
Framebuffers == UNION {[size : {s}, px : [Cells(s) -> Pixel]] : s \in Sizes}
None == <<>>

\* Framebuffer::new: all bytes zero.
BlackFb(size) == [size |-> size, px |-> [c \in Cells(size) |-> Black]]

\* Framebuffer::resize, as Framebuffer::new: nothing of the old image is kept.
Resized_Kept(f, size) == f
Resized_NotCleared(f, size) == [size |-> size, px |-> f.px]
Resized(f, size) == BlackFb(size)

\* Framebuffer::blit_rgba and TextureHandle::set_partial of the pixels px.
Blit(f, px) ==
    [f EXCEPT !.px = [c \in DOMAIN f.px |-> IF c \in DOMAIN px THEN px[c] ELSE f.px[c]]]

\* Framebuffer::copy_rect: every source row is read before any is written.
Source(c, d) == <<c[1] - d[1], c[2] - d[2]>>
CopyRect(f, to, d) == Blit(f, [c \in to |-> f.px[Source(c, d)]])

\* Framebuffer::sub_rgba: the rectangle is clamped to the framebuffer.
SubRgba_NotClamped(f, cells) ==
    [c \in cells |-> IF c \in DOMAIN f.px THEN f.px[c] ELSE Black]
SubRgba(f, cells) == [c \in cells \cap DOMAIN f.px |-> f.px[c]]

\* The rectangles of a framebuffer of a size.
RectsOf(size) ==
    {(x[1] .. x[2]) \X (y[1] .. y[2]) :
        x \in {r \in (0 .. size[1] - 1) \X (0 .. size[1] - 1) : r[1] <= r[2]},
        y \in {r \in (0 .. size[2] - 1) \X (0 .. size[2] - 1) : r[1] <= r[2]}}

\* The drawing rectangles of an update, as client.rs decodes them into f.
Decode(f, r) == IF r.t = "paint" THEN Blit(f, r.px) ELSE CopyRect(f, r.to, r.d)
Target(r)    == IF r.t = "paint" THEN DOMAIN r.px ELSE r.to

-------------------------------------------------------------------------------
(* Sending on a channel and on the stream.                                 *)

\* event_tx.send: ignored once the UI has dropped the receiver.
Emitted(evs) == IF connection THEN events \o evs ELSE events
Emit(evs) == events' = Emitted(evs)

\* The thread ends: VncConnection::connect turns the outcome into one event.
Outcomes == {"disconnected", "error"}
FinishAfter_TooEarly(evs, outcome) ==
    /\ pc' = outcome
    /\ Emit(<<[t |-> outcome]>> \o evs)
FinishAfter_Silent(evs, outcome) ==
    /\ pc' = outcome
    /\ Emit(evs)
FinishAfter(evs, outcome) ==
    /\ pc' = outcome
    /\ Emit(evs \o <<[t |-> outcome]>>)
Finish(outcome) == FinishAfter(<<>>, outcome)

\* write_all: after the server closed, bytes are lost.
Written_Once(msg) == IF serverOpen /\ toServer = <<>> THEN <<msg>> ELSE toServer
Written(msg) == IF serverOpen THEN Append(toServer, msg) ELSE toServer
Request(inc, size) == [t |-> "request", inc |-> inc, size |-> size]
FullRequest_Incremental(size) == Request(TRUE, size)
FullRequest(size) == Request(FALSE, size)
SizeEvent(size) == [t |-> "size", size |-> size]

\* write_all fails: only possible after the server closed.
WriteFailsAfter(evs) ==
    /\ ~serverOpen
    /\ FinishAfter(evs, "error")
    /\ UNCHANGED toServer

-------------------------------------------------------------------------------
Init ==
    \E s \in Sizes : \E px \in [Cells(s) -> Colours] :
        /\ connection = TRUE
        /\ texture = None
        /\ uiSize = <<0, 0>>
        /\ sent = 0
        /\ events = <<>>
        /\ cmds = <<>>
        /\ pc = "serverinit"
        /\ fb = BlackFb(s)
        /\ todo = 0
        /\ dirty = <<>>
        /\ toServer = <<>>
        /\ toClient = <<[t |-> "init", size |-> s]>>
        /\ serverOpen = TRUE
        /\ screen = [size |-> s, px |-> px]
        /\ shadow = BlackFb(s)
        /\ changed = {}
        /\ resizing = FALSE
        /\ asked = {}
        /\ delivered = <<>>
        /\ budget = [draws |-> MaxDraws, resizes |-> MaxResizes, notices |-> MaxNotices]

-------------------------------------------------------------------------------
(* The background thread.                                                  *)

\* The next message of the stream, when it has arrived.
Arrived(t) == toClient # <<>> /\ Head(toClient).t = t

\* ServerInit, SetEncodings, the first full update request.
ServerInit ==
    /\ pc = "serverinit"
    /\ Arrived("init")
    /\ LET size  == Head(toClient).size
           first == <<SizeEvent(size), [t |-> "name"]>>
       IN  /\ fb' = BlackFb(size)
           /\ \/ /\ Emit(first)
                 /\ toServer' = Written(FullRequest(size))
                 /\ pc' = "drain"
              \/ WriteFailsAfter(first)
    /\ toClient' = Tail(toClient)
    /\ UNCHANGED <<uiVars, cmds, todo, dirty, serverVars>>

\* while let Ok(cmd) = cmd_rx.try_recv(): one command.
Received_Anywhere(t) == \E i \in 1 .. Len(cmds) : cmds[i].t = t
Received(t) == cmds # <<>> /\ Head(cmds).t = t

DrainInput ==
    /\ pc = "drain"
    /\ Received("input")
    /\ cmds' = Tail(cmds)
    /\ \/ /\ toServer' = Written(Head(cmds))
          /\ UNCHANGED <<pc, events>>
       \/ WriteFailsAfter(<<>>)
    /\ UNCHANGED <<uiVars, fb, todo, dirty, toClient, serverVars>>

DrainDisconnect ==
    /\ pc = "drain"
    /\ Received("disconnect")
    /\ cmds' = Tail(cmds)
    /\ Finish("disconnected")
    /\ UNCHANGED <<uiVars, fb, todo, dirty, wireVars, serverVars>>

\* The queue is empty: go and wait for a server message.
DrainEnd ==
    /\ pc = "drain"
    /\ cmds = <<>>
    /\ pc' = "read"
    /\ UNCHANGED <<uiVars, chanVars, fb, todo, dirty, wireVars, serverVars>>

\* tokio::time::timeout(5 ms, read_u8): nothing has arrived, what the server
\* sent may still be on its way; back to the commands.
ReadTimeout_Never == FALSE /\ UNCHANGED vars
ReadTimeout ==
    /\ pc = "read"
    /\ pc' = "drain"
    /\ UNCHANGED <<uiVars, chanVars, fb, todo, dirty, wireVars, serverVars>>

\* A read that meets the end of the stream, between messages or inside one.
ReadEof ==
    /\ pc \in {"serverinit", "read", "rects"}
    /\ pc = "rects" => todo > 0
    /\ toClient = <<>> /\ ~serverOpen
    /\ Finish("error")
    /\ UNCHANGED <<uiVars, cmds, fb, todo, dirty, wireVars, serverVars>>

\* FB_UPDATE: the number of rectangles.
UpdateStart ==
    /\ pc = "read"
    /\ Arrived("update")
    /\ todo' = Head(toClient).n
    /\ dirty' = <<>>
    /\ pc' = "rects"
    /\ toClient' = Tail(toClient)
    /\ UNCHANGED <<uiVars, chanVars, fb, toServer, serverVars>>

\* RAW, COPY_RECT, ZRLE, HEXTILE, TIGHT: decode into the framebuffer.
UpdateDraw ==
    /\ pc = "rects" /\ todo > 0
    /\ Arrived("paint") \/ Arrived("copy")
    /\ fb' = Decode(fb, Head(toClient))
    /\ dirty' = Append(dirty, Target(Head(toClient)))
    /\ todo' = todo - 1
    /\ toClient' = Tail(toClient)
    /\ UNCHANGED <<uiVars, chanVars, pc, toServer, serverVars>>

\* DESKTOP_SIZE: resize, tell the UI, ask for everything.
UpdateResize ==
    /\ pc = "rects" /\ todo > 0
    /\ Arrived("resize")
    /\ LET size == Head(toClient).size IN
        /\ fb' = Resized(fb, size)
        /\ \/ /\ Emit(<<SizeEvent(size)>>)
              /\ toServer' = Written(FullRequest(size))
              /\ UNCHANGED pc
           \/ WriteFailsAfter(<<SizeEvent(size)>>)
    /\ todo' = todo - 1
    /\ toClient' = Tail(toClient)
    /\ UNCHANGED <<uiVars, cmds, dirty, serverVars>>

\* CURSOR: read and discarded.
UpdateCursor ==
    /\ pc = "rects" /\ todo > 0
    /\ Arrived("cursor")
    /\ todo' = todo - 1
    /\ toClient' = Tail(toClient)
    /\ UNCHANGED <<uiVars, chanVars, pc, fb, dirty, toServer, serverVars>>

\* All rectangles read: cut the dirty ones out of the framebuffer as it is
\* now, send them to the UI, ask for the next update of the whole framebuffer.
DirtyRects == [i \in 1 .. Len(dirty) |-> SubRgba(fb, dirty[i])]
RectsEvent == IF dirty = <<>> THEN <<>> ELSE <<[t |-> "rects", rects |-> DirtyRects]>>

NextRequest_IfDrawn == IF dirty = <<>> THEN toServer ELSE Written(Request(TRUE, fb.size))
NextRequest_ToLastColumn == Written(Request(TRUE, <<fb.size[1] - 1, fb.size[2]>>))
NextRequest == Written(Request(TRUE, fb.size))

UpdateEnd ==
    /\ pc = "rects" /\ todo = 0
    /\ \/ /\ Emit(RectsEvent)
          /\ toServer' = NextRequest
          /\ pc' = "drain"
       \/ WriteFailsAfter(RectsEvent)
    /\ dirty' = <<>>
    /\ UNCHANGED <<uiVars, cmds, fb, todo, toClient, serverVars>>

\* SERVER_CUT_TEXT is passed to the UI; BELL and SET_COLOUR_MAP_ENTRIES are not.
ReadNotice ==
    /\ pc = "read"
    /\ Arrived("cuttext") \/ Arrived("bell")
    /\ Emit(IF Arrived("cuttext") THEN <<[t |-> "cliptext"]>> ELSE <<>>)
    /\ pc' = "drain"
    /\ toClient' = Tail(toClient)
    /\ UNCHANGED <<uiVars, cmds, fb, todo, dirty, toServer, serverVars>>

\* An unknown message type, an unsupported encoding, undecodable data: bail.
ReadUndecodable ==
    /\ pc = "read" \/ (pc = "rects" /\ todo > 0)
    /\ Arrived("undecodable")
    /\ Finish("error")
    /\ toClient' = Tail(toClient)
    /\ UNCHANGED <<uiVars, cmds, fb, todo, dirty, toServer, serverVars>>

\* The stream has the next message, or its end, for the background thread.
Read == ReadEof \/ ReadNotice \/ ReadUndecodable \/ UpdateStart

Worker ==
    \/ ServerInit
    \/ DrainInput \/ DrainDisconnect \/ DrainEnd
    \/ ReadTimeout \/ Read
    \/ UpdateDraw \/ UpdateResize \/ UpdateCursor \/ UpdateEnd

-------------------------------------------------------------------------------
(* The UI thread.  process_events handles the events that are there, oldest *)
(* first; the user acts in between.                                        *)

\* VncEvent::DesktopSize: a new black texture, unless one of this size is there.
NewTexture_OnlyFirst(size) == texture = None
NewTexture(size) == uiSize # size \/ texture = None

HandleSize ==
    /\ events # <<>> /\ Head(events).t = "size"
    /\ LET size == Head(events).size IN
        /\ uiSize' = size
        /\ texture' = IF NewTexture(size)
                      THEN <<BlackFb(size)>> ELSE texture
    /\ events' = Tail(events)
    /\ UNCHANGED <<connection, sent, cmds, workerVars, wireVars, serverVars>>

\* VncEvent::FramebufferRects: rectangles outside the texture are skipped.
Fits_EdgeExcluded(px, size) == DOMAIN px \subseteq Cells(<<size[1] - 1, size[2]>>)
Fits(px, size) == DOMAIN px \subseteq Cells(size)
Shown(rects, c) == {i \in 1 .. Len(rects) : Fits(rects[i], uiSize) /\ c \in DOMAIN rects[i]}
Topmost(rects, c) == {i \in Shown(rects, c) : \A j \in Shown(rects, c) : j <= i}
Painted(tex, rects) ==
    Blit(tex, [c \in {d \in DOMAIN tex.px : Topmost(rects, d) # {}} |->
                  rects[CHOOSE i \in Topmost(rects, c) : TRUE][c]])

HandleRects ==
    /\ events # <<>> /\ Head(events).t = "rects"
    /\ texture' = IF texture = None THEN None
                  ELSE <<Painted(texture[1], Head(events).rects)>>
    /\ events' = Tail(events)
    /\ UNCHANGED <<connection, uiSize, sent, cmds, workerVars, wireVars, serverVars>>

\* VncEvent::DesktopName (title, saved session) and ::ClipboardText.
HandleNotice ==
    /\ events # <<>> /\ Head(events).t \in {"name", "cliptext"}
    /\ events' = Tail(events)
    /\ UNCHANGED <<uiVars, cmds, workerVars, wireVars, serverVars>>

\* VncEvent::Error and ::Disconnected: the connection is dropped; what the
\* frame collected with this event is still handled.
HandleEnd ==
    /\ events # <<>> /\ Head(events).t \in {"error", "disconnected"}
    /\ connection' = FALSE
    /\ texture' = None
    /\ events' = Tail(events)
    /\ UNCHANGED <<uiSize, sent, cmds, workerVars, wireVars, serverVars>>

Frame == HandleSize \/ HandleRects \/ HandleNotice \/ HandleEnd

\* Keys and the pointer on the remote screen once it is shown (render_framebuffer),
\* "Paste ->VNC" and "Ctrl+Alt+Del" even before (render_toolbar).
UserInput ==
    /\ connection
    /\ sent < MaxInputs
    /\ sent' = sent + 1
    /\ cmds' = Append(cmds, [t |-> "input", id |-> sent + 1])
    /\ UNCHANGED <<connection, texture, uiSize, events, workerVars, wireVars,
                   serverVars>>

\* VncApp::disconnect.
UserDisconnect ==
    /\ "user" \in Endings
    /\ connection
    /\ cmds' = Append(cmds, [t |-> "disconnect"])
    /\ connection' = FALSE
    /\ texture' = None
    /\ events' = <<>>
    /\ UNCHANGED <<uiSize, sent, workerVars, wireVars, serverVars>>

User == UserInput \/ UserDisconnect

-------------------------------------------------------------------------------
(* The server (not part of the repository): what RFB asks of it.           *)

\* The client has not gone away.
Serving == serverOpen /\ pc \notin Outcomes

\* The desktop changes on its own.
Draw ==
    /\ Serving
    /\ budget.draws > 0
    /\ budget' = [budget EXCEPT !.draws = @ - 1]
    /\ \E c \in Cells(screen.size), v \in Colours :
        /\ v # screen.px[c]
        /\ screen' = [screen EXCEPT !.px[c] = v]
        /\ changed' = changed \cup {c}
    /\ UNCHANGED <<uiVars, chanVars, workerVars, wireVars, serverOpen, shadow, resizing,
                   asked, delivered>>

Resize ==
    /\ Serving
    /\ budget.resizes > 0
    /\ budget' = [budget EXCEPT !.resizes = @ - 1]
    /\ \E s \in Sizes \ {screen.size}, v \in Colours :
        /\ screen' = [size |-> s,
                      px |-> [c \in Cells(s) |->
                                IF c \in Cells(screen.size) THEN screen.px[c] ELSE v]]
        /\ changed' = Cells(s)
    /\ resizing' = TRUE
    /\ UNCHANGED <<uiVars, chanVars, workerVars, wireVars, serverOpen, shadow, asked,
                   delivered>>

\* A full request makes the whole region due, an incremental one only asks.
ServeRequest ==
    /\ serverOpen
    /\ toServer # <<>> /\ Head(toServer).t = "request"
    /\ LET region == Cells(Head(toServer).size) IN
        /\ asked' = asked \cup region
        /\ changed' = IF Head(toServer).inc THEN changed
                      ELSE changed \cup (region \cap Cells(screen.size))
    /\ toServer' = Tail(toServer)
    /\ UNCHANGED <<uiVars, chanVars, workerVars, toClient, serverOpen, screen, shadow,
                   resizing, delivered, budget>>

ServeInput ==
    /\ serverOpen
    /\ toServer # <<>> /\ Head(toServer).t = "input"
    /\ delivered' = Append(delivered, Head(toServer).id)
    /\ toServer' = Tail(toServer)
    /\ UNCHANGED <<uiVars, chanVars, workerVars, toClient, serverOpen, screen, shadow,
                   changed, resizing, asked, budget>>

\* The rectangles an update may hold: pixels of a rectangle, or a copy of one.
Paints(cells, f) == {[t |-> "paint", px |-> [c \in cells |-> f.px[c]]]}
StalePaints(cells) == {[t |-> "paint", px |-> [c \in cells |-> v]] : v \in Colours}
Copies(cells, f) ==
    {[t |-> "copy", to |-> cells, d |-> d] :
        d \in {e \in ((-1 .. 1) \X (-1 .. 1)) \ {<<0, 0>>} :
                  \A c \in cells : /\ Source(c, e) \in DOMAIN f.px
                                   /\ f.px[Source(c, e)] # Black}}

\* What a client that shows f shows after a rectangle (RFB 7.7.1, 7.7.2).
Drawn(f, r) ==
    [f EXCEPT !.px = [c \in DOMAIN f.px |->
        IF c \notin Target(r) THEN f.px[c]
        ELSE IF r.t = "paint" THEN r.px[c] ELSE f.px[Source(c, r.d)]]]

\* Those that draw something due when the client shows g.
Drawings(g) ==
    {r \in UNION {Paints(cells, screen) \cup Copies(cells, g) : cells \in RectsOf(g.size)} :
        /\ Target(r) \subseteq asked
        /\ Target(r) \cap changed # {}}

SendUpdate(rects) ==
    toClient' = toClient \o <<[t |-> "update", n |-> Len(rects)]>> \o rects

\* An update that draws: one or two rectangles, after which the client shows
\* the server's pixels wherever they drew, something due among them.
Update ==
    /\ Serving
    /\ ~resizing
    /\ \E r1 \in Drawings(shadow) :
       \E rest \in {<<>>} \cup {<<r2>> : r2 \in Drawings(Drawn(shadow, r1))} :
       LET once    == Drawn(shadow, r1)
           result  == IF rest = <<>> THEN once ELSE Drawn(once, rest[1])
           touched == Target(r1) \cup (IF rest = <<>> THEN {} ELSE Target(rest[1]))
       IN  /\ Len(rest) < MaxRects
           /\ \A c \in touched : result.px[c] = screen.px[c]
           /\ shadow' = result
           /\ changed' = changed \ touched
           /\ SendUpdate(<<r1>> \o rest)
    /\ asked' = {}
    /\ UNCHANGED <<uiVars, chanVars, workerVars, toServer, serverOpen, screen, resizing,
                   delivered, budget>>

\* An update that announces the new size, as its last rectangle; one rectangle
\* encoded before the change may precede it.
UpdateSize ==
    /\ Serving
    /\ resizing
    /\ asked # {}
    /\ \E before \in {<<>>} \cup {<<r>> : r \in UNION {StalePaints(cs) : cs \in RectsOf(shadow.size)}} :
        SendUpdate(Append(before, [t |-> "resize", size |-> screen.size]))
    /\ shadow' = BlackFb(screen.size)
    /\ changed' = Cells(screen.size)
    /\ resizing' = FALSE
    /\ asked' = {}
    /\ UNCHANGED <<uiVars, chanVars, workerVars, toServer, serverOpen, screen, delivered,
                   budget>>

\* Clipboard text, a bell or colour map, something the client cannot decode, an
\* update that answers a request without drawing.
SendNotice ==
    /\ Serving
    /\ budget.notices > 0
    /\ budget' = [budget EXCEPT !.notices = @ - 1]
    /\ \/ \E t \in {"cuttext", "bell", "undecodable"} :
            /\ toClient' = Append(toClient, [t |-> t])
            /\ UNCHANGED asked
       \/ \E t \in {"cursor", "undecodable"} :
            /\ asked # {}
            /\ SendUpdate(<<[t |-> t]>>)
            /\ asked' = {}
    /\ UNCHANGED <<uiVars, chanVars, workerVars, toServer, serverOpen, screen, shadow,
                   changed, resizing, delivered>>

\* The server or the network ends the connection: what is in flight to the
\* server is lost, and what is in flight to the client from some message on.
CloseServer ==
    /\ "server" \in Endings
    /\ serverOpen
    /\ serverOpen' = FALSE
    /\ toServer' = <<>>
    /\ \E k \in 0 .. Len(toClient) : toClient' = SubSeq(toClient, 1, k)
    /\ changed' = {} /\ resizing' = FALSE /\ asked' = {}
    /\ UNCHANGED <<uiVars, chanVars, workerVars, screen, shadow, delivered, budget>>

Serve == ServeRequest \/ ServeInput
Answer == Update \/ UpdateSize
Environment == Draw \/ Resize \/ SendNotice \/ CloseServer

-------------------------------------------------------------------------------
Next == Worker \/ Frame \/ User \/ Serve \/ Answer \/ Environment

Spec == Init /\ [][Next]_vars

\* The two threads run (the UI repaints every 16 ms while it has a connection,
\* the background thread is woken by its 5 ms timeout); what is sent arrives,
\* and the read that is tried in every turn of the loop then wins over its
\* timeout; an open server reads what it is sent and answers a request it has
\* an answer to.  Nothing is assumed of the user or of the desktop.
Fairness ==
    /\ WF_vars(Worker)
    /\ SF_vars(Read)
    /\ WF_vars(Frame)
    /\ WF_vars(Serve)
    /\ WF_vars(Answer)

FairSpec == Spec /\ Fairness

-------------------------------------------------------------------------------
AllCells == UNION {Cells(s) : s \in Sizes}
Images == UNION {[cs -> Pixel] : cs \in SUBSET AllCells}

Event ==
    [t : {"size"}, size : Sizes]
    \cup [t : {"rects"}, rects : Seq(Images)]
    \cup [t : {"name", "cliptext", "error", "disconnected"}]
Command == [t : {"input"}, id : Nat] \cup [t : {"disconnect"}]
ToServer == [t : {"request"}, inc : BOOLEAN, size : Sizes] \cup [t : {"input"}, id : Nat]
Rectangle ==
    [t : {"paint"}, px : Images]
    \cup [t : {"copy"}, to : SUBSET AllCells, d : Int \X Int]
    \cup [t : {"resize"}, size : Sizes]
    \cup [t : {"cursor", "undecodable"}]
ToClient ==
    [t : {"init"}, size : Sizes]
    \cup [t : {"update"}, n : Nat]
    \cup [t : {"cuttext", "bell"}]
    \cup Rectangle

\* The type invariant.
TypeOK ==
    /\ connection \in BOOLEAN
    /\ texture \in {None} \cup {<<f>> : f \in Framebuffers}
    /\ uiSize \in Sizes \cup {<<0, 0>>}
    /\ sent \in Nat
    /\ events \in Seq(Event)
    /\ cmds \in Seq(Command)
    /\ pc \in {"serverinit", "drain", "read", "rects"} \cup Outcomes
    /\ fb \in Framebuffers
    /\ todo \in Nat
    /\ dirty \in Seq(SUBSET AllCells)
    /\ toServer \in Seq(ToServer)
    /\ toClient \in Seq(ToClient)
    /\ serverOpen \in BOOLEAN
    /\ screen \in Framebuffers
    /\ shadow \in Framebuffers
    /\ changed \in SUBSET AllCells
    /\ resizing \in BOOLEAN
    /\ asked \in SUBSET AllCells
    /\ delivered \in Seq(Nat)
    /\ budget \in [draws : Nat, resizes : Nat, notices : Nat]

\* The texture has the size the UI scales the pointer and checks rectangles with
\* (fb_width, fb_height in VncApp).
TextureFits == texture # None => texture[1].size = uiSize

\* When the UI takes a FramebufferRects event it has a texture, and every
\* rectangle lies in it: the check in process_events for an update racing a
\* resize never throws pixels away.
NoRectSkipped ==
    events # <<>> /\ Head(events).t = "rects" =>
        /\ texture # None
        /\ \A i \in 1 .. Len(Head(events).rects) :
              DOMAIN Head(events).rects[i] \subseteq Cells(uiSize)

\* However updates and changes of size are interleaved, the framebuffer has the
\* size each rectangle of the stream was encoded for: Framebuffer::copy_rect,
\* which does not check its source, never reads outside it.
DecodeInBounds ==
    pc = "rects" /\ todo > 0 /\ (Arrived("paint") \/ Arrived("copy")) =>
        LET r == Head(toClient) IN
            /\ Target(r) \subseteq Cells(fb.size)
            /\ r.t = "copy" => \A c \in r.to : Source(c, r.d) \in Cells(fb.size)

\* With nothing on its way to the screen, the texture has every pixel the server
\* has sent, at its place: partial updates, copies and changes of size lose and
\* misplace nothing.
ShownAsSent ==
    /\ connection /\ events = <<>>
    /\ serverOpen /\ toClient = <<>> /\ pc \in {"drain", "read"}
    =>  /\ texture # None /\ texture[1].size = shadow.size
        /\ \A c \in Cells(shadow.size) :
              shadow.px[c] # Black => texture[1].px[c] = shadow.px[c]

\* Whenever the background thread goes back to its loop the server owes it an
\* update of the whole framebuffer, or one is on its way: the picture never
\* freezes because nobody asked.
RequestOutstanding ==
    serverOpen /\ pc \in {"drain", "read"} =>
        \/ Cells(fb.size) \subseteq asked
        \/ \E i \in 1 .. Len(toServer) : toServer[i].t = "request" /\ toServer[i].size = fb.size
        \/ \E i \in 1 .. Len(toClient) : toClient[i].t = "update"

\* As long as the UI shows a session whose thread has ended, the event that says
\* so is the last of the queue, and there is none before the thread's end.
EndAnnounced ==
    connection =>
        /\ pc \in Outcomes => events # <<>> /\ events[Len(events)].t = pc
        /\ \A i \in 1 .. Len(events) :
              events[i].t \in Outcomes => pc \in Outcomes /\ i = Len(events)

\* The inputs on their way: in the stream and, while there is a thread to write
\* them and a server to read them, in the channel.
PipeBroken == pc = "error" \/ ~serverOpen
InputsIn(msgs) == {msgs[i].id : i \in {j \in 1 .. Len(msgs) : msgs[j].t = "input"}}
UnderWay == InputsIn(toServer) \cup IF PipeBroken THEN {} ELSE InputsIn(cmds)

\* The newest input that has arrived or is on its way.  All before it are pending
\* in InputPipe: there it shows if one is missing when a later one arrives.
Newest == CHOOSE n \in UnderWay \cup {Len(delivered)} :
              \A m \in UnderWay \cup {Len(delivered)} : m <= n

Pending   == [i \in 1 .. Newest - Len(delivered) |-> Len(delivered) + i]
PipeState == IF PipeBroken THEN "broken" ELSE IF connection THEN "open" ELSE "closed"
Pipe == INSTANCE InputPipe WITH pending <- Pending, state <- PipeState

\* The command channel, the drain loop and the stream together implement
\* InputPipe: inputs arrive in order and once, and a disconnect does not
\* overtake the inputs issued before it.
InputsInOrder == Pipe!Spec

-------------------------------------------------------------------------------
(* Liveness, of FairSpec.                                                  *)

\* An input issued while the session lasts arrives, even when the server's
\* screen is static and the server sends nothing (the reason for the 5 ms
\* timeout of the read loop).
InputArrives ==
    \A n \in 1 .. MaxInputs : sent >= n ~> (Len(delivered) >= n \/ PipeBroken)

\* Once the desktop stops changing, the window shows it, and keeps showing it.
ScreenShown ==
    <>[](connection /\ Serving => texture # None /\ texture[1] = screen)

\* After a disconnect the background thread ends.
DisconnectEnds == ~connection ~> pc \in Outcomes

\* A connection the server closed is not shown as connected for ever.
CloseLearned == ~serverOpen ~> ~connection
===============================================================================

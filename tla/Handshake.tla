------------------------------- MODULE Handshake -------------------------------
(***************************************************************************)
(* The way of a window to its session: connecting, the version and security *)
(* handshake of the background thread (client.rs, security.rs, ra2.rs), the *)
(* password prompt between it and the UI (app.rs), and a server that speaks *)
(* RFB 3.3, 3.7 or 3.8.  It ends where VncSession begins.                  *)
(*                                                                         *)
(* A message is what one party writes and the other reads as a whole; `is`  *)
(* stands for the bytes its reader must expect, `sealed` for the AES        *)
(* channel of RA2, `val` for what it carries.  Passwords matter only as the *)
(* right one, a wrong one, one longer than RA2 can carry, and none.        *)
(*                                                                         *)
(* A definition X_Y is X with the slip Y in it.  No action uses it: it     *)
(* stands in for X when a property is tried against a faulty program.      *)
(***************************************************************************)
EXTENDS Integers, Sequences

CONSTANTS
    Banners,      \* the versions a server may announce, <<major, minor>>
    Offers,       \* the sets of security types a server may offer
    Saved,        \* the passwords the window may be started with
    MaxInputs     \* bound: keys, pointer moves and pastes while connecting

VncNone == 1
VncAuth == 2
Ra2     == {5, 6, 129, 130}
NoPassword == ""
Passwords  == {"right", "wrong", "long"}

ASSUME BannersAssumption == Banners \subseteq Nat \X Nat
ASSUME OffersAssumption == Offers \subseteq SUBSET (1 .. 255)
ASSUME SavedAssumption == Saved \subseteq Passwords \cup {NoPassword}
ASSUME MaxInputsAssumption == MaxInputs \in Nat

VARIABLES
    \* The UI thread.
    connection,   \* connection.is_some()
    dialog,       \* show_password_dialog
    current,      \* current_password
    remembered,   \* <<>>, or the password remember_session was given
    inputs,       \* how many inputs were issued
    \* The channels.
    events, cmds,
    \* The background thread.
    pc,           \* what it waits for: the kind of a message, the user, nothing
    minor,        \* rfb_minor
    chosen,       \* the security type
    password,     \* the one it goes by
    \* The byte stream, and the server.
    down, up,
    serverOpen,
    srv,          \* the kind of message it waits for
    offer,        \* the security types it offers
    dialect,      \* the minor version it speaks with this client
    agreed,       \* the security type it runs
    granted       \* it lets the client in

uiVars     == <<connection, dialog, current, remembered, inputs>>
workerVars == <<pc, minor, chosen, password>>
serverVars == <<serverOpen, srv, offer, dialect, agreed, granted>>
vars == <<uiVars, events, cmds, workerVars, down, up, serverVars>>

Outcomes == {"disconnected", "error"}
Ra2Rounds == {"key", "random", "hash", "subtype"}
Reading  == {"banner", "types", "type33", "reason", "challenge", "result", "init"} \cup Ra2Rounds

Plain(kind, val) == [is |-> kind, sealed |-> FALSE, val |-> val]
Nothing == [none |-> TRUE]

-----------------------------------------------------------------------------
(* The background thread: client.rs:29-111, security.rs, ra2.rs:141-265.    *)

\* event_tx.send: ignored once the UI has dropped the receiver.
Emitted(evs) == IF connection THEN events \o evs ELSE events
Finish(outcome) == pc' = outcome /\ events' = Emitted(<<outcome>>)

\* write_all of whole messages.
Written(msgs) == IF serverOpen THEN up \o msgs ELSE up
\* After the server closed it may fail as well as succeed.
WriteFails == ~serverOpen /\ Finish("error") /\ UNCHANGED <<up, chosen>>

\* TcpStream::connect with its timeout of ten seconds.
TcpConnect ==
    /\ pc = "connect"
    /\ \/ pc' = "banner" /\ UNCHANGED events
       \/ Finish("error")
    /\ UNCHANGED <<uiVars, cmds, minor, chosen, password, down, up, serverVars>>

\* The message the thread waits for is here, in the clear or sealed.
Arrived(kind) ==
    /\ pc = kind
    /\ down # <<>>
    /\ Head(down).is = kind
    /\ down' = Tail(down)
    /\ UNCHANGED <<uiVars, cmds, serverVars>>

\* The stream ends before it: read_exact fails.
ReadFails ==
    /\ pc \in Reading
    /\ down = <<>> /\ ~serverOpen
    /\ Finish("error")
    /\ UNCHANGED <<uiVars, cmds, minor, chosen, password, down, up, serverVars>>

\* The highest version of ours that does not exceed the server's.
Reply_Echoes(v) == v[2]
Reply(v) ==
    CASE v[1] > 3 \/ (v[1] = 3 /\ v[2] >= 8) -> 8
      [] v = <<3, 7>>                        -> 7
      [] OTHER                               -> 3

ReadBanner ==
    /\ Arrived("banner")
    /\ minor' = Reply(Head(down).val.version)
    /\ \/ /\ pc' = IF minor' >= 7 THEN "types" ELSE "type33"
          /\ up' = Written(<<Plain("version", [version |-> minor'])>>)
          /\ UNCHANGED <<events, chosen>>
       \/ WriteFails
    /\ UNCHANGED password

\* The preferences of negotiate; 0 when it supports none of the types.
Order == <<VncAuth, VncNone, 5, 129, 6, 130>>
Preferred(types) ==
    LET known == {i \in 1 .. Len(Order) : Order[i] \in types}
    IN  IF password = NoPassword /\ VncNone \in types THEN VncNone
        ELSE IF known = {} THEN 0
        ELSE Order[CHOOSE i \in known : \A j \in known : i <= j]

\* The types whose channel stays encrypted after the credentials (encrypt_all).
EncryptAll(type) == type \in {5, 129}

\* read_security_result is called: by RA2 always, else did_vnc_auth || minor >= 8.
AwaitsResult_ByType(type, version) == type \in Ra2 \cup {VncAuth}
AwaitsResult_Always(type, version) == TRUE
AwaitsResult(type, version) == type \in Ra2 \cup {VncAuth} \/ version >= 8

\* A reason follows a failure (with_reason).
AwaitsReason(version) == version >= 8

\* ClientInit: what remains to be written when nothing else is to be read.
InitMsg(type) == [is |-> "clientInit", sealed |-> EncryptAll(type), val |-> Nothing]

\* resolve_password and what follows, for the type t and with `msgs` written.
Prompt == <<"needPassword">>
Method(t) == IF t = VncAuth THEN "challenge" ELSE "key"
Begin(t, version, msgs) ==
    IF t = VncNone
    THEN /\ pc' = IF AwaitsResult(t, version) THEN "result" ELSE "init"
         /\ up' = Written(IF AwaitsResult(t, version) THEN msgs ELSE msgs \o <<InitMsg(t)>>)
         /\ UNCHANGED events
    ELSE /\ pc' = IF password = NoPassword THEN "prompt" ELSE Method(t)
         /\ up' = Written(msgs)
         /\ events' = IF password = NoPassword THEN Emitted(Prompt) ELSE events

ReadTypes ==
    /\ Arrived("types")
    /\ LET types == Head(down).val.types
           t == Preferred(types)
       IN  \/ types = {} /\ pc' = "reason" /\ UNCHANGED <<events, up, chosen>>
           \/ types # {} /\ t = 0 /\ Finish("error") /\ UNCHANGED <<up, chosen>>
           \/ t # 0 /\ chosen' = t /\ Begin(t, minor, <<Plain("choice", [type |-> t])>>)
           \/ t # 0 /\ WriteFails
    /\ UNCHANGED <<minor, password>>

ReadType33 ==
    /\ Arrived("type33")
    /\ LET t == Head(down).val.type
       IN  \/ t = 0 /\ pc' = "reason" /\ UNCHANGED <<events, up, chosen>>
           \/ t \in {VncNone, VncAuth} /\ chosen' = t /\ Begin(t, minor, <<>>)
           \/ t = VncNone /\ WriteFails
           \/ t \notin {0, VncNone, VncAuth} /\ Finish("error") /\ UNCHANGED <<up, chosen>>
    /\ UNCHANGED <<minor, password>>

\* read_reason_string: only the text of the error depends on it.
ReadReason ==
    /\ Arrived("reason")
    /\ Finish("error")
    /\ UNCHANGED <<up, minor, chosen, password>>

\* The loop of resolve_password, the only reader of commands up to the session.
PromptAnswered ==
    /\ pc = "prompt" /\ cmds # <<>>
    /\ cmds' = Tail(cmds)
    /\ LET c == Head(cmds)
       IN  \/ /\ c.is = "provide"
              /\ password' = c.val
              /\ pc' = Method(chosen)
              /\ UNCHANGED events
           \/ c.is = "disconnect" /\ Finish("error") /\ UNCHANGED password
           \/ c.is = "input" /\ UNCHANGED <<pc, events, password>>
    /\ UNCHANGED <<uiVars, minor, chosen, down, up, serverVars>>

\* recv_timeout: 120 seconds without a command.
PromptTimesOut ==
    /\ pc = "prompt" /\ cmds = <<>>
    /\ Finish("error")
    /\ UNCHANGED <<uiVars, cmds, minor, chosen, password, down, up, serverVars>>

VncAuthResponse ==
    /\ Arrived("challenge")
    /\ \/ /\ pc' = "result"
          /\ up' = Written(<<Plain("response", [pw |-> password])>>)
          /\ UNCHANGED <<events, chosen>>
       \/ WriteFails
    /\ UNCHANGED <<minor, password>>

\* The exchanges of ra2::handshake: what is read, then what is written and read next.
Ra2Answer == [key |-> "key", random |-> "random", hash |-> "hash", subtype |-> "credentials"]
Ra2Next   == [key |-> "random", random |-> "hash", hash |-> "subtype", subtype |-> "result"]
TooLong(kind) == kind = "subtype" /\ password = "long"
Ra2Exchange(kind) ==
    /\ Arrived(kind)
    /\ LET sound == Head(down).val.sound /\ ~TooLong(kind)
       IN  \/ /\ sound
              /\ pc' = Ra2Next[kind]
              /\ up' = Written(<<Plain(Ra2Answer[kind],
                        IF kind = "subtype" THEN [pw |-> password] ELSE Nothing)>>)
              /\ UNCHANGED <<events, chosen>>
           \/ sound /\ WriteFails
           \/ ~sound /\ Finish("error") /\ UNCHANGED <<up, chosen>>
    /\ UNCHANGED <<minor, password>>

ReadResult ==
    /\ Arrived("result")
    /\ \/ /\ Head(down).val.ok
          /\ pc' = "init"
          /\ up' = Written(<<InitMsg(chosen)>>)
          /\ UNCHANGED <<events, chosen>>
       \/ Head(down).val.ok /\ WriteFails
       \/ /\ ~Head(down).val.ok
          /\ IF AwaitsReason(minor) THEN pc' = "reason" /\ UNCHANGED events
                                    ELSE Finish("error")
          /\ UNCHANGED <<up, chosen>>
    /\ UNCHANGED <<minor, password>>

\* ServerInit: the two events that tell the window it is connected.
ReadInit ==
    /\ Arrived("init")
    /\ pc' = "session"
    /\ events' = Emitted(<<"desktopSize", "desktopName">>)
    /\ UNCHANGED <<up, minor, chosen, password>>

\* The commands left in the channel, as the main loop drains them.
SessionDrain ==
    /\ pc = "session" /\ cmds # <<>>
    /\ cmds' = Tail(cmds)
    /\ IF Head(cmds).is = "disconnect" THEN Finish("disconnected") ELSE UNCHANGED <<pc, events>>
    /\ UNCHANGED <<uiVars, minor, chosen, password, down, up, serverVars>>

Worker == \/ TcpConnect \/ ReadBanner \/ ReadTypes \/ ReadType33 \/ ReadReason
          \/ PromptAnswered \/ PromptTimesOut \/ VncAuthResponse
          \/ (\E kind \in Ra2Rounds : Ra2Exchange(kind))
          \/ ReadResult \/ ReadInit \/ ReadFails \/ SessionDrain

-----------------------------------------------------------------------------
(* The UI thread: app.rs:195-317, 528-600, 603-650.                        *)

\* cmd_tx.send: ignored once the thread has dropped the receiver.
Commanded(c) == IF pc \in Outcomes THEN cmds ELSE Append(cmds, c)
Occurs(e) == \E i \in 1 .. Len(events) : events[i] = e
Over == \E o \in Outcomes : Occurs(o)

\* process_events: every event that is there, in order.
DialogAfter_LeftOpen == dialog \/ Occurs("needPassword")
DialogAfter == ~Over /\ (dialog \/ Occurs("needPassword"))
Accepted_AtOnce == Occurs("needPassword") \/ Occurs("desktopName")
Accepted == Occurs("desktopName")
UiEvents ==
    /\ connection /\ events # <<>>
    /\ connection' = ~Over
    /\ dialog' = DialogAfter
    /\ remembered' = IF Accepted THEN <<current>> ELSE remembered
    /\ events' = <<>>
    /\ UNCHANGED <<current, inputs, cmds, workerVars, down, up, serverVars>>

\* OK in the password dialog.
UiAnswer ==
    /\ dialog
    /\ \E pw \in Passwords \cup {NoPassword} :
          current' = pw /\ cmds' = Commanded([is |-> "provide", val |-> pw])
    /\ dialog' = FALSE
    /\ UNCHANGED <<connection, remembered, inputs, events, workerVars, down, up, serverVars>>

\* Disconnect in the toolbar, Cancel in the dialog: the receiver is dropped.
UiLeave ==
    /\ connection
    /\ cmds' = Commanded([is |-> "disconnect", val |-> NoPassword])
    /\ connection' = FALSE /\ dialog' = FALSE
    /\ events' = <<>>
    /\ UNCHANGED <<current, remembered, inputs, workerVars, down, up, serverVars>>

\* Paste, Ctrl+Alt+Del, a key: sent whether or not there is a session yet.
UiInput ==
    /\ connection /\ inputs < MaxInputs
    /\ inputs' = inputs + 1
    /\ cmds' = Commanded([is |-> "input", val |-> NoPassword])
    /\ UNCHANGED <<connection, dialog, current, remembered, events, workerVars, down, up,
                   serverVars>>

Ui == UiEvents \/ UiAnswer \/ UiLeave \/ UiInput

-----------------------------------------------------------------------------
(* The server: not the repository's.  It follows the RFB protocol, may turn *)
(* the client away where the protocol allows it, and may be cut off.       *)

ServerReads(kind) ==
    /\ serverOpen /\ srv = kind
    /\ up # <<>> /\ Head(up).is = kind
    /\ up' = Tail(up)
    /\ UNCHANGED <<uiVars, events, cmds, workerVars, offer>>

ResultSent(type) == type \in Ra2 \cup {VncAuth} \/ dialect' >= 8
Secret(type) == type \in {5, 129}

\* It runs the security type t, of the client's choice or of its own.
Serves(t, before) ==
    /\ agreed' = t
    /\ CASE t = VncNone ->
              /\ srv' = "clientInit"
              /\ down' = down \o before \o
                     (IF ResultSent(t) THEN <<Plain("result", [ok |-> TRUE])>> ELSE <<>>)
              /\ granted' = TRUE
         [] t = VncAuth ->
              /\ srv' = "response"
              /\ down' = down \o before \o <<Plain("challenge", Nothing)>>
              /\ UNCHANGED granted
         [] t \in Ra2 ->
              /\ srv' = "key"
              /\ \E v \in BOOLEAN : down' = down \o before \o <<Plain("key", [sound |-> v])>>
              /\ UNCHANGED granted
         [] OTHER ->
              srv' = "other" /\ down' = down \o before /\ UNCHANGED granted

\* No security type, and why.
Refuses(kind, val) ==
    /\ down' = down \o <<Plain(kind, val), Plain("reason", Nothing)>>
    /\ serverOpen' = FALSE
    /\ UNCHANGED <<srv, agreed, granted>>

ServerVersion ==
    /\ ServerReads("version")
    /\ dialect' = Head(up).val.version
    /\ IF dialect' >= 7
       THEN \/ /\ offer # {}
               /\ down' = Append(down, Plain("types", [types |-> offer]))
               /\ srv' = "choice"
               /\ UNCHANGED <<serverOpen, agreed, granted>>
            \/ Refuses("types", [types |-> {}])
       ELSE \/ \E t \in offer : Serves(t, <<Plain("type33", [type |-> t])>>) /\ UNCHANGED serverOpen
            \/ Refuses("type33", [type |-> 0])

ServerChoice ==
    /\ ServerReads("choice")
    /\ UNCHANGED <<dialect, serverOpen>>
    /\ Serves(Head(up).val.type, <<>>)

\* The SecurityResult, with a reason where the version has one, and the end of
\* the connection when it is a failure.
Decides(pw) ==
    LET result(v) == [is |-> "result", sealed |-> Secret(agreed), val |-> [ok |-> v]]
        reason    == [is |-> "reason", sealed |-> Secret(agreed), val |-> Nothing]
    IN  IF pw = "right"
        THEN /\ down' = Append(down, result(TRUE))
             /\ granted' = TRUE /\ srv' = "clientInit"
             /\ UNCHANGED serverOpen
        ELSE /\ down' = down \o (IF dialect >= 8 THEN <<result(FALSE), reason>>
                                                 ELSE <<result(FALSE)>>)
             /\ serverOpen' = FALSE
             /\ UNCHANGED <<granted, srv>>

ServerResponse ==
    /\ ServerReads("response") \/ ServerReads("credentials")
    /\ Decides(Head(up).val.pw)
    /\ UNCHANGED <<dialect, agreed>>

ServerRa2 ==
    /\ \E kind \in {"key", "random", "hash"} : ServerReads(kind)
    /\ srv' = Ra2Answer[Ra2Next[srv]]
    /\ \E v \in BOOLEAN : down' = Append(down, Plain(Ra2Next[srv], [sound |-> v]))
    /\ UNCHANGED <<dialect, agreed, granted, serverOpen>>

ServerClientInit ==
    /\ ServerReads("clientInit")
    /\ down' = Append(down, [is |-> "init", sealed |-> Secret(agreed), val |-> Nothing])
    /\ srv' = "serving"
    /\ UNCHANGED <<dialect, agreed, granted, serverOpen>>

\* It goes down, closes, or the network drops the connection: what is in flight
\* may be lost.
ServerCut ==
    /\ serverOpen /\ serverOpen' = FALSE
    /\ \E n \in 0 .. Len(down) : down' = SubSeq(down, 1, n)
    /\ UNCHANGED <<uiVars, events, cmds, workerVars, up, srv, offer, dialect, agreed, granted>>

Server == ServerVersion \/ ServerChoice \/ ServerResponse \/ ServerRa2 \/ ServerClientInit

-----------------------------------------------------------------------------
(* The specification.                                                      *)

\* do_connect with the saved password; the server has announced its version.
Init ==
    /\ connection = TRUE /\ dialog = FALSE /\ remembered = <<>> /\ inputs = 0
    /\ current \in Saved /\ password = current
    /\ events = <<>> /\ cmds = <<>>
    /\ pc = "connect" /\ minor = 0 /\ chosen = 0
    /\ up = <<>> /\ \E b \in Banners : down = <<Plain("banner", [version |-> b])>>
    /\ serverOpen = TRUE /\ srv = "version" /\ offer \in Offers
    /\ dialect = 0 /\ agreed = 0 /\ granted = FALSE

Next == Worker \/ Ui \/ Server \/ ServerCut

\* The thread and the UI run (request_repaint_after while there is a connection);
\* the password prompt ends by its timeout.  The server answers or closes.  The
\* user need not do anything.
Fairness ==
    /\ WF_vars(Worker)
    /\ WF_vars(UiEvents)
    /\ WF_vars(Server)
Spec == Init /\ [][Next]_vars /\ Fairness

-----------------------------------------------------------------------------
(* Properties.                                                             *)

\* Every variable has its type.
PwValues == Passwords \cup {NoPassword}
UpKinds  == {"version", "choice", "response", "key", "random", "hash", "credentials",
             "clientInit"}
TypeOK ==
    /\ connection \in BOOLEAN /\ dialog \in BOOLEAN
    /\ current \in PwValues /\ password \in PwValues
    /\ remembered \in {<<>>} \cup {<<p>> : p \in PwValues}
    /\ inputs \in 0 .. MaxInputs
    /\ events \in Seq({"needPassword", "desktopSize", "desktopName"} \cup Outcomes)
    /\ cmds \in Seq([is : {"provide", "disconnect", "input"}, val : PwValues])
    /\ pc \in {"connect", "prompt", "session"} \cup Reading \cup Outcomes
    /\ minor \in {0, 3, 7, 8} /\ dialect \in {0, 3, 7, 8}
    /\ chosen \in {0, VncNone, VncAuth} \cup Ra2
    /\ \A i \in 1 .. Len(down) : down[i].is \in Reading /\ down[i].sealed \in BOOLEAN
    /\ \A i \in 1 .. Len(up) : up[i].is \in UpKinds /\ up[i].sealed \in BOOLEAN
    /\ serverOpen \in BOOLEAN /\ granted \in BOOLEAN
    /\ srv \in UpKinds \cup {"serving", "other"}
    /\ offer \in Offers /\ agreed \in Nat

\* Neither side takes the bytes of one message for another: what the thread
\* is about to read is what the server sent next, in the clear or in the channel
\* of RA2, and the other way round (security.rs:134-143: a result read where none
\* is sent, or a reason where the version has none, would block or desync).
InSync ==
    /\ pc \in Reading /\ down # <<>> =>
          /\ Head(down).is = pc
          /\ Head(down).sealed = (pc \in {"result", "reason", "init"} /\ EncryptAll(chosen))
    /\ serverOpen /\ up # <<>> /\ srv # "other" =>
          /\ Head(up).is = srv
          /\ Head(up).sealed = (srv = "clientInit" /\ Secret(agreed))

\* The password dialog and the thread blocked in resolve_password belong
\* together: a blocked thread has asked the user, or its answer is on the way;
\* a dialog that is shown is one somebody waits for, or the news that it is over
\* is on the way (app.rs:284, 645; security.rs:185-203).
PromptMatched ==
    /\ pc = "prompt" =>
          \/ Occurs("needPassword") \/ dialog
          \/ \E i \in 1 .. Len(cmds) : cmds[i].is \in {"provide", "disconnect"}
    /\ dialog => connection /\ (pc = "prompt" \/ Over)

\* "Called once a connection is established (so we never save a host that failed
\* to connect)" (app.rs:654): what is remembered is a host that let the client
\* in, with the password it was let in with, or was started with.
RememberedIsAccepted ==
    remembered # <<>> =>
        granted /\ remembered = <<password>>
            /\ (agreed # VncNone => password = "right")

\* A window that starts a connection does not stay in "Connecting", nor in
\* "Authenticating": it ends up connected or without a connection, if the server
\* answers or closes and whatever the user does, a prompt left alone included.
Settles == <>(~connection \/ (pc = "session" /\ remembered # <<>>))

\* Once the window has given the connection up (Disconnect, Cancel, an error), the
\* background thread ends too, if the server answers or closes: a command nobody
\* reads during the handshake is read by the prompt or the session.
ThreadEnds == ~connection ~> pc \in Outcomes
===============================================================================

# TLA+ models of IronVNC

IronVNC is a VNC viewer: an egui window, a background thread that speaks RFB to
a server, an optional SFTP side channel, and a list of saved sessions in a JSON
file shared by all windows of a user. This directory holds TLA+ models of it,
TLC configurations that check them on small instances, and TLAPS proofs of the
safety properties that matter most. Line numbers refer to `src/` of the crate
(`app.rs:260` is `src/src/app.rs`, line 260).

    tlc -config session_stop.cfg MCVncSession.tla
    tlapm VncSession_proofs.tla

## Inventory

| Component | State | Operations | Interacts through | Hard about it |
|---|---|---|---|---|
| Window (`app.rs`) | `connection`, `texture`, `fb_width/height`, dialogs, `sessions`, form fields, `transfer`, modifiers | `process_events`, `disconnect`, toolbar, password dialog, Sessions window, file panel, pointer and keys | VNC channels, SFTP channels, `sessions.json`, new processes | frames interleave with two threads; state outlives the session it came from |
| VNC thread (`client.rs`, `connection.rs`) | framebuffer, zlib streams, position in the protocol | drain commands, read with a 5 ms timeout, decode an update, answer a resize, ask for the next update | command and event channel, byte stream | starving input, resize in the middle of an update, freezing for want of a request, announcing its end |
| Framebuffer (`framebuffer.rs`) | size, pixels | `new`, `resize`, `blit_rgba`, `copy_rect`, `sub_rgba` | owned by the VNC thread | overlapping copies, clamping, 32-bit sizes |
| Security (`security.rs`, `client.rs:29-111`) | version, chosen type, the prompt | version, type, VNC authentication, `resolve_password`, SecurityResult | stream, both channels | combinations of version and type; a 120 s prompt; Disconnect meanwhile |
| RA2 (`ra2.rs`, `security.rs:90-124`) | two channels with counters, a duplex, two pump tasks | handshake, `seal`, `open`, `pump_decrypt`, `pump_encrypt` | stream, client | nonces in step, backpressure, end of stream |
| Decoders (`encoding/*.rs`, `messages.rs`) | zlib streams that outlive an update; Hextile's colours | Raw, CopyRect, Hextile, ZRLE, Tight, pixel format | framebuffer | bit positions, tile edges, what lasts from tile to tile and from rectangle to rectangle |
| Saved sessions (`sessions.rs`, `main.rs`, `app.rs:651-844`) | two files, one list per window | `load`, `save`, `remember_session`, form, `--session`, `--host` | the files, the command line of new windows | several windows, torn writes, ambiguous keys, stale lists |
| SFTP side channel (`transfer.rs`, `app.rs:319-524`) | current directory, listing | list, upload, download, mkdir, disconnect | its two channels, the remote tree | answers to requests of another directory, an end that outlives the session |
| Keys and pointer (`app.rs:544-558`, `943-1095`) | `last_modifiers`, `last_mouse_pos` | a frame's key, wheel and pointer events, Ctrl+Alt+Del | VNC command channel | releases that come while something else has the focus; a desktop that shrinks under the pointer |
| Command line (`main.rs`) | none | choice of the first connection, two headless tests | saved sessions | - |
| Rendering, key tables, theme (`app.rs`) | none | - | - | - |

What makes each of them correct is said by the properties below. `PROJECT.json`
lists the hazards line by line with the properties that cover them.

## Modules

| Module | Models | Lines about |
|---|---|---|
| `Handshake` | a window on its way to its session: connecting, version, security, prompt, SecurityResult, ClientInit, and a server of RFB 3.3, 3.7 or 3.8 | `client.rs:29-146`, `security.rs`, `ra2.rs:141-259`, `connection.rs`, `app.rs:195-315`, `534-645`, `1194` |
| `VncSession` | one window, its background thread, the channels between them, the stream and a server, from ServerInit to the end | `client.rs:73-287`, `connection.rs`, `framebuffer.rs`, `app.rs:195-315` |
| `InputPipe` | the abstract specification of sending inputs: a FIFO that may lose a suffix | - |
| `VncSessionInv` | the inductive invariant of `VncSession` | - |
| `Ra2Bridge` | the encrypted part of the RA2 handshake, the pumps and the duplex | `ra2.rs:38-109`, `204-305`, `security.rs:103-124` |
| `PixelFormat` | pixels as bytes | `messages.rs` |
| `Zrle`, `Hextile`, `Tight` | one tile, or one Tight rectangle, and the ways a server may write it | `encoding/zrle.rs`, `hextile.rs`, `tight.rs` |
| `Rectangles` | composes them: rectangles of all encodings drawn one after another into a framebuffer, with the streams that last | `encoding/*.rs`, `framebuffer.rs` |
| `SessionStore` | the windows (processes) and the two session files | `sessions.rs`, `main.rs:76-104`, `app.rs:57-206`, `651-844` |
| `Transfer` | the SFTP thread, its channels, the file panel and the remote tree | `transfer.rs`, `app.rs:319-524`, `1103-1123` |
| `InputState` | what is held at the keyboard against what the server believes is held; the pointer | `app.rs:544-558`, `943-1095` |
| `MC*` | constants of the runs that a .cfg cannot write | - |
| `*_proofs` | theorems of the module of that name | - |
| `VncSession_inputs` | theorems: `VncSession` implements `InputPipe` | - |

How they fit together: `Handshake` ends in the state `VncSession` starts from,
and what RA2 leaves encrypted is carried by the bridge of `Ra2Bridge`, whose ends
the client of `VncSession` reads and writes. `VncSession` takes rectangles as
their pixels; that bytes become those pixels is the matter of `Rectangles`.
`InputState` sends what `VncSession` carries in order (`InputsInOrder`). A
window of `SessionStore` connects and ends without the detail of the session,
`Handshake` says when it may remember one (`RememberedIsAccepted`). `Transfer`
shares only `connection` with the VNC session.

In every module a definition `X_Y` is `X` with a plausible slip; no action uses
it. It is defined just before `X` and shows, put in the place of `X`, that a
property can fail.

### Handshake

`pc` is what the thread waits for: the next message of the server by its kind
(`banner`, `types`, `challenge`, `result`, ...), the user (`prompt`), or nothing.
One action reads one message and does all that follows up to the next wait:
`ReadBanner` (`client.rs:36-60`), `ReadTypes`, `ReadType33`, `ReadReason`,
`PromptAnswered`, `PromptTimesOut` (`resolve_password`), `VncAuthResponse`, the
RA2 rounds (their checks are one verdict of the server each), `ReadResult`,
`ReadInit`. `ReadFails` is the stream that ends instead, `WriteFails` the write
that finds it closed. `UiEvents` takes the events of one frame, as
`process_events` does, with the dialog that is cleared and `remember_session`;
`UiAnswer`, `UiLeave`, `UiInput` are the user. A message is what one party
writes and the other reads as a whole, tagged with what its reader must expect
and with whether it is inside the RA2 channel. Passwords are right, wrong, too
long for RA2 (`ra2.rs` refuses those), or none. The server is external: it
speaks the version the client answered, offers what it likes, and may be cut off
anywhere, losing any suffix of what is in flight.

### VncSession

`pc` is where `VncClient::connect` stands: `serverinit`, `drain` (the
`try_recv` loop), `read` (the read of the message type), `rects` (between the
rectangles of an update), and the two outcomes. Each action is the code between
two points where another actor can matter:

* `ServerInit`, `DrainInput`, `DrainDisconnect`, `DrainEnd`, `ReadTimeout`,
  `UpdateStart`, `UpdateDraw`, `UpdateResize`, `UpdateCursor`, `UpdateEnd`,
  `ReadNotice`, `ReadUndecodable`, `ReadEof` are the background thread.
  `FinishAfter` is `VncConnection::connect`, which turns the result into one
  event. Events sent and the write that follows them without a wait for the
  other side are one step; a write that fails is an alternative of that step.
* `HandleSize`, `HandleRects`, `HandleNotice`, `HandleEnd` are the branches of
  `process_events`. The real function takes all queued events at once and
  handles them in order; here one event is a step, which allows every
  interleaving of the real one and more. `UserInput` and `UserDisconnect` are
  what the screen, the toolbar and the Disconnect button send.
* The server is external: it draws, resizes its desktop, answers a request once
  it has something to say, sends notices, and may close, losing any suffix of
  what is in flight. It follows RFB; `shadow` is what it believes the client
  shows, `changed` what is due. An update is sent message by message and a close
  may cut it anywhere. The size change is the last rectangle of its update, as
  RFB 7.8.2 asks; one rectangle encoded for the old size may come before it.
* A framebuffer is a size and a colour for each of its cells.

A window connects once (`do_connect` is only called by `VncApp::new`,
`app.rs:102`), so one session is the whole life of the model.

### Ra2Bridge

The model begins when both sides have the session keys. A frame carries its
nonce and some units of plaintext; `Opens` is the MAC check. `write_all` into the
duplex is one unit a step, so a full duplex suspends a pump or the client in the
middle of a message. The client reads or writes, never both, as the session loop
does. When `connect` returns the runtime is dropped with the pumps and what the
duplex holds (`End`).

### Decoders

A decoder is an operator from bytes and a position to colours and the position
behind them; an encoder (`ZrleWritings`, `HexWritings`, `TightWritings`) is the
set of all byte strings RFB lets a server write for the same colours: every
subencoding, every filter, every split into runs or subrectangles that the
bounds hold. A step of `Rectangles` draws one rectangle on the server's desktop,
writes it in one of those ways and decodes it; the zlib streams, which outlive a
rectangle, are counters: a block carries the number of blocks before it and
inflates only in a stream that has seen as many. A JPEG is its pixels.

What the runs leave to the reader, all visible in the code:

* `tight.rs:59-66` takes the resets from the high nibble of the control byte and
  the type from the low one; RFB 7.7.7 has them the other way round. And
  `tight.rs:242` takes data of exactly 12 bytes as uncompressed, RFB compresses
  it; the comment at `tight.rs:41` is the server's rule. `decoders_tight` is the
  counterexample to both. In `decoders` the server does write such rectangles, and
  the ghost `disputed` is true from the first of them on: the properties of that
  run say what holds up to there. Its control bytes are eight that read alike from
  either nibble (0, 17, 34, ...), so that resets, types and filters are checked, and
  four ordinary ones.
* The gradient filter predicts byte by byte, which is the server's rule only for
  pixels of 4 bytes; the encoder uses it only for those.
* A packed ZRLE palette of more than two colours is read wrongly: the run
  `decoders_zrle` below; in `decoders` the packed palettes have two.
* A run of ZRLE that goes beyond its tile makes the code panic (`zrle.rs:232-236`);
  no server writes one.
* Formats are true colour with the colours in the low three bytes.

### SessionStore

A window's `pc` follows its life: `closed`, `resolve` (main reads the file to
find host and password), `start` (`VncApp::new` reads it again), `idle`,
`connecting`, `prompt`, `authenticating`, `connected`. A save is two steps,
because `fs::write` truncates first: `BeginSave` leaves the file torn, `EndSave`
writes it, and in between another window may read it or save, and the process
may be killed. Two overlapping writes may leave a mixture, which does not parse.
The primary file may be read-only, in which case the other file is written.
`session_selected` and `sf_editing` are always assigned together and are one
variable. "Save & Connect" is `SaveForm`, `EndSave`, `OpenSession`. A command
line and a connection are forgotten as soon as the program cannot read them
again, which keeps the state small. Of the form only `sf_password` is state
(`form`): the user may type any name, host and port before a save, but the password
may be the one of a row picked earlier, which stays there while the rest is edited.

Four ghosts, which no guard reads. `carried` has the passwords that a form filled
with them was saved with for another server. `strayed` is true of a window whose
`editing` has come to mean another session than was picked, since one above it was
deleted. `kept` is what was connected to and neither edited nor deleted by its
user. `lost` has the servers of `kept` that a save may have dropped since they were
last connected to: a save from a list that did not have them, two saves at once, a
kill inside a save, a form over a strayed row. It names causes, not effects: what is
in it may still be there, and what is not in it must be.

### Transfer

`Start`, `Connect`, `List`, `Take`, `Mkdir`, `Upload`, `Download` are the thread
(`run` and its loop), each remote operation one step that succeeds or fails;
`UiEvent` is one event of `process_transfer_events`; `Login`, `Browse`,
`MakeFolder`, `Select`, `Fetch`, `Store`, `TogglePanel`, `Disconnect` are the
user, `VncEnds` the VNC session that ends by itself. `RuntimeFails` is the thread
that returns before it has a runtime and sends nothing (`gone`). A path is the
sequence of its names; the remote tree is a set of directories and one of files.
The texts of the status line and the contents of files are left out. Ghosts:
`listed` (the directory `entries` was read from), `goal` (where the user's last
command leads), `told` (the directories the server has named), `landed` (where
uploads went) and `early` (ordered before the home directory was known).

### InputState

`Frame` is `render_framebuffer` of one frame, with the Ctrl+Alt+Del button that
may have been clicked in it: the modifiers compared with `last_modifiers`, the
frame's key events if the screen has the focus, and one pointer or wheel event.
`Press`, `Release`, `SwitchWindow` are the user, `Resize` a new desktop size.
`held` and `pointer` are the server's, applied as sent. egui decides which widget
has the focus and is a choice. One coordinate of the pointer stands for both.

## Runs

| Run | Asks | Bounds |
|---|---|---|
| `handshake` | both sides in step, the prompt, what is remembered, an end for everyone | six versions, nine sets of security types, four saved passwords, one input while connecting |
| `session_screen` | sizes, bounds of rectangles, outstanding requests, the inductive invariant; the texture has what was sent, and ends up showing the desktop | two sizes, one and two cells, two colours, one resize, one update that draws or copies besides the full ones |
| `session_stop` | inputs, disconnect and close of the server in every order; liveness of all three; a request outstanding after updates that draw nothing | a single cell, two inputs, one notice |
| `ra2_bridge` | nonces, loss, progress in both directions | capacities of one or two units, five units down, four up |
| `ra2_eof` | the end of the wire reaches the client | four units down, three up |
| `decoders` | every encoding against its encoder | a desktop of 4 x 3, two rectangles in three places, four drawings of three colours, three formats, twelve control bytes of Tight |
| `decoders_zrle` | packed palettes of any size | as above, ZRLE only |
| `decoders_tight` | ordinary control bytes and compressed data of 12 bytes | as above, Tight only; basic, Fill and JPEG without resets |
| `store_one` | windows one after another (`Overlap` = FALSE) with every command line, form and kill, the primary file writable or not; passwords | two ports, two unnamed sessions in a list, one password a server, one SSH user; no files to begin with; windows symmetric |
| `store_shared` | is what was connected to always found again, with two windows on one file | two ports, two sessions in a list, no passwords, kills or SSH users; windows symmetric |
| `transfer` | the panel against the tree, where uploads land, both ends | three commands, two logins, three directories, two files |
| `input` | keys and pointer | three modifiers and Delete, two key events a frame, widths 2 and 4, zoom 3/2, three positions |

Why the bounds are enough. A second size, larger or smaller than the first, is what
distinguishes a stale texture or a stale rectangle from a current one; a return to
the first size is left to the theorems, which hold for any number of resizes. Pixels
matter only as equal or not, so one new colour per change is enough, two where a
copy and a paint must differ. Two inputs tell order, one and a disconnect tell
overtaking. The versions lie below, between and above those the code compares
with, and the offers have every supported type alone, beside a preferred one, an
unsupported one and none. Two sessions and two ports give every ambiguous
lookup by host, and two windows every lost update: a third only repeats what one of
the two did. Names are left to the theorems: a name as the key is looked up like a
host. In `store_one` a window that another has opened waits, at the start of `main`,
until that one is closed, so that what a single window does wrong is looked for
in full detail; theorems and `store_shared` have them at work together. In the duplex, messages longer than a buffer, a buffer longer than a
message and a full wire all occur with capacities of one and two. Three commands
let an upload be followed by a change of directory and another upload; two logins
let a second follow a first whose connection failed. The constants of the formats
(tile sides, the byte that continues a run, the base of a compact length) are
parameters, small in the runs, so that 4 x 3 pixels have several tiles, tiles
cut off at either edge, runs of more than one length byte and lengths of more
than one byte. Two rectangles show what one leaves for the next. The pointer is
inside, on the edge and outside on both sides, and its scale does not divide.

`CHECK_DEADLOCK FALSE` is in the runs of systems that may stop: the session
ends, the windows are closed, the bounds are used up. That nothing waits for ever
is said by the liveness properties instead. `input` checks for deadlock.

### Properties

*Handshake.* `InSync`: what a side is about to read is what the other sent next,
in the clear or inside RA2, for every combination of version and type.
`PromptMatched`: a blocked thread has asked, or its answer is on the way; a
dialog that is shown is one somebody waits for, or its end is on the way.
`RememberedIsAccepted`: only a server that let the client in is remembered, with
the password it found right. `Settles`: a window ends up connected or without a
connection. `ThreadEnds`: a window that gives up is followed by its thread.

*VncSession.* `TextureFits`, `NoRectSkipped`, `DecodeInBounds`: whatever resizes
and updates are queued where, the size each reader has is the one the message was
made for, so the skip of `process_events` (`app.rs:261`) never drops pixels and
`copy_rect`, which checks no source, never leaves the buffer. `ShownAsSent`:
with nothing on its way, the texture has every pixel the server sent.
`RequestOutstanding`: the server always owes an update. `EndAnnounced`: the end
is announced last and once. `InputsInOrder`: channel, drain loop and stream
implement `InputPipe`. `InputArrives`, `ScreenShown`, `DisconnectEnds`,
`CloseLearned`: liveness.

*Ra2Bridge.* `NoncesInStep`, `NothingLost`, `DownArrives`, `UpArrives`.

*Rectangles.* `RectDecoded`: every byte of a rectangle is used and the
framebuffer is the server's desktop. The code does not keep it;
`DecodedUnlessDisputed` and `StreamsUnlessDisputed` (the four zlib streams of Tight
stand where the server's stand) say how far it does: until the server writes a Tight
rectangle with a control byte of two different nibbles, or with compressed data of
`MinToCompress` bytes.

*SessionStore.* `PasswordMovedByFormOnly`: a password stands beside, or goes to,
another server only if a form that was filled with it was saved for that server; no
lookup, shared list or overwritten row moves one. `RememberedStays`: "Connections
are saved here automatically" (`app.rs:857`), to be found by whatever window starts
while none is saving. The code does not keep it; `RememberedUnlessLost` names the
five ways to lose a connection, and says there is no sixth.

*Transfer.* `PanelIsListing`: what the panel lists was read from the path it
shows. `FollowsTheUser`: once all is done the panel shows where the user's last
command leads, although every upload lists a directory when it ends.
`LandsWhereShown`: uploads land in a directory the panel was told of.
`BothEnd`: window and thread end together.

*InputState.* `ModifiersInStep`: the server holds the modifiers the window
believes it holds, and none without the focus. `StuckByFocusOnly`: another key
stays down only if the focus was elsewhere when it was let go (the run has one other
key, Delete; the theorem any). `PointerInside`.

### Fairness

`VncSession!Fairness`: weak fairness of each thread (the UI repaints every 16 ms
while it has a connection, `app.rs:1194`; the background thread is woken by its
own timeout), of the server reading and answering, and strong fairness of the
read: the thread leaves and enters the read again each turn, and a message that
has arrived is taken by the poll before the timer is looked at. Nothing is
assumed of the user, the desktop, or the server's wish to close.
`Handshake!Fairness`: the thread and the UI as above, the prompt's 120 s timeout
as a step of the thread (`security.rs:189`), and a server that answers or closes:
the code has no timeout for one that does neither, and waits for it for ever. The
user need not answer.
`Transfer`: the thread runs and every remote operation ends, in success or not;
the UI repaints while it has a transfer.
`Ra2Bridge!Fairness`: weak fairness of each task of the runtime, of the server's
handshake and of the server reading what it is sent. A server that does not
read while it writes could block against the client, which does not read while
it writes; the model assumes such servers away.

## What the code does not keep

Five disagreements are counterexamples of the four runs marked `violation`.

* `decoders_zrle`: "Packed palette" (`zrle.rs:94`) of three colours and more:
  `zrle.rs:134` takes the place of an index from `bit_pos`, which counts bits, as
  if it counted indices, so 2-bit indices are read at shifts 6, 2, 6, 2 and 4-bit
  indices always from the high nibble.
* `decoders_tight`: "Tight (JPEG/Fill/Palette/Gradient)" (`README.md:10`). Of a Fill
  (0x80) or a JPEG (0x90) the client takes the type for resets and the resets for the
  type (`tight.rs:59-66`), and reads the rectangle as basic compression. And "Data
  shorter than this is sent raw" (`tight.rs:41`) is read as "not longer"
  (`tight.rs:242`), so 12 bytes of data leave the client in the middle of the
  rectangle. The run ends at whichever TLC meets first; with `Controls` = {128, 144}
  it is the one, with {0} the other.
* `store_shared`: "Connections are saved here automatically" (`app.rs:857`). Every
  window writes back the whole list it loaded when it started (`app.rs:682`,
  `app.rs:843`), so what another window added meanwhile is lost; and `fs::write`
  (`sessions.rs:86`) truncates first, so two windows inside it at once, or one that
  starts while another is, lose it as well.
* `ra2_eof`: "Dropping `out` signals EOF to the reader side" (`ra2.rs:279`) does
  not happen: `pump_encrypt` has the other half of the same duplex end. An
  RA2 session the server closes stays shown as connected until something the
  user sends makes `pump_encrypt`'s write to the wire fail.

Others are plain from the lines, and the properties are stated around them. One
window is enough to break `RememberedStays` by each of the three marked (+).

* The key of a saved session on a command line is its name or its host
  (`app.rs:168`), the child takes the first match (`main.rs:81-83`): of two
  unnamed sessions of one host only the first can be opened.
* Picking a row fills the form with its password (`app.rs:798`), which stays there
  while host and port are edited; Save puts it beside the new server (`app.rs:830`),
  and "Save & Connect" sends it there. Only this moves a password
  (`PasswordMovedByFormOnly`).
* (+) Deleting a session above the one in the form does not move `sf_editing`
  (`app.rs:803-809`), and the next Save overwrites its neighbour.
* (+) With a primary file that holds a list and cannot be written, `save` goes to the
  config directory and `load` never reads it back (`sessions.rs:86`).
* (+) A kill in the middle of a write leaves half a file, and the whole list may be
  lost (`sessions.rs:86`).
* Over RA2 an input written just before the client's end may still be in the duplex
  when the runtime is dropped (`connection.rs:63`); `NothingLost` accepts that suffix.
* A file dropped before the SFTP session has announced its home goes to "/" and its
  name (`join_remote("", name)`, `app.rs:1113`); `LandsWhereShown` leaves such an
  upload out, and accepts one ordered after the VNC session has ended (`app.rs:1104`).
* Commands that arrive while the password prompt waits start its 120 s again
  (`security.rs:189`). `Handshake` has no clock: the timeout may come at any moment.

## Proofs

Eight modules hold theorems. Each proves an inductive invariant with one lemma per
action and takes the properties from it; assumptions are only those that the
modules state of their constants, but for the encodings of `DecodedAlways`.

`VncSession_proofs` proves `Spec => []Inv` for all sizes, colours and bounds, and
from it `TypeOK`, `TextureFits`, `EndAnnounced`, `NoRectSkipped` and
`DecodeInBounds`. Neither of the last two is inductive: whether a rectangle fits is
decided when it is sent and needed when it is taken, with any number of size
changes between. `Inv` therefore speaks of every position of the two queues
toward the screen (`toClient` and `events`): `Bounded` says that each message
fits the size in force where it stands (the last size message before it, or the
reader's own size when there is none), `EndsIn` that the size after the last
message is the sender's. The lemmas of the first part say what taking the head,
appending and cutting a suffix do to these two; the steps then need no
induction. `StreamStep` carries the invariant over the stream, `EventsStep` over
the events, and the texture and the end of the thread with it.
`RequestAlways` adds two facts to it: an update is owed (`Owed`) or on its way
(`Coming`) whenever the thread is not in the middle of one.
`ShownAsSentAlways` says what the two queues do to the pixels. The stream is
deterministic: `Leads(q, f, g)` gives the framebuffer after each message of q, and
while the server is there toClient leads from `fb` to `shadow` (`Following`), the
server's account of a rectangle being what the client does with it
(`DrawnIsDecoded`). The events are not: they hold pixels cut out of framebuffers
that have changed since. So `Settled` is stated cell by cell: the colour of a cell
of `fb` that no rectangle of the current update has touched is in the texture or in
an event, and no later event takes it away (`OnItsWay`). With both queues empty the
two meet.

`VncSession_inputs` proves that `VncSession` implements `InputPipe`. The inputs that
have arrived, those in the stream and those in the channel are, in this order,
1, 2, 3, ... without a gap (`InputInvariance`); what is pending in `InputPipe` is
therefore the interval from the number of inputs that have arrived to the newest on
its way, and the lemmas say how each step moves its two ends. The mapping is stated
with sets (`UnderWay`, `Newest`), so that it does not assume what is to be proved: an
input that overtakes another shows as one delivered out of turn.

`Handshake_proofs`: `TypesAlways` types the stream, the events, the dialog and the
security types offered, through the choice of the best one (`Sorted`). `Inv` has
the end of the thread as the window knows it (`EndKnown`) and that at most one
password is asked for at a time, in the thread, on the channel or in the dialog
(`OneQuestion`); `PromptMatched` follows. `RememberedAlways` strengthens it by `Wire` (every password on the
stream is the thread's own, and whatever promises the session was sent by a
server that has found it right) and `Acceptance` (the window's password is the
thread's from the answer on, and the news of the session means acceptance).
`InSyncAlways` proves that the thread never reads another message than the server
sent next. The two take turns: `Sync` says for each place the thread can be at, and
each the server can be at, what is in flight in either direction, which of them has
the turn, and whether each speaks inside the RA2 channel.

`SessionStore_proofs`: `PasswordSafe` adds to `PasswordMovedByFormOnly` that lists
in memory and in files are of sound sessions (`Sound`: the password is one the
server has, typed for it or carried to it), that the form holds some password, that
a command line is of the right shape and carries a password for its own server, and
that a window inside a session has a real connection. `carried` only grows, and what
is sound stays so (`Monotone`). `TypeCorrect` carries the bound of every list,
those of the files included, and the index of the form. `KeptAlways` proves
`RememberedUnlessLost` for any number of windows. Its invariant (`Safe`) is stated for
each thing kept that is not among the lost: the list of every window inside a save
has it, no two are inside one together, and while none is, the disk has it. Each
operation that saves then has to keep what is outside of the danger it declares
(`OutOfDanger`, `Saves`), by the lemmas on what an edit, a removal and
`remember_session` leave listed.

`Ra2Bridge_proofs`: the frames on each wire carry consecutive nonces from the
receiver's counter on, and the sender's counter is what comes after the last of
them, that which `pump_encrypt` has sealed and not yet written included.
`NothingLostAlways` follows the plaintext. `Marks(frames, from, max)` has the ways to
say up to which unit each frame reaches, when the frames hold the units after `from`
one after the other: in each direction what has been read, what the duplex holds,
what a pump has taken and what is on the wire is one interval that ends with the last
unit sent (`WayDown`, `WayUp`). The two frames the handshake opens itself hold
none (`EarlyFrames`).

`Transfer_proofs`: `InOrder` is the life of a session as its events tell it: the
home directory first, or the end, then listings; a list in the panel is of a
session that lives. With it `PanelIsListing` is inductive. `Lands` follows an
upload from the path shown through the command queue to where it is written.
`FollowsAlways` adds `Heading`: where the panel will be once every event and command
still queued is done, which is the user's goal at every moment.

`InputState_proofs`: the last key event of each key in a frame decides what the
server holds after it; `EventsSound` ties the queue of a frame to what is down,
and the ghosts `cancelled` and `swallowed` to what the window has not seen.

`Rectangles_proofs` proves of Raw, CopyRect and Tight what the run `decoders` checks on
a desktop of 4 x 3: for every desktop, all rectangles that lie on it, all drawings and
all pixel formats that show them exactly (`DrawingsAssumption`: the components of a
colour survive the way through `max` and `shift`, and fit in a CPIXEL), the
framebuffer is the server's desktop after each rectangle, until a rectangle of Tight is
disputed (`DecodedAlways`).
The invariant is `Decoded`, under the condition that nothing is disputed: the types,
`RectDecoded` and `StreamsInStep`; each needs the other two, since a block inflates only
in a stream that is in step. `RawStep`,
`CopyRectStep` and `TightStep` carry it over the actions; `Draws` is what they share:
blitting the pixels of a rectangle is what drawing them on the desktop is. The lemmas
below go along the bytes. `At(raw, p, s)` says that the bytes s stand in raw from p on;
`PixelsRead` that a colour written in a format is read back, from its 1 to 4 bytes in
either order; `DataRead` that data, compressed or not, is; `CompactBack` that a compact
length of one to three bytes is; `BitRowsBack` that rows of one-bit indices are, a
padded byte at the end of each; `GradientBack` that `inverse_gradient` undoes the
server's filter, byte after byte from the corrected neighbours; `TightRead` puts them
together for each of the server's ways (`Way`). `StreamsInStepAlways` needs no
restriction on the encodings: Hextile and ZRLE do not touch the four streams.

Neither theorem restricts the server's control bytes or the lengths of its data: where
client and server disagree about them is part of the properties (`disputed`, see
Decoders), which say nothing of what comes after, and `disputed` once true stays so
(`DisputedStays`). Most control bytes real servers write are disputed, so what the
theorems say of Tight is about all that follows the control byte, not that the client
works with such a server; it does not. A byte of the model is a number: a palette of
more than 256 colours or a length of more than 22 bits, which no server can write, is
in the theorems' range as well.

Left to TLC: liveness, which the prover does not reach; the types of `Rectangles` once
a rectangle is disputed; and Hextile and ZRLE, in which the tiles are folded one into
the next, each at the position where the last one ended.

## Not modelled

* RSA, SHA, AES and the key derivation of RA2, the DES of VNC authentication:
  cryptography. zlib and JPEG: libraries, external.
* Rendering, icons, key tables and theme, window title, clipboard contents, the
  one-time window size, the two headless tests: no state that another part reads.
* Text events of typed characters (sent as press and release at once, beside the
  key's own events), and `app.rs:1011`, which reports button 1 for any button
  held down.
* Arithmetic of the framebuffer's size (`framebuffer.rs:14` is 32 bits wide):
  there is nothing to explore besides the product. An empty desktop
  (`app.rs:1005`): the widths of `InputState` are positive.
* The bound of the ZRLE output buffer (`zrle.rs:27`) and bytes no server writes.
* SSH host keys: `check_server_key` answers yes to every key, by its comment.
* Panics of a thread (`connection.rs:57`), and failure to start one.

## Plan

1. `VncSession`, `InputPipe`, `SessionStore`, `Ra2Bridge` - done.
2. `Handshake`, `Transfer`, `InputState`, the decoders - done.
3. Proofs of every safety invariant of the state machines, of the refinement and of
   the action properties - done; of the decoders Raw, CopyRect and Tight - done. Open:
   Hextile and ZRLE, a tile each and then the fold over the tiles.
4. Open: Text events in `InputState`; a flush before the end of an RA2 session, if
   the code gets one, for which `NothingLost` would lose its exception; `RectDecoded`
  in the place of `DecodedUnlessDisputed`, once `tight.rs:59-66` and `242` follow RFB.

-------------------------------- MODULE Transfer --------------------------------
(***************************************************************************)
(* The SFTP side channel of a window (transfer.rs) and its file panel       *)
(* (app.rs): the UI thread, the transfer thread, the two unbounded channels *)
(* between them, and the remote file system behind an SSH server.          *)
(*                                                                         *)
(* A path is the sequence of its names: <<>> is "/", <<"home">> "/home",    *)
(* Dot the relative ".", and Blank the empty string the panel starts with.  *)
(* Status, TransferDone and Error set a line of text and are left out; of a *)
(* file only its place matters.  The events of a frame are taken one by one: *)
(* the user acting between two of them is a frame in between.              *)
(*                                                                         *)
(* A definition X_Y is X with the slip Y in it.  No action uses it: it     *)
(* stands in for X when a property is tried against a faulty program.      *)
(***************************************************************************)
EXTENDS Naturals, Sequences

CONSTANTS
    Names,        \* the names a file may have
    Home,         \* the login directory
    Dirs,         \* the directories there are to begin with
    Files,        \* the files there are to begin with
    LocalFile,    \* the name of the file the user uploads
    NewFolder,    \* "new_folder"
    MaxCommands,  \* bound: commands given to the transfer threads
    MaxLogins     \* bound: SFTP sessions the window starts

Blank == <<"">>
Dot   == <<".">>
Paths == Seq(Names \cup {""})

ASSUME HomeAssumption == Home \in Dirs
ASSUME PathsAssumption ==
    Dirs \subseteq Seq(Names) /\ Files \subseteq Seq(Names) \ {<<>>} /\ Dirs \cap Files = {}
ASSUME NamesAssumption ==
    {LocalFile, NewFolder, "."} \subseteq Names /\ "" \notin Names
ASSUME BoundsAssumption == MaxCommands \in Nat /\ MaxLogins \in Nat

VARIABLES
    \* The UI thread.
    connection,   \* connection.is_some(): the VNC session
    transfer,     \* transfer.is_some()
    panel,        \* show_transfer
    path,         \* remote_path
    entries,      \* remote_entries: what is listed, as [name, dir]
    selected,     \* the entries remote_selected points at: none or one
    issued, logins,
    \* The channels of the current SFTP session.
    cmds, events,
    \* The transfer thread.
    pc,           \* "off", or what it is doing
    at,           \* the path it is doing it to
    \* The server.
    dirs, files,
    \* Ghosts.
    listed,       \* the directory `entries` was read from
    announced,    \* the window knows the home directory of this SFTP session
    goal,         \* where the user's last command leads: a set of at most one path
    failed,       \* a remote operation has failed
    told,         \* the directories the window was told of by this SFTP session
    early,        \* the command at hand was given before `announced`
    landed        \* uploads that reached the server, as [path, early]

uiVars     == <<connection, transfer, panel, path, entries, selected, issued, logins>>
chanVars   == <<cmds, events>>
workerVars == <<pc, at>>
serverVars == <<dirs, files>>
uiGhosts   == <<listed, announced, goal, told>>
workGhosts == <<failed, early, landed>>
vars == <<uiVars, chanVars, workerVars, serverVars, uiGhosts, workGhosts>>

-----------------------------------------------------------------------------
(* Paths (join_remote; parent_of and parent_remote) and the server's view.  *)

Join(dir, name) == IF dir = Blank THEN <<name>> ELSE Append(dir, name)

\* None, as {}, for "/", for "" and for a relative name.
Parent(p) == IF p = <<>> \/ p = Blank \/ p = Dot THEN {} ELSE {SubSeq(p, 1, Len(p) - 1)}

Resolve(p) == IF p # <<>> /\ Head(p) = "." THEN Home \o Tail(p) ELSE p
Front(p) == SubSeq(p, 1, Len(p) - 1)
EntriesOf(dir) ==
    {[name |-> p[Len(p)], dir |-> p \in dirs] :
        p \in {q \in dirs \cup files : q # <<>> /\ Front(q) = dir}}

-----------------------------------------------------------------------------
(* The transfer thread: run, send_listing, upload, download.               *)

\* event_tx.send: ignored once the window has dropped the session.
Emit(evs) == events' = IF transfer THEN events \o evs ELSE events

\* The end of the thread's block_on, whatever run returned.
Farewell_OnlyWhenOk == IF pc = "connecting" THEN <<>> ELSE <<[t |-> "disconnected"]>>
Farewell == <<[t |-> "disconnected"]>>
End == pc' = "off" /\ Emit(Farewell)

\* The thread's runtime cannot be built: it returns without a farewell.
RuntimeFails ==
    /\ pc = "starting"
    /\ pc' = "gone"
    /\ UNCHANGED <<uiVars, chanVars, at, serverVars, uiGhosts, workGhosts>>

Start ==
    /\ pc = "starting"
    /\ pc' = "connecting"
    /\ UNCHANGED <<uiVars, chanVars, at, serverVars, uiGhosts, workGhosts>>

\* SSH connect, authentication, the subsystem, and canonicalize(".").
Connect ==
    /\ pc = "connecting"
    /\ \/ \E home \in {Home, Dot} :
             /\ pc' = "listing" /\ at' = home
             /\ Emit(<<[t |-> "connected", path |-> home]>>)
             /\ UNCHANGED failed
       \/ End /\ failed' = TRUE /\ UNCHANGED at
    /\ UNCHANGED <<uiVars, cmds, serverVars, uiGhosts, early, landed>>

\* send_listing.
List ==
    /\ pc = "listing"
    /\ pc' = "loop"
    /\ \/ /\ Resolve(at) \in dirs
          /\ Emit(<<[t |-> "listing", path |-> at, entries |-> EntriesOf(Resolve(at))]>>)
          /\ UNCHANGED failed
       \/ failed' = TRUE /\ UNCHANGED events
    /\ UNCHANGED <<uiVars, cmds, at, serverVars, uiGhosts, early, landed>>

Stops_Never(c) == FALSE
Stops(c) == c.do = "disconnect"

\* The command loop: one command at a time, in the order given.  The window never
\* lets go of a running thread without a Disconnect, so try_recv's own end of the
\* channel (transfer.rs:165) does not come about.
Take ==
    /\ pc = "loop" /\ cmds # <<>>
    /\ cmds' = Tail(cmds)
    /\ at' = Head(cmds).path /\ early' = Head(cmds).early
    /\ IF Stops(Head(cmds)) THEN End ELSE pc' = Head(cmds).do /\ UNCHANGED events
    /\ UNCHANGED <<uiVars, serverVars, uiGhosts, failed, landed>>

Relisted_Itself(p) == {p}
Relisted(p) == Parent(p)
Mkdir ==
    /\ pc = "mkdir"
    /\ \/ /\ Resolve(at) \notin dirs \cup files
          /\ Parent(Resolve(at)) \subseteq dirs
          /\ dirs' = dirs \cup {Resolve(at)}
          /\ \/ \E p \in Relisted(at) : pc' = "listing" /\ at' = p
             \/ Relisted(at) = {} /\ pc' = "loop" /\ UNCHANGED at
          /\ UNCHANGED failed
       \/ pc' = "loop" /\ failed' = TRUE /\ UNCHANGED <<at, dirs>>
    /\ UNCHANGED <<uiVars, chanVars, files, uiGhosts, early, landed>>

\* The file is created, then written: a failure in between leaves it behind.
Upload ==
    /\ pc = "upload"
    /\ LET target == Join(at, LocalFile)
           lands  == /\ Resolve(target) \notin dirs
                     /\ Front(Resolve(target)) \in dirs
                     /\ files' = files \cup {Resolve(target)}
                     /\ landed' = landed \cup {[path |-> target, early |-> early]}
       IN  \/ lands /\ pc' = "listing" /\ UNCHANGED failed
           \/ lands /\ pc' = "loop" /\ failed' = TRUE
           \/ pc' = "loop" /\ failed' = TRUE /\ UNCHANGED <<files, landed>>
    /\ UNCHANGED <<uiVars, chanVars, at, dirs, uiGhosts, early>>

Download ==
    /\ pc = "download"
    /\ pc' = "loop"
    /\ \/ Resolve(at) \in files /\ UNCHANGED failed
       \/ failed' = TRUE
    /\ UNCHANGED <<uiVars, chanVars, at, serverVars, uiGhosts, early, landed>>

Worker == Start \/ Connect \/ List \/ Take \/ Mkdir \/ Upload \/ Download

-----------------------------------------------------------------------------
(* The UI thread.                                                          *)

\* process_transfer_events, for one event.
PathAfterConnect_Kept(home) == path
PathAfterConnect(home) == home
SelectedAfterListing_Kept == selected
SelectedAfterListing == {}
UiEvent ==
    /\ transfer /\ events # <<>>
    /\ events' = Tail(events)
    /\ LET e == Head(events)
       IN  \/ /\ e.t = "connected"
              /\ path' = PathAfterConnect(e.path)
              /\ announced' = TRUE /\ told' = {e.path}
              /\ goal' = IF goal = {} THEN {e.path} ELSE goal
              /\ UNCHANGED <<transfer, entries, selected, listed>>
           \/ /\ e.t = "listing"
              /\ path' = e.path /\ entries' = e.entries /\ selected' = SelectedAfterListing
              /\ listed' = e.path /\ told' = told \cup {e.path}
              /\ UNCHANGED <<transfer, announced, goal>>
           \/ /\ e.t = "disconnected"
              /\ transfer' = FALSE
              /\ UNCHANGED <<path, entries, selected, uiGhosts>>
    /\ UNCHANGED <<connection, panel, issued, logins, cmds, workerVars, serverVars, workGhosts>>

\* "Connect SFTP" in the login form, which the panel shows without a session.
Shown == connection /\ panel
Login ==
    /\ Shown /\ ~transfer
    /\ logins < MaxLogins /\ logins' = logins + 1
    /\ transfer' = TRUE /\ pc' = "starting" /\ cmds' = <<>> /\ events' = <<>>
    /\ announced' = FALSE /\ goal' = {} /\ told' = {}
    /\ failed' = FALSE /\ early' = FALSE
    /\ UNCHANGED <<connection, panel, path, entries, selected, issued, at, serverVars,
                   listed, landed>>

\* cmd_tx.send, of a command that leads the panel to the paths `to`.
Send(what, p, to) ==
    /\ transfer
    /\ issued < MaxCommands /\ issued' = issued + 1
    /\ cmds' = Append(cmds, [do |-> what, path |-> p, early |-> ~announced])
    /\ goal' = IF to = {} THEN goal ELSE to
    /\ UNCHANGED <<connection, transfer, logins, events, workerVars, serverVars, listed,
                   announced, told, workGhosts>>

PathAfterClick(p) == path
Navigate(p) == Send("listing", p, {p}) /\ path' = PathAfterClick(p)

Browse ==
    /\ Shown
    /\ \/ \E p \in Parent(path) : Navigate(p)                            \* parent directory
       \/ Navigate(path)                                                \* refresh
       \/ \E e \in entries : e.dir /\ Navigate(Join(path, e.name))        \* double click
    /\ UNCHANGED <<panel, entries, selected>>

MakeFolder ==
    /\ Shown
    /\ Send("mkdir", Join(path, NewFolder), Parent(Join(path, NewFolder)))
    /\ UNCHANGED <<panel, path, entries, selected>>

Select ==
    /\ Shown /\ transfer
    /\ \E e \in entries : selected' = {e}
    /\ UNCHANGED <<connection, transfer, panel, path, entries, issued, logins, chanVars,
                   workerVars, serverVars, uiGhosts, workGhosts>>

\* Only a file that is selected can be downloaded (can_dl).
Fetch ==
    /\ Shown
    /\ \E e \in selected : ~e.dir /\ Send("download", Join(path, e.name), {})
    /\ UNCHANGED <<panel, path, entries, selected>>

\* Upload in the panel, or a file dropped anywhere on the window: that needs
\* neither the panel nor a VNC session.
Store ==
    /\ Send("upload", path, {path})
    /\ panel' = TRUE
    /\ UNCHANGED <<path, entries, selected>>

TogglePanel ==
    /\ connection
    /\ panel' = ~panel
    /\ UNCHANGED <<connection, transfer, path, entries, selected, issued, logins, chanVars,
                   workerVars, serverVars, uiGhosts, workGhosts>>

\* close_transfer, with the Disconnect it sends before the channel is dropped.
Parting == Append(cmds, [do |-> "disconnect", path |-> Blank, early |-> FALSE])
Disconnect ==
    /\ connection
    /\ connection' = FALSE /\ transfer' = FALSE /\ panel' = FALSE
    /\ path' = Blank /\ entries' = {} /\ selected' = {}
    /\ cmds' = IF transfer THEN Parting ELSE cmds
    /\ events' = <<>>
    /\ UNCHANGED <<issued, logins, workerVars, serverVars, uiGhosts, workGhosts>>

\* The VNC session ends by itself: the transfer is not closed with it.
VncEnds ==
    /\ connection
    /\ connection' = FALSE
    /\ UNCHANGED <<transfer, panel, path, entries, selected, issued, logins, chanVars,
                   workerVars, serverVars, uiGhosts, workGhosts>>

User == \/ Login \/ Browse \/ MakeFolder \/ Select \/ Fetch \/ Store \/ TogglePanel
        \/ Disconnect \/ VncEnds

-----------------------------------------------------------------------------
(* The specification.                                                      *)

Init ==
    /\ connection = TRUE /\ transfer = FALSE /\ panel = FALSE
    /\ path = Blank /\ entries = {} /\ selected = {} /\ issued = 0 /\ logins = 0
    /\ cmds = <<>> /\ events = <<>>
    /\ pc = "off" /\ at = Blank
    /\ dirs = Dirs /\ files = Files
    /\ listed = Blank /\ announced = FALSE /\ goal = {} /\ told = {}
    /\ failed = FALSE /\ early = FALSE /\ landed = {}

Next == Worker \/ RuntimeFails \/ UiEvent \/ User

\* The thread's runtime runs it, every remote operation ends, in success or not,
\* and the window is repainted while it has a transfer (app.rs:1194).
Spec == Init /\ [][Next]_vars /\ WF_vars(Worker) /\ WF_vars(UiEvent)

-----------------------------------------------------------------------------
(* Properties.                                                             *)

\* Every variable has its type.
CommandKinds == {"listing", "mkdir", "upload", "download", "disconnect"}
TypeOK ==
    /\ connection \in BOOLEAN /\ transfer \in BOOLEAN /\ panel \in BOOLEAN
    /\ path \in Paths /\ selected \subseteq [name : Names, dir : BOOLEAN]
    /\ entries \subseteq [name : Names, dir : BOOLEAN]
    /\ issued \in 0 .. MaxCommands /\ logins \in 0 .. MaxLogins
    /\ \A i \in 1 .. Len(cmds) : cmds[i].do \in CommandKinds /\ cmds[i].path \in Paths
    /\ \A i \in 1 .. Len(events) : events[i].t \in {"connected", "listing", "disconnected"}
    /\ pc \in {"off", "gone", "starting", "connecting", "loop"}
              \cup (CommandKinds \ {"disconnect"})
    /\ at \in Paths
    /\ dirs \subseteq Paths /\ files \subseteq Paths /\ dirs \cap files = {}
    /\ listed \in Paths /\ goal \subseteq Paths /\ told \subseteq Paths
    /\ announced \in BOOLEAN /\ failed \in BOOLEAN /\ early \in BOOLEAN

\* What the panel lists under a path is what was read from that path, and what is
\* selected is on the list: a name taken from the list and the path above it name
\* one remote file, however many listings are on their way and however many
\* sessions were tried before (app.rs:333, 408, 442).
PanelIsListing ==
    /\ entries # {} => listed = path
    /\ selected \subseteq entries

\* When nothing is under way and no remote operation has failed, the panel shows
\* the directory the user's last command leads to, although every finished upload
\* and new folder lists a directory of its own (transfer.rs:173, 191).
FollowsTheUser ==
    transfer /\ announced /\ pc = "loop" /\ cmds = <<>> /\ events = <<>> /\ ~failed =>
        goal = {path}

\* "Upload to the current remote dir" (app.rs:1103): an upload lands in a directory
\* the server has told the panel of, except a file dropped before the SFTP session
\* has announced its home.
LandsWhereShown ==
    transfer => \A u \in landed : u.early \/ Front(u.path) \in told

\* Neither end outlives the other: a transfer the window has let go of ends its
\* thread, after the commands given before, and the end of the thread reaches the
\* window, panel shown or not, unless its runtime could not be built at all.
BothEnd ==
    /\ ~transfer ~> pc \in {"off", "gone"}
    /\ pc = "off" ~> ~transfer
===============================================================================

----------------------------- MODULE SessionStore -----------------------------
(***************************************************************************)
(* The saved sessions: sessions.json, read by every window when it starts  *)
(* (sessions.rs, main.rs) and rewritten whole by any window whose user     *)
(* edits the list, logs in over SSH or gets connected (app.rs).  A window  *)
(* is a process; windows share the file and nothing else.                  *)
(*                                                                         *)
(* A password is the server it was typed for and a version, so that a      *)
(* password which reaches another server is seen.  `session_selected` and  *)
(* `sf_editing` of VncApp are always assigned the same value, and are one  *)
(* variable here, 0 for None.  Of the form only the password is kept: the  *)
(* user may change every field before a save, but the password is the one  *)
(* that comes from elsewhere and means something elsewhere.  "Save &       *)
(* Connect" is SaveForm, EndSave and OpenSession in a row.                 *)
(*                                                                         *)
(* A definition X_Y is X with the slip Y in it.  No action uses it: it     *)
(* stands in for X when a property is tried against a faulty program.      *)
(***************************************************************************)
EXTENDS Integers, Sequences

CONSTANTS
    Windows,       \* the windows (processes) that may be open at once
    Hosts,         \* the host names
    Ports,         \* the ports
    DefaultPort,   \* 5900
    Names,         \* the names the user gives to sessions
    NoName,        \* the empty name
    Versions,      \* what tells the passwords for one server apart
    Users,         \* the SSH user names
    NoUser,        \* the empty one
    MaxSessions,   \* bound: length of a list of sessions
    InitLists,     \* the lists a file may hold to begin with
    Writable,      \* bound: whether the primary file may be written, a subset of BOOLEAN
    Kills,         \* bound: whether a window may be killed while it saves
    Overlap        \* bound: whether windows work at the same time; if not, one that is
                   \* started waits until there is no other, and the user starts none
                   \* while there is one

ASSUME PortsAssumption == DefaultPort \in Ports
ASSUME NoNameAssumption == NoName \in Names \ Hosts
ASSUME MaxSessionsAssumption == MaxSessions \in Nat \ {0}
ASSUME WritableAssumption == Writable \subseteq BOOLEAN

VARIABLES
    \* The disk.
    primary,       \* sessions.json next to the executable
    legacy,        \* sessions.json in the user's configuration directory
    writable,      \* whether `primary` can be written, FALSE for ever or TRUE for ever
    \* Each window.
    pc,            \* how far it is
    args,          \* its command line
    sessions,      \* VncApp.sessions
    editing,       \* VncApp.sf_editing: an index of `sessions`, or 0
    form,          \* VncApp.sf_password
    current,       \* VncApp.current_host, current_port, current_password
    saving,        \* whether it is inside fs::write, and whether it is alone there
    \* Ghosts.
    strayed,       \* whether `editing` has come to mean another session than was picked
    carried,       \* the passwords a form was saved with, and the other servers it named
    kept,          \* the servers connected to, with the password that was used
    lost           \* those of them that a save may have dropped

winVars   == <<pc, args, sessions, editing, form, current, saving>>
ghostVars == <<strayed, carried, kept, lost>>
vars      == <<primary, legacy, writable, winVars, ghostVars>>

Server   == Hosts \X Ports
Password == [for : Server, version : Versions]
NoPw     == [for |-> <<>>, version |-> 0]
Session  == [name : Names, host : Hosts, port : Ports,
             password : Password \cup {NoPw}, user : Users \cup {NoUser}]
Conn     == [host : Hosts, port : Ports, password : Password \cup {NoPw}]
NoConn   == [host |-> NoName, port |-> 0, password |-> NoPw]
File     == [is : {"absent", "torn", "whole"}, list : Seq(Session)]

ServerOf(s) == <<s.host, s.port>>
For(h, p)   == {pw \in Password : pw.for = <<h, p>>} \cup {NoPw}

\* The passwords a server has: those typed for it, and those moved to it.
Move          == [server : Server, password : Password]
Owned(h, p, moves) == For(h, p) \cup
    {pw \in Password : [server |-> <<h, p>>, password |-> pw] \in moves}

\* The sessions whose password is one their server has.
Sound(moves) == {s \in Session : s.password \in Owned(s.host, s.port, moves)}

ASSUME InitListsAssumption ==
    \A l \in InitLists : l \in Seq(Sound({})) /\ Len(l) <= MaxSessions

Torn        == [is |-> "torn", list |-> <<>>]
Absent      == [is |-> "absent", list |-> <<>>]
Whole(list) == [is |-> "whole", list |-> list]

Args == [kind : {"none"}]
        \cup [kind : {"session"}, key : Names \cup Hosts]
        \cup [kind : {"host"}, host : Hosts, port : Ports, password : Password \cup {NoPw}]

-----------------------------------------------------------------------------
(* Lookups.                                                                *)

\* The first of some indices, or 0 when there are none.
First(found) ==
    IF found = {} THEN 0 ELSE CHOOSE i \in found : \A j \in found : i <= j

\* Vec::remove.
Removed_Next(list, i) == SubSeq(list, 1, i) \o SubSeq(list, i + 2, Len(list))
Removed(list, i) == SubSeq(list, 1, i - 1) \o SubSeq(list, i + 1, Len(list))

\* sessions::load: what a window that reads the files now gets.
Load == CASE primary.is = "whole" -> primary.list
          [] primary.is # "whole" /\ legacy.is = "whole" -> legacy.list
          [] OTHER -> <<>>

\* What stands for a session on the command line of its window.
Key(s) == IF s.name = NoName THEN s.host ELSE s.name

\* The session --session opens, and the one --host takes its password from.
ByKey(list, key) == First({i \in DOMAIN list : list[i].name = key \/ list[i].host = key})
ByHost(list, h)  == First({i \in DOMAIN list : list[i].host = h})
ByServer_AnyPort(list, h, p) == ByHost(list, h)
ByServer(list, h, p) == First({i \in DOMAIN list : ServerOf(list[i]) = <<h, p>>})

-----------------------------------------------------------------------------
(* Saving.                                                                 *)

\* fs::write truncates the file before it writes.  A primary file that cannot
\* be opened for writing is left as it is, and the other one is written.
Write(contents) ==
    \/ /\ writable
       /\ primary' \in contents
       /\ UNCHANGED legacy
    \/ /\ ~writable
       /\ legacy' \in contents
       /\ UNCHANGED primary

\* Ghost: a list has the server of `k`, with the password that was used.
Listed(list, k) ==
    \E i \in DOMAIN list :
        /\ ServerOf(list[i]) = k.server
        /\ k.password \in {NoPw, list[i].password}

\* Ghost: what is in danger when window `w` saves: all, if another window is
\* inside a save, and otherwise what its list did not have in the first place.
InDanger(w) ==
    {k.server : k \in {k \in kept : \/ \E v \in Windows : saving[v] # "no"
                                  \/ ~Listed(sessions[w], k)}}

BeginSave(w, list) ==
    /\ sessions' = [sessions EXCEPT ![w] = list]
    /\ saving' = [v \in Windows |->
                    CASE v = w /\ (\A u \in Windows : saving[u] = "no") -> "alone"
                      [] v = w /\ (\E u \in Windows : saving[u] # "no") -> "mixed"
                      [] v # w /\ saving[v] = "no" -> "no"
                      [] OTHER -> "mixed"]
    /\ Write({Torn})

\* Two overlapping writes may leave a tail of the longer one behind the shorter.
EndSave(w) ==
    /\ saving[w] # "no"
    /\ saving' = [saving EXCEPT ![w] = "no"]
    /\ Write({Whole(sessions[w])} \cup {f \in {Torn} : saving[w] = "mixed"})
    /\ UNCHANGED <<writable, pc, args, sessions, editing, form, current, ghostVars>>

\* The process ends, and what it had in memory with it.
Exit(w) ==
    /\ pc' = [pc EXCEPT ![w] = "closed"]
    /\ args' = [args EXCEPT ![w] = [kind |-> "none"]]
    /\ sessions' = [sessions EXCEPT ![w] = <<>>]
    /\ editing' = [editing EXCEPT ![w] = 0]
    /\ form' = [form EXCEPT ![w] = NoPw]
    /\ current' = [current EXCEPT ![w] = NoConn]
    /\ saving' = [saving EXCEPT ![w] = "no"]
    /\ strayed' = [strayed EXCEPT ![w] = FALSE]
    /\ UNCHANGED <<primary, legacy, writable>>

\* It may end in the middle of a write, which leaves a torn file.
Kill(w) ==
    /\ Kills
    /\ saving[w] # "no"
    /\ Exit(w)
    /\ lost' = lost \cup {k.server : k \in kept}
    /\ UNCHANGED <<carried, kept>>

-----------------------------------------------------------------------------
(* A window's life (main, VncApp::new, do_connect, process_events).        *)

Open       == {"idle", "connecting", "prompt", "authenticating", "connected"}
InSession  == Open \ {"idle"}
Busy(w)    == saving[w] # "no"
Ready(w)   == pc[w] \in Open /\ ~Busy(w)

\* Process `w` starts with command line `a`.
Spawn(w, a) ==
    /\ pc[w] = "closed"
    /\ pc' = [pc EXCEPT ![w] = "resolve"]
    /\ args' = [args EXCEPT ![w] = a]
    /\ UNCHANGED <<primary, legacy, writable, sessions, editing, form, current, saving, ghostVars>>

Launch(w) ==
    /\ Overlap \/ \A v \in Windows : pc[v] = "closed"
    /\ \E a \in Args :
           /\ a.kind = "host" => a.password \in For(a.host, a.port)
           /\ Spawn(w, a)

OpenSession(w, v) ==
    /\ Ready(w)
    /\ \E i \in DOMAIN sessions[w] :
           Spawn(v, [kind |-> "session", key |-> Key(sessions[w][i])])

OpenHost(w, v) ==
    /\ Ready(w)
    /\ pc[w] = "idle"
    /\ \E h \in Hosts, p \in Ports :
           Spawn(v, [kind |-> "host", host |-> h, port |-> p, password |-> NoPw])

\* The connection a command line asks for, given the saved sessions.
Resolved(a, list) ==
    CASE a.kind = "none" -> NoConn
      [] a.kind = "session" ->
            LET i == ByKey(list, a.key)
            IN  IF i = 0 THEN NoConn
                ELSE [host |-> list[i].host, port |-> list[i].port, password |-> list[i].password]
      [] a.kind = "host" ->
            LET i == ByServer(list, a.host, a.port)
            IN  [host |-> a.host, port |-> a.port,
                 password |-> IF a.password # NoPw \/ i = 0 THEN a.password
                              ELSE list[i].password]

Resolve(w) ==
    /\ pc[w] = "resolve"
    /\ Overlap \/ \A v \in Windows : pc[v] \in {"closed", "resolve"}
    /\ current' = [current EXCEPT ![w] = Resolved(args[w], Load)]
    /\ pc' = [pc EXCEPT ![w] = "start"]
    /\ args' = [args EXCEPT ![w] = [kind |-> "none"]]     \* not read again
    /\ UNCHANGED <<primary, legacy, writable, sessions, editing, form, saving, ghostVars>>

New(w) ==
    /\ pc[w] = "start"
    /\ sessions' = [sessions EXCEPT ![w] = Load]
    /\ editing' = [editing EXCEPT ![w] = 0]
    /\ form' = [form EXCEPT ![w] = NoPw]
    /\ pc' = [pc EXCEPT ![w] = IF current[w] = NoConn THEN "idle" ELSE "connecting"]
    /\ UNCHANGED <<primary, legacy, writable, args, current, saving, ghostVars>>

NeedPassword(w) ==
    /\ Ready(w)
    /\ pc[w] = "connecting"
    /\ current[w].password = NoPw
    /\ pc' = [pc EXCEPT ![w] = "prompt"]
    /\ UNCHANGED <<primary, legacy, writable, args, sessions, editing, form, current, saving, ghostVars>>

EnterPassword(w) ==
    /\ Ready(w)
    /\ pc[w] = "prompt"
    /\ \E pw \in For(current[w].host, current[w].port) :
           current' = [current EXCEPT ![w].password = pw]
    /\ pc' = [pc EXCEPT ![w] = "authenticating"]
    /\ UNCHANGED <<primary, legacy, writable, args, sessions, editing, form, saving, ghostVars>>

\* remember_session: the list it leaves.
Remembered_OnlyNew(list, c) ==
    IF ByServer(list, c.host, c.port) # 0 THEN list
    ELSE Append(list, [name |-> NoName, host |-> c.host, port |-> c.port,
                       password |-> c.password, user |-> NoUser])

Remembered(list, c) ==
    LET i == ByServer(list, c.host, c.port)
    IN  CASE i = 0 -> Append(list, [name |-> NoName, host |-> c.host, port |-> c.port,
                                    password |-> c.password, user |-> NoUser])
          [] i # 0 /\ c.password # NoPw -> [list EXCEPT ![i].password = c.password]
          [] OTHER -> list

Connected(w) ==
    LET c    == current[w]
        list == Remembered(sessions[w], c)
    IN  /\ Ready(w)
        /\ pc[w] \in {"connecting", "authenticating"}
        /\ Len(list) <= MaxSessions
        /\ pc' = [pc EXCEPT ![w] = "connected"]
        /\ kept' = {k \in kept : k.server # ServerOf(c)}
                     \cup {[server |-> ServerOf(c), password |-> c.password]}
        /\ \/ /\ list # sessions[w]
              /\ BeginSave(w, list)
              /\ lost' = (lost \ {ServerOf(c)}) \cup
                    IF \E v \in Windows : saving[v] # "no" THEN {k.server : k \in kept'}
                    ELSE InDanger(w) \ {ServerOf(c)}
           \/ /\ list = sessions[w]
              /\ lost' = (lost \ {ServerOf(c)}) \cup
                    {k.server : k \in {k \in kept' : /\ k.server = ServerOf(c) /\ Listed(list, k)
                                                   /\ \/ \E v \in Windows : saving[v] # "no"
                                                      \/ ~Listed(Load, k)}}
              /\ UNCHANGED <<primary, legacy, sessions, saving>>
        /\ UNCHANGED <<writable, args, editing, form, current, strayed, carried>>

\* Error, Disconnected, the Disconnect button, or Cancel in the password dialog.
Disconnected(w) ==
    /\ Ready(w)
    /\ pc[w] \in InSession
    /\ pc' = [pc EXCEPT ![w] = "idle"]
    /\ current' = [current EXCEPT ![w] = NoConn]     \* a window connects only once
    /\ UNCHANGED <<primary, legacy, writable, args, sessions, editing, form, saving, ghostVars>>

Close(w) ==
    /\ Ready(w)
    /\ Exit(w)
    /\ UNCHANGED <<carried, kept, lost>>

-----------------------------------------------------------------------------
(* The Sessions window and its form.                                       *)

Forget(servers) == {k \in kept : k.server \notin servers}

NewForm(w) ==
    /\ Ready(w)
    /\ editing' = [editing EXCEPT ![w] = 0]
    /\ form' = [form EXCEPT ![w] = NoPw]
    /\ strayed' = [strayed EXCEPT ![w] = FALSE]
    /\ UNCHANGED <<primary, legacy, writable, pc, args, sessions, current, saving>>
    /\ UNCHANGED <<carried, kept, lost>>

Select(w) ==
    /\ Ready(w)
    /\ \E i \in DOMAIN sessions[w] :
           /\ editing' = [editing EXCEPT ![w] = i]
           /\ form' = [form EXCEPT ![w] = sessions[w][i].password]
    /\ strayed' = [strayed EXCEPT ![w] = FALSE]
    /\ UNCHANGED <<primary, legacy, writable, pc, args, sessions, current, saving>>
    /\ UNCHANGED <<carried, kept, lost>>

Delete(w) ==
    /\ Ready(w)
    /\ \E i \in DOMAIN sessions[w] :
           /\ BeginSave(w, Removed(sessions[w], i))
           /\ editing' = [editing EXCEPT ![w] = IF @ = i THEN 0 ELSE @]
           /\ strayed' = [strayed EXCEPT ![w] = i # editing[w] /\ (@ \/ i < editing[w])]
           /\ kept' = Forget({ServerOf(sessions[w][i])})
    /\ lost' = lost \cup InDanger(w)
    /\ UNCHANGED <<writable, pc, args, form, current, carried>>

\* What the user may have in the form of window `w` when it is saved: a password
\* typed for the server that stands there, or the one the form was filled with.
\* A port that does not parse is 5900.
Junk      == 0
Parsed_Not(p) == p
Parsed(p) == IF p = Junk THEN DefaultPort ELSE p

Forms(w) == {f \in [name : Names, host : Hosts, port : Ports \cup {Junk},
                    password : Password \cup {NoPw}] :
                f.password \in For(f.host, Parsed(f.port)) \cup {form[w]}}

\* The SSH user name the saved session gets: that of the session edited.
UserOf(w) == IF editing[w] \in DOMAIN sessions[w] THEN sessions[w][editing[w]].user ELSE NoUser

SaveForm(w) ==
    /\ Ready(w)
    /\ \E f \in Forms(w) :
         LET i == editing[w]
             s == [name |-> f.name, host |-> f.host, port |-> Parsed(f.port),
                   password |-> f.password, user |-> UserOf(w)]
             last == Len(sessions[w]) + 1
         IN  /\ form' = [form EXCEPT ![w] = f.password]
             /\ carried' = carried \cup
                   {m \in {[server |-> ServerOf(s), password |-> f.password]} :
                       f.password \notin For(f.host, Parsed(f.port))}
             /\ \/ /\ i = 0
                   /\ last <= MaxSessions
                   /\ BeginSave(w, Append(sessions[w], s))
                   /\ editing' = [editing EXCEPT ![w] = last]
                   /\ kept' = Forget({ServerOf(s)})
                   /\ lost' = lost \cup InDanger(w)
                   /\ UNCHANGED strayed
                \/ /\ i \in DOMAIN sessions[w]
                   /\ BeginSave(w, [sessions[w] EXCEPT ![i] = s])
                   /\ LET row == {ServerOf(sessions[w][i])}
                      IN  \/ /\ ~strayed[w]
                             /\ kept' = Forget(row \cup {ServerOf(s)})
                             /\ lost' = lost \cup InDanger(w)
                          \/ /\ strayed[w]
                             /\ kept' = Forget({ServerOf(s)})
                             /\ lost' = lost \cup InDanger(w) \cup row
                   /\ strayed' = [strayed EXCEPT ![w] = FALSE]
                   /\ UNCHANGED editing
                \/ /\ i > Len(sessions[w])
                   /\ BeginSave(w, sessions[w])
                   /\ lost' = lost \cup InDanger(w)
                   /\ UNCHANGED <<editing, strayed, kept>>
    /\ UNCHANGED <<writable, pc, args, current>>

\* "Connect SFTP": the user name is remembered on the first session of the host.
SshLogin(w) ==
    /\ Ready(w)
    /\ pc[w] \in InSession
    /\ \E u \in Users :
         LET i == ByHost(sessions[w], current[w].host)
         IN  /\ i # 0
             /\ sessions[w][i].user # u
             /\ BeginSave(w, [sessions[w] EXCEPT ![i].user = u])
    /\ lost' = lost \cup InDanger(w)
    /\ UNCHANGED <<writable, pc, args, editing, form, current, strayed, carried, kept>>

-----------------------------------------------------------------------------
Init ==
    /\ primary \in {Absent} \cup {Whole(l) : l \in InitLists}
    /\ legacy \in {Absent} \cup {Whole(l) : l \in InitLists}
    /\ writable \in Writable
    /\ pc = [w \in Windows |-> "closed"]
    /\ args = [w \in Windows |-> [kind |-> "none"]]
    /\ sessions = [w \in Windows |-> <<>>]
    /\ editing = [w \in Windows |-> 0]
    /\ form = [w \in Windows |-> NoPw]
    /\ current = [w \in Windows |-> NoConn]
    /\ saving = [w \in Windows |-> "no"]
    /\ strayed = [w \in Windows |-> FALSE]
    /\ carried = {}
    /\ kept = {}
    /\ lost = {}

Next ==
    \E w \in Windows :
        \/ Launch(w) \/ Resolve(w) \/ New(w) \/ Close(w)
        \/ NeedPassword(w) \/ EnterPassword(w) \/ Connected(w) \/ Disconnected(w)
        \/ NewForm(w) \/ Select(w) \/ Delete(w) \/ SaveForm(w) \/ SshLogin(w)
        \/ EndSave(w) \/ Kill(w)
        \/ \E v \in Windows : OpenSession(w, v) \/ OpenHost(w, v)

Spec == Init /\ [][Next]_vars

-----------------------------------------------------------------------------
(* Properties.                                                             *)

\* Types; an index in the form may outlive the session it was taken from, but
\* only by a deletion.
TypeOK ==
    /\ primary \in File /\ legacy \in File
    /\ writable \in BOOLEAN
    /\ pc \in [Windows -> {"closed", "resolve", "start"} \cup Open]
    /\ args \in [Windows -> Args]
    /\ \A w \in Windows : sessions[w] \in Seq(Session) /\ Len(sessions[w]) <= MaxSessions
    /\ editing \in [Windows -> 0 .. MaxSessions]
    /\ form \in [Windows -> Password \cup {NoPw}]
    /\ current \in [Windows -> Conn \cup {NoConn}]
    /\ saving \in [Windows -> {"no", "alone", "mixed"}]
    /\ carried \subseteq Move

\* A password gets from the server it was typed for to another one only by a
\* form that was filled with it (app.rs:795-799) and saved with another host or
\* port (app.rs:826-830).  Nothing else moves one, whatever order windows load,
\* save and are opened in: neither the lookup by host and port that keeps
\* passwords off the command line (main.rs:75), nor the one that updates a saved
\* password (app.rs:660-670), nor a list another window has changed.
PasswordMovedByFormOnly ==
    /\ \A w \in Windows :
          /\ \A i \in DOMAIN sessions[w] :
                sessions[w][i].password
                    \in Owned(sessions[w][i].host, sessions[w][i].port, carried)
          /\ current[w].password \in Owned(current[w].host, current[w].port, carried)
    /\ \A f \in {primary, legacy} : \A i \in DOMAIN f.list :
          f.list[i].password \in Owned(f.list[i].host, f.list[i].port, carried)

Quiet == \A w \in Windows : ~Busy(w)

\* A server once connected to stays in the saved list, with the password that
\* was used, until its user deletes it or edits it: a window that starts at any
\* later time, while none is saving, finds it ("Connections are saved here
\* automatically", app.rs:857).  The code does not keep this promise.
RememberedStays == Quiet => \A k \in kept : Listed(Load, k)

\* What does hold of it.  A server once connected to is still found, unless one
\* of five things has happened to it since the last connection to it:
\*   - a window saved a list that did not have it, which was read before and is
\*     written whole (sessions.rs:76), or took it to be saved because such a
\*     list had it (app.rs:663-672);
\*   - two windows were inside fs::write at once;
\*   - a window was killed inside it, and left half a file (sessions.rs:86);
\*   - a session above the one in the form was deleted, and the form was then
\*     saved over what had moved to its place (app.rs:803-809, 835-837);
\*   - sessions.json next to the executable can be read and not written, and
\*     hides what is saved elsewhere (sessions.rs:60-66).
RememberedUnlessLost ==
    Quiet /\ (writable \/ primary.is # "whole") =>
        \A k \in kept : k.server \in lost \/ Listed(Load, k)
=============================================================================

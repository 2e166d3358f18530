---------------------------- MODULE Transfer_proofs ----------------------------
(***************************************************************************)
(* Transfer for any remote tree, any commands and any number of logins: what *)
(* the panel lists, and where an upload lands.                             *)
(***************************************************************************)
EXTENDS Transfer, SequenceTheorems, TLAPS

Named   == Seq(Names)
Entry   == [name : Names, dir : BOOLEAN]
Shows   == Named \cup {Blank}
Command == {c \in [do : CommandKinds, path : Shows, early : BOOLEAN] :
               c.do = "mkdir" => c.path \in Named}
Event   == [t : {"connected"}, path : Named] \cup [t : {"disconnected"}]
             \cup [t : {"listing"}, path : Named, entries : SUBSET Entry]

Typed ==
    /\ TypeOK
    /\ cmds \in Seq(Command) /\ events \in Seq(Event)
    /\ dirs \subseteq Named /\ files \subseteq Named /\ told \subseteq Named
    /\ path \in Shows /\ at \in Shows
    /\ pc = "mkdir" => at \in Named

Begun   == pc \in {"starting", "connecting"}
Running == pc \in {"loop", "listing", "mkdir", "upload", "download"}
First(t) == events # <<>> /\ events[1].t = t

\* The life of an SFTP session as the two ends see it: first the home directory
\* or the end, then listings; a list in the panel is of a session that lives.
InOrder ==
    /\ transfer => \A i \in 1 .. Len(cmds) : cmds[i].do # "disconnect"
    /\ \A i \in 2 .. Len(events) : events[i].t = "listing"
    /\ First("listing") => announced
    /\ First("connected") => ~announced
    /\ First("disconnected") => pc = "off" /\ Len(events) = 1 /\ entries = {} /\ landed = {}
    /\ Begun /\ transfer => events = <<>> /\ ~announced /\ landed = {}
    /\ Running /\ transfer => announced \/ First("connected")
    /\ ~transfer => events = <<>>
    /\ ~transfer /\ connection => pc = "off" /\ landed = {}
    /\ entries # {} => transfer /\ announced

\* Where the uploads of the session go: those done, the one being done, those
\* ordered, and those the user may order.
Lands ==
    /\ LandsWhereShown
    /\ transfer /\ ~announced => told = {}
    /\ transfer /\ announced => path \in told
    /\ transfer => \A i \in 1 .. Len(cmds) :
          cmds[i].do = "upload" /\ ~cmds[i].early => cmds[i].path \in told
    /\ transfer /\ pc = "upload" /\ ~early => at \in told

Inv == Typed /\ InOrder /\ PanelIsListing /\ Lands

\* The directory a command, or what the thread is doing, leads the panel to: a set
\* of at most one path.
Leads(do, p) == IF do \in {"listing", "upload"} THEN {p}
                ELSE IF do = "mkdir" THEN Parent(p) ELSE {}
Ordered(i)   == Leads(cmds[i].do, cmds[i].path)
NoneOrdered  == \A i \in 1 .. Len(cmds) : Ordered(i) = {}
Now          == Leads(pc, at)

\* Where the panel ends up when all that is under way is done: at the last command
\* that leads somewhere, or else at what the thread is doing, at the last event on
\* its way, at the path shown.
LeadsTo(p) ==
    \/ \E i \in 1 .. Len(cmds) :
          Ordered(i) = {p} /\ \A j \in i + 1 .. Len(cmds) : Ordered(j) = {}
    \/ /\ NoneOrdered
       /\ \/ Now = {p}
          \/ Now = {} /\ events # <<>> /\ events[Len(events)].path = p
          \/ Now = {} /\ events = <<>> /\ announced /\ path = p

\* Before the home directory is announced all that is under way leads to it.
AtHome(p) == Running /\ Now \subseteq {p} /\ \A i \in 1 .. Len(events) : events[i].path = p

Waiting == events = <<>> /\ pc \in {"starting", "connecting", "gone"}

Heading ==
    transfer /\ ~failed =>
        /\ \A i \in 1 .. Len(events) : events[i].t # "disconnected"
        /\ \/ \E p : goal = {p} /\ LeadsTo(p)
           \/ /\ goal = {} /\ ~announced /\ NoneOrdered
              /\ Waiting \/ \E p : AtHome(p)


-----------------------------------------------------------------------------
(* Sequences and paths.                                                    *)

LEMMA SeqAppend ==
    ASSUME NEW S, NEW s \in Seq(S), NEW x \in S
    PROVE  /\ Append(s, x) \in Seq(S)
           /\ Len(Append(s, x)) = Len(s) + 1
           /\ Append(s, x)[Len(s) + 1] = x
           /\ \A i \in 1 .. Len(s) : Append(s, x)[i] = s[i]
           /\ Append(s, x) # <<>>
OBVIOUS

LEMMA SeqConcatOne ==
    ASSUME NEW S, NEW s \in Seq(S), NEW x \in S
    PROVE  s \o <<x>> = Append(s, x)
OBVIOUS

LEMMA SeqTail ==
    ASSUME NEW S, NEW s \in Seq(S), s # <<>>
    PROVE  /\ Head(s) \in S /\ Head(s) = s[1]
           /\ Tail(s) \in Seq(S)
           /\ Len(Tail(s)) = Len(s) - 1
           /\ \A i \in 1 .. Len(s) - 1 : Tail(s)[i] = s[i + 1]
           /\ Len(s) \in Nat /\ Len(s) >= 1
OBVIOUS

LEMMA SeqFront ==
    ASSUME NEW S, NEW s \in Seq(S)
    PROVE  SubSeq(s, 1, Len(s) - 1) \in Seq(S)
BY SubSeqProperties, LenProperties

LEMMA One == ASSUME NEW S, NEW x \in S PROVE <<x>> \in Seq(S) /\ Len(<<x>>) = 1
OBVIOUS

LEMMA OneOf == ASSUME NEW S, NEW x, <<x>> \in Seq(S) PROVE x \in S
<1>1. <<x>>[1] = x /\ Len(<<x>>) = 1
  OBVIOUS
<1>2. <<x>>[1] \in S
  BY <1>1
<1>. QED  BY <1>1, <1>2

LEMMA NamedPaths == Named \subseteq Paths /\ Blank \notin Named /\ Blank \in Paths
<1>1. Named \subseteq Paths
  BY SeqMonotonic DEF Named, Paths
<1>2. Blank \notin Named
  BY OneOf, NamesAssumption DEF Blank, Named
<1>3. Blank \in Paths
  BY One DEF Blank, Paths
<1>. QED  BY <1>1, <1>2, <1>3

LEMMA DotNamed == Dot \in Named /\ Home \in Named
<1>1. Dot \in Named
  BY One, NamesAssumption DEF Dot, Named
<1>2. Home \in Named
  BY HomeAssumption, PathsAssumption DEF Named
<1>. QED  BY <1>1, <1>2

LEMMA SubSeqAppend ==
    ASSUME NEW S, NEW s \in Seq(S), NEW x \in S
    PROVE  SubSeq(Append(s, x), 1, Len(Append(s, x)) - 1) = s
<1>. DEFINE q == Append(s, x)
<1>1. /\ Len(s) \in Nat /\ Len(q) = Len(s) + 1
      /\ \A i \in 1 .. Len(s) : q[i] = s[i] /\ s[i] \in S
  BY SeqAppend, ElementOfSeq
<1>. HIDE DEF q
<1>2. \A i \in 1 .. Len(s) : q[i] \in S
  BY <1>1
<1>3. /\ SubSeq(q, 1, Len(s)) \in Seq(S)
      /\ Len(SubSeq(q, 1, Len(s))) = IF 1 <= Len(s) THEN Len(s) - 1 + 1 ELSE 0
      /\ \A i \in 1 .. Len(s) - 1 + 1 : SubSeq(q, 1, Len(s))[i] = q[1 + i - 1]
  <2>1. 1 \in Int /\ Len(s) \in Int
    BY <1>1
  <2>. QED  BY <1>2, <2>1, SubSeqProperties
<1>4. Len(SubSeq(q, 1, Len(s))) = Len(s)
      /\ \A i \in 1 .. Len(s) : SubSeq(q, 1, Len(s))[i] = s[i]
  BY <1>1, <1>3
<1>5. SubSeq(q, 1, Len(s)) = s
  BY <1>3, <1>4, SeqEqual
<1>6. Len(q) - 1 = Len(s)
  BY <1>1
<1>. QED  BY <1>5, <1>6 DEF q

LEMMA FrontAppend ==
    ASSUME NEW p \in Paths, NEW name \in Names
    PROVE  Front(Append(p, name)) = p
<1>1. p \in Seq(Names \cup {""}) /\ name \in Names \cup {""}
  BY DEF Paths
<1>2. SubSeq(Append(p, name), 1, Len(Append(p, name)) - 1) = p
  BY <1>1, SubSeqAppend
<1>. QED  BY <1>2 DEF Front

\* Join, Parent and Resolve give paths of names.
LEMMA PathOperators ==
    ASSUME NEW p \in Shows
    PROVE  /\ \A name \in Names : Join(p, name) \in Named
           /\ Parent(p) \subseteq Named
           /\ p \in Named => Resolve(p) \in Named
           /\ Resolve(Blank) = Blank
<1>1. ASSUME NEW name \in Names PROVE Join(p, name) \in Named
  <2>1. <<name>> \in Named
    BY One DEF Named
  <2>2. p # Blank => Append(p, name) \in Named
    BY SeqAppend DEF Named, Shows
  <2>. QED  BY <2>1, <2>2 DEF Join
<1>2. Parent(p) \subseteq Named
  BY SeqFront DEF Parent, Named, Shows
<1>3. ASSUME p \in Named PROVE Resolve(p) \in Named
  <2>1. ASSUME p # <<>> PROVE Home \o Tail(p) \in Named
    <3>1. Tail(p) \in Named
      BY <1>3, <2>1, SeqTail DEF Named
    <3>. QED  BY <3>1, DotNamed, ConcatProperties DEF Named
  <2>. QED  BY <1>3, <2>1 DEF Resolve
<1>4. Resolve(Blank) = Blank
  <2>1. Head(<<"">>) = ""
    OBVIOUS
  <2>2. "" # "."
    OBVIOUS
  <2>. QED  BY <2>1, <2>2 DEF Resolve, Blank
<1>. QED  BY <1>1, <1>2, <1>3, <1>4

LEMMA ShowsPaths == Shows \subseteq Paths
BY NamedPaths DEF Shows

LEMMA EntriesTyped ==
    ASSUME dirs \subseteq Named, files \subseteq Named, NEW d
    PROVE  EntriesOf(d) \subseteq Entry
<1>. SUFFICES ASSUME NEW q \in dirs \cup files, q # <<>>
              PROVE  [name |-> q[Len(q)], dir |-> q \in dirs] \in Entry
  BY DEF EntriesOf
<1>1. q \in Seq(Names)
  BY DEF Named
<1>2. q[Len(q)] \in Names
  BY <1>1
<1>3. (q \in dirs) \in BOOLEAN
  OBVIOUS
<1>. QED  BY <1>2, <1>3 DEF Entry

-----------------------------------------------------------------------------
(* The channel to the window.                                              *)

\* One more event, from a thread that has not ended, keeps the order.
LEMMA EmitOne ==
    ASSUME Inv, NEW e \in Event, Emit(<<e>>), transfer' = transfer
    PROVE  /\ events' \in Seq(Event)
           /\ ~transfer => events' = <<>>
           /\ transfer => /\ Len(events') = Len(events) + 1
                          /\ events' # <<>>
                          /\ events'[Len(events) + 1] = e
                          /\ \A i \in 1 .. Len(events) : events'[i] = events[i]
<1>1. events \in Seq(Event) /\ (~transfer => events = <<>>)
  BY DEF Inv, Typed, InOrder
<1>2. events \o <<e>> = Append(events, e)
  BY <1>1, SeqConcatOne
<1>3. CASE transfer
  BY <1>1, <1>2, <1>3, SeqAppend DEF Emit
<1>4. CASE ~transfer
  BY <1>1, <1>4 DEF Emit
<1>. QED  BY <1>3, <1>4

\* The command loop is told to stop only by a window that has let go.
LEMMA TakeCommand ==
    ASSUME Inv, cmds # <<>>, cmds' = Tail(cmds)
    PROVE  /\ Head(cmds) \in Command
           /\ Head(cmds) = cmds[1]
           /\ cmds' \in Seq(Command)
           /\ Len(cmds') = Len(cmds) - 1
           /\ \A i \in 1 .. Len(cmds') : cmds'[i] = cmds[i + 1] /\ i + 1 \in 1 .. Len(cmds)
           /\ 1 \in 1 .. Len(cmds)
<1>1. cmds \in Seq(Command)
  BY DEF Inv, Typed
<1>. QED  BY <1>1, SeqTail

-----------------------------------------------------------------------------
(* The steps of the thread.                                                *)

LEMMA StartStep ==
    ASSUME Inv, Start \/ RuntimeFails
    PROVE  Inv'
<1>. USE DEF Start, RuntimeFails, uiVars, chanVars, serverVars, uiGhosts, workGhosts
<1>1. Typed'
  BY DEF Inv, Typed, TypeOK
<1>2. InOrder'
  BY DEF Inv, InOrder, Begun, Running, First
<1>3. PanelIsListing' /\ Lands'
  BY DEF Inv, PanelIsListing, Lands, LandsWhereShown
<1>. QED  BY <1>1, <1>2, <1>3 DEF Inv

LEMMA ConnectStep ==
    ASSUME Inv, Connect
    PROVE  Inv'
<1>. USE DEF uiVars, serverVars, uiGhosts
<1>0. UNCHANGED <<connection, transfer, panel, path, entries, selected, issued, logins, cmds,
                  dirs, files, listed, announced, goal, told, early, landed>>
      /\ pc = "connecting"
  BY DEF Connect
<1>a. transfer => events = <<>> /\ ~announced /\ landed = {}
  BY <1>0 DEF Inv, InOrder, Begun
<1>b. entries = {}
  BY <1>a DEF Inv, InOrder
<1>1. CASE \E home \in {Home, Dot} : /\ pc' = "listing" /\ at' = home /\ failed' = failed
                                     /\ Emit(<<[t |-> "connected", path |-> home]>>)
  <2>1. PICK home \in {Home, Dot} : /\ pc' = "listing" /\ at' = home /\ failed' = failed
                                    /\ Emit(<<[t |-> "connected", path |-> home]>>)
    BY <1>1
  <2>. DEFINE e == [t |-> "connected", path |-> home]
  <2>2. home \in Named /\ home \in Paths /\ home \in Shows /\ e \in Event /\ e.t = "connected"
    BY <2>1, DotNamed, NamedPaths DEF Event, Shows
  <2>. HIDE DEF e
  <2>3. /\ events' \in Seq(Event)
        /\ ~transfer => events' = <<>>
        /\ transfer => Len(events') = 1 /\ events' # <<>> /\ events'[1] = e
    BY <1>0, <1>a, <2>1, <2>2, EmitOne DEF e
  <2>4. Typed'
    <3>1. \A i \in 1 .. Len(events') : events'[i].t \in {"connected", "listing", "disconnected"}
      BY <2>3, ElementOfSeq DEF Event
    <3>. QED  BY <1>0, <2>1, <2>2, <2>3, <3>1 DEF Inv, Typed, TypeOK, CommandKinds
  <2>5. InOrder'
    BY <1>0, <1>a, <1>b, <2>1, <2>2, <2>3 DEF Inv, InOrder, Begun, Running, First
  <2>6. PanelIsListing' /\ Lands'
    BY <1>0, <2>1 DEF Inv, PanelIsListing, Lands, LandsWhereShown
  <2>. QED  BY <2>4, <2>5, <2>6 DEF Inv
<1>2. CASE End /\ failed' = TRUE /\ at' = at
  <2>. DEFINE e == [t |-> "disconnected"]
  <2>1. e \in Event /\ e.t = "disconnected" /\ Emit(<<e>>) /\ pc' = "off"
    BY <1>2 DEF Event, End, Farewell
  <2>. HIDE DEF e
  <2>2. /\ events' \in Seq(Event)
        /\ ~transfer => events' = <<>>
        /\ transfer => Len(events') = 1 /\ events' # <<>> /\ events'[1] = e
    BY <1>0, <1>a, <2>1, EmitOne
  <2>3. Typed'
    <3>1. \A i \in 1 .. Len(events') : events'[i].t \in {"connected", "listing", "disconnected"}
      BY <2>2, ElementOfSeq DEF Event
    <3>. QED  BY <1>0, <1>2, <2>1, <2>2, <3>1 DEF Inv, Typed, TypeOK, CommandKinds
  <2>4. InOrder'
    BY <1>0, <1>a, <1>b, <2>1, <2>2 DEF Inv, InOrder, Begun, Running, First
  <2>5. PanelIsListing' /\ Lands'
    BY <1>0, <1>2, <2>1 DEF Inv, PanelIsListing, Lands, LandsWhereShown
  <2>. QED  BY <2>3, <2>4, <2>5 DEF Inv
<1>. QED  BY <1>1, <1>2 DEF Connect

LEMMA ListStep ==
    ASSUME Inv, List
    PROVE  Inv'
<1>0. UNCHANGED <<connection, transfer, panel, path, entries, selected, issued, logins, cmds, at,
                  dirs, files, listed, announced, goal, told, early, landed>>
      /\ pc = "listing" /\ pc' = "loop" /\ failed' \in BOOLEAN
  BY DEF List, uiVars, serverVars, uiGhosts, Inv, Typed, TypeOK
<1>1. CASE events' = events
  <2>1. Typed'
    BY <1>0, <1>1 DEF Inv, Typed, TypeOK
  <2>2. InOrder'
    BY <1>0, <1>1 DEF Inv, InOrder, Begun, Running, First
  <2>3. PanelIsListing' /\ Lands'
    BY <1>0 DEF Inv, PanelIsListing, Lands, LandsWhereShown
  <2>. QED  BY <2>1, <2>2, <2>3 DEF Inv
<1>2. CASE /\ Resolve(at) \in dirs
           /\ Emit(<<[t |-> "listing", path |-> at, entries |-> EntriesOf(Resolve(at))]>>)
  <2>. DEFINE e == [t |-> "listing", path |-> at, entries |-> EntriesOf(Resolve(at))]
  <2>1. at \in Named
    <3>1. at \in Shows /\ dirs \subseteq Named
      BY DEF Inv, Typed
    <3>. QED  BY <1>2, <3>1, PathOperators, NamedPaths DEF Shows
  <2>2. e \in Event /\ e.t = "listing" /\ e.path = at
    <3>1. EntriesOf(Resolve(at)) \subseteq Entry
      BY EntriesTyped DEF Inv, Typed
    <3>. QED  BY <2>1, <3>1 DEF Event
  <2>. HIDE DEF e
  <2>3. /\ events' \in Seq(Event)
        /\ ~transfer => events' = <<>>
        /\ transfer => /\ Len(events') = Len(events) + 1
                       /\ events' # <<>>
                       /\ events'[Len(events) + 1] = e
                       /\ \A i \in 1 .. Len(events) : events'[i] = events[i]
    BY <1>0, <1>2, <2>2, EmitOne DEF e
  <2>4. events \in Seq(Event) /\ Len(events) \in Nat /\ (events # <<>> => Len(events) >= 1)
    BY SeqTail, LenProperties DEF Inv, Typed
  <2>5. Typed'
    <3>1. \A i \in 1 .. Len(events') : events'[i].t \in {"connected", "listing", "disconnected"}
      BY <2>3, ElementOfSeq DEF Event
    <3>. QED  BY <1>0, <2>3, <3>1 DEF Inv, Typed, TypeOK
  <2>6. InOrder'
    <3>1. CASE ~transfer
      BY <1>0, <2>3, <3>1 DEF Inv, InOrder, Begun, Running, First
    <3>2. CASE transfer /\ events = <<>>
      <4>1. events'[1] = e /\ announced /\ Len(events') = 1
        BY <1>0, <2>3, <3>2 DEF Inv, InOrder, Running, First
      <4>. QED  BY <1>0, <2>2, <2>3, <3>2, <4>1 DEF Inv, InOrder, Begun, Running, First
    <3>3. CASE transfer /\ events # <<>>
      <4>1. events'[1] = events[1] /\ events[1].t # "disconnected"
        BY <1>0, <2>3, <2>4, <3>3 DEF Inv, InOrder, First
      <4>2. \A i \in 2 .. Len(events') : events'[i].t = "listing"
        BY <2>2, <2>3, <2>4, <3>3 DEF Inv, InOrder
      <4>. QED  BY <1>0, <2>3, <3>3, <4>1, <4>2 DEF Inv, InOrder, Begun, Running, First
    <3>. QED  BY <3>1, <3>2, <3>3
  <2>7. PanelIsListing' /\ Lands'
    BY <1>0 DEF Inv, PanelIsListing, Lands, LandsWhereShown
  <2>. QED  BY <2>5, <2>6, <2>7 DEF Inv
<1>. QED  BY <1>0, <1>1, <1>2 DEF List

LEMMA TakeStep ==
    ASSUME Inv, Take
    PROVE  Inv'
<1>. DEFINE c == Head(cmds)
<1>0. UNCHANGED <<connection, transfer, panel, path, entries, selected, issued, logins,
                  dirs, files, listed, announced, goal, told, failed, landed>>
      /\ pc = "loop" /\ cmds # <<>> /\ cmds' = Tail(cmds) /\ at' = c.path /\ early' = c.early
  BY DEF Take, uiVars, serverVars, uiGhosts
<1>1. /\ c \in Command /\ c = cmds[1] /\ 1 \in 1 .. Len(cmds)
      /\ cmds' \in Seq(Command)
      /\ \A i \in 1 .. Len(cmds') : cmds'[i] = cmds[i + 1] /\ i + 1 \in 1 .. Len(cmds)
  BY <1>0, TakeCommand
<1>. HIDE DEF c
<1>2. \/ transfer /\ pc' = c.do /\ events' = events /\ c.do # "disconnect"
      \/ ~transfer /\ pc' \in {c.do, "off"} /\ pc' # "disconnect" /\ events' = events
  <2>1. transfer => c.do # "disconnect"
    BY <1>1 DEF Inv, InOrder
  <2>. QED  BY <1>1, <2>1 DEF Take, Stops, End, Emit, Command, c
<1>3. Typed'
  <2>1. \A i \in 1 .. Len(cmds') : cmds'[i].do \in CommandKinds /\ cmds'[i].path \in Paths
    BY <1>1 DEF Inv, Typed, TypeOK
  <2>3. pc' = "mkdir" => at' \in Named
    BY <1>0, <1>1, <1>2 DEF Command
  <2>2. at' \in Shows /\ at' \in Paths /\ early' \in BOOLEAN
        /\ pc' \in {"off", "gone", "starting", "connecting", "loop"} \cup (CommandKinds \ {"disconnect"})
    BY <1>0, <1>1, <1>2, ShowsPaths DEF Command
  <2>. QED  BY <1>0, <1>1, <1>2, <2>1, <2>2, <2>3 DEF Inv, Typed, TypeOK
<1>4. InOrder'
  <2>1. transfer => \A i \in 1 .. Len(cmds') : cmds'[i].do # "disconnect"
    BY <1>1 DEF Inv, InOrder
  <2>2. ~(~transfer /\ connection)
    BY <1>0 DEF Inv, InOrder
  <2>3. transfer => ~Begun'
    BY <1>1, <1>2 DEF Begun, Command, CommandKinds
  <2>4. First("disconnected") => FALSE
    BY <1>0 DEF Inv, InOrder
  <2>. QED  BY <1>0, <1>2, <2>1, <2>2, <2>3, <2>4 DEF Inv, InOrder, Begun, Running, First
<1>5. PanelIsListing'
  BY <1>0 DEF Inv, PanelIsListing
<1>6. Lands'
  BY <1>0, <1>1, <1>2 DEF Inv, Lands, LandsWhereShown
<1>. QED  BY <1>3, <1>4, <1>5, <1>6 DEF Inv

LEMMA MkdirStep ==
    ASSUME Inv, Mkdir
    PROVE  Inv'
<1>0. UNCHANGED <<connection, transfer, panel, path, entries, selected, issued, logins, cmds, events,
                  files, listed, announced, goal, told, early, landed>>
      /\ pc = "mkdir" /\ pc' \in {"loop", "listing"}
  BY DEF Mkdir, uiVars, chanVars, uiGhosts
<1>1. at \in Named /\ at \in Shows /\ dirs \subseteq Named /\ failed \in BOOLEAN
  BY <1>0 DEF Inv, Typed, TypeOK, Shows
<1>2. at' \in Named /\ failed' \in BOOLEAN /\ dirs' \subseteq Named /\ dirs' \cap files = {}
  <2>1. CASE dirs' = dirs /\ failed' = TRUE /\ at' = at
    BY <1>1, <2>1 DEF Inv, Typed, TypeOK
  <2>2. CASE /\ Resolve(at) \notin dirs \cup files
             /\ dirs' = dirs \cup {Resolve(at)}
             /\ (\E p \in Parent(at) : at' = p) \/ at' = at
             /\ failed' = failed
    <3>1. Resolve(at) \in Named /\ at' \in Named
      BY <1>1, <2>2, PathOperators
    <3>. QED  BY <1>1, <2>2, <3>1 DEF Inv, Typed, TypeOK
  <2>. QED  BY <2>1, <2>2 DEF Mkdir, Relisted
<1>3. Typed'
  <2>1. at' \in Shows /\ at' \in Paths /\ dirs' \subseteq Paths
    BY <1>2, NamedPaths DEF Shows
  <2>. QED  BY <1>0, <1>2, <2>1 DEF Inv, Typed, TypeOK, CommandKinds
<1>4. InOrder'
  BY <1>0 DEF Inv, InOrder, Begun, Running, First
<1>5. PanelIsListing' /\ Lands'
  BY <1>0 DEF Inv, PanelIsListing, Lands, LandsWhereShown
<1>. QED  BY <1>3, <1>4, <1>5 DEF Inv

LEMMA UploadStep ==
    ASSUME Inv, Upload
    PROVE  Inv'
<1>. DEFINE target == Join(at, LocalFile)
<1>0. UNCHANGED <<connection, transfer, panel, path, entries, selected, issued, logins, cmds, events,
                  at, dirs, listed, announced, goal, told, early>>
      /\ pc = "upload" /\ pc' \in {"loop", "listing"}
  BY DEF Upload, uiVars, chanVars, uiGhosts
<1>1. failed' \in BOOLEAN
  BY DEF Upload, Inv, Typed, TypeOK
<1>2. \/ files' = files /\ landed' = landed
      \/ /\ Resolve(target) \notin dirs
         /\ files' = files \cup {Resolve(target)}
         /\ landed' = landed \cup {[path |-> target, early |-> early]}
  BY DEF Upload
<1>3. target \in Named /\ Resolve(target) \in Named
  <2>1. target \in Named
    BY PathOperators, NamesAssumption DEF Inv, Typed
  <2>. QED  BY <2>1, PathOperators DEF Shows
<1>4. Typed'
  <2>1. files' \subseteq Named /\ files' \subseteq Paths /\ dirs' \cap files' = {}
    BY <1>0, <1>2, <1>3, NamedPaths DEF Inv, Typed, TypeOK
  <2>. QED  BY <1>0, <1>1, <2>1 DEF Inv, Typed, TypeOK, CommandKinds
<1>5. InOrder'
  BY <1>0 DEF Inv, InOrder, Begun, Running, First
<1>6. PanelIsListing'
  BY <1>0 DEF Inv, PanelIsListing
<1>7. Lands'
  <2>1. ASSUME transfer, ~early PROVE Front(target) \in told
    <3>1. at \in told /\ at \in Named
      BY <1>0, <2>1 DEF Inv, Lands, Typed
    <3>2. target = Append(at, LocalFile)
      BY <3>1, NamedPaths DEF Join
    <3>. QED  BY <3>1, <3>2, FrontAppend, NamedPaths, NamesAssumption
  <2>2. LandsWhereShown'
    BY <1>0, <1>2, <2>1 DEF Inv, Lands, LandsWhereShown
  <2>. QED  BY <1>0, <2>2 DEF Inv, Lands
<1>. QED  BY <1>4, <1>5, <1>6, <1>7 DEF Inv

LEMMA DownloadStep ==
    ASSUME Inv, Download
    PROVE  Inv'
<1>0. UNCHANGED <<connection, transfer, panel, path, entries, selected, issued, logins, cmds, events,
                  at, dirs, files, listed, announced, goal, told, early, landed>>
      /\ pc = "download" /\ pc' = "loop" /\ failed' \in BOOLEAN
  BY DEF Download, uiVars, chanVars, serverVars, uiGhosts, Inv, Typed, TypeOK
<1>1. Typed'
  BY <1>0 DEF Inv, Typed, TypeOK
<1>2. InOrder'
  BY <1>0 DEF Inv, InOrder, Begun, Running, First
<1>3. PanelIsListing' /\ Lands'
  BY <1>0 DEF Inv, PanelIsListing, Lands, LandsWhereShown
<1>. QED  BY <1>1, <1>2, <1>3 DEF Inv

-----------------------------------------------------------------------------
(* The steps of the window.                                                *)

LEMMA UiEventStep ==
    ASSUME Inv, UiEvent
    PROVE  Inv'
<1>. DEFINE e == Head(events)
<1>0. UNCHANGED <<connection, panel, issued, logins, cmds, pc, at, dirs, files, failed, early, landed>>
      /\ transfer /\ events # <<>> /\ events' = Tail(events)
  BY DEF UiEvent, workerVars, serverVars, workGhosts
<1>1. /\ e \in Event /\ e = events[1]
      /\ events' \in Seq(Event) /\ Len(events') = Len(events) - 1
      /\ \A i \in 1 .. Len(events) - 1 : events'[i] = events[i + 1]
      /\ Len(events) \in Nat /\ Len(events) >= 1
  BY <1>0, SeqTail DEF Inv, Typed
<1>2. \A i \in 1 .. Len(events') : events'[i].t = "listing"
  BY <1>1 DEF Inv, InOrder
<1>3. events' # <<>> => events'[1].t = "listing"
  <2>1. events' # <<>> => Len(events') >= 1
    BY <1>1, EmptySeq
  <2>. QED  BY <1>1, <1>2, <2>1
<1>. HIDE DEF e
<1>4. CASE e.t = "connected"
  <2>1. /\ path' = e.path /\ announced' = TRUE /\ told' = {e.path}
        /\ goal' \in {goal, {e.path}}
        /\ UNCHANGED <<transfer, entries, selected, listed>>
    BY <1>4 DEF UiEvent, PathAfterConnect, e
  <2>2. e.path \in Named
    BY <1>1, <1>4 DEF Event
  <2>3. ~announced /\ entries = {}
    BY <1>0, <1>1, <1>4 DEF Inv, InOrder, First
  <2>4. Typed'
    BY <1>0, <1>1, <1>2, <2>1, <2>2, NamedPaths DEF Inv, Typed, TypeOK, Shows
  <2>5. InOrder'
    BY <1>0, <1>2, <1>3, <2>1, <2>3 DEF Inv, InOrder, Begun, Running, First
  <2>6. PanelIsListing'
    BY <2>1, <2>3 DEF Inv, PanelIsListing
  <2>7. Lands'
    BY <1>0, <2>1, <2>3 DEF Inv, Lands, LandsWhereShown
  <2>. QED  BY <2>4, <2>5, <2>6, <2>7 DEF Inv
<1>5. CASE e.t = "listing"
  <2>1. /\ path' = e.path /\ entries' = e.entries /\ selected' = {}
        /\ listed' = e.path /\ told' = told \cup {e.path}
        /\ UNCHANGED <<transfer, announced, goal>>
    BY <1>5 DEF UiEvent, SelectedAfterListing, e
  <2>2. e.path \in Named /\ e.entries \subseteq Entry
    BY <1>1, <1>5 DEF Event
  <2>3. announced
    BY <1>0, <1>1, <1>5 DEF Inv, InOrder, First
  <2>4. Typed'
    BY <1>0, <1>1, <1>2, <2>1, <2>2, NamedPaths DEF Inv, Typed, TypeOK, Shows, Entry
  <2>5. InOrder'
    BY <1>0, <1>2, <1>3, <2>1, <2>3 DEF Inv, InOrder, Begun, Running, First
  <2>6. PanelIsListing'
    BY <2>1 DEF PanelIsListing
  <2>7. Lands'
    BY <1>0, <2>1, <2>3 DEF Inv, Lands, LandsWhereShown
  <2>. QED  BY <2>4, <2>5, <2>6, <2>7 DEF Inv
<1>6. CASE e.t = "disconnected"
  <2>1. transfer' = FALSE /\ UNCHANGED <<path, entries, selected, listed, announced, goal, told>>
    BY <1>6 DEF UiEvent, uiGhosts, e
  <2>2. pc = "off" /\ Len(events) = 1 /\ entries = {} /\ landed = {}
    BY <1>0, <1>1, <1>6 DEF Inv, InOrder, First
  <2>3. events' = <<>>
    BY <1>1, <2>2, EmptySeq
  <2>4. Typed'
    BY <1>0, <1>1, <1>2, <2>1 DEF Inv, Typed, TypeOK
  <2>5. InOrder'
    <3>1. \A i \in 2 .. Len(events') : events'[i].t = "listing"
      BY <1>2
    <3>2. pc' = "off" /\ entries' = {} /\ landed' = {} /\ events' = <<>> /\ ~transfer'
      BY <1>0, <2>1, <2>2, <2>3
    <3>. QED  BY <3>1, <3>2 DEF InOrder, Begun, Running, First
  <2>6. PanelIsListing' /\ Lands'
    BY <2>1 DEF Inv, PanelIsListing, Lands, LandsWhereShown
  <2>. QED  BY <2>4, <2>5, <2>6 DEF Inv
<1>. QED  BY <1>1, <1>4, <1>5, <1>6 DEF Event

LEMMA LoginStep ==
    ASSUME Inv, Login
    PROVE  Inv'
<1>0. /\ connection /\ ~transfer /\ logins < MaxLogins /\ logins' = logins + 1
      /\ transfer' = TRUE /\ pc' = "starting" /\ cmds' = <<>> /\ events' = <<>>
      /\ announced' = FALSE /\ goal' = {} /\ told' = {} /\ failed' = FALSE /\ early' = FALSE
      /\ UNCHANGED <<connection, panel, path, entries, selected, issued, at, dirs, files, listed, landed>>
  BY DEF Login, Shown, serverVars
<1>1. entries = {} /\ landed = {}
  BY <1>0 DEF Inv, InOrder
<1>2. Typed'
  <2>1. cmds' \in Seq(Command) /\ events' \in Seq(Event) /\ Len(cmds') = 0 /\ Len(events') = 0
    BY <1>0, EmptySeq
  <2>2. logins' \in 0 .. MaxLogins
    BY <1>0, BoundsAssumption DEF Inv, Typed, TypeOK
  <2>3. /\ \A i \in 1 .. Len(cmds') : cmds'[i].do \in CommandKinds /\ cmds'[i].path \in Paths
        /\ \A i \in 1 .. Len(events') : events'[i].t \in {"connected", "listing", "disconnected"}
    BY <2>1
  <2>4. TypeOK'
    BY <1>0, <2>2, <2>3 DEF Inv, Typed, TypeOK
  <2>. QED  BY <1>0, <2>1, <2>4 DEF Inv, Typed
<1>3. InOrder'
  BY <1>0, <1>1, EmptySeq DEF InOrder, Begun, Running, First
<1>4. PanelIsListing' /\ Lands'
  BY <1>0, <1>1, EmptySeq DEF Inv, PanelIsListing, Lands, LandsWhereShown
<1>. QED  BY <1>2, <1>3, <1>4 DEF Inv

\* A command of the user, to or into a path the panel shows.
LEMMA SendStep ==
    ASSUME Inv, NEW what \in CommandKinds, what # "disconnect", NEW p \in Shows, NEW to,
           Send(what, p, to), to \subseteq Shows, what = "mkdir" => p \in Named,
           what = "upload" => p = path,
           UNCHANGED <<path, entries, selected>>, panel' \in BOOLEAN
    PROVE  Inv'
<1>. DEFINE c == [do |-> what, path |-> p, early |-> ~announced]
<1>0. /\ transfer /\ issued < MaxCommands /\ issued' = issued + 1
      /\ cmds' = Append(cmds, c)
      /\ goal' \in {goal, to}
      /\ UNCHANGED <<connection, transfer, logins, events, pc, at, dirs, files, listed, announced, told,
                     failed, early, landed>>
  BY DEF Send, workerVars, serverVars, workGhosts
<1>1. c \in Command
  BY DEF Command, Inv, Typed, TypeOK
<1>. HIDE DEF c
<1>2. /\ cmds' \in Seq(Command) /\ Len(cmds) \in Nat
      /\ Len(cmds') = Len(cmds) + 1 /\ cmds'[Len(cmds) + 1] = c
      /\ \A i \in 1 .. Len(cmds) : cmds'[i] = cmds[i]
  BY <1>0, <1>1, SeqAppend, LenProperties DEF Inv, Typed
<1>3. Typed'
  <2>1. \A i \in 1 .. Len(cmds') : cmds'[i].do \in CommandKinds /\ cmds'[i].path \in Paths
    BY <1>2, ElementOfSeq, ShowsPaths DEF Command
  <2>2. goal' \subseteq Paths /\ issued' \in 0 .. MaxCommands
    BY <1>0, ShowsPaths, BoundsAssumption DEF Inv, Typed, TypeOK
  <2>. QED  BY <1>0, <1>2, <2>1, <2>2 DEF Inv, Typed, TypeOK
<1>4. InOrder'
  <2>1. \A i \in 1 .. Len(cmds') : cmds'[i].do # "disconnect"
    BY <1>0, <1>2 DEF Inv, InOrder, c
  <2>. QED  BY <1>0, <2>1 DEF Inv, InOrder, Begun, Running, First
<1>5. PanelIsListing'
  BY <1>0 DEF Inv, PanelIsListing
<1>6. Lands'
  <2>1. ASSUME NEW i \in 1 .. Len(cmds'), cmds'[i].do = "upload", ~cmds'[i].early
        PROVE  cmds'[i].path \in told
    <3>1. CASE i \in 1 .. Len(cmds)
      BY <1>0, <1>2, <2>1, <3>1 DEF Inv, Lands
    <3>2. CASE i = Len(cmds) + 1
      <4>0. cmds'[i] = c /\ announced \in BOOLEAN
        BY <1>2, <3>2 DEF Inv, Typed, TypeOK
      <4>a. c.do = what /\ c.early = ~announced
        BY Zenon DEF c
      <4>b. ~c.early
        BY <2>1, <4>0, Zenon
      <4>c. announced
        BY <4>a, <4>b, Zenon
      <4>1. what = "upload" /\ p = path /\ announced
        BY <2>1, <4>0, <4>a, <4>c
      <4>. QED  BY <1>0, <1>2, <3>2, <4>1 DEF Inv, Lands, c
    <3>. QED  BY <1>2, <3>1, <3>2
  <2>. QED  BY <1>0, <2>1 DEF Inv, Lands, LandsWhereShown
<1>. QED  BY <1>3, <1>4, <1>5, <1>6 DEF Inv

LEMMA CommandStep ==
    ASSUME Inv, Browse \/ MakeFolder \/ Fetch \/ Store
    PROVE  Inv'
<1>0. path \in Shows /\ panel \in BOOLEAN /\ entries \subseteq Entry /\ selected \subseteq entries
      /\ (\A e \in entries : e.name \in Names)
  BY DEF Inv, Typed, TypeOK, Entry, PanelIsListing
<1>1. ASSUME NEW p \in Shows, Navigate(p), UNCHANGED <<panel, entries, selected>> PROVE Inv'
  BY <1>0, <1>1, SendStep DEF Navigate, PathAfterClick, CommandKinds
<1>2. CASE Browse
  <2>1. Parent(path) \subseteq Shows /\ \A e \in entries : Join(path, e.name) \in Shows
    BY <1>0, PathOperators DEF Shows
  <2>. QED  BY <1>0, <1>1, <1>2, <2>1 DEF Browse
<1>3. CASE MakeFolder
  <2>1. Join(path, NewFolder) \in Named /\ Join(path, NewFolder) \in Shows
    BY <1>0, PathOperators, NamesAssumption DEF Shows
  <2>2. Parent(Join(path, NewFolder)) \subseteq Shows
    BY <2>1, PathOperators DEF Shows
  <2>. QED  BY <1>0, <1>3, <2>1, <2>2, SendStep DEF MakeFolder, CommandKinds
<1>4. CASE Fetch
  <2>1. PICK e \in selected : Send("download", Join(path, e.name), {})
    BY <1>4 DEF Fetch
  <2>2. Join(path, e.name) \in Shows
    BY <1>0, <2>1, PathOperators DEF Shows
  <2>. QED  BY <1>0, <1>4, <2>1, <2>2, SendStep DEF Fetch, CommandKinds
<1>5. CASE Store
  BY <1>0, <1>5, SendStep DEF Store, CommandKinds
<1>. QED  BY <1>2, <1>3, <1>4, <1>5

LEMMA PanelStep ==
    ASSUME Inv, Select \/ TogglePanel \/ VncEnds
    PROVE  Inv'
<1>0. UNCHANGED <<transfer, path, entries, issued, logins, cmds, events, pc, at, dirs, files,
                  listed, announced, goal, told, failed, early, landed>>
      /\ connection' \in {connection, FALSE} /\ panel' \in BOOLEAN
      /\ selected' \subseteq entries
  BY DEF Select, TogglePanel, VncEnds, chanVars, workerVars, serverVars, uiGhosts, workGhosts,
         Inv, Typed, TypeOK, PanelIsListing
<1>1. Typed'
  BY <1>0 DEF Inv, Typed, TypeOK
<1>2. InOrder'
  <2>1. ~transfer' /\ connection' => pc' = "off" /\ landed' = {}
    <3>1. connection' => connection
      BY <1>0 DEF Inv, Typed, TypeOK
    <3>. QED  BY <1>0, <3>1 DEF Inv, InOrder
  <2>2. /\ First("listing")' = First("listing") /\ First("connected")' = First("connected")
        /\ First("disconnected")' = First("disconnected")
        /\ Begun' = Begun /\ Running' = Running
    BY <1>0 DEF First, Begun, Running
  <2>3. /\ transfer' => \A i \in 1 .. Len(cmds') : cmds'[i].do # "disconnect"
        /\ \A i \in 2 .. Len(events') : events'[i].t = "listing"
    BY <1>0 DEF Inv, InOrder
  <2>. QED  BY <1>0, <2>1, <2>2, <2>3 DEF Inv, InOrder
<1>3. PanelIsListing' /\ Lands'
  BY <1>0 DEF Inv, PanelIsListing, Lands, LandsWhereShown
<1>. QED  BY <1>1, <1>2, <1>3 DEF Inv

LEMMA DisconnectStep ==
    ASSUME Inv, Disconnect
    PROVE  Inv'
<1>0. /\ connection' = FALSE /\ transfer' = FALSE /\ panel' = FALSE
      /\ path' = Blank /\ entries' = {} /\ selected' = {} /\ events' = <<>>
      /\ cmds' \in {Parting, cmds}
      /\ UNCHANGED <<issued, logins, pc, at, dirs, files, listed, announced, goal, told,
                     failed, early, landed>>
  BY DEF Disconnect, workerVars, serverVars, uiGhosts, workGhosts
<1>1. cmds' \in Seq(Command)
  <2>1. [do |-> "disconnect", path |-> Blank, early |-> FALSE] \in Command
    BY DEF Command, CommandKinds, Shows
  <2>. QED  BY <1>0, <2>1, SeqAppend DEF Parting, Inv, Typed
<1>2. Typed'
  <2>1. \A i \in 1 .. Len(cmds') : cmds'[i].do \in CommandKinds /\ cmds'[i].path \in Paths
    BY <1>1, ElementOfSeq, ShowsPaths DEF Command
  <2>2. events' \in Seq(Event) /\ Len(events') = 0
    BY <1>0, EmptySeq
  <2>3. path' \in Paths /\ path' \in Shows
    BY <1>0, NamedPaths DEF Shows
  <2>4. \A i \in 1 .. Len(events') : events'[i].t \in {"connected", "listing", "disconnected"}
    BY <2>2
  <2>5. TypeOK'
    BY <1>0, <2>1, <2>3, <2>4 DEF Inv, Typed, TypeOK
  <2>. QED  BY <1>0, <1>1, <2>2, <2>3, <2>5 DEF Inv, Typed
<1>3. InOrder'
  <2>1. Len(events') = 0
    BY <1>0, EmptySeq
  <2>. QED  BY <1>0, <2>1 DEF InOrder, Begun, Running, First
<1>4. PanelIsListing' /\ Lands'
  BY <1>0 DEF PanelIsListing, Lands, LandsWhereShown
<1>. QED  BY <1>2, <1>3, <1>4 DEF Inv

LEMMA InitInv == Init => Inv
<1>. SUFFICES ASSUME Init PROVE Inv
  OBVIOUS
<1>1. Typed
  <2>1. cmds \in Seq(Command) /\ events \in Seq(Event) /\ Len(cmds) = 0 /\ Len(events) = 0
    BY EmptySeq DEF Init
  <2>2. dirs \subseteq Named /\ files \subseteq Named /\ dirs \cap files = {}
    BY PathsAssumption DEF Init, Named
  <2>3. /\ \A i \in 1 .. Len(cmds) : cmds[i].do \in CommandKinds /\ cmds[i].path \in Paths
        /\ \A i \in 1 .. Len(events) : events[i].t \in {"connected", "listing", "disconnected"}
    BY <2>1
  <2>4. Blank \in Paths /\ Blank \in Shows /\ Named \subseteq Paths
    BY NamedPaths DEF Shows
  <2>5. issued \in 0 .. MaxCommands /\ logins \in 0 .. MaxLogins
    BY BoundsAssumption DEF Init
  <2>6. /\ path \in Paths /\ at \in Paths /\ listed \in Paths
        /\ dirs \subseteq Paths /\ files \subseteq Paths /\ dirs \cap files = {}
    BY <2>2, <2>4 DEF Init
  <2>7. TypeOK
    BY <2>3, <2>5, <2>6 DEF Init, TypeOK
  <2>. QED  BY <2>1, <2>2, <2>4, <2>7 DEF Init, Typed
<1>2. InOrder
  BY EmptySeq DEF Init, InOrder, Begun, Running, First
<1>3. PanelIsListing /\ Lands
  BY EmptySeq DEF Init, PanelIsListing, Lands, LandsWhereShown
<1>. QED  BY <1>1, <1>2, <1>3 DEF Inv

-----------------------------------------------------------------------------
(* Where the panel is heading: each step keeps it, or changes the goal too.   *)

LEMMA LeadsOne ==
    \A do, p : Leads(do, p) = {} \/ \E q : Leads(do, p) = {q}
BY DEF Leads, Parent

\* A step that changes nothing of what is under way, or fails.
LEMMA QuietHeading ==
    ASSUME Heading, UNCHANGED <<cmds, events, announced, path, goal>>,
           transfer' => transfer,
           ~failed' => ~failed /\ Now' = Now,
           Waiting => Waiting',
           Running => Running'
    PROVE  Heading'
<1>. SUFFICES ASSUME transfer', ~failed' PROVE Heading'
  BY DEF Heading
<1>1. Now' = Now /\ transfer /\ ~failed
  OBVIOUS
<1>2. NoneOrdered' = NoneOrdered
  BY DEF NoneOrdered, Ordered
<1>3. ASSUME NEW p, LeadsTo(p) PROVE LeadsTo(p)'
  BY <1>1, <1>2, <1>3 DEF LeadsTo, Ordered
<1>4. ASSUME NEW p, AtHome(p) PROVE AtHome(p)'
  BY <1>1, <1>4 DEF AtHome
<1>5. CASE \E p : goal = {p} /\ LeadsTo(p)
  BY <1>1, <1>3, <1>5 DEF Heading
<1>6. CASE /\ goal = {} /\ ~announced /\ NoneOrdered
           /\ Waiting \/ \E p : AtHome(p)
  <2>1. Waiting' \/ (\E p : AtHome(p))'
    BY <1>4, <1>6
  <2>. QED  BY <1>1, <1>2, <1>6, <2>1 DEF Heading
<1>. QED  BY <1>1, <1>5, <1>6 DEF Heading

LEMMA QuietSteps ==
    ASSUME Inv, Heading, \/ Start \/ RuntimeFails \/ Mkdir \/ Upload \/ Download
                         \/ Select \/ TogglePanel \/ VncEnds \/ UNCHANGED vars
    PROVE  Heading'
<1>. USE DEF uiVars, chanVars, workerVars, serverVars, uiGhosts, workGhosts
<1>1. CASE Start \/ RuntimeFails
  BY <1>1, QuietHeading DEF Start, RuntimeFails, Now, Leads, Waiting, Running
<1>2. CASE Mkdir
  <2>1. UNCHANGED <<cmds, events, announced, path, goal, transfer>>
        /\ pc = "mkdir" /\ pc' \in {"loop", "listing"} /\ failed \in BOOLEAN
    BY <1>2 DEF Mkdir, Inv, Typed, TypeOK
  <2>2. ASSUME ~failed' PROVE Now' = Now /\ ~failed
    <3>1. \/ \E p : p \in Parent(at) /\ pc' = "listing" /\ at' = p
          \/ Parent(at) = {} /\ pc' = "loop"
      BY <1>2, <2>2 DEF Mkdir, Relisted
    <3>2. Now = Parent(at) /\ ~failed
      BY <1>2, <2>1, <2>2 DEF Mkdir, Now, Leads
    <3>. QED  BY <3>1, <3>2, LeadsOne DEF Now, Leads, Parent
  <2>. QED  BY <2>1, <2>2, QuietHeading DEF Waiting, Running
<1>3. CASE Upload
  <2>1. UNCHANGED <<cmds, events, announced, path, goal, transfer, at>>
        /\ pc = "upload" /\ pc' \in {"loop", "listing"}
        /\ (failed' \/ (failed' = failed /\ pc' = "listing"))
    BY <1>3 DEF Upload
  <2>. QED  BY <2>1, QuietHeading DEF Waiting, Running, Now, Leads
<1>4. CASE Download
  <2>1. UNCHANGED <<cmds, events, announced, path, goal, transfer>>
        /\ pc = "download" /\ pc' = "loop" /\ (failed' \/ failed' = failed)
    BY <1>4 DEF Download
  <2>. QED  BY <2>1, QuietHeading DEF Waiting, Running, Now, Leads
<1>5. CASE Select \/ TogglePanel \/ VncEnds \/ UNCHANGED vars
  <2>1. UNCHANGED <<cmds, events, announced, path, goal, transfer, pc, at, failed>>
    BY <1>5 DEF Select, TogglePanel, VncEnds, vars
  <2>. QED  BY <2>1, QuietHeading DEF Waiting, Running, Now, Leads
<1>. QED  BY <1>1, <1>2, <1>3, <1>4, <1>5

LEMMA ConnectHeading ==
    ASSUME Inv, Heading, Connect
    PROVE  Heading'
<1>. SUFFICES ASSUME transfer', ~failed' PROVE Heading'
  BY DEF Heading
<1>0. UNCHANGED <<transfer, path, cmds, announced, goal>> /\ pc = "connecting"
  BY DEF Connect, uiVars, uiGhosts
<1>1. PICK home \in {Home, Dot} : /\ pc' = "listing" /\ at' = home /\ failed' = failed
                                  /\ Emit(<<[t |-> "connected", path |-> home]>>)
  BY DEF Connect
<1>. DEFINE e == [t |-> "connected", path |-> home]
<1>2. e \in Event /\ e.t = "connected" /\ e.path = home
  BY DotNamed DEF Event
<1>3. transfer /\ ~failed /\ events = <<>> /\ Len(events) = 0
  BY <1>0, <1>1, EmptySeq DEF Inv, InOrder, Begun
<1>. HIDE DEF e
<1>4. Len(events') = 1 /\ events'[1] = e
  BY <1>0, <1>1, <1>2, <1>3, EmitOne DEF e
<1>5. Now = {} /\ Now' = {home} /\ ~announced
  BY <1>0, <1>1, <1>3 DEF Now, Leads, Inv, InOrder, Begun
<1>6. CASE \E p : goal = {p} /\ LeadsTo(p)
  <2>1. PICK p : goal = {p} /\ LeadsTo(p)
    BY <1>6
  <2>2. LeadsTo(p)'
    BY <1>0, <1>3, <1>5, <2>1 DEF LeadsTo, Ordered
  <2>3. \A i \in 1 .. Len(events') : events'[i].t # "disconnected"
    BY <1>2, <1>4
  <2>. QED  BY <1>0, <2>1, <2>2, <2>3 DEF Heading
<1>7. CASE goal = {} /\ ~announced /\ NoneOrdered
  <2>1. AtHome(home)'
    BY <1>1, <1>2, <1>4, <1>5 DEF AtHome, Running
  <2>. QED  BY <1>0, <1>2, <1>4, <1>7, <2>1 DEF Heading, NoneOrdered, Ordered
<1>. QED  BY <1>3, <1>6, <1>7 DEF Heading

LEMMA ListHeading ==
    ASSUME Inv, Heading, List
    PROVE  Heading'
<1>. SUFFICES ASSUME transfer', ~failed' PROVE Heading'
  BY DEF Heading
<1>. DEFINE e == [t |-> "listing", path |-> at, entries |-> EntriesOf(Resolve(at))]
<1>0. UNCHANGED <<transfer, path, cmds, announced, goal, at>> /\ pc = "listing" /\ pc' = "loop"
      /\ failed' = failed /\ Emit(<<e>>) /\ Resolve(at) \in dirs
  BY DEF List, uiVars, uiGhosts
<1>1. e \in Event /\ e.t = "listing" /\ e.path = at
  <2>1. at \in Named
    <3>1. at \in Shows /\ dirs \subseteq Named
      BY DEF Inv, Typed
    <3>. QED  BY <1>0, <3>1, PathOperators, NamedPaths DEF Shows
  <2>2. EntriesOf(Resolve(at)) \subseteq Entry
    BY EntriesTyped DEF Inv, Typed
  <2>. QED  BY <2>1, <2>2 DEF Event
<1>. HIDE DEF e
<1>2. transfer /\ ~failed
  BY <1>0
<1>3. /\ Len(events') = Len(events) + 1 /\ Len(events) \in Nat
      /\ events' # <<>>
      /\ events'[Len(events) + 1] = e
      /\ \A i \in 1 .. Len(events) : events'[i] = events[i]
  BY <1>0, <1>1, <1>2, EmitOne, LenProperties DEF Inv, Typed
<1>4. Now = {at} /\ Now' = {}
  BY <1>0 DEF Now, Leads
<1>5. \A i \in 1 .. Len(events') : events'[i].t # "disconnected"
  BY <1>1, <1>2, <1>3 DEF Heading
<1>6. CASE \E p : goal = {p} /\ LeadsTo(p)
  <2>1. PICK p : goal = {p} /\ LeadsTo(p)
    BY <1>6
  <2>2. LeadsTo(p)'
    <3>1. CASE \E i \in 1 .. Len(cmds) :
                  Ordered(i) = {p} /\ \A j \in i + 1 .. Len(cmds) : Ordered(j) = {}
      BY <1>0, <3>1 DEF LeadsTo, Ordered
    <3>2. CASE NoneOrdered /\ Now = {p}
      BY <1>0, <1>1, <1>3, <1>4, <3>2 DEF LeadsTo, NoneOrdered, Ordered
    <3>. QED  BY <1>4, <2>1, <3>1, <3>2 DEF LeadsTo
  <2>. QED  BY <1>0, <1>5, <2>1, <2>2 DEF Heading
<1>7. CASE goal = {} /\ ~announced /\ NoneOrdered /\ \E p : AtHome(p)
  <2>1. AtHome(at)'
    BY <1>0, <1>1, <1>3, <1>4, <1>7 DEF AtHome, Running
  <2>. QED  BY <1>0, <1>5, <1>7, <2>1 DEF Heading, NoneOrdered, Ordered
<1>. QED  BY <1>0, <1>2, <1>6, <1>7 DEF Heading, Waiting

LEMMA TakeHeading ==
    ASSUME Inv, Heading, Take
    PROVE  Heading'
<1>. SUFFICES ASSUME transfer', ~failed' PROVE Heading'
  BY DEF Heading
<1>. DEFINE c == Head(cmds)
<1>0. /\ UNCHANGED <<transfer, path, announced, goal, failed>>
      /\ pc = "loop" /\ cmds # <<>> /\ cmds' = Tail(cmds) /\ at' = c.path
      /\ IF Stops(c) THEN End ELSE pc' = c.do /\ UNCHANGED events
  BY DEF Take, uiVars, uiGhosts
<1>1. /\ c \in Command /\ c = cmds[1]
      /\ Len(cmds') = Len(cmds) - 1 /\ Len(cmds) \in Nat
      /\ \A i \in 1 .. Len(cmds') : cmds'[i] = cmds[i + 1] /\ i + 1 \in 1 .. Len(cmds)
      /\ 1 \in 1 .. Len(cmds)
  BY <1>0, TakeCommand, LenProperties DEF Inv, Typed
<1>2. transfer /\ ~failed /\ c.do # "disconnect"
  BY <1>0, <1>1 DEF Inv, InOrder
<1>3. pc' = c.do /\ events' = events
  BY <1>0, <1>2 DEF Stops
<1>4. /\ Now = {} /\ Now' = Ordered(1) /\ Running'
      /\ \A i \in 1 .. Len(cmds') : Ordered(i)' = Ordered(i + 1)
  BY <1>0, <1>1, <1>2, <1>3 DEF Now, Leads, Ordered, Running, Command, CommandKinds
<1>5. CASE \E p : goal = {p} /\ LeadsTo(p)
  <2>1. PICK p : goal = {p} /\ LeadsTo(p)
    BY <1>5
  <2>2. ASSUME NEW i \in 1 .. Len(cmds), Ordered(i) = {p},
               \A j \in i + 1 .. Len(cmds) : Ordered(j) = {}
        PROVE  LeadsTo(p)'
    <3>1. CASE i = 1
      BY <1>1, <1>4, <2>2, <3>1 DEF LeadsTo, NoneOrdered
    <3>2. CASE i # 1
      <4>. DEFINE k == i - 1
      <4>1. k \in 1 .. Len(cmds') /\ k + 1 = i
        BY <1>1, <3>2
      <4>a. Ordered(k)' = Ordered(k + 1)
        BY <1>4, <4>1
      <4>b. \A j \in k + 1 .. Len(cmds') : j + 1 \in i + 1 .. Len(cmds) /\ j \in 1 .. Len(cmds')
        BY <1>1, <4>1
      <4>c. \A j \in k + 1 .. Len(cmds') : Ordered(j)' = Ordered(j + 1)
        BY <1>4, <4>b
      <4>d. \A j \in k + 1 .. Len(cmds') : Ordered(j)' = {}
        BY <2>2, <4>b, <4>c
      <4>2. Ordered(k)' = {p} /\ \A j \in k + 1 .. Len(cmds') : Ordered(j)' = {}
        BY <2>2, <4>1, <4>a, <4>d
      <4>. QED  BY <4>1, <4>2 DEF LeadsTo
    <3>. QED  BY <3>1, <3>2
  <2>3. ASSUME NoneOrdered PROVE NoneOrdered' /\ Now' = {}
    BY <1>1, <1>4, <2>3 DEF NoneOrdered
  <2>4. LeadsTo(p)'
    BY <1>0, <1>3, <1>4, <2>1, <2>2, <2>3 DEF LeadsTo
  <2>. QED  BY <1>0, <1>2, <1>3, <2>1, <2>4 DEF Heading
<1>6. CASE goal = {} /\ ~announced /\ NoneOrdered /\ \E p : AtHome(p)
  <2>1. NoneOrdered' /\ Now' = {}
    BY <1>1, <1>4, <1>6 DEF NoneOrdered
  <2>2. \E p : AtHome(p)'
    BY <1>3, <1>4, <1>6, <2>1 DEF AtHome
  <2>. QED  BY <1>0, <1>2, <1>3, <1>6, <2>1, <2>2 DEF Heading
<1>. QED  BY <1>0, <1>2, <1>5, <1>6 DEF Heading, Waiting

LEMMA UiEventHeading ==
    ASSUME Inv, Heading, UiEvent
    PROVE  Heading'
<1>. SUFFICES ASSUME transfer', ~failed' PROVE Heading'
  BY DEF Heading
<1>. DEFINE e == Head(events)
<1>0. UNCHANGED <<cmds, pc, at, failed>> /\ transfer /\ events # <<>> /\ events' = Tail(events)
  BY DEF UiEvent, workerVars, workGhosts
<1>1. /\ e = events[1]
      /\ Len(events') = Len(events) - 1 /\ Len(events) \in Nat /\ Len(events) >= 1
      /\ \A i \in 1 .. Len(events) - 1 : events'[i] = events[i + 1]
      /\ (events' = <<>> <=> Len(events) = 1)
  <2>1. events \in Seq(Event)
    BY DEF Inv, Typed
  <2>2. /\ e = events[1] /\ events' \in Seq(Event)
        /\ Len(events') = Len(events) - 1 /\ Len(events) \in Nat /\ Len(events) >= 1
        /\ \A i \in 1 .. Len(events) - 1 : events'[i] = events[i + 1]
    BY <1>0, <2>1, SeqTail
  <2>3. events' = <<>> <=> Len(events') = 0
    BY <2>2, EmptySeq
  <2>. QED  BY <2>2, <2>3
<1>. HIDE DEF e
<1>2. /\ path' = e.path
      /\ \/ e.t = "connected" /\ announced' /\ goal' = IF goal = {} THEN {e.path} ELSE goal
         \/ e.t = "listing" /\ announced' = announced /\ goal' = goal
  BY DEF UiEvent, PathAfterConnect, e
<1>3. /\ ~failed
      /\ NoneOrdered' = NoneOrdered /\ Now' = Now
      /\ \A i \in 1 .. Len(cmds') : Ordered(i)' = Ordered(i)
  BY <1>0 DEF NoneOrdered, Ordered, Now
<1>4. \A i \in 1 .. Len(events') : events'[i].t # "disconnected"
  BY <1>0, <1>1, <1>3 DEF Heading
<1>5. announced'
  BY <1>0, <1>1, <1>2 DEF Inv, InOrder, First
<1>6. CASE \E p : goal = {p} /\ LeadsTo(p)
  <2>1. PICK p : goal = {p} /\ LeadsTo(p)
    BY <1>6
  <2>2. goal' = {p}
    BY <1>2, <2>1
  <2>3. LeadsTo(p)'
    <3>1. CASE \E i \in 1 .. Len(cmds) :
                  Ordered(i) = {p} /\ \A j \in i + 1 .. Len(cmds) : Ordered(j) = {}
      BY <1>0, <1>3, <3>1 DEF LeadsTo
    <3>2. CASE NoneOrdered /\ Now = {p}
      BY <1>3, <3>2 DEF LeadsTo
    <3>3. CASE NoneOrdered /\ Now = {} /\ events[Len(events)].path = p
      <4>1. CASE Len(events) = 1
        BY <1>1, <1>2, <1>3, <1>5, <3>3, <4>1 DEF LeadsTo
      <4>2. CASE Len(events) # 1
        <5>1. events'[Len(events')] = events[Len(events)]
          BY <1>1, <4>2
        <5>. QED  BY <1>1, <1>3, <3>3, <4>2, <5>1 DEF LeadsTo
      <4>. QED  BY <4>1, <4>2
    <3>. QED  BY <1>0, <2>1, <3>1, <3>2, <3>3 DEF LeadsTo
  <2>. QED  BY <1>4, <2>2, <2>3 DEF Heading
<1>7. CASE goal = {} /\ ~announced /\ NoneOrdered /\ \E p : AtHome(p)
  <2>1. PICK p : AtHome(p)
    BY <1>7
  <2>a. e.path = p
    BY <1>1, <2>1 DEF AtHome
  <2>b. e.t = "connected"
    BY <1>2, <1>5, <1>7
  <2>2. e.t = "connected" /\ e.path = p /\ goal' = {p}
    BY <1>2, <1>7, <2>a, <2>b
  <2>3. events' # <<>> => events'[Len(events')].path = p
    BY <1>1, <2>1 DEF AtHome
  <2>4. LeadsTo(p)'
    BY <1>2, <1>3, <1>5, <1>7, <2>1, <2>2, <2>3, LeadsOne DEF LeadsTo, AtHome
  <2>. QED  BY <1>4, <2>2, <2>4 DEF Heading
<1>. QED  BY <1>0, <1>3, <1>6, <1>7 DEF Heading, Waiting

LEMMA LoginHeading ==
    ASSUME Login
    PROVE  Heading'
<1>1. /\ pc' = "starting" /\ Len(cmds') = 0 /\ Len(events') = 0
      /\ announced' = FALSE /\ goal' = {}
  BY EmptySeq DEF Login
<1>. QED  BY <1>1 DEF Heading, NoneOrdered, Waiting

LEMMA SendHeading ==
    ASSUME Inv, Heading, NEW what, NEW p, NEW to, Send(what, p, to), to = Leads(what, p),
           what \in CommandKinds, p \in Shows, what = "mkdir" => p \in Named, path' = path
    PROVE  Heading'
<1>. SUFFICES ASSUME transfer', ~failed' PROVE Heading'
  BY DEF Heading
<1>. DEFINE c == [do |-> what, path |-> p, early |-> ~announced]
<1>0. /\ transfer /\ cmds' = Append(cmds, c) /\ ~failed
      /\ goal' = IF to = {} THEN goal ELSE to
      /\ UNCHANGED <<transfer, events, pc, at, announced, failed>>
  BY DEF Send, workerVars, workGhosts
<1>1. c \in Command /\ c.do = what /\ c.path = p
  BY DEF Command, Inv, Typed, TypeOK
<1>. HIDE DEF c
<1>2. /\ Len(cmds) \in Nat
      /\ Len(cmds') = Len(cmds) + 1 /\ cmds'[Len(cmds) + 1] = c
      /\ \A i \in 1 .. Len(cmds) : cmds'[i] = cmds[i]
  BY <1>0, <1>1, SeqAppend, LenProperties DEF Inv, Typed
<1>3. /\ \A i \in 1 .. Len(cmds) : Ordered(i)' = Ordered(i)
      /\ \A n : n = Len(cmds) + 1 => Ordered(n)' = to
      /\ Now' = Now /\ Running' = Running /\ Waiting' = Waiting
  BY <1>0, <1>1, <1>2 DEF Ordered, Now, Running, Waiting
<1>4. CASE to # {}
  <2>1. PICK q : to = {q}
    BY <1>4, LeadsOne
  <2>2. LeadsTo(q)'
    <3>1. /\ Len(cmds) + 1 \in 1 .. Len(cmds')
          /\ \A j \in Len(cmds) + 1 + 1 .. Len(cmds') : Ordered(j)' = {}
      BY <1>2
    <3>. QED  BY <1>3, <2>1, <3>1 DEF LeadsTo
  <2>. QED  BY <1>0, <2>1, <2>2 DEF Heading
<1>5. CASE to = {}
  <2>1. NoneOrdered => NoneOrdered'
    BY <1>2, <1>3, <1>5 DEF NoneOrdered
  <2>2. ASSUME NEW q, LeadsTo(q) PROVE LeadsTo(q)'
    <3>1. ASSUME NEW i \in 1 .. Len(cmds), Ordered(i) = {q},
                 \A j \in i + 1 .. Len(cmds) : Ordered(j) = {}
          PROVE  LeadsTo(q)'
      <4>1. i \in 1 .. Len(cmds') /\ Ordered(i)' = {q}
            /\ \A j \in i + 1 .. Len(cmds') : Ordered(j)' = {}
        BY <1>2, <1>3, <1>5, <3>1
      <4>. QED  BY <4>1 DEF LeadsTo
    <3>2. CASE NoneOrdered
      BY <1>0, <1>3, <2>1, <2>2, <3>2, <3>1 DEF LeadsTo
    <3>. QED  BY <2>2, <3>1, <3>2 DEF LeadsTo
  <2>3. ASSUME NEW q, AtHome(q) PROVE AtHome(q)'
    BY <1>0, <1>3, <2>3 DEF AtHome
  <2>. QED  BY <1>0, <1>3, <1>5, <2>1, <2>2, <2>3 DEF Heading
<1>. QED  BY <1>4, <1>5

LEMMA CommandHeading ==
    ASSUME Inv, Heading, Browse \/ MakeFolder \/ Fetch \/ Store
    PROVE  Heading'
<1>0. path \in Shows /\ selected \subseteq entries /\ \A e \in entries : e.name \in Names
  BY DEF Inv, Typed, TypeOK, PanelIsListing
<1>1. CASE Browse
  <2>1. PICK p : Navigate(p) /\ p \in Parent(path) \cup {path} \cup {Join(path, e.name) : e \in entries}
    BY <1>1 DEF Browse
  <2>2. p \in Shows
    BY <1>0, <2>1, PathOperators DEF Shows
  <2>. QED  BY <2>1, <2>2, SendHeading DEF Navigate, PathAfterClick, Leads, CommandKinds
<1>2. CASE MakeFolder
  <2>1. Join(path, NewFolder) \in Named /\ Join(path, NewFolder) \in Shows
    BY <1>0, PathOperators, NamesAssumption DEF Shows
  <2>. QED  BY <1>2, <2>1, SendHeading DEF MakeFolder, Leads, CommandKinds
<1>3. CASE Fetch
  <2>1. PICK e \in selected : Send("download", Join(path, e.name), {})
    BY <1>3 DEF Fetch
  <2>2. Join(path, e.name) \in Shows
    BY <1>0, <2>1, PathOperators DEF Shows
  <2>. QED  BY <1>3, <2>1, <2>2, SendHeading DEF Fetch, Leads, CommandKinds
<1>4. CASE Store
  BY <1>0, <1>4, SendHeading DEF Store, Leads, CommandKinds
<1>. QED  BY <1>1, <1>2, <1>3, <1>4

LEMMA DisconnectHeading == Disconnect => Heading'
BY DEF Disconnect, Heading

-----------------------------------------------------------------------------
(* The theorems.                                                           *)

\* Inv is inductive.
THEOREM Invariance == Spec => []Inv
<1>1. ASSUME Inv, [Next]_vars PROVE Inv'
  <2>1. CASE Worker \/ RuntimeFails
    BY <1>1, <2>1, StartStep, ConnectStep, ListStep, TakeStep, MkdirStep, UploadStep, DownloadStep
       DEF Worker
  <2>2. CASE UiEvent
    BY <1>1, <2>2, UiEventStep
  <2>3. CASE User
    BY <1>1, <2>3, LoginStep, CommandStep, PanelStep, DisconnectStep DEF User
  <2>4. CASE UNCHANGED vars
    <3>. USE DEF vars, uiVars, chanVars, workerVars, serverVars, uiGhosts, workGhosts
    <3>1. Typed'
      BY <1>1, <2>4 DEF Inv, Typed, TypeOK
    <3>2. InOrder'
      BY <1>1, <2>4 DEF Inv, InOrder, Begun, Running, First
    <3>3. PanelIsListing' /\ Lands'
      BY <1>1, <2>4 DEF Inv, PanelIsListing, Lands, LandsWhereShown
    <3>. QED  BY <3>1, <3>2, <3>3 DEF Inv
  <2>. QED  BY <1>1, <2>1, <2>2, <2>3, <2>4 DEF Next
<1>. QED  BY <1>1, InitInv, PTL DEF Spec

\* Every variable keeps its type; no remote file gets the path of a directory.
THEOREM TypeCorrect == Spec => []TypeOK
<1>1. Inv => TypeOK
  BY DEF Inv, Typed
<1>. QED  BY <1>1, Invariance, PTL

\* Whatever listings are on their way and however many sessions were tried, the
\* panel lists what was read from the path it shows (app.rs:322-345).
THEOREM PanelAlways == Spec => []PanelIsListing
BY Invariance, PTL DEF Inv

\* Every upload ordered after the home directory is known lands in a directory the
\* server has told the panel of (app.rs:1103-1120, transfer.rs:185-194).
THEOREM LandsAlways == Spec => []LandsWhereShown
<1>1. Inv => LandsWhereShown
  BY DEF Inv, Lands
<1>. QED  BY <1>1, Invariance, PTL

\* Heading is an invariant, next to Inv.
THEOREM HeadingAlways == Spec => []Heading
<1>1. Init => Heading
  BY DEF Init, Heading
<1>2. ASSUME Inv, Heading, [Next]_vars PROVE Heading'
  BY <1>2, QuietSteps, ConnectHeading, ListHeading, TakeHeading, UiEventHeading, LoginHeading,
     CommandHeading, DisconnectHeading DEF Next, Worker, User
<1>. QED  BY <1>1, <1>2, Invariance, PTL DEF Spec

\* However the listings of uploads, new folders and clicks overlap, a panel with
\* nothing under way and no failure shows the directory the last command leads to
\* (transfer.rs:165-200, app.rs:322-345).
THEOREM FollowsAlways == Spec => []FollowsTheUser
<1>1. Inv /\ Heading => FollowsTheUser
  <2>. SUFFICES ASSUME Inv, Heading, transfer, announced, pc = "loop", cmds = <<>>, events = <<>>,
                       ~failed
                PROVE  goal = {path}
    BY DEF FollowsTheUser
  <2>1. Now = {} /\ Len(cmds) = 0
    BY EmptySeq DEF Now, Leads
  <2>2. PICK p : goal = {p} /\ LeadsTo(p)
    BY DEF Heading
  <2>. QED  BY <2>1, <2>2 DEF LeadsTo
<1>. QED  BY <1>1, Invariance, HeadingAlways, PTL
=============================================================================

-------------------------- MODULE SessionStore_proofs --------------------------
(***************************************************************************)
(* Whatever windows do and in whatever order: a password moves from one    *)
(* server to another only by a form, lists keep their bound, and what was  *)
(* connected to is found again unless one of the causes named in           *)
(* SessionStore has put it among the lost.                                 *)
(***************************************************************************)
EXTENDS SessionStore, SequenceTheorems, WellFoundedInduction, TLAPS

-----------------------------------------------------------------------------
(* The inductive invariant.  PasswordMovedByFormOnly says nothing of command *)
(* lines, from which a connection gets its password, and a password may    *)
(* only be entered where there is a connection to enter it for.            *)

\* Every command line that gives a password gives it for its own server.
ArgsSound ==
    /\ args \in [Windows -> Args]
    /\ \A w \in Windows :
          args[w].kind = "host" => args[w].password \in For(args[w].host, args[w].port)

\* Every connection is to a server, with a password that server has.
ConnSound(moves) == {c \in Conn : c.password \in Owned(c.host, c.port, moves)}

CurrentSound ==
    /\ current \in [Windows -> ConnSound(carried) \cup {NoConn}]
    /\ \A w \in Windows : pc[w] \in InSession => current[w] # NoConn

\* Every list is of sessions whose password their server has.
ListsSound ==
    /\ sessions \in [Windows -> Seq(Sound(carried))]
    /\ primary.list \in Seq(Sound(carried))
    /\ legacy.list \in Seq(Sound(carried))

\* What the form speaks of.
FormTyped ==
    /\ editing \in [Windows -> Nat]
    /\ form \in [Windows -> Password \cup {NoPw}]
    /\ carried \subseteq Move

SoundInv ==
    /\ pc \in [Windows -> {"closed", "resolve", "start"} \cup Open]
    /\ ArgsSound
    /\ CurrentSound
    /\ ListsSound
    /\ FormTyped

\* What is sound stays so when more passwords have moved.
LEMMA Monotone ==
    ASSUME NEW moves, NEW more, moves \subseteq more
    PROVE  /\ Sound(moves) \subseteq Sound(more)
           /\ Seq(Sound(moves)) \subseteq Seq(Sound(more))
           /\ ConnSound(moves) \subseteq ConnSound(more)
<1>1. \A h, p : Owned(h, p, moves) \subseteq Owned(h, p, more)
  BY DEF Owned
<1>2. Sound(moves) \subseteq Sound(more) /\ ConnSound(moves) \subseteq ConnSound(more)
  BY <1>1 DEF Sound, ConnSound
<1>. QED  BY <1>2

\* Sound lists are lists of sessions.
LEMMA SoundIsSession ==
    ASSUME NEW moves
    PROVE  Sound(moves) \subseteq Session /\ Seq(Sound(moves)) \subseteq Seq(Session)
BY DEF Sound

-----------------------------------------------------------------------------
(* Lookups.                                                                *)

\* A set of indices has a least one.
LEMMA LeastIndex ==
    ASSUME NEW found \in SUBSET Nat, found # {}
    PROVE  \E i \in found : \A j \in found : i <= j
<1>. DEFINE LessThan == OpToRel(<, Nat)
<1>1. LessThan = {z \in Nat \X Nat : z[1] < z[2]}
  BY DEF OpToRel
<1>2. IsWellFoundedOn(LessThan, Nat)
  BY NatLessThanWellFounded, Zenon DEF LessThan
<1>. HIDE DEF LessThan
<1>3. PICK i \in found : \A j \in found : ~ (<<j, i>> \in LessThan)
  BY <1>2, WFMin
<1>4. \A j \in found : i <= j
  <2>1. SUFFICES ASSUME NEW j \in found, ~ (i <= j) PROVE FALSE
    OBVIOUS
  <2>2. <<j, i>> \in LessThan
    BY <1>1, <2>1
  <2>. QED  BY <2>2, <1>3
<1>. QED  BY <1>4

\* First returns one of the indices it is given, or 0.
LEMMA FirstIsFound ==
    ASSUME NEW found \in SUBSET Nat
    PROVE  First(found) \in found \cup {0} /\ (found = {} => First(found) = 0)
BY LeastIndex DEF First

\* What a lookup finds is an index of the list, or 0; ByServer finds a session
\* of that very server.
LEMMA Lookups ==
    ASSUME NEW list \in Seq(Session), NEW h, NEW p, NEW key
    PROVE  /\ ByKey(list, key) \in DOMAIN list \cup {0}
           /\ ByHost(list, h) \in DOMAIN list \cup {0}
           /\ ByServer(list, h, p) \in DOMAIN list \cup {0}
           /\ ByServer(list, h, p) # 0 => ServerOf(list[ByServer(list, h, p)]) = <<h, p>>
<1>1. DOMAIN list \subseteq Nat /\ 0 \notin DOMAIN list
  OBVIOUS
<1>. QED  BY <1>1, FirstIsFound DEF ByKey, ByHost, ByServer

-----------------------------------------------------------------------------
(* The parts of a step.                                                    *)

\* The file `load` reads is a list of sound sessions.
LEMMA LoadSound ==
    ASSUME ListsSound
    PROVE  Load \in Seq(Sound(carried))
<1>1. <<>> \in Seq(Sound(carried))
  OBVIOUS
<1>. QED  BY <1>1 DEF ListsSound, Load

\* Removing a session leaves a list of sound sessions.
LEMMA RemovedSound ==
    ASSUME NEW moves, NEW list \in Seq(Sound(moves)), NEW i \in DOMAIN list
    PROVE  Removed(list, i) \in Seq(Sound(moves))
<1>1. SubSeq(list, 1, i - 1) \in Seq(Sound(moves))
  BY SubSeqProperties
<1>2. SubSeq(list, i + 1, Len(list)) \in Seq(Sound(moves))
  BY SubSeqProperties
<1>. QED  BY <1>1, <1>2, ConcatProperties DEF Removed

\* The connection a sound command line resolves to is sound.
LEMMA ResolvedSound ==
    ASSUME NEW a \in Args, a.kind = "host" => a.password \in For(a.host, a.port),
           NEW moves, NEW list \in Seq(Sound(moves))
    PROVE  Resolved(a, list) \in ConnSound(moves) \cup {NoConn}
<1>1. CASE a.kind = "none"
  BY <1>1 DEF Resolved
<1>2. CASE a.kind = "session"
  <2>. DEFINE i == ByKey(list, a.key)
  <2>1. CASE i = 0
    BY <1>2, <2>1 DEF Resolved
  <2>2. CASE i # 0
    <3>1. list[i] \in Sound(moves)
      BY <2>2, Lookups, SoundIsSession
    <3>2. Resolved(a, list) = [host |-> list[i].host, port |-> list[i].port,
                               password |-> list[i].password]
      BY <1>2, <2>2 DEF Resolved
    <3>. QED  BY <3>1, <3>2 DEF Sound, Session, ConnSound, Conn
  <2>. QED  BY <2>1, <2>2
<1>3. CASE a.kind = "host"
  <2>. DEFINE i == ByServer(list, a.host, a.port)
  <2>0. a.host \in Hosts /\ a.port \in Ports /\ a.password \in Password \cup {NoPw}
    BY <1>3 DEF Args
  <2>1. CASE a.password # NoPw \/ i = 0
    <3>1. Resolved(a, list) = [host |-> a.host, port |-> a.port, password |-> a.password]
      BY <1>3, <2>1 DEF Resolved
    <3>. QED  BY <1>3, <2>0, <3>1 DEF ConnSound, Conn, Owned
  <2>2. CASE a.password = NoPw /\ i # 0
    <3>1. list[i] \in Sound(moves) /\ ServerOf(list[i]) = <<a.host, a.port>>
      BY <2>2, Lookups, SoundIsSession
    <3>2. Resolved(a, list) = [host |-> a.host, port |-> a.port, password |-> list[i].password]
      BY <1>3, <2>2 DEF Resolved
    <3>. QED  BY <2>0, <3>1, <3>2 DEF Sound, Session, ConnSound, Conn, ServerOf
  <2>. QED  BY <2>1, <2>2
<1>. QED  BY <1>1, <1>2, <1>3 DEF Args

\* What remember_session makes of a sound list and a sound connection is sound.
LEMMA RememberedSound ==
    ASSUME NEW moves, NEW list \in Seq(Sound(moves)), NEW c \in ConnSound(moves)
    PROVE  Remembered(list, c) \in Seq(Sound(moves))
<1>. DEFINE i == ByServer(list, c.host, c.port)
            s == [name |-> NoName, host |-> c.host, port |-> c.port,
                  password |-> c.password, user |-> NoUser]
<1>1. CASE i = 0
  <2>1. s \in Sound(moves)
    BY NoNameAssumption DEF Sound, Owned, For, Session, ConnSound, Conn
  <2>2. Remembered(list, c) = Append(list, s)
    BY <1>1 DEF Remembered
  <2>. QED  BY <2>1, <2>2
<1>2. CASE i # 0 /\ c.password # NoPw
  <2>1. i \in DOMAIN list /\ ServerOf(list[i]) = <<c.host, c.port>>
    BY <1>2, Lookups, SoundIsSession
  <2>2. [list[i] EXCEPT !.password = c.password] \in Sound(moves)
    BY <2>1 DEF Sound, Session, ConnSound, Conn, ServerOf
  <2>3. Remembered(list, c) = [list EXCEPT ![i].password = c.password]
    BY <1>2 DEF Remembered
  <2>. QED  BY <2>1, <2>2, <2>3
<1>3. CASE i # 0 /\ c.password = NoPw
  BY <1>3 DEF Remembered
<1>. QED  BY <1>1, <1>2, <1>3

\* Writing sound lists to the files, torn or whole, leaves them sound.
LEMMA WriteSound ==
    ASSUME NEW moves, primary.list \in Seq(Sound(moves)), legacy.list \in Seq(Sound(moves)),
           NEW contents, Write(contents), \A f \in contents : f.list \in Seq(Sound(moves))
    PROVE  primary'.list \in Seq(Sound(moves)) /\ legacy'.list \in Seq(Sound(moves))
BY DEF Write

\* A save begun with a sound list.
LEMMA BeginSaveSound ==
    ASSUME NEW moves, sessions \in [Windows -> Seq(Sound(moves))],
           primary.list \in Seq(Sound(moves)), legacy.list \in Seq(Sound(moves)),
           NEW w \in Windows, NEW list \in Seq(Sound(moves)), BeginSave(w, list)
    PROVE  /\ sessions' \in [Windows -> Seq(Sound(moves))]
           /\ primary'.list \in Seq(Sound(moves)) /\ legacy'.list \in Seq(Sound(moves))
<1>1. Torn.list \in Seq(Sound(moves))
  <2>1. Torn.list = <<>>
    BY DEF Torn
  <2>. QED  BY <2>1
<1>2. primary'.list \in Seq(Sound(moves)) /\ legacy'.list \in Seq(Sound(moves))
  BY <1>1, WriteSound, Write({Torn}) DEF BeginSave
<1>3. sessions' \in [Windows -> Seq(Sound(moves))]
  BY DEF BeginSave
<1>. QED  BY <1>2, <1>3

-----------------------------------------------------------------------------
(* Every action keeps the invariant.                                       *)

\* The actions that touch no list: a window starts, asks, waits or ends.
LEMMA LifeStep ==
    ASSUME SoundInv, NEW w \in Windows, NEW v \in Windows,
           \/ Launch(w) \/ OpenSession(w, v) \/ OpenHost(w, v) \/ Resolve(w)
           \/ NeedPassword(w) \/ EnterPassword(w) \/ Disconnected(w)
           \/ Close(w) \/ Kill(w) \/ NewForm(w) \/ Select(w)
    PROVE  SoundInv'
<1>. USE DEF SoundInv
<1>0. /\ pc \in [Windows -> {"closed", "resolve", "start"} \cup Open]
      /\ ArgsSound /\ CurrentSound /\ ListsSound /\ FormTyped
  OBVIOUS
<1>1. ASSUME NEW x \in Windows, NEW a \in Args, Spawn(x, a),
             a.kind = "host" => a.password \in For(a.host, a.port)
      PROVE  SoundInv'
  <2>1. pc' \in [Windows -> {"closed", "resolve", "start"} \cup Open]
    BY <1>0, <1>1 DEF Spawn
  <2>2. ArgsSound'
    BY <1>0, <1>1 DEF Spawn, ArgsSound, For, Args, Password, NoPw
  <2>3. CurrentSound'
    BY <1>0, <1>1 DEF Spawn, CurrentSound, InSession, Open, ghostVars
  <2>4. ListsSound' /\ FormTyped'
    BY <1>0, <1>1 DEF Spawn, ListsSound, FormTyped, ghostVars
  <2>. QED  BY <2>1, <2>2, <2>3, <2>4
<1>2. CASE Launch(w)
  <2>1. PICK a \in Args : /\ a.kind = "host" => a.password \in For(a.host, a.port)
                          /\ Spawn(w, a)
    BY <1>2 DEF Launch
  <2>. QED  BY <1>1, <2>1
<1>3. CASE OpenSession(w, v)
  <2>1. PICK i \in DOMAIN sessions[w] :
            Spawn(v, [kind |-> "session", key |-> Key(sessions[w][i])])
    BY <1>3 DEF OpenSession
  <2>. DEFINE a == [kind |-> "session", key |-> Key(sessions[w][i])]
  <2>2. sessions[w][i] \in Sound(carried)
    BY <1>0, <2>1 DEF ListsSound
  <2>3. a \in Args /\ a.kind # "host"
    BY <2>2 DEF Args, Key, Sound, Session
  <2>. QED  BY <1>1, <2>1, <2>3
<1>4. CASE OpenHost(w, v)
  <2>1. PICK h \in Hosts, p \in Ports :
            Spawn(v, [kind |-> "host", host |-> h, port |-> p, password |-> NoPw])
    BY <1>4 DEF OpenHost
  <2>. DEFINE a == [kind |-> "host", host |-> h, port |-> p, password |-> NoPw]
  <2>2. a \in Args /\ a.password \in For(a.host, a.port)
    BY DEF Args, For
  <2>. QED  BY <1>1, <2>1, <2>2
<1>5. CASE Resolve(w)
  <2>1. Resolved(args[w], Load) \in ConnSound(carried) \cup {NoConn}
    BY <1>0, LoadSound, ResolvedSound DEF ArgsSound
  <2>2. pc' \in [Windows -> {"closed", "resolve", "start"} \cup Open]
    BY <1>0, <1>5 DEF Resolve
  <2>3. ArgsSound'
    BY <1>0, <1>5 DEF Resolve, ArgsSound, Args
  <2>4. CurrentSound'
    BY <1>0, <1>5, <2>1 DEF Resolve, CurrentSound, InSession, Open, ghostVars
  <2>5. ListsSound' /\ FormTyped'
    BY <1>0, <1>5 DEF Resolve, ListsSound, FormTyped, ghostVars
  <2>. QED  BY <2>2, <2>3, <2>4, <2>5
<1>6. CASE NeedPassword(w) \/ Disconnected(w)
  <2>1. pc' \in [Windows -> {"closed", "resolve", "start"} \cup Open]
    BY <1>0, <1>6 DEF NeedPassword, Disconnected, Open
  <2>2. ArgsSound'
    BY <1>0, <1>6 DEF NeedPassword, Disconnected, ArgsSound
  <2>3. CurrentSound'
    BY <1>0, <1>6 DEF NeedPassword, Disconnected, CurrentSound, InSession, Open, ghostVars
  <2>4. ListsSound' /\ FormTyped'
    BY <1>0, <1>6 DEF NeedPassword, Disconnected, ListsSound, FormTyped, ghostVars
  <2>. QED  BY <2>1, <2>2, <2>3, <2>4
<1>7. CASE EnterPassword(w)
  <2>1. PICK pw \in For(current[w].host, current[w].port) :
            current' = [current EXCEPT ![w].password = pw]
    BY <1>7 DEF EnterPassword
  <2>2. current[w] \in ConnSound(carried)
    BY <1>0, <1>7 DEF EnterPassword, CurrentSound, InSession, Open
  <2>3. [current[w] EXCEPT !.password = pw] \in ConnSound(carried)
    BY <2>1, <2>2 DEF ConnSound, Conn, Owned, For
  <2>4. [current[w] EXCEPT !.password = pw] # NoConn
    BY <2>2, NoNameAssumption DEF ConnSound, Conn, NoConn
  <2>5. CurrentSound'
    BY <1>0, <1>7, <2>1, <2>3, <2>4 DEF EnterPassword, CurrentSound, InSession, Open, ghostVars
  <2>6. pc' \in [Windows -> {"closed", "resolve", "start"} \cup Open]
    BY <1>0, <1>7 DEF EnterPassword, Open
  <2>7. ArgsSound' /\ ListsSound' /\ FormTyped'
    BY <1>0, <1>7 DEF EnterPassword, ArgsSound, ListsSound, FormTyped, ghostVars
  <2>. QED  BY <2>5, <2>6, <2>7
<1>8. CASE Close(w) \/ Kill(w)
  <2>1. Exit(w) /\ carried' = carried
    BY <1>8 DEF Close, Kill
  <2>2. pc' \in [Windows -> {"closed", "resolve", "start"} \cup Open]
    BY <1>0, <2>1 DEF Exit
  <2>3. ArgsSound'
    BY <1>0, <2>1 DEF Exit, ArgsSound, Args
  <2>4. CurrentSound'
    BY <1>0, <2>1 DEF Exit, CurrentSound, InSession, Open
  <2>5. ListsSound' /\ FormTyped'
    BY <1>0, <2>1 DEF Exit, ListsSound, FormTyped
  <2>. QED  BY <2>2, <2>3, <2>4, <2>5
<1>9. CASE NewForm(w) \/ Select(w)
  <2>1. editing' \in [Windows -> Nat] /\ form' \in [Windows -> Password \cup {NoPw}]
    <3>1. CASE NewForm(w)
      BY <1>0, <3>1 DEF NewForm, FormTyped
    <3>2. CASE Select(w)
      <4>1. PICK i \in DOMAIN sessions[w] :
                /\ editing' = [editing EXCEPT ![w] = i]
                /\ form' = [form EXCEPT ![w] = sessions[w][i].password]
        BY <3>2 DEF Select
      <4>2. i \in Nat /\ sessions[w][i] \in Sound(carried)
        BY <1>0 DEF ListsSound
      <4>3. sessions[w][i].password \in Password \cup {NoPw}
        BY <4>2 DEF Sound, Session
      <4>. QED  BY <1>0, <4>1, <4>2, <4>3 DEF FormTyped
    <3>. QED  BY <1>9, <3>1, <3>2
  <2>2. UNCHANGED <<primary, legacy, pc, args, sessions, current, carried>>
    BY <1>9 DEF NewForm, Select
  <2>. QED  BY <1>0, <2>1, <2>2 DEF ArgsSound, CurrentSound, ListsSound, FormTyped
<1>. QED  BY <1>2, <1>3, <1>4, <1>5, <1>6, <1>7, <1>8, <1>9

\* A window that starts has the list of the file.
LEMMA NewStep ==
    ASSUME SoundInv, NEW w \in Windows, New(w)
    PROVE  SoundInv'
<1>1. Load \in Seq(Sound(carried))
  BY LoadSound DEF SoundInv
<1>2. pc' \in [Windows -> {"closed", "resolve", "start"} \cup Open]
  BY DEF SoundInv, New, Open
<1>3. CurrentSound'
  BY DEF SoundInv, New, CurrentSound, InSession, Open, ghostVars
<1>4. ListsSound' /\ FormTyped'
  BY <1>1 DEF SoundInv, New, ListsSound, FormTyped, ghostVars
<1>5. ArgsSound'
  BY DEF SoundInv, New, ArgsSound
<1>. QED  BY <1>2, <1>3, <1>4, <1>5 DEF SoundInv

\* A save that ends leaves the window's list in the file, or a torn one.
LEMMA EndSaveStep ==
    ASSUME SoundInv, NEW w \in Windows, EndSave(w)
    PROVE  SoundInv'
<1>. DEFINE contents == {Whole(sessions[w])} \cup {f \in {Torn} : saving[w] = "mixed"}
<1>1. ListsSound
  BY DEF SoundInv
<1>2. \A f \in contents : f.list \in Seq(Sound(carried))
  <2>1. Whole(sessions[w]).list \in Seq(Sound(carried))
    BY <1>1 DEF Whole, ListsSound
  <2>2. Torn.list = <<>>
    BY DEF Torn
  <2>3. Torn.list \in Seq(Sound(carried))
    BY <2>2
  <2>. QED  BY <2>1, <2>3
<1>3. Write(contents)
  BY DEF EndSave
<1>4. primary'.list \in Seq(Sound(carried)) /\ legacy'.list \in Seq(Sound(carried))
  BY <1>1, <1>2, <1>3, WriteSound DEF ListsSound
<1>5. UNCHANGED <<pc, args, sessions, editing, form, current, carried>>
  BY DEF EndSave, ghostVars
<1>. QED  BY <1>4, <1>5 DEF SoundInv, ArgsSound, CurrentSound, ListsSound, FormTyped

\* A connection that is established is remembered with the server it is to.
LEMMA ConnectedStep ==
    ASSUME SoundInv, NEW w \in Windows, Connected(w)
    PROVE  SoundInv'
<1>. DEFINE list == Remembered(sessions[w], current[w])
<1>0. ArgsSound /\ CurrentSound /\ ListsSound /\ FormTyped
  BY DEF SoundInv
<1>1. current[w] \in ConnSound(carried)
  BY <1>0 DEF Connected, CurrentSound, InSession, Open
<1>2. list \in Seq(Sound(carried))
  BY <1>0, <1>1, RememberedSound DEF ListsSound
<1>3. pc' = [pc EXCEPT ![w] = "connected"] /\ UNCHANGED <<args, editing, form, current, carried>>
  BY DEF Connected
<1>4. /\ sessions' \in [Windows -> Seq(Sound(carried))]
      /\ primary'.list \in Seq(Sound(carried)) /\ legacy'.list \in Seq(Sound(carried))
  <2>1. CASE BeginSave(w, list)
    BY <1>0, <1>2, <2>1, BeginSaveSound DEF ListsSound
  <2>2. CASE UNCHANGED <<primary, legacy, sessions, saving>>
    BY <1>0, <2>2 DEF ListsSound
  <2>. QED  BY <2>1, <2>2 DEF Connected
<1>5. pc' \in [Windows -> {"closed", "resolve", "start"} \cup Open]
  BY <1>3 DEF SoundInv, Open
<1>6. CurrentSound'
  BY <1>0, <1>1, <1>3, NoNameAssumption
  DEF SoundInv, CurrentSound, InSession, Open, ConnSound, Conn, NoConn
<1>. QED  BY <1>0, <1>3, <1>4, <1>5, <1>6 DEF SoundInv, ArgsSound, ListsSound, FormTyped

\* What the form holds makes a session whose password its server has, once what
\* the form moves is counted.
LEMMA FormSound ==
    ASSUME ListsSound, FormTyped, NEW w \in Windows, NEW f \in Forms(w), NEW moves,
           moves = carried \cup
               {m \in {[server |-> <<f.host, Parsed(f.port)>>, password |-> f.password]} :
                   f.password \notin For(f.host, Parsed(f.port))}
    PROVE  /\ [name |-> f.name, host |-> f.host, port |-> Parsed(f.port),
               password |-> f.password, user |-> UserOf(w)] \in Sound(moves)
           /\ moves \subseteq Move
           /\ f.password \in Password \cup {NoPw}
<1>. DEFINE h == f.host
            p == Parsed(f.port)
            s == [name |-> f.name, host |-> h, port |-> p,
                  password |-> f.password, user |-> UserOf(w)]
<1>1. /\ f.name \in Names /\ h \in Hosts /\ f.port \in Ports \cup {Junk}
      /\ f.password \in Password \cup {NoPw}
  BY DEF Forms
<1>2. p \in Ports
  BY <1>1, PortsAssumption DEF Parsed
<1>3. UserOf(w) \in Users \cup {NoUser}
  <2>1. CASE editing[w] \in DOMAIN sessions[w]
    <3>1. sessions[w][editing[w]] \in Session
      BY <2>1, SoundIsSession DEF ListsSound
    <3>. QED  BY <2>1, <3>1 DEF UserOf, Session
  <2>2. CASE editing[w] \notin DOMAIN sessions[w]
    BY <2>2 DEF UserOf
  <2>. QED  BY <2>1, <2>2
<1>. HIDE DEF h, p
<1>4. moves = carried \cup
          {m \in {[server |-> <<h, p>>, password |-> f.password]} : f.password \notin For(h, p)}
  BY DEF h, p
<1>5. f.password \in Owned(h, p, moves)
  <2>1. CASE f.password \in For(h, p)
    BY <2>1 DEF Owned
  <2>2. CASE f.password \notin For(h, p)
    <3>1. f.password \in Password
      BY <1>1, <2>2 DEF For
    <3>2. [server |-> <<h, p>>, password |-> f.password] \in moves
      BY <1>4, <2>2
    <3>. QED  BY <3>1, <3>2 DEF Owned
  <2>. QED  BY <2>1, <2>2
<1>6. s \in Session /\ s.password \in Owned(s.host, s.port, moves)
  BY <1>1, <1>2, <1>3, <1>5 DEF Session
<1>7. moves \subseteq Move
  <2>1. f.password \notin For(h, p) => [server |-> <<h, p>>, password |-> f.password] \in Move
    BY <1>1, <1>2 DEF For, Move, Server
  <2>. QED  BY <1>4, <2>1 DEF FormTyped
<1>. QED  BY <1>1, <1>6, <1>7 DEF Sound, h, p

\* The user deletes a session or gives one a user name.
LEMMA EditStep ==
    ASSUME SoundInv, NEW w \in Windows, Delete(w) \/ SshLogin(w)
    PROVE  SoundInv'
<1>0. ArgsSound /\ CurrentSound /\ ListsSound /\ FormTyped
  BY DEF SoundInv
<1>1. sessions[w] \in Seq(Sound(carried)) /\ editing[w] \in Nat
  BY <1>0 DEF ListsSound, FormTyped
<1>2. UNCHANGED <<pc, args, current, form, carried>>
  BY DEF Delete, SshLogin
<1>3. \E list \in Seq(Sound(carried)) : BeginSave(w, list) /\ editing' \in [Windows -> Nat]
  <2>1. CASE Delete(w)
    <3>1. PICK i \in DOMAIN sessions[w] :
              /\ BeginSave(w, Removed(sessions[w], i))
              /\ editing' = [editing EXCEPT ![w] = IF @ = i THEN 0 ELSE @]
      BY <2>1 DEF Delete
    <3>2. editing' \in [Windows -> Nat]
      BY <1>0, <1>1, <3>1 DEF FormTyped
    <3>. QED  BY <1>1, <3>1, <3>2, RemovedSound
  <2>2. CASE SshLogin(w)
    <3>. DEFINE i == ByHost(sessions[w], current[w].host)
    <3>1. PICK u \in Users : /\ i # 0
                             /\ BeginSave(w, [sessions[w] EXCEPT ![i].user = u])
      BY <2>2 DEF SshLogin
    <3>2. i \in DOMAIN sessions[w]
      BY <1>1, <3>1, Lookups, SoundIsSession
    <3>3. [sessions[w][i] EXCEPT !.user = u] \in Sound(carried)
      BY <1>1, <3>2 DEF Sound, Session
    <3>4. [sessions[w] EXCEPT ![i].user = u] \in Seq(Sound(carried))
      BY <1>1, <3>2, <3>3
    <3>5. editing' \in [Windows -> Nat]
      BY <1>0, <2>2 DEF SshLogin, FormTyped
    <3>. QED  BY <3>1, <3>4, <3>5
  <2>. QED  BY <2>1, <2>2
<1>4. ListsSound' /\ FormTyped'
  BY <1>0, <1>2, <1>3, BeginSaveSound DEF ListsSound, FormTyped
<1>. QED  BY <1>0, <1>2, <1>4 DEF SoundInv, ArgsSound, CurrentSound

\* The user saves the form, which may move a password.
LEMMA SaveFormStep ==
    ASSUME SoundInv, NEW w \in Windows, SaveForm(w)
    PROVE  SoundInv'
<1>. DEFINE s(f) == [name |-> f.name, host |-> f.host, port |-> Parsed(f.port),
                     password |-> f.password, user |-> UserOf(w)]
            last == Len(sessions[w]) + 1
<1>0. ArgsSound /\ CurrentSound /\ ListsSound /\ FormTyped
  BY DEF SoundInv
<1>1. UNCHANGED <<pc, args, current>>
  BY DEF SaveForm
<1>2. PICK f \in Forms(w) :
          /\ form' = [form EXCEPT ![w] = f.password]
          /\ carried' = carried \cup
                {m \in {[server |-> <<f.host, Parsed(f.port)>>, password |-> f.password]} :
                    f.password \notin For(f.host, Parsed(f.port))}
          /\ \/ /\ BeginSave(w, Append(sessions[w], s(f)))
                /\ editing' = [editing EXCEPT ![w] = last]
             \/ /\ editing[w] \in DOMAIN sessions[w]
                /\ BeginSave(w, [sessions[w] EXCEPT ![editing[w]] = s(f)])
                /\ UNCHANGED editing
             \/ /\ BeginSave(w, sessions[w])
                /\ UNCHANGED editing
  BY DEF SaveForm, ServerOf
<1>3. s(f) \in Sound(carried') /\ carried' \subseteq Move /\ f.password \in Password \cup {NoPw}
  BY <1>0, <1>2, FormSound
<1>4. carried \subseteq carried'
  BY <1>2
<1>. HIDE DEF s
<1>5. /\ sessions \in [Windows -> Seq(Sound(carried'))] /\ sessions[w] \in Seq(Sound(carried'))
      /\ primary.list \in Seq(Sound(carried')) /\ legacy.list \in Seq(Sound(carried'))
      /\ current \in [Windows -> ConnSound(carried') \cup {NoConn}]
  BY <1>0, <1>4, Monotone DEF ListsSound, CurrentSound
<1>6. Append(sessions[w], s(f)) \in Seq(Sound(carried'))
  BY <1>3, <1>5
<1>7. editing[w] \in DOMAIN sessions[w] =>
          [sessions[w] EXCEPT ![editing[w]] = s(f)] \in Seq(Sound(carried'))
  BY <1>3, <1>5
<1>8. ListsSound'
  <2>1. PICK list \in Seq(Sound(carried')) : BeginSave(w, list)
    BY <1>2, <1>5, <1>6, <1>7
  <2>. QED  BY <1>5, <2>1, BeginSaveSound DEF ListsSound
<1>9. FormTyped'
  <2>1. last \in Nat
    BY <1>5
  <2>2. editing' \in [Windows -> Nat]
    BY <1>0, <1>2, <2>1 DEF FormTyped
  <2>. QED  BY <1>0, <1>2, <1>3, <2>2 DEF FormTyped
<1>. QED  BY <1>0, <1>1, <1>5, <1>8, <1>9 DEF SoundInv, ArgsSound, CurrentSound

-----------------------------------------------------------------------------
LEMMA SoundInit == Init => SoundInv
<1>. SUFFICES ASSUME Init PROVE SoundInv
  OBVIOUS
<1>0. carried = {} /\ <<>> \in Seq(Sound(carried))
  BY DEF Init
<1>1. primary.list \in Seq(Sound(carried)) /\ legacy.list \in Seq(Sound(carried))
  <2>1. Absent.list \in Seq(Sound(carried))
    BY <1>0 DEF Absent
  <2>2. \A l \in InitLists : Whole(l).list \in Seq(Sound(carried))
    BY <1>0, InitListsAssumption DEF Whole
  <2>. QED  BY <2>1, <2>2 DEF Init
<1>2. sessions \in [Windows -> Seq(Sound(carried))]
  BY <1>0 DEF Init
<1>3. FormTyped
  BY <1>0 DEF Init, FormTyped
<1>4. ArgsSound
  BY DEF Init, ArgsSound, Args
<1>5. CurrentSound
  BY DEF Init, CurrentSound, InSession, Open
<1>6. pc \in [Windows -> {"closed", "resolve", "start"} \cup Open]
  BY DEF Init
<1>. QED  BY <1>1, <1>2, <1>3, <1>4, <1>5, <1>6 DEF SoundInv, ListsSound

LEMMA SoundStep == SoundInv /\ [Next]_vars => SoundInv'
<1>. SUFFICES ASSUME SoundInv, [Next]_vars PROVE SoundInv'
  OBVIOUS
<1>1. CASE UNCHANGED vars
  BY <1>1 DEF SoundInv, ArgsSound, CurrentSound, ListsSound, FormTyped, vars, winVars, ghostVars
<1>2. CASE Next
  <2>1. PICK w \in Windows :
            \/ Launch(w) \/ Resolve(w) \/ New(w) \/ Close(w)
            \/ NeedPassword(w) \/ EnterPassword(w) \/ Connected(w) \/ Disconnected(w)
            \/ NewForm(w) \/ Select(w) \/ Delete(w) \/ SaveForm(w) \/ SshLogin(w)
            \/ EndSave(w) \/ Kill(w)
            \/ \E v \in Windows : OpenSession(w, v) \/ OpenHost(w, v)
    BY <1>2, Zenon DEF Next
  <2>2. CASE New(w)
    BY <2>2, NewStep
  <2>3. CASE Connected(w)
    BY <2>3, ConnectedStep
  <2>4. CASE EndSave(w)
    BY <2>4, EndSaveStep
  <2>5. CASE Delete(w) \/ SshLogin(w)
    BY <2>5, EditStep
  <2>6. CASE SaveForm(w)
    BY <2>6, SaveFormStep
  <2>7. CASE \/ Launch(w) \/ Resolve(w) \/ NeedPassword(w) \/ EnterPassword(w)
             \/ Disconnected(w) \/ Close(w) \/ Kill(w) \/ NewForm(w) \/ Select(w)
    BY <2>7, LifeStep
  <2>8. CASE \E v \in Windows : OpenSession(w, v) \/ OpenHost(w, v)
    BY <2>8, LifeStep
  <2>. QED  BY <2>1, <2>2, <2>3, <2>4, <2>5, <2>6, <2>7, <2>8
<1>. QED  BY <1>1, <1>2

\* Whatever windows are opened, closed and killed, in whatever order they load,
\* edit and save their lists, a password stands beside, and is sent to, only the
\* server it was typed for or one that a form, filled with it, was saved for.
THEOREM PasswordSafe == Spec => []PasswordMovedByFormOnly
<1>1. SoundInv => PasswordMovedByFormOnly
  <2>. SUFFICES ASSUME SoundInv PROVE PasswordMovedByFormOnly
    OBVIOUS
  <2>1. \A list \in Seq(Sound(carried)) : \A i \in DOMAIN list :
            list[i].password \in Owned(list[i].host, list[i].port, carried)
    BY DEF Sound
  <2>2. \A w \in Windows : current[w].password \in Owned(current[w].host, current[w].port, carried)
    <3>1. NoConn.password \in Owned(NoConn.host, NoConn.port, carried)
      BY DEF NoConn, Owned, For
    <3>2. \A c \in ConnSound(carried) : c.password \in Owned(c.host, c.port, carried)
      BY DEF ConnSound
    <3>3. current \in [Windows -> ConnSound(carried) \cup {NoConn}]
      BY DEF SoundInv, CurrentSound
    <3>. QED  BY <3>1, <3>2, <3>3
  <2>. QED  BY <2>1, <2>2 DEF SoundInv, ListsSound, PasswordMovedByFormOnly
<1>. QED  BY <1>1, SoundInit, SoundStep, PTL DEF Spec
-----------------------------------------------------------------------------
(* Types.  Sound lists are lists of sessions; what the invariant above does *)
(* not say is how long they are, and what the save of each window is at.    *)

\* The longest a list can get, and what a save can be.
Bounded ==
    /\ \A w \in Windows : Len(sessions[w]) <= MaxSessions /\ editing[w] <= MaxSessions
    /\ Len(primary.list) <= MaxSessions /\ Len(legacy.list) <= MaxSessions
    /\ primary \in File /\ legacy \in File
    /\ writable \in BOOLEAN
    /\ saving \in [Windows -> {"no", "alone", "mixed"}]

\* What a list is like after a removal, one index after the other.
LEMMA RemovedAt ==
    ASSUME NEW list \in Seq(Session), NEW i \in DOMAIN list
    PROVE  /\ Len(Removed(list, i)) = Len(list) - 1
           /\ \A j \in DOMAIN list : j < i => j \in DOMAIN Removed(list, i) /\ Removed(list, i)[j] = list[j]
           /\ \A j \in DOMAIN list : j > i => j - 1 \in DOMAIN Removed(list, i) /\ Removed(list, i)[j - 1] = list[j]
<1>. DEFINE a == SubSeq(list, 1, i - 1)
            b == SubSeq(list, i + 1, Len(list))
<1>0. Len(list) \in Nat /\ i \in 1 .. Len(list) /\ DOMAIN list = 1 .. Len(list)
  OBVIOUS
<1>1. a \in Seq(Session) /\ Len(a) = i - 1 /\ \A j \in 1 .. i - 1 : a[j] = list[j]
  BY <1>0, SubSeqProperties
<1>2. b \in Seq(Session) /\ Len(b) = Len(list) - i /\ \A j \in 1 .. Len(list) - i : b[j] = list[i + j]
  <2>1. CASE i = Len(list)
    <3>1. b = <<>>
      BY <1>0, <2>1, SubSeqProperties
    <3>. QED  BY <1>0, <2>1, <3>1
  <2>2. CASE i < Len(list)
    <3>1. i + 1 \in 1 .. Len(list) /\ Len(list) \in 1 .. Len(list)
      BY <1>0, <2>2
    <3>2. b \in Seq(Session) /\ Len(b) = Len(list) - (i + 1) + 1
          /\ \A j \in 1 .. Len(list) - (i + 1) + 1 : b[j] = list[i + 1 + j - 1]
      BY <1>0, <2>2, <3>1, SubSeqProperties
    <3>. QED  BY <1>0, <3>2
  <2>. QED  BY <1>0, <2>1, <2>2
<1>. HIDE DEF a, b
<1>3. Removed(list, i) = a \o b
  BY DEF Removed, a, b
<1>4. /\ Len(a \o b) = Len(a) + Len(b) /\ DOMAIN (a \o b) = 1 .. Len(a) + Len(b)
      /\ \A k \in 1 .. Len(a) + Len(b) : (a \o b)[k] = IF k <= Len(a) THEN a[k] ELSE b[k - Len(a)]
  <2>1. a \o b \in Seq(Session) /\ Len(a \o b) = Len(a) + Len(b)
    BY <1>1, <1>2, ConcatProperties
  <2>2. \A k \in 1 .. Len(a) + Len(b) : (a \o b)[k] = IF k <= Len(a) THEN a[k] ELSE b[k - Len(a)]
    BY <1>1, <1>2, ConcatProperties
  <2>. QED  BY <2>1, <2>2
<1>5. Len(a) + Len(b) = Len(list) - 1
  BY <1>0, <1>1, <1>2
<1>6. ASSUME NEW j \in DOMAIN list, j < i PROVE j \in DOMAIN (a \o b) /\ (a \o b)[j] = list[j]
  <2>1. j \in 1 .. i - 1 /\ j \in 1 .. Len(list) - 1 /\ j <= i - 1
    BY <1>0, <1>6
  <2>. QED  BY <1>1, <1>4, <1>5, <2>1
<1>7. ASSUME NEW j \in DOMAIN list, j > i PROVE j - 1 \in DOMAIN (a \o b) /\ (a \o b)[j - 1] = list[j]
  <2>. DEFINE k == j - 1
  <2>1. k \in 1 .. Len(list) - 1 /\ ~(k <= i - 1) /\ k - (i - 1) = j - i /\ j - i \in 1 .. Len(list) - i
        /\ i + (j - i) = j
    BY <1>0, <1>7
  <2>2. k \in 1 .. Len(a) + Len(b) /\ ~(k <= Len(a)) /\ k - Len(a) = j - i
    BY <1>1, <1>5, <2>1
  <2>3. b[j - i] = list[j]
    BY <1>2, <2>1
  <2>. HIDE DEF k
  <2>4. k \in DOMAIN (a \o b) /\ (a \o b)[k] = b[j - i]
    BY <1>4, <2>2
  <2>. QED  BY <2>3, <2>4 DEF k
<1>8. Len(a \o b) = Len(list) - 1
  BY <1>4, <1>5
<1>. QED  BY <1>3, <1>6, <1>7, <1>8

-----------------------------------------------------------------------------
(* What is kept: how a list goes on listing a connection.                  *)

\* An entry that changes, but not its server or its password, keeps all.  One
\* that changes altogether keeps what was not about its server.
LEMMA ListedByChange ==
    ASSUME NEW list \in Seq(Session), NEW i \in DOMAIN list, NEW s, NEW k, Listed(list, k),
           \/ k.server # ServerOf(list[i])
           \/ ServerOf(s) = ServerOf(list[i]) /\ s.password = list[i].password
    PROVE  Listed([list EXCEPT ![i] = s], k)
<1>. DEFINE new == [list EXCEPT ![i] = s]
<1>1. DOMAIN new = DOMAIN list /\ new[i] = s /\ \A j \in DOMAIN list : j # i => new[j] = list[j]
  OBVIOUS
<1>. HIDE DEF new
<1>2. PICK j \in DOMAIN list : ServerOf(list[j]) = k.server /\ k.password \in {NoPw, list[j].password}
  BY DEF Listed
<1>3. CASE j # i
  BY <1>1, <1>2, <1>3 DEF Listed, new
<1>4. CASE j = i
  BY <1>1, <1>2, <1>4 DEF Listed, new
<1>. QED  BY <1>3, <1>4

LEMMA ListedByAppend ==
    ASSUME NEW list \in Seq(Session), NEW s \in Session, NEW k,
           \/ Listed(list, k)
           \/ k.server = ServerOf(s) /\ k.password = s.password
    PROVE  Listed(Append(list, s), k)
<1>1. /\ \A j \in DOMAIN list : j \in DOMAIN Append(list, s) /\ Append(list, s)[j] = list[j]
      /\ Len(list) + 1 \in DOMAIN Append(list, s) /\ Append(list, s)[Len(list) + 1] = s
  BY AppendProperties
<1>2. CASE Listed(list, k)
  <2>1. PICK j \in DOMAIN list : ServerOf(list[j]) = k.server /\ k.password \in {NoPw, list[j].password}
    BY <1>2 DEF Listed
  <2>. QED  BY <1>1, <2>1 DEF Listed
<1>3. CASE k.server = ServerOf(s) /\ k.password = s.password
  BY <1>1, <1>3 DEF Listed
<1>. QED  BY <1>2, <1>3

LEMMA ListedByRemoval ==
    ASSUME NEW list \in Seq(Session), NEW i \in DOMAIN list, NEW k, Listed(list, k),
           k.server # ServerOf(list[i])
    PROVE  Listed(Removed(list, i), k)
<1>1. PICK j \in DOMAIN list : ServerOf(list[j]) = k.server /\ k.password \in {NoPw, list[j].password}
  BY DEF Listed
<1>2. CASE j < i
  <2>1. j \in DOMAIN Removed(list, i) /\ Removed(list, i)[j] = list[j]
    BY <1>2, RemovedAt
  <2>. QED  BY <1>1, <2>1 DEF Listed
<1>3. CASE j > i
  <2>1. j - 1 \in DOMAIN Removed(list, i) /\ Removed(list, i)[j - 1] = list[j]
    BY <1>3, RemovedAt
  <2>. QED  BY <1>1, <2>1 DEF Listed
<1>4. j # i /\ i \in Nat /\ j \in Nat
  BY <1>1
<1>. QED  BY <1>2, <1>3, <1>4

\* remember_session keeps what was kept of other servers, and the connection.
LEMMA ListedByRemembering ==
    ASSUME NEW list \in Seq(Session), NEW c \in Conn, NEW k,
           \/ Listed(list, k) /\ k.server # ServerOf(c)
           \/ k.server = ServerOf(c) /\ k.password = c.password
    PROVE  Listed(Remembered(list, c), k)
<1>. DEFINE i == ByServer(list, c.host, c.port)
            s == [name |-> NoName, host |-> c.host, port |-> c.port,
                  password |-> c.password, user |-> NoUser]
<1>1. CASE i = 0
  <2>1. s \in Session
    BY NoNameAssumption DEF Session, Conn
  <2>2. ServerOf(s) = ServerOf(c) /\ s.password = c.password
    BY DEF ServerOf
  <2>3. Remembered(list, c) = Append(list, s)
    BY <1>1 DEF Remembered
  <2>. HIDE DEF s
  <2>. QED  BY <2>1, <2>2, <2>3, ListedByAppend
<1>2. CASE i # 0
  <2>1. i \in DOMAIN list /\ ServerOf(list[i]) = ServerOf(c)
    BY <1>2, Lookups DEF ServerOf
  <2>. HIDE DEF i
  <2>2. CASE c.password # NoPw
    <3>. DEFINE t == [list[i] EXCEPT !.password = c.password]
    <3>1. Remembered(list, c) = [list EXCEPT ![i] = t]
      BY <1>2, <2>2 DEF Remembered, i
    <3>2. t.password = c.password /\ ServerOf(t) = ServerOf(c)
      BY <2>1 DEF Session, ServerOf
    <3>3. [list EXCEPT ![i] = t][i] = t /\ i \in DOMAIN [list EXCEPT ![i] = t]
      BY <2>1
    <3>. HIDE DEF t
    <3>4. CASE Listed(list, k) /\ k.server # ServerOf(c)
      BY <2>1, <3>1, <3>4, ListedByChange
    <3>5. CASE k.server = ServerOf(c) /\ k.password = c.password
      BY <3>1, <3>2, <3>3, <3>5 DEF Listed
    <3>. QED  BY <3>4, <3>5
  <2>3. CASE c.password = NoPw
    <3>1. Remembered(list, c) = list
      BY <1>2, <2>3 DEF Remembered, i
    <3>. QED  BY <2>1, <2>3, <3>1 DEF Listed
  <2>. QED  BY <2>2, <2>3
<1>. QED  BY <1>1, <1>2

-----------------------------------------------------------------------------
(* What the actions that save have in common.                              *)

\* Window `w` begins to save a list that is not too long and that lists what is
\* kept and not lost; and if anything is, no other window is inside a save.
Saves(w) ==
    \E list \in Seq(Session) :
        /\ BeginSave(w, list)
        /\ Len(list) <= MaxSessions
        /\ \A k \in kept' : k.server \notin lost' =>
              Listed(list, k) /\ \A v \in Windows : saving[v] = "no"

\* What is not in danger.
LEMMA OutOfDanger ==
    ASSUME NEW w \in Windows, NEW k \in kept, k.server \notin InDanger(w)
    PROVE  Listed(sessions[w], k) /\ \A v \in Windows : saving[v] = "no"
BY DEF InDanger

LEMMA ConnectedSaves ==
    ASSUME SoundInv, NEW w \in Windows, Connected(w)
    PROVE  \/ Saves(w)
           \/ /\ UNCHANGED <<primary, legacy, sessions, saving>>
              /\ \A k \in kept' : k.server \notin lost' =>
                    \/ k \in kept /\ k.server \notin lost
                    \/ Listed(Load, k) /\ \A v \in Windows : saving[v] = "no"
<1>. DEFINE c == current[w]
            list == Remembered(sessions[w], c)
            k0 == [server |-> ServerOf(c), password |-> c.password]
<1>1. c \in ConnSound(carried) /\ sessions[w] \in Seq(Sound(carried))
  BY DEF SoundInv, Connected, CurrentSound, ListsSound, InSession, Open
<1>2. c \in Conn /\ sessions[w] \in Seq(Session) /\ list \in Seq(Session)
  BY <1>1, RememberedSound, SoundIsSession DEF ConnSound
<1>3. /\ Len(list) <= MaxSessions
      /\ kept' = {k \in kept : k.server # ServerOf(c)} \cup {k0}
  BY DEF Connected
<1>4. k0.server = ServerOf(c) /\ k0.password = c.password
  OBVIOUS
<1>. HIDE DEF k0
<1>5. \A k \in kept' : k = k0 \/ (k \in kept /\ k.server # ServerOf(c))
  BY <1>3
<1>6. CASE /\ BeginSave(w, list)
           /\ lost' = (lost \ {ServerOf(c)}) \cup
                 IF \E v \in Windows : saving[v] # "no" THEN {k.server : k \in kept'}
                 ELSE InDanger(w) \ {ServerOf(c)}
  <2>1. ASSUME NEW k \in kept', k.server \notin lost'
        PROVE  Listed(list, k) /\ \A v \in Windows : saving[v] = "no"
    <3>1. \A v \in Windows : saving[v] = "no"
      BY <1>6, <2>1
    <3>2. CASE k = k0
      BY <1>2, <1>4, <3>1, <3>2, ListedByRemembering
    <3>3. CASE k \in kept /\ k.server # ServerOf(c)
      <4>1. k.server \notin InDanger(w)
        BY <1>6, <2>1, <3>1, <3>3
      <4>2. Listed(sessions[w], k)
        BY <3>3, <4>1, OutOfDanger
      <4>. QED  BY <1>2, <3>1, <3>3, <4>2, ListedByRemembering
    <3>. QED  BY <1>5, <2>1, <3>2, <3>3
  <2>. QED  BY <1>2, <1>3, <1>6, <2>1 DEF Saves
<1>7. CASE /\ lost' = (lost \ {ServerOf(c)}) \cup
                 {k.server : k \in {k \in kept' : /\ k.server = ServerOf(c) /\ Listed(list, k)
                                                /\ \/ \E v \in Windows : saving[v] # "no"
                                                   \/ ~Listed(Load, k)}}
           /\ UNCHANGED <<primary, legacy, sessions, saving>>
  <2>1. ASSUME NEW k \in kept', k.server \notin lost'
        PROVE  \/ k \in kept /\ k.server \notin lost
               \/ Listed(Load, k) /\ \A v \in Windows : saving[v] = "no"
    <3>1. CASE k = k0
      <4>1. Listed(list, k)
        BY <1>2, <1>4, <3>1, ListedByRemembering
      <4>. QED  BY <1>4, <1>7, <2>1, <3>1, <4>1
    <3>2. CASE k \in kept /\ k.server # ServerOf(c)
      BY <1>7, <2>1, <3>2
    <3>. QED  BY <1>5, <2>1, <3>1, <3>2
  <2>. QED  BY <1>7, <2>1
<1>8. \/ /\ BeginSave(w, list)
         /\ lost' = (lost \ {ServerOf(c)}) \cup
               IF \E v \in Windows : saving[v] # "no" THEN {k.server : k \in kept'}
               ELSE InDanger(w) \ {ServerOf(c)}
      \/ /\ lost' = (lost \ {ServerOf(c)}) \cup
               {k.server : k \in {k \in kept' : /\ k.server = ServerOf(c) /\ Listed(list, k)
                                              /\ \/ \E v \in Windows : saving[v] # "no"
                                                 \/ ~Listed(Load, k)}}
         /\ UNCHANGED <<primary, legacy, sessions, saving>>
  BY DEF Connected
<1>. QED  BY <1>6, <1>7, <1>8

LEMMA DeleteSaves ==
    ASSUME SoundInv, Bounded, NEW w \in Windows, Delete(w)
    PROVE  Saves(w) /\ editing'[w] <= MaxSessions
<1>0. sessions[w] \in Seq(Session) /\ editing \in [Windows -> Nat] /\ editing[w] <= MaxSessions
  BY SoundIsSession DEF SoundInv, ListsSound, FormTyped, Bounded
<1>1. PICK i \in DOMAIN sessions[w] :
          /\ BeginSave(w, Removed(sessions[w], i))
          /\ editing' = [editing EXCEPT ![w] = IF @ = i THEN 0 ELSE @]
          /\ kept' = Forget({ServerOf(sessions[w][i])})
  BY DEF Delete
<1>2. Removed(sessions[w], i) \in Seq(Session)
  <2>1. Removed(sessions[w], i) \in Seq(Sound(carried))
    BY <1>1, RemovedSound DEF SoundInv, ListsSound
  <2>. QED  BY <2>1, SoundIsSession
<1>3. Len(Removed(sessions[w], i)) <= MaxSessions
  <2>1. Len(Removed(sessions[w], i)) = Len(sessions[w]) - 1
    BY <1>0, RemovedAt
  <2>. QED  BY <1>0, <2>1, MaxSessionsAssumption DEF Bounded
<1>4. ASSUME NEW k \in kept', k.server \notin lost'
      PROVE  Listed(Removed(sessions[w], i), k) /\ \A v \in Windows : saving[v] = "no"
  <2>1. k \in kept /\ k.server # ServerOf(sessions[w][i])
    BY <1>1, <1>4 DEF Forget
  <2>2. k.server \notin InDanger(w)
    BY <1>4 DEF Delete
  <2>. QED  BY <1>0, <2>1, <2>2, OutOfDanger, ListedByRemoval
<1>5. editing'[w] <= MaxSessions
  BY <1>0, <1>1, MaxSessionsAssumption
<1>. QED  BY <1>1, <1>2, <1>3, <1>4, <1>5 DEF Saves

LEMMA SshLoginSaves ==
    ASSUME SoundInv, Bounded, NEW w \in Windows, SshLogin(w)
    PROVE  Saves(w)
<1>. DEFINE i == ByHost(sessions[w], current[w].host)
<1>0. sessions[w] \in Seq(Session)
  BY SoundIsSession DEF SoundInv, ListsSound
<1>1. PICK u \in Users : i # 0 /\ BeginSave(w, [sessions[w] EXCEPT ![i].user = u])
  BY DEF SshLogin
<1>2. i \in DOMAIN sessions[w] /\ kept' = kept /\ lost' = lost \cup InDanger(w)
  BY <1>0, <1>1, Lookups DEF SshLogin
<1>. HIDE DEF i
<1>. DEFINE s == [sessions[w][i] EXCEPT !.user = u]
<1>3. s \in Session /\ ServerOf(s) = ServerOf(sessions[w][i]) /\ s.password = sessions[w][i].password
  <2>1. sessions[w][i] \in Session /\ u \in Users
    BY <1>0, <1>1, <1>2
  <2>. QED  BY <2>1 DEF Session, ServerOf
<1>4. [sessions[w] EXCEPT ![i].user = u] = [sessions[w] EXCEPT ![i] = s]
  OBVIOUS
<1>. HIDE DEF s
<1>5. [sessions[w] EXCEPT ![i] = s] \in Seq(Session) /\ Len([sessions[w] EXCEPT ![i] = s]) = Len(sessions[w])
  BY <1>0, <1>2, <1>3
<1>6. ASSUME NEW k \in kept', k.server \notin lost'
      PROVE  Listed([sessions[w] EXCEPT ![i] = s], k) /\ \A v \in Windows : saving[v] = "no"
  <2>1. k \in kept /\ k.server \notin InDanger(w)
    BY <1>2, <1>6
  <2>. QED  BY <1>0, <1>2, <1>3, <2>1, OutOfDanger, ListedByChange
<1>. QED  BY <1>1, <1>4, <1>5, <1>6 DEF Saves, Bounded

LEMMA SaveFormSaves ==
    ASSUME SoundInv, Bounded, NEW w \in Windows, SaveForm(w)
    PROVE  Saves(w) /\ editing'[w] <= MaxSessions
<1>. DEFINE i == editing[w]
            last == Len(sessions[w]) + 1
            s(f) == [name |-> f.name, host |-> f.host, port |-> Parsed(f.port),
                     password |-> f.password, user |-> UserOf(w)]
<1>0. /\ sessions[w] \in Seq(Session) /\ editing \in [Windows -> Nat] /\ i <= MaxSessions
      /\ Len(sessions[w]) \in Nat /\ Len(sessions[w]) <= MaxSessions
  BY SoundIsSession DEF SoundInv, ListsSound, FormTyped, Bounded
<1>1. PICK f \in Forms(w) :
         \/ /\ last <= MaxSessions
            /\ BeginSave(w, Append(sessions[w], s(f)))
            /\ editing' = [editing EXCEPT ![w] = last]
            /\ kept' = Forget({ServerOf(s(f))})
            /\ lost' = lost \cup InDanger(w)
         \/ /\ i \in DOMAIN sessions[w]
            /\ BeginSave(w, [sessions[w] EXCEPT ![i] = s(f)])
            /\ \/ /\ kept' = Forget({ServerOf(sessions[w][i])} \cup {ServerOf(s(f))})
                  /\ lost' = lost \cup InDanger(w)
               \/ /\ kept' = Forget({ServerOf(s(f))})
                  /\ lost' = lost \cup InDanger(w) \cup {ServerOf(sessions[w][i])}
            /\ UNCHANGED editing
         \/ /\ BeginSave(w, sessions[w])
            /\ lost' = lost \cup InDanger(w)
            /\ UNCHANGED <<editing, kept>>
  BY DEF SaveForm
<1>2. s(f) \in Session
  BY FormSound, SoundIsSession DEF SoundInv
<1>3. kept' \subseteq kept /\ InDanger(w) \subseteq lost'
  BY <1>1 DEF Forget
<1>4. \A k \in kept' : k.server \notin lost' =>
          k \in kept /\ Listed(sessions[w], k) /\ \A v \in Windows : saving[v] = "no"
  BY <1>3, OutOfDanger
<1>. DEFINE t == s(f)
<1>. HIDE DEF s, t
<1>5. CASE /\ last <= MaxSessions
           /\ BeginSave(w, Append(sessions[w], t))
           /\ editing' = [editing EXCEPT ![w] = last]
  <2>1. Append(sessions[w], t) \in Seq(Session) /\ Len(Append(sessions[w], t)) = last
    BY <1>0, <1>2, AppendProperties DEF t
  <2>2. \A k \in kept' : k.server \notin lost' => Listed(Append(sessions[w], t), k)
    BY <1>0, <1>2, <1>4, ListedByAppend DEF t
  <2>. QED  BY <1>0, <1>4, <1>5, <2>1, <2>2 DEF Saves
<1>6. CASE /\ i \in DOMAIN sessions[w]
           /\ BeginSave(w, [sessions[w] EXCEPT ![i] = t])
           /\ \/ kept' = Forget({ServerOf(sessions[w][i])} \cup {ServerOf(t)})
              \/ lost' = lost \cup InDanger(w) \cup {ServerOf(sessions[w][i])}
           /\ UNCHANGED editing
  <2>1. [sessions[w] EXCEPT ![i] = t] \in Seq(Session) /\ Len([sessions[w] EXCEPT ![i] = t]) = Len(sessions[w])
    BY <1>0, <1>2, <1>6 DEF t
  <2>2. \A k \in kept' : k.server \notin lost' => k.server # ServerOf(sessions[w][i])
    BY <1>6 DEF Forget
  <2>3. \A k \in kept' : k.server \notin lost' => Listed([sessions[w] EXCEPT ![i] = t], k)
    BY <1>0, <1>4, <1>6, <2>2, ListedByChange
  <2>. QED  BY <1>0, <1>4, <1>6, <2>1, <2>3 DEF Saves
<1>7. CASE BeginSave(w, sessions[w]) /\ UNCHANGED editing
  BY <1>0, <1>4, <1>7 DEF Saves
<1>. QED  BY <1>1, <1>5, <1>6, <1>7 DEF t

\* What beginning a save does to the disk and to the saves of all windows.
LEMMA SavesBounded ==
    ASSUME SoundInv, Bounded, NEW w \in Windows, Saves(w), writable' = writable
    PROVE  /\ \A v \in Windows : Len(sessions'[v]) <= MaxSessions
           /\ Len(primary'.list) <= MaxSessions /\ Len(legacy'.list) <= MaxSessions
           /\ primary' \in File /\ legacy' \in File
           /\ saving' \in [Windows -> {"no", "alone", "mixed"}]
<1>1. PICK list \in Seq(Session) : BeginSave(w, list) /\ Len(list) <= MaxSessions
  BY DEF Saves
<1>2. Torn \in File /\ Torn.list = <<>> /\ Len(<<>>) <= MaxSessions
  BY MaxSessionsAssumption DEF Torn, File
<1>3. primary' \in {primary, Torn} /\ legacy' \in {legacy, Torn}
  BY <1>1 DEF BeginSave, Write
<1>4. \A v \in Windows : Len(sessions'[v]) <= MaxSessions
  BY <1>1 DEF BeginSave, SoundInv, ListsSound, Bounded
<1>5. saving' \in [Windows -> {"no", "alone", "mixed"}]
  BY <1>1 DEF BeginSave
<1>. QED  BY <1>2, <1>3, <1>4, <1>5 DEF Bounded

LEMMA BoundedStep ==
    ASSUME SoundInv, SoundInv', Bounded, NEW w \in Windows, NEW v \in Windows,
           \/ Launch(w) \/ Resolve(w) \/ New(w) \/ Close(w)
           \/ NeedPassword(w) \/ EnterPassword(w) \/ Connected(w) \/ Disconnected(w)
           \/ NewForm(w) \/ Select(w) \/ Delete(w) \/ SaveForm(w) \/ SshLogin(w)
           \/ EndSave(w) \/ Kill(w)
           \/ OpenSession(w, v) \/ OpenHost(w, v)
    PROVE  Bounded'
<1>0. /\ sessions \in [Windows -> Seq(Sound(carried))] /\ editing \in [Windows -> Nat]
      /\ saving \in [Windows -> {"no", "alone", "mixed"}]
      /\ MaxSessions \in Nat /\ MaxSessions > 0
  BY MaxSessionsAssumption DEF SoundInv, ListsSound, FormTyped, Bounded
<1>1. CASE \/ Launch(w) \/ Resolve(w) \/ NeedPassword(w) \/ EnterPassword(w) \/ Disconnected(w)
           \/ OpenSession(w, v) \/ OpenHost(w, v)
  <2>1. UNCHANGED <<primary, legacy, writable, sessions, editing, saving>>
    BY <1>1 DEF Launch, Spawn, Resolve, NeedPassword, EnterPassword, Disconnected, OpenSession, OpenHost
  <2>. QED  BY <2>1 DEF Bounded
<1>2. CASE New(w)
  <2>1. Len(Load) <= MaxSessions
    <3>1. Len(<<>>) <= MaxSessions
      BY <1>0
    <3>. QED  BY <3>1 DEF Load, Bounded
  <2>2. \A u \in Windows : Len(sessions'[u]) <= MaxSessions /\ editing'[u] <= MaxSessions
    BY <1>0, <1>2, <2>1 DEF New, Bounded
  <2>. QED  BY <1>2, <2>2 DEF New, Bounded
<1>3. CASE Close(w) \/ Kill(w)
  <2>1. Exit(w)
    BY <1>3 DEF Close, Kill
  <2>2. Len(<<>>) <= MaxSessions
    BY <1>0
  <2>3. \A u \in Windows : Len(sessions'[u]) <= MaxSessions /\ editing'[u] <= MaxSessions
    BY <1>0, <2>1, <2>2 DEF Exit, Bounded
  <2>4. saving' \in [Windows -> {"no", "alone", "mixed"}]
    BY <1>0, <2>1 DEF Exit
  <2>. QED  BY <2>1, <2>3, <2>4 DEF Exit, Bounded
<1>4. CASE NewForm(w) \/ Select(w)
  <2>1. \A u \in Windows : editing'[u] <= MaxSessions
    <3>1. CASE NewForm(w)
      BY <1>0, <3>1 DEF NewForm, Bounded
    <3>2. CASE Select(w)
      <4>1. PICK i \in DOMAIN sessions[w] : editing' = [editing EXCEPT ![w] = i]
        BY <3>2 DEF Select
      <4>2. i <= MaxSessions
        BY <1>0, <4>1 DEF Bounded
      <4>. QED  BY <1>0, <4>1, <4>2 DEF Bounded
    <3>. QED  BY <1>4, <3>1, <3>2
  <2>2. UNCHANGED <<primary, legacy, writable, sessions, saving>>
    BY <1>4 DEF NewForm, Select
  <2>. QED  BY <2>1, <2>2 DEF Bounded
<1>5. CASE EndSave(w)
  <2>1. /\ primary' \in {primary, Whole(sessions[w]), Torn}
        /\ legacy' \in {legacy, Whole(sessions[w]), Torn}
        /\ saving' = [saving EXCEPT ![w] = "no"]
        /\ UNCHANGED <<writable, sessions, editing>>
    BY <1>5 DEF EndSave, Write
  <2>2. Torn \in File /\ Torn.list = <<>> /\ Len(<<>>) <= MaxSessions
    BY <1>0 DEF Torn, File
  <2>3. Whole(sessions[w]) \in File /\ Whole(sessions[w]).list = sessions[w]
    BY <1>0, SoundIsSession DEF Whole, File
  <2>4. saving' \in [Windows -> {"no", "alone", "mixed"}]
    BY <1>0, <2>1
  <2>. QED  BY <2>1, <2>2, <2>3, <2>4 DEF Bounded
<1>6. CASE Connected(w)
  <2>1. UNCHANGED <<writable, editing>>
    BY <1>6 DEF Connected
  <2>2. CASE Saves(w)
    BY <2>1, <2>2, SavesBounded DEF Bounded
  <2>3. CASE UNCHANGED <<primary, legacy, sessions, saving>>
    BY <2>1, <2>3 DEF Bounded
  <2>. QED  BY <1>6, <2>2, <2>3, ConnectedSaves
<1>7. CASE Delete(w) \/ SaveForm(w) \/ SshLogin(w)
  <2>1. writable' = writable /\ Saves(w)
    BY <1>7, DeleteSaves, SaveFormSaves, SshLoginSaves DEF Delete, SaveForm, SshLogin
  <2>2. \A u \in Windows : editing'[u] <= MaxSessions
    <3>1. editing'[w] <= MaxSessions
      BY <1>7, DeleteSaves, SaveFormSaves DEF SshLogin, Bounded
    <3>2. \A u \in Windows : u # w => editing'[u] = editing[u]
      BY <1>0, <1>7 DEF Delete, SaveForm, SshLogin
    <3>. QED  BY <3>1, <3>2 DEF Bounded
  <2>. QED  BY <2>1, <2>2, SavesBounded DEF Bounded
<1>. QED  BY <1>1, <1>2, <1>3, <1>4, <1>5, <1>6, <1>7

LEMMA BoundedInit == Init => Bounded
<1>. SUFFICES ASSUME Init PROVE Bounded
  OBVIOUS
<1>1. Len(<<>>) <= MaxSessions /\ <<>> \in Seq(Session)
  BY MaxSessionsAssumption
<1>2. Absent \in File /\ Absent.list = <<>>
  BY <1>1 DEF Absent, File
<1>3. \A l \in InitLists : Whole(l) \in File /\ Whole(l).list = l /\ Len(l) <= MaxSessions
  BY SoundIsSession, InitListsAssumption DEF Whole, File
<1>4. /\ primary \in File /\ legacy \in File
      /\ Len(primary.list) <= MaxSessions /\ Len(legacy.list) <= MaxSessions
  BY <1>1, <1>2, <1>3 DEF Init
<1>5. writable \in BOOLEAN
  BY WritableAssumption DEF Init
<1>. QED  BY <1>1, <1>4, <1>5, MaxSessionsAssumption DEF Init, Bounded

LEMMA BoundedAlways == Spec => []Bounded
<1>1. SoundInv /\ SoundInv' /\ Bounded /\ [Next]_vars => Bounded'
  <2>. SUFFICES ASSUME SoundInv, SoundInv', Bounded, [Next]_vars PROVE Bounded'
    OBVIOUS
  <2>1. CASE UNCHANGED vars
    BY <2>1 DEF Bounded, vars, winVars
  <2>2. CASE Next
    BY <2>2, BoundedStep, Zenon DEF Next
  <2>. QED  BY <2>1, <2>2
<1>. QED  BY <1>1, SoundInit, SoundStep, BoundedInit, PTL DEF Spec

\* Every list, in memory or on the disk, keeps its bound and is of sessions, and
\* the form never speaks of an index no list can have, whatever windows do.
THEOREM TypeCorrect == Spec => []TypeOK
<1>1. SoundInv /\ Bounded => TypeOK
  <2>. SUFFICES ASSUME SoundInv, Bounded PROVE TypeOK
    OBVIOUS
  <2>1. \A w \in Windows : sessions[w] \in Seq(Session) /\ Len(sessions[w]) <= MaxSessions
    <3>1. \A w \in Windows : sessions[w] \in Seq(Sound(carried))
      BY DEF SoundInv, ListsSound
    <3>2. \A w \in Windows : sessions[w] \in Seq(Session)
      BY <3>1, SoundIsSession, Zenon
    <3>3. \A w \in Windows : Len(sessions[w]) <= MaxSessions
      BY Zenon DEF Bounded
    <3>. QED  BY <3>2, <3>3, Zenon
  <2>2. editing \in [Windows -> 0 .. MaxSessions]
    BY MaxSessionsAssumption DEF SoundInv, FormTyped, Bounded
  <2>3. current \in [Windows -> Conn \cup {NoConn}]
    BY DEF SoundInv, CurrentSound, ConnSound
  <2>. QED  BY <2>1, <2>2, <2>3 DEF TypeOK, SoundInv, ArgsSound, FormTyped, Bounded
<1>. QED  BY <1>1, BoundedAlways, SoundInit, SoundStep, PTL DEF Spec
-----------------------------------------------------------------------------
(* Nothing is forgotten but the lost.  While a server is kept and not lost, *)
(* at most one window is inside a save, the list it is writing has that     *)
(* server, and so has the disk when no window is.                          *)

\* What is saved can be read back: no unwritable file stands before it.
Visible == writable \/ primary.is # "whole"

\* Connection `k` will be found.
Safe(k) ==
    /\ \A w, v \in Windows : Busy(w) /\ Busy(v) => w = v
    /\ \A w \in Windows : saving[w] # "mixed"
    /\ Visible => /\ \A w \in Windows : Busy(w) => Listed(sessions[w], k)
                  /\ Quiet => Listed(Load, k)

KeptInv ==
    /\ \A w \in Windows : Busy(w) => pc[w] \in Open
    /\ \A k \in kept : k.server \notin lost => Safe(k)

\* A connection stays safe when neither the disk nor a list being saved changes.
LEMMA SafeUntouched ==
    ASSUME NEW k, Safe(k), UNCHANGED <<primary, legacy, writable, saving>>,
           \A u \in Windows : Busy(u) => sessions'[u] = sessions[u]
    PROVE  Safe(k)'
<1>1. Load' = Load /\ Visible' = Visible /\ Quiet' = Quiet
  BY DEF Load, Visible, Quiet, Busy
<1>2. \A u \in Windows : Busy(u)' = Busy(u)
  BY DEF Busy
<1>3. \A u \in Windows : Busy(u) => Listed(sessions[u], k)' = Listed(sessions[u], k)
  BY DEF Listed
<1>4. Listed(Load, k)' = Listed(Load, k)
  BY <1>1 DEF Listed
<1>. QED  BY <1>1, <1>2, <1>3, <1>4 DEF Safe

\* An action that touches neither the disk, nor a list being saved, nor what is
\* to be kept.
LEMMA KeptUntouched ==
    ASSUME KeptInv, UNCHANGED <<primary, legacy, writable, saving, kept, lost>>,
           \A u \in Windows : Busy(u) => pc'[u] \in Open /\ sessions'[u] = sessions[u]
    PROVE  KeptInv'
<1>1. \A k \in kept' : k.server \notin lost' => Safe(k)'
  BY SafeUntouched DEF KeptInv
<1>2. (\A u \in Windows : Busy(u) => pc[u] \in Open)'
  BY DEF Busy
<1>. QED  BY <1>1, <1>2 DEF KeptInv

\* A save that begins: its list has what is kept and not lost.
LEMMA KeptBySaving ==
    ASSUME SoundInv, Bounded, KeptInv, NEW w \in Windows, Ready(w), Saves(w), writable' = writable,
           pc'[w] \in Open, \A u \in Windows : u # w => pc'[u] = pc[u]
    PROVE  KeptInv'
<1>1. PICK list \in Seq(Session) :
          /\ BeginSave(w, list)
          /\ \A k \in kept' : k.server \notin lost' =>
                Listed(list, k) /\ \A v \in Windows : saving[v] = "no"
  BY DEF Saves
<1>2. sessions \in [Windows -> Seq(Sound(carried))] /\ saving \in [Windows -> {"no", "alone", "mixed"}]
  BY DEF SoundInv, ListsSound, Bounded
<1>3. \A u \in Windows : saving'[u] # "no" => u = w \/ saving[u] # "no"
  BY <1>1, <1>2 DEF BeginSave
<1>4. (\A u \in Windows : Busy(u) => pc[u] \in Open)'
  BY <1>3 DEF KeptInv, Busy
<1>5. ASSUME NEW k \in kept', k.server \notin lost' PROVE Safe(k)'
  <2>1. Listed(list, k) /\ \A u \in Windows : saving[u] = "no"
    BY <1>1, <1>5
  <2>2. saving' = [v \in Windows |-> IF v = w THEN "alone" ELSE "no"] /\ sessions'[w] = list
    BY <1>1, <1>2, <2>1 DEF BeginSave
  <2>3. \A u \in Windows : saving'[u] # "no" => u = w
    BY <2>2
  <2>4. \A u \in Windows : saving'[u] # "mixed"
    BY <2>2
  <2>5. saving'[w] # "no"
    BY <2>2
  <2>6. Listed(sessions[w], k)'
    BY <2>1, <2>2 DEF Listed
  <2>. QED  BY <2>3, <2>4, <2>5, <2>6 DEF Safe, Busy, Quiet
<1>. QED  BY <1>4, <1>5 DEF KeptInv

\* A save that ends leaves on the disk the list it was to write.
LEMMA KeptByEndSave ==
    ASSUME SoundInv, Bounded, KeptInv, NEW w \in Windows, EndSave(w)
    PROVE  KeptInv'
<1>0. saving \in [Windows -> {"no", "alone", "mixed"}] /\ writable \in BOOLEAN
  BY DEF Bounded
<1>1. /\ saving[w] # "no" /\ saving' = [saving EXCEPT ![w] = "no"]
      /\ Write({Whole(sessions[w])} \cup {f \in {Torn} : saving[w] = "mixed"})
      /\ UNCHANGED <<writable, pc, sessions, kept, lost>>
  BY DEF EndSave, ghostVars
<1>2. (\A u \in Windows : Busy(u) => pc[u] \in Open)'
  BY <1>0, <1>1 DEF KeptInv, Busy
<1>3. ASSUME NEW k \in kept', k.server \notin lost' PROVE Safe(k)'
  <2>1. Safe(k)
    BY <1>1, <1>3 DEF KeptInv
  <2>2. \A u \in Windows : saving'[u] = "no"
    BY <1>0, <1>1, <2>1 DEF Safe, Busy
  <2>3. Write({Whole(sessions[w])})
    BY <1>1, <2>1 DEF Safe, Write
  <2>4. Visible' => Visible
    BY <1>1, <2>3 DEF Visible, Write
  <2>5. Visible' => Load' = sessions[w]
    <3>1. Whole(sessions[w]).is = "whole" /\ Whole(sessions[w]).list = sessions[w]
      BY DEF Whole
    <3>2. CASE writable
      BY <2>3, <3>1, <3>2 DEF Write, Load
    <3>3. CASE ~writable
      BY <1>1, <2>3, <3>1, <3>3 DEF Write, Load, Visible
    <3>. QED  BY <3>2, <3>3
  <2>6. Visible => Listed(sessions[w], k)
    BY <1>1, <2>1 DEF Safe, Busy
  <2>7. Visible' => Listed(Load, k)'
    BY <2>4, <2>5, <2>6 DEF Listed
  <2>. QED  BY <2>2, <2>7 DEF Safe, Busy
<1>. QED  BY <1>2, <1>3 DEF KeptInv

\* A window that ends.  In the middle of a save it takes all that is kept with it.
LEMMA KeptByExit ==
    ASSUME SoundInv, Bounded, KeptInv, NEW w \in Windows, Close(w) \/ Kill(w)
    PROVE  KeptInv'
<1>0. saving \in [Windows -> {"no", "alone", "mixed"}] /\ sessions \in [Windows -> Seq(Sound(carried))]
      /\ pc \in [Windows -> {"closed", "resolve", "start"} \cup Open]
  BY DEF Bounded, SoundInv, ListsSound
<1>1. /\ saving' = [saving EXCEPT ![w] = "no"] /\ sessions' = [sessions EXCEPT ![w] = <<>>]
      /\ pc' = [pc EXCEPT ![w] = "closed"] /\ UNCHANGED <<primary, legacy, writable, kept>>
  BY DEF Close, Kill, Exit
<1>2. \A u \in Windows : saving'[u] # "no" => u # w /\ saving[u] # "no" /\ pc'[u] = pc[u]
  BY <1>0, <1>1
<1>3. (\A u \in Windows : Busy(u) => pc[u] \in Open)'
  BY <1>2 DEF KeptInv, Busy
<1>4. ASSUME NEW k \in kept', k.server \notin lost' PROVE Safe(k)'
  <2>1. CASE Kill(w)
    BY <1>1, <1>4, <2>1 DEF Kill
  <2>2. CASE Close(w)
    <3>1. saving[w] = "no" /\ lost' = lost
      BY <2>2 DEF Close, Ready, Busy
    <3>2. saving' = saving
      BY <1>0, <1>1, <3>1
    <3>3. Safe(k)
      BY <1>1, <1>4, <3>1 DEF KeptInv
    <3>4. \A u \in Windows : Busy(u) => sessions'[u] = sessions[u]
      BY <1>0, <1>1, <3>1 DEF Busy
    <3>. QED  BY <1>1, <3>2, <3>3, <3>4, SafeUntouched
  <2>. QED  BY <2>1, <2>2
<1>. QED  BY <1>3, <1>4 DEF KeptInv

LEMMA KeptStep ==
    ASSUME SoundInv, Bounded, KeptInv, NEW w \in Windows, NEW v \in Windows,
           \/ Launch(w) \/ Resolve(w) \/ New(w) \/ Close(w)
           \/ NeedPassword(w) \/ EnterPassword(w) \/ Connected(w) \/ Disconnected(w)
           \/ NewForm(w) \/ Select(w) \/ Delete(w) \/ SaveForm(w) \/ SshLogin(w)
           \/ EndSave(w) \/ Kill(w)
           \/ OpenSession(w, v) \/ OpenHost(w, v)
    PROVE  KeptInv'
<1>0. /\ pc \in [Windows -> {"closed", "resolve", "start"} \cup Open]
      /\ sessions \in [Windows -> Seq(Sound(carried))]
      /\ \A u \in Windows : Busy(u) => pc[u] \in Open
      /\ {"closed", "resolve", "start"} \cap Open = {}
  BY DEF SoundInv, ListsSound, KeptInv, Open
<1>1. ASSUME NEW u \in Windows, NEW a, Spawn(u, a) PROVE KeptInv'
  <2>1. /\ ~Busy(u) /\ UNCHANGED <<primary, legacy, writable, sessions, saving, kept, lost>>
        /\ pc' = [pc EXCEPT ![u] = "resolve"]
    BY <1>0, <1>1 DEF Spawn, ghostVars
  <2>2. \A x \in Windows : Busy(x) => pc'[x] \in Open
    BY <1>0, <2>1
  <2>. QED  BY <2>1, <2>2, KeptUntouched
<1>2. CASE Launch(w) \/ OpenSession(w, v) \/ OpenHost(w, v)
  BY <1>1, <1>2 DEF Launch, OpenSession, OpenHost
<1>3. CASE Resolve(w) \/ New(w)
  <2>1. /\ ~Busy(w) /\ UNCHANGED <<primary, legacy, writable, saving, kept, lost>>
        /\ \A u \in Windows : u # w => pc'[u] = pc[u] /\ sessions'[u] = sessions[u]
    BY <1>0, <1>3 DEF Resolve, New, ghostVars
  <2>2. \A x \in Windows : Busy(x) => pc'[x] \in Open /\ sessions'[x] = sessions[x]
    BY <1>0, <2>1
  <2>. QED  BY <2>1, <2>2, KeptUntouched
<1>4. CASE NeedPassword(w) \/ EnterPassword(w) \/ Disconnected(w) \/ NewForm(w) \/ Select(w)
  <2>1. UNCHANGED <<primary, legacy, writable, sessions, saving, kept, lost>>
    BY <1>4 DEF NeedPassword, EnterPassword, Disconnected, NewForm, Select, ghostVars
  <2>2. \A x \in Windows : pc[x] \in Open => pc'[x] \in Open
    BY <1>0, <1>4 DEF NeedPassword, EnterPassword, Disconnected, NewForm, Select, Open
  <2>. QED  BY <1>0, <2>1, <2>2, KeptUntouched
<1>5. CASE Close(w) \/ Kill(w)
  BY <1>5, KeptByExit
<1>6. CASE EndSave(w)
  BY <1>6, KeptByEndSave
<1>7. CASE Delete(w) \/ SaveForm(w) \/ SshLogin(w)
  <2>1. Saves(w)
    BY <1>7, DeleteSaves, SaveFormSaves, SshLoginSaves
  <2>2. Ready(w) /\ UNCHANGED <<writable, pc>>
    <3>1. CASE Delete(w)
      BY <3>1, Zenon DEF Delete
    <3>2. CASE SaveForm(w)
      BY <3>2, Zenon DEF SaveForm
    <3>3. CASE SshLogin(w)
      BY <3>3, Zenon DEF SshLogin
    <3>. QED  BY <1>7, <3>1, <3>2, <3>3
  <2>. QED  BY <2>1, <2>2, KeptBySaving DEF Ready
<1>8. CASE Connected(w)
  <2>1. /\ Ready(w) /\ writable' = writable /\ pc' = [pc EXCEPT ![w] = "connected"]
    BY <1>8 DEF Connected
  <2>2. pc'[w] \in Open /\ \A u \in Windows : u # w => pc'[u] = pc[u]
    BY <1>0, <2>1 DEF Open
  <2>3. CASE Saves(w)
    BY <2>1, <2>2, <2>3, KeptBySaving
  <2>4. CASE /\ UNCHANGED <<primary, legacy, sessions, saving>>
             /\ \A k \in kept' : k.server \notin lost' =>
                   \/ k \in kept /\ k.server \notin lost
                   \/ Listed(Load, k) /\ \A u \in Windows : saving[u] = "no"
    <3>1. (\A u \in Windows : Busy(u) => pc[u] \in Open)'
      BY <1>0, <2>2, <2>4 DEF Busy
    <3>2. ASSUME NEW k \in kept', k.server \notin lost' PROVE Safe(k)'
      <4>1. Safe(k)
        <5>1. CASE k \in kept /\ k.server \notin lost
          BY <5>1 DEF KeptInv
        <5>2. CASE Listed(Load, k) /\ \A u \in Windows : saving[u] = "no"
          BY <5>2 DEF Safe, Busy
        <5>. QED  BY <2>4, <3>2, <5>1, <5>2
      <4>. QED  BY <2>1, <2>4, <4>1, SafeUntouched
    <3>. QED  BY <3>1, <3>2 DEF KeptInv
  <2>. QED  BY <1>8, <2>3, <2>4, ConnectedSaves
<1>. QED  BY <1>2, <1>3, <1>4, <1>5, <1>6, <1>7, <1>8

\* For any number of windows, in whatever order they read, save, overlap and are
\* killed: a server once connected to is found, with the password that was used,
\* by whatever window starts next, unless it is among the lost: a save dropped
\* it, for one of the causes named at RememberedUnlessLost, since then.
THEOREM KeptAlways == Spec => []RememberedUnlessLost
<1>1. KeptInv => RememberedUnlessLost
  BY DEF KeptInv, Safe, Visible, RememberedUnlessLost
<1>2. Init => KeptInv
  BY DEF Init, KeptInv, Busy
<1>3. SoundInv /\ Bounded /\ KeptInv /\ [Next]_vars => KeptInv'
  <2>. SUFFICES ASSUME SoundInv, Bounded, KeptInv, [Next]_vars PROVE KeptInv'
    OBVIOUS
  <2>1. CASE UNCHANGED vars
    BY <2>1, KeptUntouched DEF vars, winVars, ghostVars, KeptInv
  <2>2. CASE Next
    BY <2>2, KeptStep, Zenon DEF Next
  <2>. QED  BY <2>1, <2>2
<1>. QED  BY <1>1, <1>2, <1>3, SoundInit, SoundStep, BoundedInit, BoundedAlways, PTL DEF Spec
=============================================================================

---------------------------- MODULE Handshake_proofs ----------------------------
(***************************************************************************)
(* Handshake for any server, any saved password and any number of inputs:   *)
(* the password dialog and the thread that waits for it.                   *)
(***************************************************************************)
EXTENDS Handshake, SequenceTheorems, TLAPS

Event   == {"needPassword", "desktopSize", "desktopName"} \cup Outcomes
Command == [is : {"provide", "disconnect", "input"}, val : PwValues]
Under   == {"connect", "session"} \cup Reading   \* neither asking nor ended

Typed ==
    /\ events \in Seq(Event) /\ cmds \in Seq(Command)
    /\ pc \in {"prompt"} \cup Under \cup Outcomes

Asked     == Occurs("needPassword")
Queued(c) == \E i \in 1 .. Len(cmds) : cmds[i].is = c

\* The window knows of the end exactly when the thread has come to one, and a
\* window that has left has said so.
EndKnown ==
    /\ Over => pc \in Outcomes
    /\ connection /\ pc \in Outcomes => Over
    /\ ~connection => events = <<>> /\ ~dialog
    /\ ~connection /\ pc \notin Outcomes => Queued("disconnect")

\* The question is in one place at a time: an event, the dialog, or a command
\* that answers it; and nowhere while the thread is not asking.
OneQuestion ==
    /\ pc \in Under => ~Asked /\ ~dialog /\ ~Queued("provide")
    /\ pc = "prompt" =>
          /\ \A i, j \in 1 .. Len(cmds) : cmds[i].is = "provide" /\ cmds[j].is = "provide" => i = j
          /\ Asked => ~dialog
          /\ Queued("provide") => ~Asked /\ ~dialog
          /\ connection => Asked \/ dialog \/ Queued("provide")

Inv == Typed /\ EndKnown /\ OneQuestion

-----------------------------------------------------------------------------
(* Sequences.                                                              *)

LEMMA AppendedEvent ==
    ASSUME NEW s \in Seq(Event), NEW t \in Seq(Event)
    PROVE  /\ s \o t \in Seq(Event)
           /\ \A e : (\E i \in 1 .. Len(s \o t) : (s \o t)[i] = e) <=>
                 (\E i \in 1 .. Len(s) : s[i] = e) \/ (\E i \in 1 .. Len(t) : t[i] = e)
<1>1. /\ s \o t \in Seq(Event) /\ Len(s \o t) = Len(s) + Len(t)
      /\ \A i \in 1 .. Len(s) + Len(t) : (s \o t)[i] =
              IF i <= Len(s) THEN s[i] ELSE t[i - Len(s)]
      /\ Len(s) \in Nat /\ Len(t) \in Nat
  BY ConcatProperties, LenProperties
<1>2. ASSUME NEW i \in 1 .. Len(s) PROVE i \in 1 .. Len(s \o t) /\ (s \o t)[i] = s[i]
  BY <1>1
<1>3. ASSUME NEW i \in 1 .. Len(t)
      PROVE  Len(s) + i \in 1 .. Len(s \o t) /\ (s \o t)[Len(s) + i] = t[i]
  <2>1. Len(s) + i \in 1 .. Len(s) + Len(t) /\ ~(Len(s) + i <= Len(s)) /\ Len(s) + i - Len(s) = i
    BY <1>1
  <2>. QED  BY <1>1, <2>1
<1>4. ASSUME NEW i \in 1 .. Len(s \o t)
      PROVE  \/ i \in 1 .. Len(s) /\ (s \o t)[i] = s[i]
             \/ i - Len(s) \in 1 .. Len(t) /\ (s \o t)[i] = t[i - Len(s)]
  BY <1>1
<1>5. ASSUME NEW e
      PROVE  (\E i \in 1 .. Len(s \o t) : (s \o t)[i] = e) <=>
                 (\E i \in 1 .. Len(s) : s[i] = e) \/ (\E i \in 1 .. Len(t) : t[i] = e)
  BY <1>2, <1>3, <1>4
<1>. QED  BY <1>1, <1>5

LEMMA AppendedCommand ==
    ASSUME NEW s \in Seq(Command), NEW c \in Command
    PROVE  /\ Append(s, c) \in Seq(Command) /\ Len(s) \in Nat
           /\ Len(Append(s, c)) = Len(s) + 1 /\ Append(s, c)[Len(s) + 1] = c
           /\ \A i \in 1 .. Len(s) : Append(s, c)[i] = s[i]
OBVIOUS

LEMMA TailCommand ==
    ASSUME NEW s \in Seq(Command), s # <<>>
    PROVE  /\ Tail(s) \in Seq(Command) /\ Len(Tail(s)) = Len(s) - 1 /\ Len(s) \in Nat /\ Len(s) >= 1
           /\ \A i \in 1 .. Len(s) - 1 : Tail(s)[i] = s[i + 1]
           /\ Head(s) = s[1] /\ Head(s) \in Command
OBVIOUS

LEMMA NoEvents == <<>> \in Seq(Event) /\ \A i \in 1 .. Len(<<>>) : FALSE
OBVIOUS

\* The values of pc are different.
LEMMA Kinds ==
    /\ "prompt" \notin Under \cup Outcomes /\ Under \cap Outcomes = {}
    /\ {"disconnected", "error"} = Outcomes /\ "prompt" \notin Reading
BY DEF Under, Outcomes, Reading, Ra2Rounds

-----------------------------------------------------------------------------
(* The background thread.                                                  *)

\* What events it may send, and what is then known.
LEMMA Emits ==
    ASSUME Inv, NEW evs \in Seq(Event), events' = Emitted(evs), connection' = connection
    PROVE  /\ events' \in Seq(Event)
           /\ ~connection => events' = <<>>
           /\ \A e : Occurs(e)' <=> Occurs(e) \/ (connection /\ \E i \in 1 .. Len(evs) : evs[i] = e)
<1>1. events \in Seq(Event) /\ (~connection => events = <<>>)
  BY DEF Inv, Typed, EndKnown
<1>2. CASE connection
  <2>1. events' = events \o evs
    BY <1>2 DEF Emitted
  <2>2. events' \in Seq(Event)
    BY <1>1, <2>1, AppendedEvent
  <2>a. \A e : (\E i \in 1 .. Len(events \o evs) : (events \o evs)[i] = e) <=>
              (\E i \in 1 .. Len(events) : events[i] = e) \/ (\E i \in 1 .. Len(evs) : evs[i] = e)
    <3>1. events \in Seq(Event) /\ evs \in Seq(Event)
      BY <1>1
    <3>. QED  BY <3>1, AppendedEvent
  <2>3. ASSUME NEW e
        PROVE  Occurs(e)' <=> Occurs(e) \/ \E i \in 1 .. Len(evs) : evs[i] = e
    <3>1. Occurs(e)' <=> \E i \in 1 .. Len(events \o evs) : (events \o evs)[i] = e
      BY <2>1 DEF Occurs
    <3>2. Occurs(e) <=> \E i \in 1 .. Len(events) : events[i] = e
      BY DEF Occurs
    <3>3. (\E i \in 1 .. Len(events \o evs) : (events \o evs)[i] = e) <=>
              (\E i \in 1 .. Len(events) : events[i] = e) \/ (\E i \in 1 .. Len(evs) : evs[i] = e)
      BY <2>a, Zenon
    <3>. QED  BY <3>1, <3>2, <3>3, Zenon
  <2>. QED  BY <1>2, <2>2, <2>3
<1>3. CASE ~connection
  BY <1>1, <1>3 DEF Emitted, Occurs
<1>. QED  BY <1>2, <1>3

\* It goes on.
LEMMA MoveStep ==
    ASSUME Inv, pc \in Under, pc' \in Under, UNCHANGED <<uiVars, cmds, events>>
    PROVE  Inv'
<1>1. Typed'
  BY DEF Inv, Typed
<1>2. EndKnown' /\ OneQuestion'
  BY Kinds DEF Inv, EndKnown, OneQuestion, Over, Occurs, Asked, Queued, uiVars
<1>. QED  BY <1>1, <1>2 DEF Inv

\* It ends, and says so.
LEMMA FinishStep ==
    ASSUME Inv, pc \in Under \cup {"prompt"}, NEW o \in Outcomes, Finish(o),
           cmds' \in Seq(Command), UNCHANGED uiVars
    PROVE  Inv'
<1>0. pc' = o /\ events' = Emitted(<<o>>) /\ connection' = connection /\ dialog' = dialog
  BY DEF Finish, uiVars
<1>1. <<o>> \in Seq(Event) /\ Len(<<o>>) = 1 /\ <<o>>[1] = o
  BY DEF Event
<1>a. \E i \in 1 .. Len(<<o>>) : <<o>>[i] = o
  BY <1>1
<1>2. /\ events' \in Seq(Event)
      /\ ~connection => events' = <<>>
      /\ \A e : Occurs(e)' <=> Occurs(e) \/ (connection /\ \E i \in 1 .. Len(<<o>>) : <<o>>[i] = e)
  BY <1>0, <1>1, Emits
<1>b. connection => Occurs(o)'
  BY <1>a, <1>2
<1>3. Typed'
  BY <1>0, <1>2 DEF Typed
<1>4. EndKnown' /\ OneQuestion'
  BY <1>0, <1>2, <1>b, Kinds DEF Inv, EndKnown, OneQuestion, Over
<1>. QED  BY <1>3, <1>4 DEF Inv

\* It asks for the password.
LEMMA AskStep ==
    ASSUME Inv, pc \in Under, pc' = "prompt", events' = Emitted(Prompt),
           UNCHANGED <<uiVars, cmds>>
    PROVE  Inv'
<1>0. connection' = connection /\ dialog' = dialog /\ cmds' = cmds
  BY DEF uiVars
<1>1. Prompt \in Seq(Event) /\ Len(Prompt) = 1 /\ Prompt[1] = "needPassword"
  BY DEF Prompt, Event
<1>2. /\ events' \in Seq(Event)
      /\ ~connection => events' = <<>>
      /\ \A e : Occurs(e)' <=> Occurs(e) \/ (connection /\ e = "needPassword")
  BY <1>0, <1>1, Emits
<1>3. ~Over' /\ ~Over
  BY <1>2, Kinds DEF Inv, EndKnown, Over, Outcomes
<1>4. Typed'
  BY <1>0, <1>2 DEF Inv, Typed
<1>5. EndKnown'
  BY <1>0, <1>2, <1>3, Kinds DEF Inv, EndKnown, Queued
<1>6. OneQuestion'
  BY <1>0, <1>2, Kinds DEF Inv, OneQuestion, Queued, Asked
<1>. QED  BY <1>4, <1>5, <1>6 DEF Inv

\* It has a session.
LEMMA ConnectedStep ==
    ASSUME Inv, pc \in Under, pc' = "session",
           events' = Emitted(<<"desktopSize", "desktopName">>), UNCHANGED <<uiVars, cmds>>
    PROVE  Inv'
<1>. DEFINE evs == <<"desktopSize", "desktopName">>
<1>0. connection' = connection /\ dialog' = dialog /\ cmds' = cmds
  BY DEF uiVars
<1>1. evs \in Seq(Event) /\ Len(evs) = 2 /\ evs[1] = "desktopSize" /\ evs[2] = "desktopName"
  BY DEF Event
<1>2. \A i \in 1 .. Len(evs) : evs[i] # "needPassword" /\ evs[i] \notin Outcomes
  BY <1>1 DEF Outcomes
<1>. HIDE DEF evs
<1>3. /\ events' \in Seq(Event)
      /\ ~connection => events' = <<>>
      /\ \A e : Occurs(e)' <=> Occurs(e) \/ (connection /\ \E i \in 1 .. Len(evs) : evs[i] = e)
  BY <1>0, <1>1, Emits DEF evs
<1>4. Over' <=> Over
  BY <1>2, <1>3 DEF Over
<1>5. Asked' <=> Asked
  BY <1>2, <1>3 DEF Asked
<1>6. pc' \in Under
  BY DEF Under
<1>7. Typed'
  BY <1>0, <1>3, <1>6 DEF Inv, Typed
<1>8. EndKnown'
  BY <1>0, <1>3, <1>4, <1>6, Kinds DEF Inv, EndKnown, Queued
<1>9. OneQuestion'
  BY <1>0, <1>5, <1>6, Kinds DEF Inv, OneQuestion, Queued
<1>. QED  BY <1>7, <1>8, <1>9 DEF Inv

LEMMA BeginStep ==
    ASSUME Inv, pc \in Under, NEW t, NEW version, NEW msgs, Begin(t, version, msgs),
           UNCHANGED <<uiVars, cmds>>
    PROVE  Inv'
<1>1. \/ pc' \in {"result", "init", "challenge", "key"} /\ events' = events
      \/ pc' = "prompt" /\ events' = Emitted(Prompt)
  BY DEF Begin, Method
<1>2. {"result", "init", "challenge", "key"} \subseteq Under
  BY DEF Under, Reading, Ra2Rounds
<1>. QED  BY <1>1, <1>2, MoveStep, AskStep

\* One message read, by the steps above.
LEMMA ReadStep ==
    ASSUME Inv, \/ TcpConnect \/ ReadBanner \/ ReadTypes \/ ReadType33 \/ ReadReason
                \/ VncAuthResponse \/ ReadResult \/ ReadInit \/ ReadFails
                \/ \E kind \in Ra2Rounds : Ra2Exchange(kind)
    PROVE  Inv'
<1>. USE DEF Arrived
<1>1. /\ {"connect", "banner", "types", "type33", "reason", "challenge", "result", "init"} \subseteq Under
      /\ Ra2Rounds \subseteq Under /\ Reading \subseteq Under /\ "error" \in Outcomes
      /\ \A kind \in Ra2Rounds : Ra2Next[kind] \in Under
  BY DEF Under, Reading, Ra2Rounds, Outcomes, Ra2Next
<1>2. cmds \in Seq(Command)
  BY DEF Inv, Typed
<1>3. ASSUME pc \in Under, WriteFails, UNCHANGED <<uiVars, cmds>> PROVE Inv'
  BY <1>1, <1>2, <1>3, FinishStep DEF WriteFails
<1>4. CASE TcpConnect
  BY <1>1, <1>2, <1>4, MoveStep, FinishStep DEF TcpConnect
<1>5. CASE ReadBanner
  BY <1>1, <1>3, <1>5, MoveStep DEF ReadBanner
<1>6. CASE ReadTypes
  BY <1>1, <1>2, <1>3, <1>6, MoveStep, BeginStep, FinishStep DEF ReadTypes
<1>7. CASE ReadType33
  BY <1>1, <1>2, <1>3, <1>7, MoveStep, BeginStep, FinishStep DEF ReadType33
<1>8. CASE ReadReason
  BY <1>1, <1>2, <1>8, FinishStep DEF ReadReason
<1>9. CASE VncAuthResponse
  BY <1>1, <1>3, <1>9, MoveStep DEF VncAuthResponse
<1>10. CASE ReadResult
  BY <1>1, <1>2, <1>3, <1>10, MoveStep, FinishStep DEF ReadResult
<1>11. CASE ReadInit
  BY <1>1, <1>11, ConnectedStep DEF ReadInit
<1>12. CASE ReadFails
  BY <1>1, <1>2, <1>12, FinishStep DEF ReadFails
<1>13. ASSUME NEW kind \in Ra2Rounds, Ra2Exchange(kind) PROVE Inv'
  BY <1>1, <1>2, <1>3, <1>13, MoveStep, FinishStep DEF Ra2Exchange
<1>. QED  BY <1>4, <1>5, <1>6, <1>7, <1>8, <1>9, <1>10, <1>11, <1>12, <1>13

\* What the first command was, and what is left.
LEMMA Taken ==
    ASSUME Inv, cmds # <<>>, cmds' = Tail(cmds)
    PROVE  /\ cmds' \in Seq(Command) /\ Head(cmds) \in Command
           /\ \A c : Queued(c) => Head(cmds).is = c \/ Queued(c)'
           /\ \A c : Queued(c)' => Queued(c)
           /\ \A i \in 1 .. Len(cmds') : i + 1 \in 1 .. Len(cmds) /\ cmds'[i] = cmds[i + 1]
           /\ 1 \in 1 .. Len(cmds) /\ Head(cmds) = cmds[1]
<1>1. /\ cmds' \in Seq(Command) /\ Len(cmds') = Len(cmds) - 1 /\ Len(cmds) \in Nat /\ Len(cmds) >= 1
      /\ \A i \in 1 .. Len(cmds) - 1 : cmds'[i] = cmds[i + 1]
      /\ Head(cmds) = cmds[1] /\ Head(cmds) \in Command
  BY TailCommand DEF Inv, Typed
<1>2. \A i \in 1 .. Len(cmds') : i + 1 \in 1 .. Len(cmds) /\ cmds'[i] = cmds[i + 1]
  BY <1>1
<1>3. \A i \in 1 .. Len(cmds) : i = 1 \/ (i - 1 \in 1 .. Len(cmds') /\ cmds'[i - 1] = cmds[i])
  <2>1. ASSUME NEW i \in 1 .. Len(cmds), i # 1
        PROVE  i - 1 \in 1 .. Len(cmds') /\ cmds'[i - 1] = cmds[i]
    <3>1. i - 1 \in 1 .. Len(cmds) - 1 /\ i - 1 + 1 = i
      BY <1>1, <2>1
    <3>. QED  BY <1>1, <3>1
  <2>. QED  BY <2>1
<1>4. ASSUME NEW c PROVE /\ Queued(c) => Head(cmds).is = c \/ Queued(c)'
                         /\ Queued(c)' => Queued(c)
  <2>1. ASSUME Queued(c), Head(cmds).is # c PROVE Queued(c)'
    <3>1. PICK i \in 1 .. Len(cmds) : cmds[i].is = c
      BY <2>1 DEF Queued
    <3>2. i # 1
      BY <1>1, <2>1, <3>1
    <3>. QED  BY <1>3, <3>1, <3>2 DEF Queued
  <2>2. ASSUME Queued(c)' PROVE Queued(c)
    BY <1>2, <2>2 DEF Queued
  <2>. QED  BY <2>1, <2>2
<1>5. 1 \in 1 .. Len(cmds)
  BY <1>1
<1>. QED  BY <1>1, <1>2, <1>4, <1>5

LEMMA PromptStep ==
    ASSUME Inv, PromptAnswered \/ PromptTimesOut
    PROVE  Inv'
<1>1. CASE PromptTimesOut
  <2>1. "error" \in Outcomes /\ cmds' \in Seq(Command) /\ pc = "prompt" /\ Finish("error") /\ UNCHANGED uiVars
    BY <1>1 DEF PromptTimesOut, Outcomes, Inv, Typed
  <2>. QED  BY <2>1, FinishStep
<1>2. CASE PromptAnswered
  <2>0. /\ pc = "prompt" /\ cmds # <<>> /\ cmds' = Tail(cmds)
        /\ UNCHANGED <<uiVars, minor, chosen, down, up, serverVars>>
    BY <1>2 DEF PromptAnswered
  <2>1. /\ cmds' \in Seq(Command)
        /\ \A c : Queued(c) => Head(cmds).is = c \/ Queued(c)'
        /\ \A c : Queued(c)' => Queued(c)
        /\ \A i \in 1 .. Len(cmds') : i + 1 \in 1 .. Len(cmds) /\ cmds'[i] = cmds[i + 1]
        /\ 1 \in 1 .. Len(cmds) /\ Head(cmds) = cmds[1]
    BY <2>0, Taken
  <2>3. ASSUME events' = events, pc' = "prompt", Head(cmds).is = "input"
        PROVE  Inv'
    <3>1. Typed'
      BY <2>1, <2>3 DEF Inv, Typed
    <3>2. (Over' <=> Over) /\ (Asked' <=> Asked) /\ connection' = connection /\ dialog' = dialog
      BY <2>0, <2>3 DEF Over, Asked, Occurs, uiVars
    <3>3. (Queued("provide")' <=> Queued("provide")) /\ (Queued("disconnect") => Queued("disconnect")')
      BY <2>1, <2>3
    <3>4. EndKnown'
      BY <2>0, <2>3, <3>2, <3>3 DEF Inv, EndKnown
    <3>5. \A i, j \in 1 .. Len(cmds') : cmds'[i].is = "provide" /\ cmds'[j].is = "provide" => i = j
      <4>1. ASSUME NEW i \in 1 .. Len(cmds'), NEW j \in 1 .. Len(cmds'),
                   cmds'[i].is = "provide", cmds'[j].is = "provide"
            PROVE  i = j
        <5>1. i + 1 = j + 1
          BY <2>0, <2>1, <4>1 DEF Inv, OneQuestion
        <5>. QED  BY <5>1
      <4>. QED  BY <4>1
    <3>6. OneQuestion'
      BY <2>0, <2>3, <3>2, <3>3, <3>5, Kinds DEF Inv, OneQuestion
    <3>. QED  BY <3>1, <3>4, <3>6 DEF Inv
  <2>4. ASSUME events' = events, pc' \in Under, Head(cmds).is = "provide"
        PROVE  Inv'
    <3>1. Typed'
      BY <2>1, <2>4 DEF Inv, Typed
    <3>2. (Over' <=> Over) /\ (Asked' <=> Asked) /\ connection' = connection /\ dialog' = dialog
      BY <2>0, <2>4 DEF Over, Asked, Occurs, uiVars
    <3>3. Queued("provide") /\ (Queued("disconnect") => Queued("disconnect")')
      BY <2>1, <2>4 DEF Queued
    <3>4. ~Queued("provide")'
      <4>1. ASSUME NEW i \in 1 .. Len(cmds'), cmds'[i].is = "provide" PROVE FALSE
        <5>1. i + 1 = 1
          BY <2>0, <2>1, <2>4, <4>1 DEF Inv, OneQuestion
        <5>. QED  BY <5>1
      <4>. QED  BY <4>1 DEF Queued
    <3>5. EndKnown'
      BY <2>0, <2>4, <3>2, <3>3, Kinds DEF Inv, EndKnown
    <3>6. OneQuestion'
      BY <2>0, <2>4, <3>2, <3>3, <3>4, Kinds DEF Inv, OneQuestion
    <3>. QED  BY <3>1, <3>5, <3>6 DEF Inv
  <2>5. \/ events' = events /\ pc' \in {"challenge", "key"} /\ Head(cmds).is = "provide"
        \/ Finish("error")
        \/ events' = events /\ pc' = "prompt" /\ Head(cmds).is = "input"
    BY <1>2, <2>0 DEF PromptAnswered, Method
  <2>6. {"challenge", "key"} \subseteq Under /\ "error" \in Outcomes
    BY DEF Under, Reading, Ra2Rounds, Outcomes
  <2>7. ASSUME Finish("error") PROVE Inv'
    BY <2>0, <2>1, <2>6, <2>7, FinishStep
  <2>. QED  BY <2>3, <2>4, <2>5, <2>6, <2>7
<1>. QED  BY <1>1, <1>2

LEMMA DrainStep ==
    ASSUME Inv, SessionDrain
    PROVE  Inv'
<1>0. /\ pc = "session" /\ cmds # <<>> /\ cmds' = Tail(cmds) /\ pc \in Under
      /\ UNCHANGED uiVars
      /\ IF Head(cmds).is = "disconnect" THEN Finish("disconnected") ELSE UNCHANGED <<pc, events>>
  BY DEF SessionDrain, Under
<1>1. /\ cmds' \in Seq(Command)
      /\ \A c : Queued(c) => Head(cmds).is = c \/ Queued(c)'
      /\ \A c : Queued(c)' => Queued(c)
  BY <1>0, Taken
<1>2. CASE Head(cmds).is = "disconnect"
  <2>1. "disconnected" \in Outcomes
    BY DEF Outcomes
  <2>. QED  BY <1>0, <1>1, <1>2, <2>1, FinishStep
<1>3. CASE Head(cmds).is # "disconnect"
  <2>1. UNCHANGED <<pc, events, connection, dialog>>
    BY <1>0, <1>3 DEF uiVars
  <2>2. Typed'
    BY <1>1, <2>1 DEF Inv, Typed
  <2>3. (Over' <=> Over) /\ (Asked' <=> Asked)
    BY <2>1 DEF Over, Asked, Occurs
  <2>4. Queued("disconnect") => Queued("disconnect")'
    BY <1>1, <1>3
  <2>5. EndKnown'
    BY <2>1, <2>3, <2>4 DEF Inv, EndKnown
  <2>6. OneQuestion'
    BY <1>0, <1>1, <2>1, <2>3, Kinds DEF Inv, OneQuestion
  <2>. QED  BY <2>2, <2>5, <2>6 DEF Inv
<1>. QED  BY <1>2, <1>3

-----------------------------------------------------------------------------
(* The UI thread.                                                          *)

\* What one more command changes.
LEMMA Sends ==
    ASSUME Inv, NEW c \in Command, cmds' = Commanded(c)
    PROVE  /\ cmds' \in Seq(Command)
           /\ pc \notin Outcomes =>
                 /\ \A k : Queued(k)' <=> Queued(k) \/ c.is = k
                 /\ Len(cmds') = Len(cmds) + 1 /\ Len(cmds) \in Nat /\ cmds'[Len(cmds) + 1] = c
                 /\ \A i \in 1 .. Len(cmds) : cmds'[i] = cmds[i]
<1>1. cmds \in Seq(Command)
  BY DEF Inv, Typed
<1>2. CASE pc \in Outcomes
  BY <1>1, <1>2 DEF Commanded
<1>3. CASE pc \notin Outcomes
  <2>1. /\ cmds' \in Seq(Command) /\ Len(cmds') = Len(cmds) + 1 /\ Len(cmds) \in Nat
        /\ cmds'[Len(cmds) + 1] = c
        /\ \A i \in 1 .. Len(cmds) : cmds'[i] = cmds[i]
    BY <1>1, <1>3, AppendedCommand DEF Commanded
  <2>2. /\ \A i \in 1 .. Len(cmds) : i \in 1 .. Len(cmds')
        /\ Len(cmds) + 1 \in 1 .. Len(cmds')
        /\ \A i \in 1 .. Len(cmds') : i \in 1 .. Len(cmds) \/ i = Len(cmds) + 1
    BY <2>1
  <2>3. ASSUME NEW k PROVE Queued(k)' <=> Queued(k) \/ c.is = k
    BY <2>1, <2>2 DEF Queued
  <2>. QED  BY <2>1, <2>3
<1>. QED  BY <1>2, <1>3

LEMMA UiEventsStep ==
    ASSUME Inv, UiEvents
    PROVE  Inv'
<1>0. /\ connection /\ connection' = ~Over /\ dialog' = (~Over /\ (dialog \/ Asked))
      /\ events' = <<>> /\ UNCHANGED <<cmds, pc>>
  BY DEF UiEvents, DialogAfter, Asked, workerVars
<1>1. ~Over' /\ ~Asked' /\ events' \in Seq(Event)
  BY <1>0, NoEvents DEF Over, Asked, Occurs
<1>2. Typed'
  BY <1>0, <1>1 DEF Inv, Typed
<1>3. EndKnown'
  BY <1>0, <1>1 DEF Inv, EndKnown
<1>4. OneQuestion'
  <2>1. \A c : Queued(c)' <=> Queued(c)
    BY <1>0 DEF Queued
  <2>. QED  BY <1>0, <1>1, <2>1, Kinds DEF Inv, EndKnown, OneQuestion
<1>. QED  BY <1>2, <1>3, <1>4 DEF Inv

LEMMA UiAnswerStep ==
    ASSUME Inv, UiAnswer
    PROVE  Inv'
<1>0. PICK pw \in PwValues : cmds' = Commanded([is |-> "provide", val |-> pw])
  BY DEF UiAnswer, PwValues
<1>1. dialog /\ dialog' = FALSE /\ UNCHANGED <<connection, events, pc>>
  BY DEF UiAnswer, workerVars
<1>2. [is |-> "provide", val |-> pw] \in Command /\ [is |-> "provide", val |-> pw].is = "provide"
  BY DEF Command
<1>3. /\ cmds' \in Seq(Command)
      /\ pc \notin Outcomes =>
            /\ \A k : Queued(k)' <=> Queued(k) \/ "provide" = k
            /\ Len(cmds') = Len(cmds) + 1 /\ Len(cmds) \in Nat
            /\ \A i \in 1 .. Len(cmds) : cmds'[i] = cmds[i]
  BY <1>0, <1>2, Sends
<1>4. (Over' <=> Over) /\ (Asked' <=> Asked) /\ connection
  BY <1>1 DEF Over, Asked, Occurs, Inv, EndKnown
<1>5. Typed'
  BY <1>1, <1>3 DEF Inv, Typed
<1>6. EndKnown'
  BY <1>1, <1>4 DEF Inv, EndKnown
<1>7. OneQuestion'
  <2>1. pc \notin Under /\ (pc = "prompt" => ~Queued("provide") /\ ~Asked)
    BY <1>1 DEF Inv, OneQuestion
  <2>2. ASSUME pc = "prompt", NEW i \in 1 .. Len(cmds'), NEW j \in 1 .. Len(cmds'),
               cmds'[i].is = "provide", cmds'[j].is = "provide"
        PROVE  i = j
    <3>1. ASSUME NEW m \in 1 .. Len(cmds'), cmds'[m].is = "provide" PROVE m = Len(cmds) + 1
      <4>1. CASE m \in 1 .. Len(cmds)
        BY <1>3, <2>1, <2>2, <3>1, <4>1, Kinds DEF Queued
      <4>2. CASE m \notin 1 .. Len(cmds)
        BY <1>3, <2>2, <3>1, <4>2, Kinds
      <4>. QED  BY <4>1, <4>2
    <3>. QED  BY <2>2, <3>1
  <2>3. pc = "prompt" => Queued("provide")'
    BY <1>3, Kinds
  <2>. QED  BY <1>1, <1>4, <2>1, <2>2, <2>3 DEF OneQuestion
<1>. QED  BY <1>5, <1>6, <1>7 DEF Inv

\* Any command but an answer.
LEMMA UiOtherStep ==
    ASSUME Inv, UiLeave \/ UiInput
    PROVE  Inv'
<1>0. PICK w \in {"disconnect", "input"} :
         /\ cmds' = Commanded([is |-> w, val |-> NoPassword])
         /\ w = "disconnect" => connection' = FALSE /\ dialog' = FALSE /\ events' = <<>>
         /\ w = "input" => UNCHANGED <<connection, dialog, events>>
         /\ connection /\ pc' = pc
  BY DEF UiLeave, UiInput, workerVars
<1>1. [is |-> w, val |-> NoPassword] \in Command /\ [is |-> w, val |-> NoPassword].is = w
  BY DEF Command, PwValues
<1>2. /\ cmds' \in Seq(Command)
      /\ pc \notin Outcomes =>
            /\ \A k : Queued(k)' <=> Queued(k) \/ w = k
            /\ Len(cmds') = Len(cmds) + 1 /\ Len(cmds) \in Nat /\ cmds'[Len(cmds) + 1].is = w
            /\ \A i \in 1 .. Len(cmds) : cmds'[i] = cmds[i]
  BY <1>0, <1>1, Sends
<1>3. /\ w = "disconnect" => ~Over' /\ ~Asked' /\ events' \in Seq(Event)
      /\ w = "input" => (Over' <=> Over) /\ (Asked' <=> Asked)
  BY <1>0, NoEvents DEF Over, Asked, Occurs
<1>4. Typed'
  BY <1>0, <1>2, <1>3 DEF Inv, Typed
<1>5. EndKnown'
  <2>1. CASE w = "disconnect"
    BY <1>0, <1>2, <1>3, <2>1 DEF EndKnown
  <2>2. CASE w = "input"
    BY <1>0, <1>3, <2>2 DEF Inv, EndKnown
  <2>. QED  BY <2>1, <2>2
<1>6. pc \notin Outcomes => (Queued("provide")' <=> Queued("provide"))
  BY <1>2
<1>7. pc = "prompt" =>
         \A i, j \in 1 .. Len(cmds') : cmds'[i].is = "provide" /\ cmds'[j].is = "provide" => i = j
  <2>1. ASSUME pc = "prompt", NEW m \in 1 .. Len(cmds'), cmds'[m].is = "provide"
        PROVE  m \in 1 .. Len(cmds) /\ cmds[m].is = "provide"
    BY <1>2, <2>1, Kinds
  <2>. QED  BY <2>1 DEF Inv, OneQuestion
<1>8. OneQuestion'
  <2>1. CASE w = "disconnect"
    BY <1>0, <1>3, <1>6, <1>7, <2>1, Kinds DEF Inv, OneQuestion
  <2>2. CASE w = "input"
    BY <1>0, <1>3, <1>6, <1>7, <2>2, Kinds DEF Inv, OneQuestion
  <2>. QED  BY <2>1, <2>2
<1>. QED  BY <1>4, <1>5, <1>8 DEF Inv

LEMMA OtherSteps ==
    ASSUME Inv, Server \/ ServerCut \/ UNCHANGED vars
    PROVE  Inv'
<1>1. UNCHANGED <<connection, dialog, events, cmds, pc>>
  BY DEF Server, ServerVersion, ServerChoice, ServerResponse, ServerRa2, ServerClientInit,
         ServerReads, ServerCut, uiVars, workerVars, vars
<1>2. Typed'
  BY <1>1 DEF Inv, Typed
<1>3. EndKnown' /\ OneQuestion'
  BY <1>1 DEF Inv, EndKnown, OneQuestion, Over, Asked, Occurs, Queued
<1>. QED  BY <1>2, <1>3 DEF Inv

LEMMA InitInv == Init => Inv
<1>. SUFFICES ASSUME Init PROVE Inv
  OBVIOUS
<1>1. events \in Seq(Event) /\ cmds \in Seq(Command) /\ Len(events) = 0 /\ Len(cmds) = 0
  BY EmptySeq DEF Init
<1>2. ~Over /\ ~Asked /\ \A c : ~Queued(c)
  BY <1>1 DEF Over, Asked, Occurs, Queued
<1>3. pc \in Under /\ connection /\ ~dialog
  BY DEF Init, Under
<1>. QED  BY <1>1, <1>2, <1>3, Kinds DEF Inv, Typed, EndKnown, OneQuestion

-----------------------------------------------------------------------------
(* The theorems.                                                           *)

\* Inv is inductive.
THEOREM Invariance == Spec => []Inv
<1>1. ASSUME Inv, [Next]_vars PROVE Inv'
  <2>1. CASE Worker
    BY <1>1, <2>1, ReadStep, PromptStep, DrainStep DEF Worker
  <2>2. CASE Ui
    BY <1>1, <2>2, UiEventsStep, UiAnswerStep, UiOtherStep DEF Ui
  <2>3. CASE Server \/ ServerCut \/ UNCHANGED vars
    BY <1>1, <2>3, OtherSteps
  <2>. QED  BY <1>1, <2>1, <2>2, <2>3 DEF Next
<1>. QED  BY <1>1, InitInv, PTL DEF Spec

\* Whatever the server does, whatever versions and security types there are, and
\* whenever the user answers, leaves or types: a thread that waits for a password
\* has asked somebody, and a dialog that is shown is one the thread waits for, or
\* the news that it is over is on the way (security.rs:185-203, app.rs:284, 645).
THEOREM PromptAlways == Spec => []PromptMatched
<1>1. Inv => PromptMatched
  <2>. SUFFICES ASSUME Inv PROVE PromptMatched
    OBVIOUS
  <2>1. pc = "prompt" =>
           \/ Occurs("needPassword") \/ dialog
           \/ \E i \in 1 .. Len(cmds) : cmds[i].is \in {"provide", "disconnect"}
    BY Kinds DEF Inv, EndKnown, OneQuestion, Asked, Queued
  <2>2. dialog => connection /\ (pc = "prompt" \/ Over)
    BY DEF Inv, Typed, EndKnown, OneQuestion
  <2>. QED  BY <2>1, <2>2 DEF PromptMatched
<1>. QED  BY <1>1, Invariance, PTL

-----------------------------------------------------------------------------
(* What is remembered.  The second invariant follows the password over the  *)
(* stream: the server only lets in a client whose response or credentials   *)
(* it has found right, and by the time one is sent the thread's password    *)
(* does not change any more.                                               *)

\* What is in a sequence, whatever it is a sequence of.
IsQueue(s) == \E S : s \in Seq(S)
Elems(s)  == {s[i] : i \in 1 .. Len(s)}

\* Where the thread stands before it has shown its password.
Before  == {"connect", "prompt", "banner", "types", "type33", "challenge"} \cup Ra2Rounds
PwKinds == {"response", "credentials"}

\* The server has let the client in, by its password if it asked for one.
Right == granted /\ (agreed # VncNone => password = "right")

Wire ==
    /\ IsQueue(up) /\ IsQueue(down) /\ granted \in BOOLEAN
    /\ \A m \in Elems(up) : m.is \in PwKinds => m.val.pw = password /\ pc \notin Before
    /\ \A m \in Elems(down) : m.is = "init" => granted
    /\ granted <=> srv \in {"clientInit", "serving"}
    /\ granted /\ agreed # VncNone => password = "right" /\ pc \notin Before

Acceptance ==
    /\ pc \in {"connect", "prompt"} \cup Reading => remembered = <<>> /\ ~Occurs("desktopName")
    /\ dialog => remembered = <<>> /\ ~Occurs("desktopName")
    /\ pc \in Under => current = password
    /\ pc = "prompt" =>
          \A i \in 1 .. Len(cmds) : cmds[i].is = "provide" => cmds[i].val = current
    /\ Occurs("desktopName") => current = password /\ Right
    /\ remembered # <<>> => remembered = <<password>> /\ Right
    /\ pc = "session" => Right

LEMMA ElemsTail ==
    ASSUME NEW s, IsQueue(s), s # <<>>
    PROVE  IsQueue(Tail(s)) /\ Elems(Tail(s)) \subseteq Elems(s) /\ Head(s) \in Elems(s)
<1>1. PICK S : s \in Seq(S)
  BY DEF IsQueue
<1>2. /\ Tail(s) \in Seq(S) /\ Len(Tail(s)) = Len(s) - 1 /\ Len(s) \in Nat /\ Len(s) >= 1
      /\ \A i \in 1 .. Len(s) - 1 : Tail(s)[i] = s[i + 1]
      /\ Head(s) = s[1]
  BY <1>1
<1>3. ASSUME NEW i \in 1 .. Len(Tail(s)) PROVE Tail(s)[i] \in Elems(s)
  <2>1. i + 1 \in 1 .. Len(s) /\ Tail(s)[i] = s[i + 1]
    BY <1>2
  <2>. QED  BY <2>1 DEF Elems
<1>4. 1 \in 1 .. Len(s)
  BY <1>2
<1>. QED  BY <1>2, <1>3, <1>4 DEF IsQueue, Elems

LEMMA ElemsConcat ==
    ASSUME NEW s, IsQueue(s), NEW t, IsQueue(t)
    PROVE  IsQueue(s \o t) /\ Elems(s \o t) \subseteq Elems(s) \cup Elems(t)
<1>1. PICK S, T : s \in Seq(S) /\ t \in Seq(T)
  BY DEF IsQueue
<1>2. s \in Seq(S \cup T) /\ t \in Seq(S \cup T)
  BY <1>1
<1>3. /\ s \o t \in Seq(S \cup T) /\ Len(s \o t) = Len(s) + Len(t)
      /\ \A i \in 1 .. Len(s) + Len(t) : (s \o t)[i] = IF i <= Len(s) THEN s[i] ELSE t[i - Len(s)]
      /\ Len(s) \in Nat /\ Len(t) \in Nat
  BY <1>2, ConcatProperties, LenProperties
<1>4. ASSUME NEW i \in 1 .. Len(s \o t)
      PROVE  \/ i \in 1 .. Len(s) /\ (s \o t)[i] = s[i]
             \/ i - Len(s) \in 1 .. Len(t) /\ (s \o t)[i] = t[i - Len(s)]
  BY <1>3
<1>. QED  BY <1>3, <1>4 DEF IsQueue, Elems

LEMMA ElemsSub ==
    ASSUME NEW s, IsQueue(s), NEW n \in 0 .. Len(s)
    PROVE  IsQueue(SubSeq(s, 1, n)) /\ Elems(SubSeq(s, 1, n)) \subseteq Elems(s)
<1>1. PICK S : s \in Seq(S)
  BY DEF IsQueue
<1>2. Len(s) \in Nat
  BY <1>1
<1>3. /\ SubSeq(s, 1, n) \in Seq(S) /\ Len(SubSeq(s, 1, n)) = n
      /\ \A i \in 1 .. n : SubSeq(s, 1, n)[i] = s[i]
  BY <1>1, <1>2, SubSeqProperties
<1>. QED  BY <1>2, <1>3 DEF IsQueue, Elems

\* Sequences of up to two messages, and one more message.
LEMMA ElemsFew ==
    /\ IsQueue(<<>>) /\ Elems(<<>>) = {}
    /\ \A x : IsQueue(<<x>>) /\ Elems(<<x>>) = {x}
    /\ \A x, y : IsQueue(<<x, y>>) /\ Elems(<<x, y>>) = {x, y}
<1>1. <<>> \in Seq({}) /\ Len(<<>>) = 0
  OBVIOUS
<1>2. ASSUME NEW x PROVE IsQueue(<<x>>) /\ Elems(<<x>>) = {x}
  <2>1. <<x>> \in Seq({x}) /\ Len(<<x>>) = 1 /\ <<x>>[1] = x
    OBVIOUS
  <2>2. 1 .. 1 = {1}
    OBVIOUS
  <2>. QED  BY <2>1, <2>2 DEF IsQueue, Elems
<1>3. ASSUME NEW x, NEW y PROVE IsQueue(<<x, y>>) /\ Elems(<<x, y>>) = {x, y}
  <2>1. <<x, y>> \in Seq({x, y}) /\ Len(<<x, y>>) = 2 /\ <<x, y>>[1] = x /\ <<x, y>>[2] = y
    OBVIOUS
  <2>2. 1 .. 2 = {1, 2}
    OBVIOUS
  <2>. QED  BY <2>1, <2>2 DEF IsQueue, Elems
<1>. QED  BY <1>1, <1>2, <1>3 DEF IsQueue, Elems

LEMMA ElemsAppend ==
    ASSUME NEW s, IsQueue(s), NEW x
    PROVE  IsQueue(Append(s, x)) /\ Elems(Append(s, x)) \subseteq Elems(s) \cup {x}
<1>1. PICK S : s \in Seq(S)
  BY DEF IsQueue
<1>2. s \in Seq(S \cup {x}) /\ x \in S \cup {x}
  BY <1>1
<1>3. Append(s, x) = s \o <<x>>
  BY <1>2, AppendIsConcat
<1>. QED  BY <1>3, ElemsConcat, ElemsFew

LEMMA ElemsWritten ==
    ASSUME Wire, NEW msgs, IsQueue(msgs), up' = Written(msgs)
    PROVE  IsQueue(up') /\ Elems(up') \subseteq Elems(up) \cup Elems(msgs)
BY ElemsConcat DEF Wire, Written

\* A step of the thread: it takes what has come, shows its own password at most,
\* and never goes back.
LEMMA WireMove ==
    ASSUME Wire, UNCHANGED <<password, serverVars>>,
           pc \in Before \/ pc' \notin Before,
           IsQueue(down'), Elems(down') \subseteq Elems(down),
           NEW msgs, IsQueue(msgs), up' = up \/ up' = Written(msgs),
           \A m \in Elems(msgs) : m.is \in PwKinds => m.val.pw = password /\ pc' \notin Before
    PROVE  Wire'
<1>1. IsQueue(up') /\ Elems(up') \subseteq Elems(up) \cup Elems(msgs)
  BY ElemsWritten DEF Wire
<1>2. \A m \in Elems(up') : m.is \in PwKinds => m.val.pw = password' /\ pc' \notin Before
  BY <1>1 DEF Wire
<1>3. \A m \in Elems(down') : m.is = "init" => granted
  BY DEF Wire
<1>4. UNCHANGED <<granted, agreed, srv, password>>
  BY DEF serverVars
<1>. QED  BY <1>1, <1>2, <1>3, <1>4 DEF Wire, IsQueue, Elems

LEMMA WireFinish ==
    ASSUME Wire, NEW o \in Outcomes, Finish(o), UNCHANGED <<up, password, serverVars>>,
           IsQueue(down'), Elems(down') \subseteq Elems(down)
    PROVE  Wire'
<1>1. pc' \notin Before
  BY DEF Finish, Outcomes, Before, Ra2Rounds
<1>. QED  BY <1>1, WireMove, ElemsFew

\* It begins a security type.
LEMMA WireBegin ==
    ASSUME Wire, pc \in Before, NEW t, NEW version, NEW msgs, Begin(t, version, msgs),
           IsQueue(msgs), \A m \in Elems(msgs) : m.is \notin PwKinds,
           UNCHANGED <<password, serverVars>>,
           IsQueue(down'), Elems(down') \subseteq Elems(down)
    PROVE  Wire'
<1>. DEFINE c == <<InitMsg(t)>>
<1>1. IsQueue(c) /\ Elems(c) = {InitMsg(t)} /\ InitMsg(t).is \notin PwKinds
  BY ElemsFew DEF InitMsg, PwKinds
<1>2. IsQueue(msgs \o c) /\ \A m \in Elems(msgs \o c) : m.is \notin PwKinds
  BY <1>1, ElemsConcat
<1>3. up' \in {up, Written(msgs), Written(msgs \o c)}
  BY DEF Begin
<1>. HIDE DEF c
<1>. QED  BY <1>2, <1>3, WireMove

LEMMA WireWorker ==
    ASSUME Wire, Worker
    PROVE  Wire'
<1>0. /\ IsQueue(down) /\ IsQueue(up) /\ "error" \in Outcomes /\ "disconnected" \in Outcomes
      /\ Elems(down) \subseteq Elems(down) /\ IsQueue(<<>>) /\ Elems(<<>>) = {}
  BY ElemsFew DEF Wire, Outcomes
<1>1. ASSUME NEW kind, Arrived(kind)
      PROVE  /\ pc = kind /\ IsQueue(down') /\ Elems(down') \subseteq Elems(down)
             /\ UNCHANGED <<uiVars, cmds, serverVars>>
  BY <1>0, <1>1, ElemsTail DEF Arrived
<1>2. ASSUME NEW kind, Arrived(kind), WriteFails, password' = password PROVE Wire'
  BY <1>0, <1>1, <1>2, WireFinish DEF WriteFails
<1>3. ASSUME NEW kind, NEW k2, NEW v PROVE Plain(k2, v).is = k2 /\ Plain(k2, v).val = v
  BY DEF Plain
<1>4. ASSUME NEW x, x.is \in PwKinds => x.val.pw = password /\ pc' \notin Before
      PROVE  IsQueue(<<x>>) /\ \A m \in Elems(<<x>>) : m.is \in PwKinds => m.val.pw = password /\ pc' \notin Before
  BY <1>4, ElemsFew
<1>5. CASE TcpConnect
  <2>1. pc = "connect" /\ UNCHANGED <<password, down, up, serverVars>> /\ pc \in Before
    BY <1>5 DEF TcpConnect, Before
  <2>. QED  BY <1>0, <2>1, WireMove
<1>6. CASE ReadBanner
  <2>1. Arrived("banner") /\ password' = password /\ pc = "banner" /\ pc \in Before
    BY <1>1, <1>6 DEF ReadBanner, Before
  <2>2. CASE WriteFails
    BY <1>2, <2>1, <2>2
  <2>3. CASE up' = Written(<<Plain("version", [version |-> minor'])>>)
    <3>. DEFINE x == Plain("version", [version |-> minor'])
    <3>1. x.is \notin PwKinds
      BY DEF Plain, PwKinds
    <3>. HIDE DEF x
    <3>. QED  BY <1>1, <1>4, <2>1, <2>3, <3>1, WireMove DEF x
  <2>. QED  BY <1>6, <2>2, <2>3 DEF ReadBanner
<1>7. CASE ReadTypes
  <2>1. Arrived("types") /\ password' = password /\ pc = "types" /\ pc \in Before
    BY <1>1, <1>7 DEF ReadTypes, Before
  <2>. DEFINE t == Preferred(Head(down).val.types)
              x == Plain("choice", [type |-> t])
  <2>2. \/ up' = up \/ WriteFails \/ (Finish("error") /\ up' = up)
        \/ Begin(t, minor, <<x>>)
    BY <1>7 DEF ReadTypes
  <2>3. CASE up' = up
    BY <1>0, <1>1, <2>1, <2>3, WireMove
  <2>4. CASE WriteFails
    BY <1>2, <2>1, <2>4
  <2>5. CASE Begin(t, minor, <<x>>)
    <3>1. x.is \notin PwKinds
      BY DEF Plain, PwKinds
    <3>. HIDE DEF x, t
    <3>2. IsQueue(<<x>>) /\ \A m \in Elems(<<x>>) : m.is \notin PwKinds
      BY <3>1, ElemsFew
    <3>. QED  BY <1>1, <2>1, <2>5, <3>2, WireBegin
  <2>. QED  BY <2>2, <2>3, <2>4, <2>5
<1>8. CASE ReadType33
  <2>1. Arrived("type33") /\ password' = password /\ pc = "type33" /\ pc \in Before
    BY <1>1, <1>8 DEF ReadType33, Before
  <2>. DEFINE t == Head(down).val.type
  <2>2. up' = up \/ WriteFails \/ Begin(t, minor, <<>>)
    BY <1>8 DEF ReadType33
  <2>3. CASE up' = up
    BY <1>0, <1>1, <2>1, <2>3, WireMove
  <2>4. CASE WriteFails
    BY <1>2, <2>1, <2>4
  <2>5. CASE Begin(t, minor, <<>>)
    <3>. HIDE DEF t
    <3>. QED  BY <1>0, <1>1, <2>1, <2>5, WireBegin
  <2>. QED  BY <2>2, <2>3, <2>4, <2>5
<1>9. CASE ReadReason
  BY <1>0, <1>1, <1>9, WireFinish DEF ReadReason
<1>10. CASE PromptTimesOut
  BY <1>0, <1>10, WireFinish DEF PromptTimesOut
<1>11. CASE ReadFails
  BY <1>0, <1>11, WireFinish DEF ReadFails
<1>12. CASE PromptAnswered
  <2>1. /\ pc = "prompt" /\ pc \in Before /\ UNCHANGED <<down, up, serverVars>>
    BY <1>12 DEF PromptAnswered, Before
  <2>2. \A m \in Elems(up) : m.is \notin PwKinds
    BY <2>1 DEF Wire
  <2>3. ~(granted /\ agreed # VncNone)
    BY <2>1 DEF Wire
  <2>4. UNCHANGED <<granted, agreed, srv>>
    BY <2>1 DEF serverVars
  <2>. QED  BY <2>1, <2>2, <2>3, <2>4 DEF Wire, IsQueue, Elems
<1>13. CASE VncAuthResponse
  <2>1. Arrived("challenge") /\ password' = password /\ pc = "challenge" /\ pc \in Before
    BY <1>1, <1>13 DEF VncAuthResponse, Before
  <2>2. CASE WriteFails
    BY <1>2, <2>1, <2>2
  <2>3. CASE pc' = "result" /\ up' = Written(<<Plain("response", [pw |-> password])>>)
    <3>. DEFINE x == Plain("response", [pw |-> password])
    <3>1. x.val.pw = password /\ pc' \notin Before
      BY <2>3 DEF Plain, Before, Ra2Rounds
    <3>. HIDE DEF x
    <3>. QED  BY <1>1, <1>4, <2>1, <2>3, <3>1, WireMove DEF x
  <2>. QED  BY <1>13, <2>2, <2>3 DEF VncAuthResponse
<1>14. ASSUME NEW kind \in Ra2Rounds, Ra2Exchange(kind) PROVE Wire'
  <2>1. Arrived(kind) /\ password' = password /\ pc = kind /\ pc \in Before
    BY <1>1, <1>14 DEF Ra2Exchange, Before
  <2>. DEFINE x == Plain(Ra2Answer[kind], IF kind = "subtype" THEN [pw |-> password] ELSE Nothing)
  <2>2. \/ pc' = Ra2Next[kind] /\ up' = Written(<<x>>)
        \/ WriteFails
        \/ Finish("error") /\ up' = up
    BY <1>14 DEF Ra2Exchange
  <2>3. CASE WriteFails
    BY <1>2, <2>1, <2>3
  <2>4. CASE Finish("error") /\ up' = up
    BY <1>0, <1>1, <2>1, <2>4, WireFinish
  <2>5. CASE pc' = Ra2Next[kind] /\ up' = Written(<<x>>)
    <3>1. CASE kind = "subtype"
      <4>1. x.val.pw = password /\ pc' \notin Before
        BY <2>5, <3>1 DEF Plain, Ra2Next, Before, Ra2Rounds
      <4>. HIDE DEF x
      <4>. QED  BY <1>1, <1>4, <2>1, <2>5, <4>1, WireMove
    <3>2. CASE kind # "subtype"
      <4>1. x.is \notin PwKinds
        BY <1>14, <3>2 DEF Plain, Ra2Answer, Ra2Rounds, PwKinds
      <4>. HIDE DEF x
      <4>. QED  BY <1>1, <1>4, <2>1, <2>5, <4>1, WireMove
    <3>. QED  BY <3>1, <3>2
  <2>. QED  BY <2>2, <2>3, <2>4, <2>5
<1>15. CASE ReadResult
  <2>1. Arrived("result") /\ password' = password /\ pc = "result" /\ pc' \notin Before
    BY <1>1, <1>15 DEF ReadResult, WriteFails, Finish, Before, Ra2Rounds
  <2>2. up' = up \/ up' = Written(<<InitMsg(chosen)>>)
    BY <1>15 DEF ReadResult, WriteFails
  <2>3. InitMsg(chosen).is \notin PwKinds
    BY DEF InitMsg, PwKinds
  <2>. QED  BY <1>1, <1>4, <2>1, <2>2, <2>3, WireMove
<1>16. CASE ReadInit
  <2>1. Arrived("init") /\ UNCHANGED <<up, password>> /\ pc' \notin Before
    BY <1>16 DEF ReadInit, Before, Ra2Rounds
  <2>. QED  BY <1>0, <1>1, <2>1, WireMove
<1>17. CASE SessionDrain
  <2>1. UNCHANGED <<down, up, password, serverVars>> /\ pc' \notin Before
    BY <1>17 DEF SessionDrain, Finish, Before, Ra2Rounds
  <2>. QED  BY <1>0, <2>1, WireMove
<1>. QED  BY <1>5, <1>6, <1>7, <1>8, <1>9, <1>10, <1>11, <1>12, <1>13, <1>14, <1>15, <1>16, <1>17
          DEF Worker

\* A step of the server: it takes a message and may send some.
LEMMA WireServes ==
    ASSUME Wire, up # <<>>, up' = Tail(up), UNCHANGED <<pc, password>>,
           NEW ms, IsQueue(ms), down' = down \o ms, \A m \in Elems(ms) : m.is = "init" => granted',
           granted' \in BOOLEAN, granted => granted',
           granted' <=> srv' \in {"clientInit", "serving"},
           granted' /\ agreed' # VncNone => password = "right" /\ pc \notin Before
    PROVE  Wire'
<1>1. IsQueue(up') /\ Elems(up') \subseteq Elems(up)
  BY ElemsTail DEF Wire
<1>2. IsQueue(down') /\ Elems(down') \subseteq Elems(down) \cup Elems(ms)
  BY ElemsConcat DEF Wire
<1>3. \A m \in Elems(up') : m.is \in PwKinds => m.val.pw = password' /\ pc' \notin Before
  BY <1>1 DEF Wire
<1>4. \A m \in Elems(down') : m.is = "init" => granted'
  BY <1>2 DEF Wire
<1>. QED  BY <1>1, <1>2, <1>3, <1>4 DEF Wire, IsQueue, Elems

CatAssociates(S) == \A x, y, z \in Seq(S) : (x \o y) \o z = x \o (y \o z)

\* It begins a security type.
LEMMA WireSecurity ==
    ASSUME Wire, up # <<>>, up' = Tail(up), UNCHANGED <<pc, password>>,
           ~granted, NEW t, NEW before, IsQueue(before), \A m \in Elems(before) : m.is # "init",
           Serves(t, before)
    PROVE  Wire'
<1>1. ASSUME NEW ms, IsQueue(ms), \A m \in Elems(ms) : m.is # "init", down' = down \o before \o ms,
             granted' \in BOOLEAN, granted' <=> srv' \in {"clientInit", "serving"},
             granted' => agreed' = VncNone
      PROVE  Wire'
  <2>1. PICK D, B, M : down \in Seq(D) /\ before \in Seq(B) /\ ms \in Seq(M)
    BY <1>1 DEF Wire, IsQueue
  <2>2. /\ down \in Seq(D \cup B \cup M) /\ before \in Seq(D \cup B \cup M)
        /\ ms \in Seq(D \cup B \cup M)
    BY <2>1
  <2>3. down' = down \o (before \o ms)
    <3>0. \A S : CatAssociates(S)
      BY ConcatAssociative DEF CatAssociates
    <3>1. CatAssociates(D \cup B \cup M)
      BY <3>0
    <3>2. (down \o before) \o ms = down \o (before \o ms)
      BY <2>2, <3>1 DEF CatAssociates
    <3>. QED  BY <1>1, <3>2
  <2>4. IsQueue(before \o ms) /\ \A m \in Elems(before \o ms) : m.is # "init"
    BY <1>1, ElemsConcat
  <2>5. /\ \A m \in Elems(before \o ms) : m.is = "init" => granted'
        /\ granted => granted'
        /\ granted' /\ agreed' # VncNone => password = "right" /\ pc \notin Before
    BY <1>1, <2>4
  <2>. QED  BY <1>1, <2>3, <2>4, <2>5, WireServes, Zenon
<1>2. ASSUME NEW k, NEW v, k # "init"
      PROVE  IsQueue(<<Plain(k, v)>>) /\ \A m \in Elems(<<Plain(k, v)>>) : m.is # "init"
  <2>1. Plain(k, v).is = k
    BY DEF Plain
  <2>. QED  BY <1>2, <2>1, ElemsFew
<1>3. IsQueue(<<>>) /\ \A m \in Elems(<<>>) : m.is # "init"
  BY ElemsFew
<1>a. VncNone # VncAuth /\ VncNone \notin Ra2 /\ VncAuth \notin Ra2
  BY DEF VncNone, VncAuth, Ra2
<1>b. granted \in BOOLEAN /\ granted = FALSE
  BY DEF Wire
<1>4. CASE t = VncNone
  <2>1. agreed' = VncNone /\ granted' = TRUE /\ srv' = "clientInit"
    BY <1>a, <1>4, Zenon DEF Serves
  <2>2. down' = down \o before \o (IF ResultSent(t) THEN <<Plain("result", [ok |-> TRUE])>> ELSE <<>>)
    BY <1>a, <1>4, Zenon DEF Serves
  <2>3. CASE ResultSent(t)
    <3>1. down' = down \o before \o <<Plain("result", [ok |-> TRUE])>>
      BY <2>2, <2>3, Zenon
    <3>. QED  BY <1>1, <1>2, <2>1, <3>1
  <2>4. CASE ~ResultSent(t)
    <3>1. down' = down \o before \o <<>>
      BY <2>2, <2>4, Zenon
    <3>. QED  BY <1>1, <1>3, <2>1, <3>1
  <2>. QED  BY <2>3, <2>4
<1>5. CASE t = VncAuth
  <2>1. granted' = granted /\ srv' = "response" /\ down' = down \o before \o <<Plain("challenge", Nothing)>>
    BY <1>a, <1>5, Zenon DEF Serves
  <2>. QED  BY <1>1, <1>2, <1>b, <2>1
<1>6. CASE t \in Ra2
  <2>1. /\ granted' = granted /\ srv' = "key"
        /\ \E v \in BOOLEAN : down' = down \o before \o <<Plain("key", [sound |-> v])>>
    BY <1>a, <1>6, Zenon DEF Serves
  <2>. QED  BY <1>1, <1>2, <1>b, <2>1
<1>7. CASE t \notin {VncNone, VncAuth} \cup Ra2
  <2>1. granted' = granted /\ srv' = "other" /\ down' = down \o before
    BY <1>7 DEF Serves
  <2>2. IsQueue(down \o before)
    BY ElemsConcat DEF Wire
  <2>3. down' = down \o before \o <<>>
    <3>1. PICK S : down \o before \in Seq(S)
      BY <2>2 DEF IsQueue
    <3>. QED  BY <2>1, <3>1
  <2>. QED  BY <1>1, <1>3, <1>b, <2>1, <2>3
<1>. QED  BY <1>4, <1>5, <1>6, <1>7

LEMMA WireServer ==
    ASSUME Wire, Server
    PROVE  Wire'
<1>0. ASSUME NEW kind, ServerReads(kind)
      PROVE  /\ up # <<>> /\ up' = Tail(up) /\ srv = kind /\ Head(up).is = kind
             /\ Head(up) \in Elems(up)
             /\ UNCHANGED <<pc, password>>
  BY <1>0, ElemsTail DEF ServerReads, workerVars, Wire
<1>1. ASSUME NEW k, NEW v PROVE Plain(k, v).is = k
  BY DEF Plain
<1>2. ASSUME NEW kind, ServerReads(kind), NEW x, x.is # "init", down' = Append(down, x),
             granted' \in BOOLEAN, granted => granted',
             granted' <=> srv' \in {"clientInit", "serving"},
             granted' /\ agreed' # VncNone => password = "right" /\ pc \notin Before
      PROVE  Wire'
  <2>1. down' = down \o <<x>>
    <3>1. PICK S : down \in Seq(S)
      BY DEF Wire, IsQueue
    <3>2. down \in Seq(S \cup {x}) /\ x \in S \cup {x}
      BY <3>1
    <3>. QED  BY <1>2, <3>2, AppendIsConcat
  <2>2. IsQueue(<<x>>) /\ \A m \in Elems(<<x>>) : m.is # "init"
    BY <1>2, ElemsFew
  <2>. QED  BY <1>0, <1>2, <2>1, <2>2, WireServes
<1>3. ASSUME NEW kind, ServerReads(kind), NEW k, NEW v, k # "init", Refuses(k, v), ~granted
      PROVE  Wire'
  <2>. DEFINE x == Plain(k, v)
              y == Plain("reason", Nothing)
  <2>1. /\ down' = down \o <<x, y>> /\ UNCHANGED <<srv, agreed, granted>>
        /\ x.is # "init" /\ y.is # "init"
    BY <1>1, <1>3 DEF Refuses
  <2>. HIDE DEF x, y
  <2>2. IsQueue(<<x, y>>) /\ \A m \in Elems(<<x, y>>) : m.is # "init"
    BY <2>1, ElemsFew
  <2>. QED  BY <1>0, <1>3, <2>1, <2>2, WireServes DEF Wire
<1>4. CASE ServerVersion
  <2>1. ServerReads("version") /\ ~granted
    BY <1>4 DEF ServerVersion, ServerReads, Wire
  <2>2. ASSUME NEW x, x.is # "init", down' = Append(down, x), srv' = "choice", UNCHANGED <<agreed, granted>>
        PROVE  Wire'
    BY <1>2, <2>1, <2>2 DEF Wire
  <2>3. ASSUME NEW t, Serves(t, <<Plain("type33", [type |-> t])>>) PROVE Wire'
    <3>1. /\ IsQueue(<<Plain("type33", [type |-> t])>>)
          /\ \A m \in Elems(<<Plain("type33", [type |-> t])>>) : m.is # "init"
      BY <1>1, ElemsFew
    <3>. QED  BY <1>0, <2>1, <2>3, <3>1, WireSecurity
  <2>4. \/ /\ down' = Append(down, Plain("types", [types |-> offer]))
           /\ srv' = "choice" /\ UNCHANGED <<agreed, granted>>
        \/ Refuses("types", [types |-> {}])
        \/ \E t \in offer : Serves(t, <<Plain("type33", [type |-> t])>>)
        \/ Refuses("type33", [type |-> 0])
    BY <1>4 DEF ServerVersion
  <2>5. ASSUME Refuses("types", [types |-> {}]) \/ Refuses("type33", [type |-> 0]) PROVE Wire'
    BY <1>3, <2>1, <2>5
  <2>6. ASSUME down' = Append(down, Plain("types", [types |-> offer])), srv' = "choice",
               UNCHANGED <<agreed, granted>>
        PROVE  Wire'
    <3>1. Plain("types", [types |-> offer]).is # "init"
      BY DEF Plain
    <3>. QED  BY <2>2, <2>6, <3>1
  <2>. QED  BY <2>3, <2>4, <2>5, <2>6
<1>5. CASE ServerChoice
  <2>1. ServerReads("choice") /\ ~granted /\ Serves(Head(up).val.type, <<>>)
    BY <1>5 DEF ServerChoice, ServerReads, Wire
  <2>. QED  BY <1>0, <2>1, ElemsFew, WireSecurity
<1>6. CASE ServerResponse
  <2>1. PICK kind \in PwKinds : ServerReads(kind)
    BY <1>6 DEF ServerResponse, PwKinds
  <2>2. /\ Head(up).val.pw = password /\ pc \notin Before /\ ~granted
        /\ Decides(Head(up).val.pw) /\ agreed' = agreed
    BY <1>0, <1>6, <2>1 DEF Wire, PwKinds, ServerResponse
  <2>3. \A v : [is |-> "result", sealed |-> Secret(agreed), val |-> [ok |-> v]].is # "init"
    OBVIOUS
  <2>4. CASE password = "right"
    <3>1. /\ down' = Append(down, [is |-> "result", sealed |-> Secret(agreed), val |-> [ok |-> TRUE]])
          /\ granted' = TRUE /\ srv' = "clientInit"
      BY <2>2, <2>4 DEF Decides
    <3>. QED  BY <1>2, <2>1, <2>2, <2>3, <2>4, <3>1
  <2>5. CASE password # "right"
    <3>. DEFINE x == [is |-> "result", sealed |-> Secret(agreed), val |-> [ok |-> FALSE]]
                y == [is |-> "reason", sealed |-> Secret(agreed), val |-> Nothing]
    <3>1. /\ down' = down \o <<x, y>> \/ down' = down \o <<x>>
          /\ UNCHANGED <<granted, srv>>
      BY <2>2, <2>5 DEF Decides
    <3>2. x.is # "init" /\ y.is # "init"
      OBVIOUS
    <3>. HIDE DEF x, y
    <3>3. /\ IsQueue(<<x, y>>) /\ \A m \in Elems(<<x, y>>) : m.is # "init"
          /\ IsQueue(<<x>>) /\ \A m \in Elems(<<x>>) : m.is # "init"
      BY <3>2, ElemsFew
    <3>. QED  BY <1>0, <2>1, <2>2, <3>1, <3>3, WireServes DEF Wire
  <2>. QED  BY <2>4, <2>5
<1>7. CASE ServerRa2
  <2>1. PICK kind \in {"key", "random", "hash"} : ServerReads(kind)
    BY <1>7 DEF ServerRa2
  <2>2. ~granted /\ srv = kind /\ UNCHANGED <<agreed, granted>>
    BY <1>0, <1>7, <2>1 DEF ServerRa2, Wire
  <2>3. PICK v \in BOOLEAN : down' = Append(down, Plain(Ra2Next[kind], [sound |-> v]))
    BY <1>7, <2>2 DEF ServerRa2
  <2>4. srv' = Ra2Answer[Ra2Next[kind]]
    BY <1>7, <2>2 DEF ServerRa2
  <2>5. Ra2Next[kind] # "init" /\ srv' \notin {"clientInit", "serving"}
    BY <2>4 DEF Ra2Next, Ra2Answer
  <2>. QED  BY <1>1, <1>2, <2>1, <2>2, <2>3, <2>5 DEF Wire
<1>8. CASE ServerClientInit
  <2>1. /\ ServerReads("clientInit") /\ granted /\ srv' = "serving" /\ UNCHANGED <<agreed, granted>>
    BY <1>8 DEF ServerClientInit, ServerReads, Wire
  <2>2. down' = Append(down, [is |-> "init", sealed |-> Secret(agreed), val |-> Nothing])
    BY <1>8 DEF ServerClientInit
  <2>3. IsQueue(up') /\ Elems(up') \subseteq Elems(up) /\ UNCHANGED <<pc, password>>
    BY <1>0, <2>1, ElemsTail DEF Wire
  <2>4. IsQueue(down')
    BY <2>2, ElemsAppend DEF Wire
  <2>5. \A m \in Elems(up') : m.is \in PwKinds => m.val.pw = password' /\ pc' \notin Before
    BY <2>3 DEF Wire
  <2>. QED  BY <2>1, <2>3, <2>4, <2>5 DEF Wire, IsQueue, Elems
<1>. QED  BY <1>4, <1>5, <1>6, <1>7, <1>8 DEF Server

LEMMA WireOther ==
    ASSUME Wire, Ui \/ ServerCut \/ UNCHANGED vars
    PROVE  Wire'
<1>1. UNCHANGED <<pc, password, up, srv, granted, agreed>>
  BY DEF Ui, UiEvents, UiAnswer, UiLeave, UiInput, ServerCut, workerVars, serverVars, vars
<1>2. IsQueue(down') /\ Elems(down') \subseteq Elems(down)
  <2>1. CASE down' = down
    BY <2>1 DEF Wire
  <2>2. CASE ServerCut
    BY <2>2, ElemsSub DEF ServerCut, Wire
  <2>. QED  BY <2>1, <2>2 DEF Ui, UiEvents, UiAnswer, UiLeave, UiInput, vars
<1>3. \A m \in Elems(down') : m.is = "init" => granted
  BY <1>2 DEF Wire
<1>. QED  BY <1>1, <1>2, <1>3 DEF Wire, IsQueue, Elems

LEMMA InitWire == Init => Wire
<1>. SUFFICES ASSUME Init PROVE Wire
  OBVIOUS
<1>1. IsQueue(up) /\ Elems(up) = {}
  BY ElemsFew DEF Init
<1>2. IsQueue(down) /\ \A m \in Elems(down) : m.is # "init"
  BY ElemsFew DEF Init, Plain
<1>. QED  BY <1>1, <1>2 DEF Init, Wire

-----------------------------------------------------------------------------
(* Acceptance, step by step.                                               *)

\* The thread reads on.
LEMMA AcceptMove ==
    ASSUME Inv, Acceptance, pc \in {"connect"} \cup Reading, pc' \in Reading,
           UNCHANGED <<uiVars, cmds, events, password, serverVars>>
    PROVE  Acceptance'
<1>1. UNCHANGED <<dialog, current, remembered, cmds, password, granted, agreed>>
  BY DEF uiVars, serverVars
<1>2. Occurs("desktopName")' <=> Occurs("desktopName")
  BY DEF Occurs
<1>3. pc \in Under /\ pc' \notin {"session", "prompt"}
  BY DEF Under, Reading, Ra2Rounds
<1>. QED  BY <1>1, <1>2, <1>3 DEF Acceptance, Right

\* It ends.
LEMMA AcceptFinish ==
    ASSUME Inv, Acceptance, NEW o \in Outcomes, Finish(o), UNCHANGED <<uiVars, password, serverVars>>
    PROVE  Acceptance'
<1>1. UNCHANGED <<connection, dialog, current, remembered, password, granted, agreed>> /\ pc' = o
  BY DEF uiVars, serverVars, Finish
<1>2. <<o>> \in Seq(Event) /\ \A i \in 1 .. Len(<<o>>) : <<o>>[i] # "desktopName"
  <2>1. Len(<<o>>) = 1 /\ <<o>>[1] = o /\ o # "desktopName" /\ o \in Event
    BY DEF Outcomes, Event
  <2>. QED  BY <2>1
<1>3. Occurs("desktopName")' => Occurs("desktopName")
  BY <1>1, <1>2, Emits DEF Finish
<1>4. pc' \notin {"connect", "prompt", "session"} \cup Reading /\ pc' \notin Under
  BY <1>1 DEF Outcomes, Under, Reading, Ra2Rounds
<1>. QED  BY <1>1, <1>3, <1>4 DEF Acceptance, Right

\* It asks.
LEMMA AcceptAsk ==
    ASSUME Inv, Acceptance, pc \in Reading, pc' = "prompt", events' = Emitted(Prompt),
           UNCHANGED <<uiVars, cmds, password, serverVars>>
    PROVE  Acceptance'
<1>1. UNCHANGED <<connection, dialog, current, remembered, cmds, password, granted, agreed>>
  BY DEF uiVars, serverVars
<1>2. Prompt \in Seq(Event) /\ \A i \in 1 .. Len(Prompt) : Prompt[i] # "desktopName"
  <2>1. Len(Prompt) = 1 /\ Prompt[1] = "needPassword" /\ Prompt \in Seq(Event)
    BY DEF Prompt, Event
  <2>. QED  BY <2>1
<1>3. Occurs("desktopName")' => Occurs("desktopName")
  BY <1>1, <1>2, Emits
<1>4. \A i \in 1 .. Len(cmds) : cmds[i].is # "provide"
  BY DEF Inv, OneQuestion, Queued, Under
<1>5. pc' \notin Under /\ pc' # "session"
  BY Kinds DEF Under, Reading, Ra2Rounds
<1>. QED  BY <1>1, <1>3, <1>4, <1>5 DEF Acceptance, Right

LEMMA AcceptBegin ==
    ASSUME Inv, Acceptance, pc \in Reading, NEW t, NEW version, NEW msgs, Begin(t, version, msgs),
           UNCHANGED <<uiVars, cmds, password, serverVars>>
    PROVE  Acceptance'
<1>1. \/ pc' \in {"result", "init", "challenge", "key"} /\ events' = events
      \/ pc' = "prompt" /\ events' = Emitted(Prompt)
  BY DEF Begin, Method
<1>2. {"result", "init", "challenge", "key"} \subseteq Reading
  BY DEF Reading, Ra2Rounds
<1>. QED  BY <1>1, <1>2, AcceptMove, AcceptAsk

\* The session begins: the server has sent a ServerInit, so it let the client in.
LEMMA AcceptInit ==
    ASSUME Inv, Wire, Acceptance, ReadInit
    PROVE  Acceptance'
<1>1. /\ UNCHANGED <<connection, dialog, current, remembered, cmds, password, granted, agreed>>
      /\ pc = "init" /\ pc' = "session" /\ pc \in Under /\ pc \in Reading
  BY DEF ReadInit, Arrived, uiVars, serverVars, Under, Reading
<1>2. Head(down) \in Elems(down) /\ Head(down).is = "init"
  BY ElemsTail DEF ReadInit, Arrived, Wire
<1>3. Right
  BY <1>2 DEF Wire, Right
<1>4. current = password /\ ~dialog /\ remembered = <<>>
  BY <1>1 DEF Inv, OneQuestion, Acceptance
<1>5. pc' \notin {"connect", "prompt"} \cup Reading
  BY <1>1 DEF Reading, Ra2Rounds
<1>. QED  BY <1>1, <1>3, <1>4, <1>5 DEF Acceptance, Right

\* The answer to the prompt is the password the window goes by.
LEMMA AcceptPrompt ==
    ASSUME Inv, Acceptance, PromptAnswered
    PROVE  Acceptance'
<1>1. /\ UNCHANGED <<connection, dialog, current, remembered, granted, agreed>>
      /\ UNCHANGED <<uiVars, serverVars>> /\ pc = "prompt" /\ cmds # <<>> /\ cmds' = Tail(cmds)
  BY DEF PromptAnswered, uiVars, serverVars
<1>2. /\ \A i \in 1 .. Len(cmds') : i + 1 \in 1 .. Len(cmds) /\ cmds'[i] = cmds[i + 1]
      /\ 1 \in 1 .. Len(cmds) /\ Head(cmds) = cmds[1]
  BY <1>1, Taken
<1>3. remembered = <<>> /\ ~Occurs("desktopName")
  BY <1>1 DEF Acceptance
<1>4. CASE /\ Head(cmds).is = "provide" /\ password' = Head(cmds).val
           /\ pc' = Method(chosen) /\ UNCHANGED events
  <2>1. password' = current
    BY <1>1, <1>2, <1>4 DEF Acceptance
  <2>2. pc' \in Reading /\ pc' \notin {"prompt", "session"}
    BY <1>4 DEF Method, Reading, Ra2Rounds
  <2>3. ~Occurs("desktopName")'
    BY <1>3, <1>4 DEF Occurs
  <2>. QED  BY <1>1, <1>3, <2>1, <2>2, <2>3 DEF Acceptance
<1>5. CASE Finish("error") /\ UNCHANGED password
  BY <1>1, <1>5, AcceptFinish DEF Outcomes
<1>6. CASE UNCHANGED <<pc, events, password>>
  <2>1. ~Occurs("desktopName")'
    BY <1>3, <1>6 DEF Occurs
  <2>2. \A i \in 1 .. Len(cmds') : cmds'[i].is = "provide" => cmds'[i].val = current
    BY <1>1, <1>2 DEF Acceptance
  <2>3. pc' \notin Under /\ pc' # "session"
    BY <1>1, <1>6, Kinds
  <2>. QED  BY <1>1, <1>3, <1>6, <2>1, <2>2, <2>3 DEF Acceptance
<1>. QED  BY <1>4, <1>5, <1>6 DEF PromptAnswered

LEMMA AcceptDrain ==
    ASSUME Inv, Acceptance, SessionDrain
    PROVE  Acceptance'
<1>1. /\ UNCHANGED <<uiVars, password, serverVars>> /\ pc = "session"
      /\ Finish("disconnected") \/ UNCHANGED <<pc, events>>
  BY DEF SessionDrain
<1>2. CASE Finish("disconnected")
  BY <1>1, <1>2, AcceptFinish DEF Outcomes
<1>3. CASE UNCHANGED <<pc, events>>
  <2>1. UNCHANGED <<dialog, current, remembered, granted, agreed>>
    BY <1>1 DEF uiVars, serverVars
  <2>2. Occurs("desktopName")' <=> Occurs("desktopName")
    BY <1>3 DEF Occurs
  <2>. QED  BY <1>1, <1>3, <2>1, <2>2 DEF Acceptance, Right
<1>. QED  BY <1>1, <1>2, <1>3

LEMMA AcceptWorker ==
    ASSUME Inv, Wire, Acceptance, Worker
    PROVE  Acceptance'
<1>. USE DEF Arrived
<1>1. /\ {"banner", "types", "type33", "reason", "challenge", "result", "init"} \subseteq Reading
      /\ Ra2Rounds \subseteq Reading /\ "error" \in Outcomes
      /\ \A kind \in Ra2Rounds : Ra2Next[kind] \in Reading
  BY DEF Reading, Ra2Rounds, Outcomes, Ra2Next
<1>2. ASSUME WriteFails, UNCHANGED <<uiVars, password, serverVars>> PROVE Acceptance'
  BY <1>1, <1>2, AcceptFinish DEF WriteFails
<1>3. CASE TcpConnect
  BY <1>1, <1>3, AcceptMove, AcceptFinish DEF TcpConnect
<1>4. CASE ReadBanner
  BY <1>1, <1>2, <1>4, AcceptMove DEF ReadBanner
<1>5. CASE ReadTypes
  BY <1>1, <1>2, <1>5, AcceptMove, AcceptBegin, AcceptFinish DEF ReadTypes
<1>6. CASE ReadType33
  BY <1>1, <1>2, <1>6, AcceptMove, AcceptBegin, AcceptFinish DEF ReadType33
<1>7. CASE ReadReason \/ PromptTimesOut \/ ReadFails
  BY <1>1, <1>7, AcceptFinish DEF ReadReason, PromptTimesOut, ReadFails
<1>8. CASE VncAuthResponse
  BY <1>1, <1>2, <1>8, AcceptMove DEF VncAuthResponse
<1>9. CASE ReadResult
  BY <1>1, <1>2, <1>9, AcceptMove, AcceptFinish DEF ReadResult
<1>10. ASSUME NEW kind \in Ra2Rounds, Ra2Exchange(kind) PROVE Acceptance'
  BY <1>1, <1>2, <1>10, AcceptMove, AcceptFinish DEF Ra2Exchange
<1>. QED  BY <1>3, <1>4, <1>5, <1>6, <1>7, <1>8, <1>9, <1>10, AcceptInit, AcceptPrompt, AcceptDrain
          DEF Worker

LEMMA AcceptUi ==
    ASSUME Inv, Acceptance, Ui
    PROVE  Acceptance'
<1>0. UNCHANGED <<pc, password, granted, agreed>>
  BY DEF Ui, UiEvents, UiAnswer, UiLeave, UiInput, workerVars, serverVars
<1>1. CASE UiEvents
  <2>1. /\ connection /\ dialog' = (~Over /\ (dialog \/ Asked)) /\ UNCHANGED <<current, cmds>>
        /\ remembered' = IF Occurs("desktopName") THEN <<current>> ELSE remembered
        /\ ~Occurs("desktopName")'
    BY <1>1, NoEvents DEF UiEvents, DialogAfter, Accepted, Asked, Occurs
  <2>2. dialog' => pc = "prompt"
    BY <2>1 DEF Inv, Typed, EndKnown, OneQuestion
  <2>3. <<current>> # <<>>
    OBVIOUS
  <2>. QED  BY <1>0, <2>1, <2>2, <2>3 DEF Acceptance, Right
<1>2. CASE UiAnswer
  <2>1. PICK pw \in PwValues : current' = pw /\ cmds' = Commanded([is |-> "provide", val |-> pw])
    BY <1>2 DEF UiAnswer, PwValues
  <2>2. dialog /\ dialog' = FALSE /\ UNCHANGED <<remembered, events>>
    BY <1>2 DEF UiAnswer
  <2>. DEFINE c == [is |-> "provide", val |-> pw]
  <2>3. c \in Command /\ c.val = pw
    BY DEF Command
  <2>. HIDE DEF c
  <2>4. pc \notin Outcomes =>
            /\ Len(cmds') = Len(cmds) + 1 /\ Len(cmds) \in Nat /\ cmds'[Len(cmds) + 1] = c
            /\ \A i \in 1 .. Len(cmds) : cmds'[i] = cmds[i]
    BY <2>1, <2>3, Sends DEF c
  <2>5. pc \notin Under /\ pc # "session" /\ (pc = "prompt" => ~Queued("provide"))
    BY <2>2 DEF Inv, OneQuestion, Under
  <2>6. pc = "prompt" =>
           \A i \in 1 .. Len(cmds') : cmds'[i].is = "provide" => cmds'[i].val = current'
    <3>1. ASSUME pc = "prompt", NEW i \in 1 .. Len(cmds'), cmds'[i].is = "provide"
          PROVE  cmds'[i].val = current'
      <4>1. i \notin 1 .. Len(cmds)
        BY <2>4, <2>5, <3>1, Kinds DEF Queued
      <4>2. i = Len(cmds) + 1
        BY <2>4, <3>1, <4>1, Kinds
      <4>. QED  BY <2>1, <2>3, <2>4, <3>1, <4>2, Kinds
    <3>. QED  BY <3>1
  <2>7. remembered' = <<>> /\ ~Occurs("desktopName")'
    BY <2>2 DEF Acceptance, Occurs
  <2>. QED  BY <1>0, <2>2, <2>5, <2>6, <2>7 DEF Acceptance
<1>3. CASE UiLeave \/ UiInput
  <2>1. PICK w \in {"disconnect", "input"} : cmds' = Commanded([is |-> w, val |-> NoPassword])
    BY <1>3 DEF UiLeave, UiInput
  <2>2. /\ UNCHANGED <<current, remembered>> /\ (dialog' => dialog)
        /\ Occurs("desktopName")' => Occurs("desktopName")
    BY <1>3, NoEvents DEF UiLeave, UiInput, Occurs
  <2>. DEFINE c == [is |-> w, val |-> NoPassword]
  <2>3. c \in Command /\ c.is # "provide"
    BY DEF Command, PwValues
  <2>. HIDE DEF c
  <2>4. pc \notin Outcomes =>
            /\ Len(cmds') = Len(cmds) + 1 /\ Len(cmds) \in Nat /\ cmds'[Len(cmds) + 1] = c
            /\ \A i \in 1 .. Len(cmds) : cmds'[i] = cmds[i]
    BY <2>1, <2>3, Sends DEF c
  <2>5. pc = "prompt" =>
           \A i \in 1 .. Len(cmds') : cmds'[i].is = "provide" =>
                i \in 1 .. Len(cmds) /\ cmds'[i] = cmds[i]
    BY <2>3, <2>4, Kinds
  <2>. QED  BY <1>0, <2>2, <2>5 DEF Acceptance, Right
<1>. QED  BY <1>1, <1>2, <1>3 DEF Ui

\* A client that was let in stays so.
LEMMA AcceptOther ==
    ASSUME Inv, Wire, Acceptance, Server \/ ServerCut \/ UNCHANGED vars
    PROVE  Acceptance'
<1>1. UNCHANGED <<dialog, current, remembered, events, cmds, pc, password>>
  BY DEF Server, ServerVersion, ServerChoice, ServerResponse, ServerRa2, ServerClientInit,
         ServerReads, ServerCut, uiVars, workerVars, vars
<1>2. Right => Right'
  <2>1. CASE Server /\ granted
    <3>1. srv \in {"clientInit", "serving"}
      BY <2>1 DEF Wire
    <3>2. UNCHANGED <<granted, agreed>>
      BY <2>1, <3>1 DEF Server, ServerVersion, ServerChoice, ServerResponse, ServerRa2,
                        ServerClientInit, ServerReads
    <3>. QED  BY <1>1, <3>2 DEF Right
  <2>2. CASE ServerCut \/ UNCHANGED vars
    BY <1>1, <2>2 DEF ServerCut, vars, serverVars, Right
  <2>. QED  BY <2>1, <2>2 DEF Right
<1>. QED  BY <1>1, <1>2 DEF Acceptance, Occurs

LEMMA InitAcceptance == Init => Acceptance
<1>. SUFFICES ASSUME Init PROVE Acceptance
  OBVIOUS
<1>1. ~Occurs("desktopName") /\ remembered = <<>> /\ ~dialog /\ current = password
  BY NoEvents DEF Init, Occurs
<1>2. pc = "connect"
  BY DEF Init
<1>. QED  BY <1>1, <1>2 DEF Acceptance

\* Whatever the server speaks and the user answers, also after a prompt that timed
\* out and with an end on the way: the window remembers only a server that let the
\* client in, with the very password it was let in by (app.rs:654).
THEOREM RememberedAlways == Spec => []RememberedIsAccepted
<1>1. Init => Wire /\ Acceptance
  BY InitWire, InitAcceptance
<1>2. ASSUME Inv, Wire, Acceptance, [Next]_vars PROVE Wire' /\ Acceptance'
  <2>1. CASE Worker
    BY <1>2, <2>1, WireWorker, AcceptWorker
  <2>2. CASE Ui
    BY <1>2, <2>2, WireOther, AcceptUi
  <2>3. CASE Server
    BY <1>2, <2>3, WireServer, AcceptOther
  <2>4. CASE ServerCut \/ UNCHANGED vars
    BY <1>2, <2>4, WireOther, AcceptOther
  <2>. QED  BY <1>2, <2>1, <2>2, <2>3, <2>4 DEF Next
<1>3. Acceptance => RememberedIsAccepted
  BY DEF Acceptance, Right, RememberedIsAccepted
<1>. QED  BY <1>1, <1>2, <1>3, Invariance, PTL DEF Spec

-----------------------------------------------------------------------------
(* Types.                                                                  *)

Types == {VncNone, VncAuth} \cup Ra2

SoundUp(m) ==
    /\ m.is \in UpKinds /\ m.sealed \in BOOLEAN
    /\ m.is = "version" => m.val.version \in {3, 7, 8}
    /\ m.is = "choice" => m.val.type \in Types
SoundDown(m) == m.is \in Reading /\ m.sealed \in BOOLEAN

\* Every variable has its type, and the messages that are read have theirs.
WorkerTyped ==
    /\ password \in PwValues /\ minor \in {0, 3, 7, 8} /\ chosen \in {0} \cup Types
UiTyped ==
    /\ connection \in BOOLEAN /\ dialog \in BOOLEAN
    /\ current \in PwValues /\ remembered \in {<<>>} \cup {<<p>> : p \in PwValues}
    /\ inputs \in 0 .. MaxInputs
ServerTyped ==
    /\ serverOpen \in BOOLEAN /\ granted \in BOOLEAN
    /\ srv \in UpKinds \cup {"serving", "other"}
    /\ offer \in Offers /\ dialect \in {0, 3, 7, 8} /\ agreed \in Nat
MessagesTyped ==
    /\ \A m \in Elems(up) : SoundUp(m)
    /\ \A m \in Elems(down) : SoundDown(m)
Sorted == WorkerTyped /\ UiTyped /\ ServerTyped /\ MessagesTyped

\* What negotiate prefers is one of the types it knows.
LEMMA PrefersKnown ==
    ASSUME NEW types
    PROVE  Preferred(types) \in {0} \cup Types
<1>. DEFINE known == {i \in 1 .. Len(Order) : Order[i] \in types}
            best  == CHOOSE i \in known : \A j \in known : i <= j
<1>1. /\ Len(Order) = 6 /\ Order[1] = 2 /\ Order[2] = 1 /\ Order[3] = 5 /\ Order[4] = 129
      /\ Order[5] = 6 /\ Order[6] = 130
  BY DEF Order, VncAuth, VncNone
<1>2. ASSUME NEW i \in 1 .. Len(Order) PROVE Order[i] \in Types
  <2>1. i \in 1 .. 6
    BY <1>1
  <2>2. i = 1 \/ i = 2 \/ i = 3 \/ i = 4 \/ i = 5 \/ i = 6
    BY <2>1
  <2>. QED  BY <1>1, <2>2 DEF Types, VncAuth, VncNone, Ra2
<1>3. known # {} => \E i \in known : \A j \in known : i <= j
  <2>1. known \subseteq 1 .. 6
    BY <1>1
  <2>. HIDE DEF known
  <2>2. \A i \in known : i = 1 \/ i = 2 \/ i = 3 \/ i = 4 \/ i = 5 \/ i = 6
    BY <2>1
  <2>. QED
    BY <2>2
<1>4. known # {} => best \in known
  <2>. HIDE DEF known
  <2>. QED  BY <1>3
<1>5. Preferred(types) = IF password = NoPassword /\ VncNone \in types THEN VncNone
                         ELSE IF known = {} THEN 0 ELSE Order[best]
  BY DEF Preferred
<1>6. known # {} => Order[best] \in Types
  <2>. HIDE DEF best
  <2>. QED  BY <1>2, <1>4
<1>. HIDE DEF known, best
<1>. QED  BY <1>5, <1>6 DEF Types

\* A step of the thread.
LEMMA SortMove ==
    ASSUME Sorted, Wire, UNCHANGED <<uiVars, serverVars>>, WorkerTyped',
           Elems(down') \subseteq Elems(down),
           NEW msgs, IsQueue(msgs), up' = up \/ up' = Written(msgs),
           \A m \in Elems(msgs) : SoundUp(m)
    PROVE  Sorted'
<1>1. Elems(up') \subseteq Elems(up) \cup Elems(msgs)
  BY ElemsWritten
<1>2. \A m \in Elems(up') : SoundUp(m)
  BY <1>1 DEF Sorted, MessagesTyped
<1>3. \A m \in Elems(down') : SoundDown(m)
  BY DEF Sorted, MessagesTyped
<1>4. MessagesTyped'
  BY <1>2, <1>3 DEF MessagesTyped, Elems, SoundUp, SoundDown
<1>5. UiTyped' /\ ServerTyped'
  BY DEF Sorted, UiTyped, ServerTyped, uiVars, serverVars
<1>. QED  BY <1>4, <1>5 DEF Sorted

LEMMA SortWorker ==
    ASSUME Inv, Wire, Sorted, Worker
    PROVE  Sorted'
<1>0. /\ IsQueue(down) /\ IsQueue(<<>>) /\ Elems(<<>>) = {}
      /\ WorkerTyped /\ {VncNone, VncAuth} \subseteq Types /\ {3, 7, 8} \subseteq {0, 3, 7, 8}
  BY ElemsFew DEF Wire, Sorted, Types
<1>1. ASSUME NEW kind, Arrived(kind)
      PROVE  Elems(down') \subseteq Elems(down) /\ UNCHANGED <<uiVars, serverVars>>
  BY <1>0, <1>1, ElemsTail DEF Arrived
<1>2. ASSUME NEW x, SoundUp(x) PROVE IsQueue(<<x>>) /\ \A m \in Elems(<<x>>) : SoundUp(m)
  BY <1>2, ElemsFew
<1>3. ASSUME NEW kind, Arrived(kind), UNCHANGED <<up, minor, chosen, password>> PROVE Sorted'
  BY <1>0, <1>1, <1>3, SortMove DEF WorkerTyped
<1>4. ASSUME NEW kind, Arrived(kind), WriteFails, UNCHANGED password, minor' \in {0, 3, 7, 8} PROVE Sorted'
  BY <1>0, <1>1, <1>4, SortMove DEF WorkerTyped, WriteFails
<1>6. ASSUME NEW t PROVE SoundUp(InitMsg(t))
  BY DEF SoundUp, InitMsg, EncryptAll, UpKinds
<1>7. ASSUME NEW kind, NEW val, kind \in UpKinds,
             kind = "version" => val.version \in {3, 7, 8}, kind = "choice" => val.type \in Types
      PROVE  SoundUp(Plain(kind, val))
  BY <1>7 DEF SoundUp, Plain
<1>8. ASSUME NEW kind, Arrived(kind), NEW t \in Types, chosen' = t, UNCHANGED <<minor, password>>,
             NEW msgs, IsQueue(msgs), \A m \in Elems(msgs) : SoundUp(m), Begin(t, minor, msgs)
      PROVE  Sorted'
  <2>1. WorkerTyped'
    BY <1>0, <1>8 DEF WorkerTyped
  <2>. DEFINE c == <<InitMsg(t)>>
  <2>2. IsQueue(c) /\ \A m \in Elems(c) : SoundUp(m)
    BY <1>2, <1>6
  <2>3. IsQueue(msgs \o c) /\ \A m \in Elems(msgs \o c) : SoundUp(m)
    BY <1>8, <2>2, ElemsConcat
  <2>4. up' \in {Written(msgs), Written(msgs \o c)}
    BY <1>8 DEF Begin
  <2>. HIDE DEF c
  <2>. QED  BY <1>1, <1>8, <2>1, <2>3, <2>4, SortMove
<1>9. CASE TcpConnect \/ ReadFails \/ PromptTimesOut
  BY <1>0, <1>9, SortMove DEF TcpConnect, ReadFails, PromptTimesOut, WorkerTyped
<1>10. CASE ReadBanner
  <2>1. Arrived("banner") /\ password' = password /\ minor' \in {3, 7, 8}
    BY <1>10 DEF ReadBanner, Reply
  <2>2. CASE WriteFails
    BY <1>4, <2>1, <2>2
  <2>3. CASE up' = Written(<<Plain("version", [version |-> minor'])>>) /\ chosen' = chosen
    <3>. DEFINE x == Plain("version", [version |-> minor'])
    <3>1. SoundUp(x)
      BY <1>7, <2>1 DEF UpKinds
    <3>2. WorkerTyped'
      BY <1>0, <2>1, <2>3 DEF WorkerTyped
    <3>. HIDE DEF x
    <3>. QED  BY <1>1, <1>2, <2>1, <2>3, <3>1, <3>2, SortMove DEF x
  <2>. QED  BY <1>10, <2>2, <2>3 DEF ReadBanner
<1>11. CASE ReadTypes
  <2>1. Arrived("types") /\ UNCHANGED <<minor, password>>
    BY <1>11 DEF ReadTypes
  <2>. DEFINE t == Preferred(Head(down).val.types)
              x == Plain("choice", [type |-> t])
  <2>2. \/ UNCHANGED <<up, chosen>> \/ WriteFails
        \/ t # 0 /\ chosen' = t /\ Begin(t, minor, <<x>>)
    BY <1>11 DEF ReadTypes
  <2>3. CASE t # 0 /\ chosen' = t /\ Begin(t, minor, <<x>>)
    <3>1. t \in Types
      BY <2>3, PrefersKnown
    <3>2. SoundUp(x)
      BY <1>7, <3>1 DEF UpKinds
    <3>. HIDE DEF t, x
    <3>. QED  BY <1>2, <1>8, <2>1, <2>3, <3>1, <3>2
  <2>4. CASE WriteFails
    BY <1>0, <1>4, <2>1, <2>4 DEF WorkerTyped
  <2>. QED  BY <1>3, <2>1, <2>2, <2>3, <2>4
<1>12. CASE ReadType33
  <2>1. Arrived("type33") /\ UNCHANGED <<minor, password>>
    BY <1>12 DEF ReadType33
  <2>. DEFINE t == Head(down).val.type
  <2>2. \/ UNCHANGED <<up, chosen>> \/ WriteFails
        \/ t \in Types /\ chosen' = t /\ Begin(t, minor, <<>>)
    BY <1>0, <1>12 DEF ReadType33
  <2>3. CASE t \in Types /\ chosen' = t /\ Begin(t, minor, <<>>)
    <3>. HIDE DEF t
    <3>. QED  BY <1>0, <1>8, <2>1, <2>3
  <2>4. CASE WriteFails
    BY <1>0, <1>4, <2>1, <2>4 DEF WorkerTyped
  <2>. QED  BY <1>3, <2>1, <2>2, <2>3, <2>4
<1>13. CASE ReadReason \/ ReadInit
  BY <1>3, <1>13 DEF ReadReason, ReadInit
<1>14. CASE PromptAnswered
  <2>1. /\ cmds # <<>> /\ password' \in {password, Head(cmds).val}
        /\ UNCHANGED <<uiVars, minor, chosen, down, up, serverVars>>
    BY <1>14 DEF PromptAnswered
  <2>2. Head(cmds).val \in PwValues
    BY <2>1, TailCommand DEF Inv, Typed, Command
  <2>3. WorkerTyped'
    BY <1>0, <2>1, <2>2 DEF WorkerTyped
  <2>. QED  BY <1>0, <2>1, <2>3, SortMove
<1>15. CASE VncAuthResponse
  <2>1. Arrived("challenge") /\ UNCHANGED <<minor, password>>
    BY <1>15 DEF VncAuthResponse
  <2>. DEFINE x == Plain("response", [pw |-> password])
  <2>2. WriteFails \/ (up' = Written(<<x>>) /\ chosen' = chosen)
    BY <1>15 DEF VncAuthResponse
  <2>3. SoundUp(x)
    BY <1>7 DEF UpKinds
  <2>4. CASE WriteFails
    BY <1>0, <1>4, <2>1, <2>4 DEF WorkerTyped
  <2>5. CASE up' = Written(<<x>>) /\ chosen' = chosen
    <3>1. WorkerTyped'
      BY <1>0, <2>1, <2>5 DEF WorkerTyped
    <3>. HIDE DEF x
    <3>. QED  BY <1>1, <1>2, <2>1, <2>3, <2>5, <3>1, SortMove
  <2>. QED  BY <2>2, <2>4, <2>5
<1>16. ASSUME NEW kind \in Ra2Rounds, Ra2Exchange(kind) PROVE Sorted'
  <2>1. Arrived(kind) /\ UNCHANGED <<minor, password>>
    BY <1>16 DEF Ra2Exchange
  <2>. DEFINE x == Plain(Ra2Answer[kind], IF kind = "subtype" THEN [pw |-> password] ELSE Nothing)
  <2>2. WriteFails \/ UNCHANGED <<up, chosen>> \/ (up' = Written(<<x>>) /\ chosen' = chosen)
    BY <1>16 DEF Ra2Exchange
  <2>3. SoundUp(x)
    <3>1. Ra2Answer[kind] \in UpKinds \ {"version", "choice"}
      BY DEF Ra2Answer, Ra2Rounds, UpKinds
    <3>. QED  BY <1>7, <3>1
  <2>4. CASE WriteFails
    BY <1>0, <1>4, <2>1, <2>4 DEF WorkerTyped
  <2>5. CASE up' = Written(<<x>>) /\ chosen' = chosen
    <3>1. WorkerTyped'
      BY <1>0, <2>1, <2>5 DEF WorkerTyped
    <3>. HIDE DEF x
    <3>. QED  BY <1>1, <1>2, <2>1, <2>3, <2>5, <3>1, SortMove
  <2>. QED  BY <1>3, <2>1, <2>2, <2>4, <2>5
<1>17. CASE ReadResult
  <2>1. Arrived("result") /\ UNCHANGED <<minor, password>>
    BY <1>17 DEF ReadResult
  <2>2. WriteFails \/ UNCHANGED <<up, chosen>> \/ (up' = Written(<<InitMsg(chosen)>>) /\ chosen' = chosen)
    BY <1>17 DEF ReadResult
  <2>4. CASE WriteFails
    BY <1>0, <1>4, <2>1, <2>4 DEF WorkerTyped
  <2>5. CASE up' = Written(<<InitMsg(chosen)>>) /\ chosen' = chosen
    <3>1. WorkerTyped'
      BY <1>0, <2>1, <2>5 DEF WorkerTyped
    <3>. QED  BY <1>1, <1>2, <1>6, <2>1, <2>5, <3>1, SortMove
  <2>. QED  BY <1>3, <2>1, <2>2, <2>4, <2>5
<1>18. CASE SessionDrain
  BY <1>0, <1>18, SortMove DEF SessionDrain, WorkerTyped
<1>. QED  BY <1>9, <1>10, <1>11, <1>12, <1>13, <1>14, <1>15, <1>16, <1>17, <1>18 DEF Worker

LEMMA SortUi ==
    ASSUME Inv, Sorted, Ui
    PROVE  Sorted'
<1>1. UNCHANGED <<minor, chosen, password, up, down, serverOpen, granted, srv, offer, dialect, agreed>>
  BY DEF Ui, UiEvents, UiAnswer, UiLeave, UiInput, workerVars, serverVars
<1>2. WorkerTyped' /\ ServerTyped' /\ MessagesTyped'
  BY <1>1 DEF Sorted, WorkerTyped, ServerTyped, MessagesTyped, Elems
<1>3. UiTyped
  BY DEF Sorted
<1>4. CASE UiEvents
  <2>1. /\ connection' \in BOOLEAN /\ dialog' \in BOOLEAN /\ UNCHANGED <<current, inputs>>
        /\ remembered' \in {remembered, <<current>>}
    BY <1>3, <1>4 DEF UiEvents, DialogAfter, UiTyped
  <2>. QED  BY <1>2, <1>3, <2>1 DEF Sorted, UiTyped
<1>5. CASE UiAnswer
  <2>1. /\ dialog' = FALSE /\ UNCHANGED <<connection, remembered, inputs>>
        /\ current' \in PwValues
    BY <1>5 DEF UiAnswer, PwValues
  <2>. QED  BY <1>2, <1>3, <2>1 DEF Sorted, UiTyped
<1>6. CASE UiLeave
  BY <1>2, <1>3, <1>6 DEF UiLeave, Sorted, UiTyped
<1>7. CASE UiInput
  BY <1>2, <1>3, <1>7, MaxInputsAssumption DEF UiInput, Sorted, UiTyped
<1>. QED  BY <1>4, <1>5, <1>6, <1>7 DEF Ui

\* A step of the server.
LEMMA SortServes ==
    ASSUME Wire, Sorted, UNCHANGED <<uiVars, workerVars>>, ServerTyped',
           up' = up \/ (up # <<>> /\ up' = Tail(up)),
           NEW ms, IsQueue(ms), Elems(down') \subseteq Elems(down) \cup Elems(ms),
           \A m \in Elems(ms) : SoundDown(m)
    PROVE  Sorted'
<1>1. Elems(up') \subseteq Elems(up)
  BY ElemsTail DEF Wire
<1>2. (\A m \in Elems(up') : SoundUp(m)) /\ \A m \in Elems(down') : SoundDown(m)
  BY <1>1 DEF Sorted, MessagesTyped
<1>3. MessagesTyped'
  BY <1>2 DEF MessagesTyped, Elems, SoundUp, SoundDown
<1>4. UiTyped' /\ WorkerTyped'
  BY DEF Sorted, UiTyped, WorkerTyped, uiVars, workerVars
<1>. QED  BY <1>3, <1>4 DEF Sorted

LEMMA SortServer ==
    ASSUME Wire, Sorted, Server
    PROVE  Sorted'
<1>0. /\ ServerTyped /\ IsQueue(down) /\ IsQueue(<<>>) /\ Elems(<<>>) = {}
      /\ {"choice", "response", "key", "random", "hash", "credentials", "clientInit", "other",
          "serving"} \subseteq UpKinds \cup {"serving", "other"}
  BY ElemsFew DEF Sorted, Wire, UpKinds
<1>1. ASSUME NEW kind, ServerReads(kind)
      PROVE  /\ up # <<>> /\ up' = Tail(up) /\ srv = kind /\ Head(up).is = kind
             /\ SoundUp(Head(up))
             /\ UNCHANGED <<uiVars, workerVars, offer>>
  BY <1>1, ElemsTail DEF ServerReads, Wire, Sorted, MessagesTyped
<1>2. ASSUME NEW k, NEW v, k \in Reading PROVE SoundDown(Plain(k, v))
  BY <1>2 DEF SoundDown, Plain
<1>3. {"types", "type33", "reason", "challenge", "result", "key", "random", "hash", "subtype", "init"}
        \subseteq Reading
  BY DEF Reading, Ra2Rounds
<1>4. ASSUME NEW x, SoundDown(x)
      PROVE  /\ IsQueue(<<x>>) /\ Elems(down \o <<x>>) \subseteq Elems(down) \cup Elems(<<x>>)
             /\ Elems(Append(down, x)) \subseteq Elems(down) \cup Elems(<<x>>)
             /\ \A m \in Elems(<<x>>) : SoundDown(m)
  BY <1>0, <1>4, ElemsFew, ElemsConcat, ElemsAppend
<1>5. ASSUME NEW x, NEW y, SoundDown(x), SoundDown(y)
      PROVE  /\ IsQueue(<<x, y>>) /\ Elems(down \o <<x, y>>) \subseteq Elems(down) \cup Elems(<<x, y>>)
             /\ \A m \in Elems(<<x, y>>) : SoundDown(m)
  BY <1>0, <1>5, ElemsFew, ElemsConcat
<1>6. ASSUME NEW kind, ServerReads(kind), NEW t \in Nat, NEW before, IsQueue(before),
             \A m \in Elems(before) : SoundDown(m), Serves(t, before),
             dialect' \in {0, 3, 7, 8}, serverOpen' = serverOpen
      PROVE  Sorted'
  <2>1. VncNone # VncAuth /\ VncNone \notin Ra2 /\ VncAuth \notin Ra2
    BY DEF VncNone, VncAuth, Ra2
  <2>2. /\ agreed' = t /\ (granted' = TRUE \/ granted' = granted)
        /\ srv' \in {"clientInit", "response", "key", "other"}
        /\ \/ down' = down \o before
           \/ down' = down \o before \o <<>>
           \/ \E v : down' = down \o before \o <<Plain("result", v)>>
           \/ down' = down \o before \o <<Plain("challenge", Nothing)>>
           \/ \E v : down' = down \o before \o <<Plain("key", v)>>
    <3>1. CASE t = VncNone
      BY <1>6, <2>1, <3>1, Zenon DEF Serves
    <3>2. CASE t = VncAuth
      BY <1>6, <2>1, <3>2, Zenon DEF Serves
    <3>3. CASE t \in Ra2
      BY <1>6, <2>1, <3>3, Zenon DEF Serves
    <3>4. CASE t \notin {VncNone, VncAuth} \cup Ra2
      BY <1>6, <3>4 DEF Serves
    <3>. QED  BY <3>1, <3>2, <3>3, <3>4
  <2>3. ServerTyped'
    BY <1>0, <1>1, <1>6, <2>2 DEF ServerTyped
  <2>4. IsQueue(down \o before) /\ Elems(down \o before) \subseteq Elems(down) \cup Elems(before)
    BY <1>0, <1>6, ElemsConcat
  <2>5. ASSUME NEW ms, IsQueue(ms), \A m \in Elems(ms) : SoundDown(m), down' = down \o before \o ms
        PROVE  Sorted'
    <3>1. /\ IsQueue(before \o ms)
          /\ \A m \in Elems(before) \cup Elems(ms) : SoundDown(m)
          /\ Elems(down') \subseteq Elems(down) \cup Elems(before) \cup Elems(ms)
      BY <1>6, <2>4, <2>5, ElemsConcat
    <3>2. \A m \in Elems(down') : SoundDown(m)
      BY <3>1 DEF Sorted, MessagesTyped
    <3>3. IsQueue(down')
      BY <2>4, <2>5, ElemsConcat
    <3>. QED  BY <1>1, <1>6, <2>3, <3>2, <3>3, SortServes
  <2>6. CASE down' = down \o before
    BY <1>1, <1>6, <2>3, <2>4, <2>6, SortServes
  <2>7. CASE down' = down \o before \o <<>>
    BY <1>0, <2>5, <2>7
  <2>8. ASSUME NEW k, NEW v, k \in Reading, down' = down \o before \o <<Plain(k, v)>> PROVE Sorted'
    BY <1>2, <1>4, <2>5, <2>8
  <2>. QED  BY <1>3, <2>2, <2>6, <2>7, <2>8
<1>7. ASSUME NEW kind, ServerReads(kind), NEW k \in Reading, NEW v, Refuses(k, v),
             dialect' \in {0, 3, 7, 8}
      PROVE  Sorted'
  <2>. DEFINE x == Plain(k, v)
              y == Plain("reason", Nothing)
  <2>1. down' = down \o <<x, y>> /\ serverOpen' = FALSE /\ UNCHANGED <<srv, agreed, granted>>
    BY <1>7 DEF Refuses
  <2>2. SoundDown(x) /\ SoundDown(y)
    BY <1>2, <1>3
  <2>3. ServerTyped'
    BY <1>0, <1>1, <1>7, <2>1 DEF ServerTyped
  <2>. HIDE DEF x, y
  <2>. QED  BY <1>1, <1>5, <1>7, <2>1, <2>2, <2>3, SortServes
<1>8. CASE ServerVersion
  <2>1. ServerReads("version") /\ dialect' = Head(up).val.version
    BY <1>8 DEF ServerVersion
  <2>2. dialect' \in {0, 3, 7, 8}
    BY <1>1, <2>1 DEF SoundUp
  <2>3. ASSUME NEW t \in offer, Serves(t, <<Plain("type33", [type |-> t])>>), serverOpen' = serverOpen
        PROVE  Sorted'
    <3>1. t \in Nat
      BY <1>0, <2>3, OffersAssumption DEF ServerTyped
    <3>. DEFINE x == Plain("type33", [type |-> t])
    <3>2. IsQueue(<<x>>) /\ \A m \in Elems(<<x>>) : SoundDown(m)
      BY <1>2, <1>3, <1>4
    <3>. HIDE DEF x
    <3>. QED  BY <1>6, <2>1, <2>2, <2>3, <3>1, <3>2 DEF x
  <2>4. CASE /\ down' = Append(down, Plain("types", [types |-> offer]))
             /\ srv' = "choice" /\ UNCHANGED <<serverOpen, agreed, granted>>
    <3>1. ServerTyped'
      BY <1>0, <1>1, <2>1, <2>2, <2>4 DEF ServerTyped
    <3>. DEFINE x == Plain("types", [types |-> offer])
    <3>2. SoundDown(x)
      BY <1>2, <1>3
    <3>. HIDE DEF x
    <3>. QED  BY <1>1, <1>4, <2>1, <2>4, <3>1, <3>2, SortServes DEF x
  <2>. QED  BY <1>3, <1>7, <1>8, <2>1, <2>2, <2>3, <2>4 DEF ServerVersion
<1>9. CASE ServerChoice
  <2>1. /\ ServerReads("choice") /\ UNCHANGED <<dialect, serverOpen>>
        /\ Serves(Head(up).val.type, <<>>)
    BY <1>9 DEF ServerChoice
  <2>2. Head(up).val.type \in Nat /\ dialect' \in {0, 3, 7, 8}
    BY <1>0, <1>1, <2>1 DEF SoundUp, Types, VncNone, VncAuth, Ra2, ServerTyped
  <2>. QED  BY <1>0, <1>6, <2>1, <2>2
<1>10. CASE ServerResponse
  <2>1. PICK kind : ServerReads(kind)
    BY <1>10 DEF ServerResponse
  <2>2. Decides(Head(up).val.pw) /\ UNCHANGED <<dialect, agreed>>
    BY <1>10 DEF ServerResponse
  <2>. DEFINE r(v) == [is |-> "result", sealed |-> Secret(agreed), val |-> [ok |-> v]]
              z == [is |-> "reason", sealed |-> Secret(agreed), val |-> Nothing]
  <2>3. SoundDown(r(TRUE)) /\ SoundDown(r(FALSE)) /\ SoundDown(z)
    BY <1>3 DEF SoundDown, Secret
  <2>4. /\ \/ down' = Append(down, r(TRUE))
           \/ down' = down \o <<r(FALSE), z>>
           \/ down' = down \o <<r(FALSE)>>
        /\ granted' \in {TRUE, granted} /\ srv' \in {srv, "clientInit"} /\ serverOpen' \in {FALSE, serverOpen}
    BY <2>2 DEF Decides
  <2>5. ServerTyped'
    BY <1>0, <1>1, <2>1, <2>2, <2>4 DEF ServerTyped
  <2>. HIDE DEF r, z
  <2>. QED  BY <1>1, <1>4, <1>5, <2>1, <2>3, <2>4, <2>5, SortServes
<1>11. CASE ServerRa2
  <2>1. PICK kind \in {"key", "random", "hash"} : ServerReads(kind)
    BY <1>11 DEF ServerRa2
  <2>2. /\ srv = kind /\ srv' = Ra2Answer[Ra2Next[kind]]
        /\ \E v : down' = Append(down, Plain(Ra2Next[kind], v))
        /\ UNCHANGED <<dialect, agreed, granted, serverOpen>>
    BY <1>1, <1>11, <2>1 DEF ServerRa2
  <2>3. Ra2Next[kind] \in Reading /\ srv' \in {"random", "hash", "credentials"}
    BY <1>3, <2>2 DEF Ra2Next, Ra2Answer
  <2>4. ServerTyped'
    BY <1>0, <1>1, <2>1, <2>2, <2>3 DEF ServerTyped
  <2>5. PICK v : down' = Append(down, Plain(Ra2Next[kind], v))
    BY <2>2
  <2>. QED  BY <1>1, <1>2, <1>4, <2>1, <2>3, <2>4, <2>5, SortServes
<1>12. CASE ServerClientInit
  <2>1. /\ ServerReads("clientInit") /\ srv' = "serving"
        /\ down' = Append(down, [is |-> "init", sealed |-> Secret(agreed), val |-> Nothing])
        /\ UNCHANGED <<dialect, agreed, granted, serverOpen>>
    BY <1>12 DEF ServerClientInit
  <2>2. SoundDown([is |-> "init", sealed |-> Secret(agreed), val |-> Nothing])
    BY <1>3 DEF SoundDown, Secret
  <2>3. ServerTyped'
    BY <1>0, <1>1, <2>1 DEF ServerTyped
  <2>. QED  BY <1>1, <1>4, <2>1, <2>2, <2>3, SortServes
<1>. QED  BY <1>8, <1>9, <1>10, <1>11, <1>12 DEF Server

LEMMA SortOther ==
    ASSUME Wire, Sorted, ServerCut \/ UNCHANGED vars
    PROVE  Sorted'
<1>1. CASE ServerCut
  <2>1. Elems(down') \subseteq Elems(down) \cup Elems(<<>>)
    BY <1>1, ElemsSub DEF ServerCut, Wire
  <2>2. ServerTyped'
    BY <1>1 DEF ServerCut, Sorted, ServerTyped
  <2>3. IsQueue(<<>>) /\ \A m \in Elems(<<>>) : SoundDown(m)
    BY ElemsFew
  <2>. QED  BY <1>1, <2>1, <2>2, <2>3, SortServes DEF ServerCut
<1>2. CASE UNCHANGED vars
  BY <1>2 DEF vars, uiVars, workerVars, serverVars, Sorted, WorkerTyped, UiTyped, ServerTyped,
              MessagesTyped, Elems
<1>. QED  BY <1>1, <1>2

LEMMA InitSorted == Init => Sorted
<1>. SUFFICES ASSUME Init PROVE Sorted
  OBVIOUS
<1>1. PICK b \in Banners : down = <<Plain("banner", [version |-> b])>>
  BY DEF Init
<1>2. \A m \in Elems(down) : SoundDown(m)
  <2>. DEFINE x == Plain("banner", [version |-> b])
  <2>1. SoundDown(x)
    BY DEF SoundDown, Plain, Reading
  <2>. HIDE DEF x
  <2>. QED  BY <1>1, <2>1, ElemsFew DEF x
<1>3. Elems(up) = {}
  BY ElemsFew DEF Init
<1>4. current \in PwValues /\ password = current
  BY SavedAssumption DEF Init, PwValues
<1>5. WorkerTyped
  BY <1>4 DEF Init, WorkerTyped
<1>6. UiTyped
  <2>1. 0 \in 0 .. MaxInputs
    BY MaxInputsAssumption
  <2>2. connection \in BOOLEAN /\ dialog \in BOOLEAN /\ remembered \in {<<>>} /\ inputs = 0
    BY DEF Init
  <2>. QED  BY <1>4, <2>1, <2>2, Zenon DEF UiTyped
<1>7. ServerTyped
  BY DEF Init, ServerTyped, UpKinds
<1>. QED  BY <1>2, <1>3, <1>5, <1>6, <1>7 DEF Sorted, MessagesTyped

\* Every variable of the handshake has its type, for any server and any inputs.
THEOREM TypesAlways == Spec => []TypeOK
<1>1. ASSUME Inv, Wire, Sorted, [Next]_vars PROVE Wire' /\ Sorted'
  BY <1>1, WireWorker, WireServer, WireOther, SortWorker, SortUi, SortServer, SortOther DEF Next
<1>2. ASSUME Inv, Sorted PROVE TypeOK
  <2>1. UiTyped /\ WorkerTyped /\ ServerTyped /\ MessagesTyped /\ Typed
    BY <1>2 DEF Inv, Sorted
  <2>2. /\ events \in Seq({"needPassword", "desktopSize", "desktopName"} \cup Outcomes)
        /\ cmds \in Seq([is : {"provide", "disconnect", "input"}, val : PwValues])
        /\ pc \in {"connect", "prompt", "session"} \cup Reading \cup Outcomes
    BY <2>1 DEF Typed, Event, Command, Under
  <2>3. /\ \A i \in 1 .. Len(down) : down[i].is \in Reading /\ down[i].sealed \in BOOLEAN
        /\ \A i \in 1 .. Len(up) : up[i].is \in UpKinds /\ up[i].sealed \in BOOLEAN
    BY <2>1 DEF MessagesTyped, Elems, SoundUp, SoundDown
  <2>4. /\ connection \in BOOLEAN /\ dialog \in BOOLEAN
        /\ current \in PwValues /\ password \in PwValues
        /\ remembered \in {<<>>} \cup {<<p>> : p \in PwValues} /\ inputs \in 0 .. MaxInputs
    BY <2>1 DEF UiTyped, WorkerTyped
  <2>5. /\ minor \in {0, 3, 7, 8} /\ dialect \in {0, 3, 7, 8}
        /\ chosen \in {0, VncNone, VncAuth} \cup Ra2
        /\ serverOpen \in BOOLEAN /\ granted \in BOOLEAN
        /\ srv \in UpKinds \cup {"serving", "other"}
        /\ offer \in Offers /\ agreed \in Nat
    BY <2>1 DEF WorkerTyped, ServerTyped, Types
  <2>. QED  BY <2>2, <2>3, <2>4, <2>5, Zenon DEF TypeOK
<1>. QED  BY <1>1, <1>2, InitWire, InitSorted, Invariance, PTL DEF Spec

-----------------------------------------------------------------------------
(* In step.  The third invariant is the protocol as a dialogue: one of the  *)
(* two has the turn, and what the other has sent is what it reads next.    *)

Live == pc \notin Outcomes \cup {"session"}

\* The message the thread reads next, where it waits for the network or the user too.
Awaited == CASE pc = "connect" -> "banner" [] pc = "prompt" -> Method(chosen) [] OTHER -> pc
InChannel(kind) == kind \in {"result", "reason", "init"} /\ EncryptAll(chosen)

\* What may come after m in one go.
Follows(m, n) ==
    \/ m.is = "types" /\ m.val.types = {} /\ n.is = "reason" /\ ~n.sealed
    \/ m.is = "type33" /\ m.val.type = 0 /\ n.is = "reason" /\ ~n.sealed
    \/ m.is = "type33" /\ m.val.type = VncAuth /\ n.is = "challenge" /\ ~n.sealed
    \/ m.is = "type33" /\ m.val.type \notin {0, VncNone, VncAuth}   \* it gives up
    \/ m.is = "result" /\ ~m.val.ok /\ AwaitsReason(minor)
          /\ n.is = "reason" /\ (n.sealed <=> EncryptAll(chosen))

DownFits ==
    /\ Len(down) <= 2
    /\ down # <<>> => Head(down).is = Awaited /\ (Head(down).sealed <=> InChannel(Awaited))
    /\ Len(down) = 2 => Follows(down[1], down[2])
    /\ Awaited \in {"banner", "types", "type33"} => chosen = 0

\* The only message the thread writes without reading first is the ClientInit
\* after None in RFB 3.7.
UpFits ==
    /\ Len(up) <= 2
    /\ up # <<>> => Head(up).is = srv /\ (Head(up).sealed <=> (srv = "clientInit" /\ Secret(agreed)))
    /\ Len(up) = 2 => /\ srv = "choice" /\ dialect = 7 /\ up[1].val.type = VncNone
                      /\ up[2].is = "clientInit" /\ ~up[2].sealed

Agree == minor = dialect /\ minor \in {3, 7, 8} /\ chosen = agreed /\ chosen \in Types

\* The first message of a security type, and the answer to each message.
First(t) == CASE t = VncNone -> "clientInit" [] t = VncAuth -> "response"
              [] t \in Ra2 -> "key" [] OTHER -> "other"
Answer == [banner |-> "version", types |-> "choice", challenge |-> "response", key |-> "key",
           random |-> "random", hash |-> "hash", subtype |-> "credentials",
           result |-> "clientInit", init |-> "serving"]
Begun == IF chosen # VncNone THEN Method(chosen)
         ELSE IF AwaitsResult(chosen, minor) THEN "result" ELSE "init"

ThreadsTurn ==
    /\ up = <<>> /\ down # <<>> /\ Awaited # "reason"
    /\ Awaited # "type33" => srv = Answer[Awaited]
    /\ Awaited = "types" => minor = dialect /\ minor \in {7, 8} /\ Head(down).val.types # {}
    /\ Awaited = "type33" =>
          /\ minor = dialect /\ minor = 3
          /\ agreed = Head(down).val.type /\ agreed # 0 /\ srv = First(agreed)
          /\ agreed = VncAuth => Len(down) = 2
    /\ Awaited \in {"challenge", "result", "init"} \cup Ra2Rounds => Agree
    /\ Awaited \in Ra2Rounds => chosen \in Ra2
    /\ Awaited = "result" => Head(down).val.ok

ServersTurn ==
    /\ down = <<>> /\ up # <<>>
    /\ \/ /\ srv = "version" /\ Head(up).val.version = minor /\ minor \in {3, 7, 8}
          /\ Awaited = IF minor >= 7 THEN "types" ELSE "type33"
       \/ /\ srv = "choice" /\ Head(up).val.type = chosen /\ chosen \in Types
          /\ minor = dialect /\ minor \in {7, 8} /\ Awaited = Begun
          /\ Awaited = "init" => Len(up) = 2
       \/ srv \in {"key", "random", "hash"} /\ Agree /\ chosen \in Ra2 /\ Awaited = Ra2Next[srv]
       \/ srv \in {"response", "credentials"} /\ Agree /\ Awaited = "result"
       \/ srv = "clientInit" /\ Agree /\ Awaited = "init"

Sync ==
    /\ Live => DownFits
    /\ serverOpen => UpFits
    /\ serverOpen /\ Live => ThreadsTurn \/ ServersTurn

-----------------------------------------------------------------------------
(* Short sequences.                                                        *)

LEMMA Short ==
    ASSUME NEW s, IsQueue(s), Len(s) <= 2
    PROVE  \/ s = <<>>
           \/ s = <<s[1]>> /\ Len(s) = 1
           \/ s = <<s[1], s[2]>> /\ Len(s) = 2
<1>1. PICK S : s \in Seq(S)
  BY DEF IsQueue
<1>2. Len(s) \in Nat /\ s \in [1 .. Len(s) -> S]
  BY <1>1
<1>3. Len(s) = 0 \/ Len(s) = 1 \/ Len(s) = 2
  BY <1>2
<1>4. CASE Len(s) = 0
  BY <1>1, <1>4
<1>5. CASE Len(s) = 1
  <2>1. s[1] \in S /\ <<s[1]>> \in Seq(S)
    BY <1>2, <1>5
  <2>. QED  BY <1>1, <1>5, <2>1, SeqEqual
<1>6. CASE Len(s) = 2
  <2>1. s[1] \in S /\ s[2] \in S /\ <<s[1], s[2]>> \in Seq(S)
    BY <1>2, <1>6
  <2>2. Len(<<s[1], s[2]>>) = 2 /\ <<s[1], s[2]>>[1] = s[1] /\ <<s[1], s[2]>>[2] = s[2]
    OBVIOUS
  <2>3. \A i \in 1 .. Len(s) : s[i] = <<s[1], s[2]>>[i]
    <3>1. \A i \in 1 .. Len(s) : i = 1 \/ i = 2
      BY <1>6
    <3>. QED  BY <2>2, <3>1
  <2>. QED  BY <1>1, <1>6, <2>1, <2>2, <2>3, SeqEqual
<1>. QED  BY <1>3, <1>4, <1>5, <1>6

LEMMA Shapes ==
    /\ Len(<<>>) = 0 /\ <<>> \o <<>> = <<>>
    /\ \A a : /\ Len(<<a>>) = 1 /\ <<a>> # <<>> /\ <<a>>[1] = a /\ Head(<<a>>) = a
              /\ Tail(<<a>>) = <<>>
              /\ <<>> \o <<a>> = <<a>> /\ <<a>> \o <<>> = <<a>> /\ Append(<<>>, a) = <<a>>
    /\ \A a, b : /\ Len(<<a, b>>) = 2 /\ <<a, b>> # <<>> /\ <<a, b>>[1] = a /\ <<a, b>>[2] = b
                 /\ Head(<<a, b>>) = a /\ Tail(<<a, b>>) = <<b>>
                 /\ <<a>> \o <<b>> = <<a, b>> /\ <<>> \o <<a, b>> = <<a, b>>
<1>1. Len(<<>>) = 0 /\ <<>> \o <<>> = <<>>
  OBVIOUS
<1>2. ASSUME NEW a
      PROVE  /\ Len(<<a>>) = 1 /\ <<a>> # <<>> /\ <<a>>[1] = a /\ Head(<<a>>) = a
             /\ Tail(<<a>>) = <<>>
             /\ <<>> \o <<a>> = <<a>> /\ <<a>> \o <<>> = <<a>> /\ Append(<<>>, a) = <<a>>
  <2>1. <<a>> \in Seq({a}) /\ <<>> \in Seq({a}) /\ a \in {a}
    OBVIOUS
  <2>2. Len(<<a>>) = 1 /\ <<a>> # <<>> /\ <<a>>[1] = a /\ Head(<<a>>) = a
    OBVIOUS
  <2>3. Tail(<<a>>) = <<>>
    OBVIOUS
  <2>4. <<>> \o <<a>> = <<a>> /\ <<a>> \o <<>> = <<a>>
    BY <2>1, ConcatEmptySeq
  <2>5. Append(<<>>, a) = <<a>>
    OBVIOUS
  <2>. QED  BY <2>2, <2>3, <2>4, <2>5
<1>3. ASSUME NEW a, NEW b
      PROVE  /\ Len(<<a, b>>) = 2 /\ <<a, b>> # <<>> /\ <<a, b>>[1] = a /\ <<a, b>>[2] = b
             /\ Head(<<a, b>>) = a /\ Tail(<<a, b>>) = <<b>>
             /\ <<a>> \o <<b>> = <<a, b>> /\ <<>> \o <<a, b>> = <<a, b>>
  <2>1. <<a, b>> \in Seq({a, b}) /\ <<a>> \in Seq({a, b}) /\ b \in {a, b}
    OBVIOUS
  <2>2. /\ Len(<<a, b>>) = 2 /\ <<a, b>> # <<>> /\ <<a, b>>[1] = a /\ <<a, b>>[2] = b
        /\ Head(<<a, b>>) = a
    OBVIOUS
  <2>3. Tail(<<a, b>>) = <<b>>
    OBVIOUS
  <2>4. <<>> \o <<a, b>> = <<a, b>>
    BY <2>1, ConcatEmptySeq
  <2>5. <<a>> \o <<b>> = <<a, b>>
    <3>1. Append(<<a>>, b) = <<a>> \o <<b>>
      BY <2>1, AppendIsConcat
    <3>2. Append(<<a>>, b) = <<a, b>>
      <4>1. /\ Append(<<a>>, b) \in Seq({a, b}) /\ Len(Append(<<a>>, b)) = 2
            /\ Append(<<a>>, b)[1] = a /\ Append(<<a>>, b)[2] = b
        BY <2>1
      <4>2. \A i \in 1 .. Len(Append(<<a>>, b)) : Append(<<a>>, b)[i] = <<a, b>>[i]
        <5>1. \A i \in 1 .. Len(Append(<<a>>, b)) : i = 1 \/ i = 2
          BY <4>1
        <5>. QED  BY <2>2, <4>1, <5>1
      <4>. QED  BY <2>1, <2>2, <4>1, <4>2, SeqEqual
    <3>. QED  BY <3>1, <3>2
  <2>. QED  BY <2>2, <2>3, <2>4, <2>5
<1>. QED  BY <1>1, <1>2, <1>3

\* Two messages written to an empty stream.
LEMMA Joined ==
    /\ \A a, b : <<>> \o (<<a>> \o <<b>>) = <<a, b>>
    /\ \A a, b : <<a>> \o <<b>> = <<a, b>>
BY Shapes

\* One message, two messages.
LEMMA Single ==
    ASSUME NEW s, NEW a, s = <<a>>
    PROVE  /\ Len(s) = 1 /\ s # <<>> /\ s[1] = a /\ Head(s) = a /\ Tail(s) = <<>>
           /\ <<>> \o s = s /\ s \o <<>> = s
<1>1. /\ Len(<<a>>) = 1 /\ <<a>> # <<>> /\ <<a>>[1] = a /\ Head(<<a>>) = a /\ Tail(<<a>>) = <<>>
      /\ <<>> \o <<a>> = <<a>> /\ <<a>> \o <<>> = <<a>>
  BY Shapes, Zenon
<1>. QED  BY <1>1, Zenon

LEMMA Double ==
    ASSUME NEW s, NEW a, NEW b, s = <<a, b>>
    PROVE  /\ Len(s) = 2 /\ s # <<>> /\ s[1] = a /\ s[2] = b /\ Head(s) = a /\ Tail(s) = <<b>>
           /\ <<>> \o s = s
<1>1. /\ Len(<<a, b>>) = 2 /\ <<a, b>> # <<>> /\ <<a, b>>[1] = a /\ <<a, b>>[2] = b
      /\ Head(<<a, b>>) = a /\ Tail(<<a, b>>) = <<b>> /\ <<>> \o <<a, b>> = <<a, b>>
  BY Shapes, Zenon
<1>. QED  BY <1>1, Zenon

-----------------------------------------------------------------------------
(* In step, step by step.                                                  *)

\* The thread has ended, or has its session.
LEMMA SyncEnds ==
    ASSUME Sync, pc' \in Outcomes \cup {"session"}, UNCHANGED <<up, serverVars>>
    PROVE  Sync'
BY DEF Sync, Live, UpFits, serverVars

LEMMA SyncFinish ==
    ASSUME Sync, NEW o \in Outcomes, Finish(o), UNCHANGED <<up, serverVars>>
    PROVE  Sync'
BY SyncEnds DEF Finish

\* What the thread reads, what may be left, and whose turn it was.
LEMMA Incoming ==
    ASSUME Wire, Sorted, Sync, NEW kind \in Reading, Arrived(kind), NEW m, m = Head(down)
    PROVE  /\ m.is = kind /\ (m.sealed <=> InChannel(kind)) /\ pc = kind /\ Awaited = kind
           /\ \/ down' = <<>> /\ Len(down) = 1
              \/ \E n : down' = <<n>> /\ Follows(m, n)
           /\ kind \in {"banner", "types", "type33"} => chosen = 0
           /\ serverOpen => ThreadsTurn
           /\ UNCHANGED <<uiVars, cmds, serverVars>>
<1>1. pc = kind /\ down # <<>> /\ m.is = kind /\ down' = Tail(down) /\ UNCHANGED <<uiVars, cmds, serverVars>>
  BY DEF Arrived
<1>2. Awaited = kind /\ Live
  BY <1>1 DEF Awaited, Live, Reading, Ra2Rounds, Outcomes
<1>3. DownFits
  BY <1>2 DEF Sync
<1>4. (m.sealed <=> InChannel(kind)) /\ (kind \in {"banner", "types", "type33"} => chosen = 0)
  BY <1>1, <1>2, <1>3 DEF DownFits
<1>5. \/ down = <<down[1]>> /\ Len(down) = 1
      \/ down = <<down[1], down[2]>> /\ Len(down) = 2
  BY <1>1, <1>3, Short DEF DownFits, Wire
<1>6. \/ down' = <<>> /\ Len(down) = 1
      \/ \E n : down' = <<n>> /\ Follows(m, n)
  <2>1. CASE down = <<down[1]>> /\ Len(down) = 1
    BY <1>1, <2>1, Single
  <2>2. CASE down = <<down[1], down[2]>> /\ Len(down) = 2
    <3>1. Follows(down[1], down[2])
      BY <1>3, <2>2 DEF DownFits
    <3>2. m = down[1] /\ down' = <<down[2]>>
      BY <1>1, <2>2, Double
    <3>. QED  BY <3>1, <3>2
  <2>. QED  BY <1>5, <2>1, <2>2
<1>7. serverOpen => ThreadsTurn
  BY <1>1, <1>2 DEF Sync, ServersTurn
<1>. QED  BY <1>1, <1>2, <1>4, <1>6, <1>7

\* It begins a security type: what it writes, and what it reads next.
LEMMA Begins ==
    ASSUME NEW t \in Types, NEW version, NEW msgs, Begin(t, version, msgs), chosen' = t,
           minor' = minor, version = minor
    PROVE  /\ Live' /\ Awaited' = Begun'
           /\ IF Begun' = "init" THEN up' = Written(msgs \o <<InitMsg(t)>>) ELSE up' = Written(msgs)
           /\ Begun' \in {"result", "init", "challenge", "key"}
           /\ Begun' = "init" <=> t = VncNone /\ ~(minor >= 8)
           /\ Begun' \in {"challenge", "key"} <=> t # VncNone
           /\ Begun' = "challenge" <=> t = VncAuth
           /\ Begun' = "key" => t \in Ra2
<1>0. VncNone = 1 /\ VncAuth = 2 /\ Ra2 = {5, 6, 129, 130}
  BY DEF VncNone, VncAuth, Ra2
<1>1. CASE t = VncNone
  <2>1. /\ pc' = IF AwaitsResult(t, version) THEN "result" ELSE "init"
        /\ up' = Written(IF AwaitsResult(t, version) THEN msgs ELSE msgs \o <<InitMsg(t)>>)
    BY <1>1 DEF Begin
  <2>2. AwaitsResult(t, version) <=> minor >= 8
    BY <1>0, <1>1 DEF AwaitsResult
  <2>3. Begun' = (IF minor >= 8 THEN "result" ELSE "init")
    BY <1>0, <1>1, <2>2 DEF Begun, AwaitsResult
  <2>4. Awaited' = Begun' /\ Live'
    BY <2>1, <2>2, <2>3 DEF Awaited, Live, Outcomes
  <2>5. CASE minor >= 8
    BY <1>0, <1>1, <2>1, <2>2, <2>3, <2>4, <2>5
  <2>6. CASE ~(minor >= 8)
    BY <1>0, <1>1, <2>1, <2>2, <2>3, <2>4, <2>6
  <2>. QED  BY <2>5, <2>6
<1>2. CASE t # VncNone
  <2>1. pc' \in {"prompt", Method(t)} /\ up' = Written(msgs)
    BY <1>2 DEF Begin
  <2>2. Begun' = Method(t) /\ Method(t) = (IF t = VncAuth THEN "challenge" ELSE "key")
    BY <1>2 DEF Begun, Method
  <2>3. Awaited' = Begun' /\ Live'
    BY <2>1, <2>2 DEF Awaited, Live, Outcomes, Method
  <2>4. t # VncAuth => t \in Ra2
    BY <1>2 DEF Types
  <2>. QED  BY <1>0, <1>2, <2>1, <2>2, <2>3, <2>4
<1>. QED  BY <1>1, <1>2

LEMMA SyncBegin ==
    ASSUME Wire, Sorted, Sync, NEW kind \in {"types", "type33"}, Arrived(kind), NEW t \in Types,
           chosen' = t, minor' = minor,
           \/ kind = "types" /\ Head(down).val.types # {}
                /\ Begin(t, minor, <<Plain("choice", [type |-> t])>>)
           \/ kind = "type33" /\ t = Head(down).val.type /\ t \in {VncNone, VncAuth} /\ Begin(t, minor, <<>>)
    PROVE  Sync'
<1>. DEFINE m == Head(down)
            x == Plain("choice", [type |-> t])
            y == InitMsg(t)
<1>0. /\ VncNone = 1 /\ VncAuth = 2 /\ Ra2 = {5, 6, 129, 130}
      /\ minor \in {0, 3, 7, 8} /\ kind \in Reading
  BY DEF VncNone, VncAuth, Ra2, Sorted, WorkerTyped, Reading
<1>1. /\ m.is = kind /\ Awaited = kind
      /\ \/ down' = <<>> /\ Len(down) = 1
         \/ \E n : down' = <<n>> /\ Follows(m, n)
      /\ serverOpen => ThreadsTurn
      /\ UNCHANGED <<serverOpen, srv, offer, dialect, agreed, granted>>
  BY <1>0, Incoming DEF serverVars
<1>2. /\ x.is = "choice" /\ ~x.sealed /\ x.val.type = t
      /\ y.is = "clientInit" /\ (y.sealed <=> EncryptAll(t))
  BY DEF Plain, InitMsg
<1>3. ~EncryptAll(VncNone) /\ ~EncryptAll(VncAuth) /\ ~Secret(VncNone)
  BY <1>0 DEF EncryptAll, Secret
<1>4. PICK msgs : /\ Begin(t, minor, msgs)
                  /\ \/ kind = "types" /\ m.val.types # {} /\ msgs = <<x>>
                     \/ kind = "type33" /\ t = m.val.type /\ t \in {VncNone, VncAuth} /\ msgs = <<>>
  OBVIOUS
<1>. HIDE DEF m, x, y
<1>5. /\ Live' /\ Awaited' = Begun'
      /\ IF Begun' = "init" THEN up' = Written(msgs \o <<y>>) ELSE up' = Written(msgs)
      /\ Begun' \in {"result", "init", "challenge", "key"}
      /\ Begun' = "init" <=> t = VncNone /\ ~(minor >= 8)
      /\ Begun' \in {"challenge", "key"} <=> t # VncNone
      /\ Begun' = "challenge" <=> t = VncAuth
      /\ Begun' = "key" => t \in Ra2
  BY <1>4, Begins DEF y
<1>6. DownFits'
  <2>1. Awaited' \notin {"banner", "types", "type33"}
    BY <1>5
  <2>2. CASE down' = <<>>
    BY <2>1, <2>2, Shapes DEF DownFits
  <2>3. ASSUME NEW n, down' = <<n>>, Follows(m, n) PROVE DownFits'
    <3>1. kind = "type33" /\ t = VncAuth /\ n.is = "challenge" /\ ~n.sealed
      BY <1>0, <1>1, <1>4, <2>3 DEF Follows
    <3>2. Awaited' = "challenge" /\ ~InChannel("challenge")'
      BY <1>5, <3>1 DEF InChannel
    <3>3. Len(down') = 1 /\ Head(down') = n
      BY <2>3, Single
    <3>. QED  BY <2>1, <3>1, <3>2, <3>3 DEF DownFits
  <2>. QED  BY <1>1, <2>2, <2>3
<1>7. CASE serverOpen
  <2>0. ThreadsTurn /\ up = <<>> /\ (\A s : Written(s) = <<>> \o s) /\ minor = dialect
    BY <1>1, <1>7 DEF ThreadsTurn, Written
  <2>1. CASE kind = "types"
    <3>1. minor \in {7, 8} /\ srv = "choice" /\ msgs = <<x>>
      BY <1>1, <1>4, <2>0, <2>1 DEF ThreadsTurn, Answer
    <3>2. down' = <<>>
      BY <1>1, <1>4, <2>1 DEF Follows
    <3>3. CASE Begun' = "init"
      <4>1. up' = <<x, y>> /\ t = VncNone /\ minor = 7
        <5>1. up' = <<>> \o (<<x>> \o <<y>>)
          BY <1>5, <2>0, <3>1, <3>3, Zenon
        <5>2. up' = <<x, y>>
          BY <5>1, Joined, Zenon
        <5>3. t = VncNone /\ ~(minor >= 8) /\ minor \in {7, 8}
          BY <1>5, <3>1, <3>3
        <5>. QED  BY <5>2, <5>3
      <4>2. Head(up') = x /\ Len(up') = 2 /\ up'[1] = x /\ up'[2] = y /\ up' # <<>>
        BY <4>1, Double
      <4>3. UpFits'
        BY <1>1, <1>2, <1>3, <2>0, <3>1, <4>1, <4>2 DEF UpFits
      <4>4. ServersTurn'
        BY <1>1, <1>2, <1>5, <2>0, <3>1, <3>2, <4>2 DEF ServersTurn
      <4>. QED  BY <1>6, <4>3, <4>4 DEF Sync
    <3>4. CASE Begun' # "init"
      <4>1. up' = <<x>>
        BY <1>5, <2>0, <3>1, <3>4, Shapes
      <4>2. Head(up') = x /\ Len(up') = 1 /\ up' # <<>>
        BY <4>1, Single
      <4>3. UpFits'
        BY <1>1, <1>2, <3>1, <4>2 DEF UpFits
      <4>4. ServersTurn'
        BY <1>1, <1>2, <1>5, <2>0, <3>1, <3>2, <3>4, <4>2 DEF ServersTurn
      <4>. QED  BY <1>6, <4>3, <4>4 DEF Sync
    <3>. QED  BY <3>3, <3>4
  <2>2. CASE kind = "type33"
    <3>1. /\ minor = 3 /\ agreed = t /\ srv = First(t) /\ msgs = <<>>
          /\ t = VncAuth => Len(down) = 2
      BY <1>1, <1>4, <2>0, <2>2 DEF ThreadsTurn, m
    <3>2. CASE t = VncNone
      <4>1. down' = <<>> /\ Begun' = "init" /\ srv = "clientInit"
        BY <1>0, <1>1, <1>4, <1>5, <2>2, <3>1, <3>2 DEF Follows, First
      <4>2. up' = <<y>>
        BY <1>5, <2>0, <3>1, <4>1, Shapes
      <4>3. Head(up') = y /\ Len(up') = 1 /\ up' # <<>>
        BY <4>2, Single
      <4>4. UpFits'
        BY <1>1, <1>2, <1>3, <3>1, <3>2, <4>1, <4>3 DEF UpFits
      <4>5. ServersTurn'
        BY <1>1, <1>5, <2>0, <3>1, <4>1, <4>3 DEF ServersTurn, Agree
      <4>. QED  BY <1>6, <4>4, <4>5 DEF Sync
    <3>3. CASE t = VncAuth
      <4>1. srv = "response" /\ Awaited' = "challenge" /\ Begun' # "init"
        BY <1>0, <1>5, <3>1, <3>3 DEF First
      <4>2. up' = <<>>
        BY <1>5, <2>0, <3>1, <4>1, Shapes
      <4>3. down' # <<>>
        BY <1>1, <3>1, <3>3, Shapes
      <4>4. UpFits'
        BY <4>2, Shapes DEF UpFits
      <4>5. ThreadsTurn'
        BY <1>1, <1>5, <2>0, <3>1, <4>1, <4>2, <4>3 DEF ThreadsTurn, Agree, Answer, Ra2Rounds
      <4>. QED  BY <1>6, <4>4, <4>5 DEF Sync
    <3>. QED  BY <1>4, <2>2, <3>2, <3>3
  <2>. QED  BY <2>1, <2>2
<1>8. CASE ~serverOpen
  BY <1>1, <1>6, <1>8 DEF Sync
<1>. QED  BY <1>7, <1>8

\* It writes one message, and leaves the turn to the server.
LEMMA Writes ==
    ASSUME Wire, Sorted, Sync, NEW kind \in Reading, Arrived(kind), down' = <<>>,
           NEW x, up' = Written(<<x>>), Live',
           Awaited' \in {"banner", "types", "type33"} => chosen' = 0,
           serverOpen => x.is = srv /\ (x.sealed <=> (srv = "clientInit" /\ Secret(agreed))),
           serverOpen /\ ThreadsTurn /\ Head(up') = x => ServersTurn'
    PROVE  Sync'
<1>1. (serverOpen => ThreadsTurn) /\ UNCHANGED <<serverOpen, srv, dialect, agreed>>
  BY Incoming DEF serverVars
<1>2. DownFits'
  BY Shapes DEF DownFits
<1>3. CASE serverOpen
  <2>1. up' = <<x>>
    BY <1>1, <1>3, Shapes DEF ThreadsTurn, Written
  <2>2. Head(up') = x /\ Len(up') = 1 /\ up' # <<>>
    BY <2>1, Single
  <2>3. UpFits'
    BY <1>1, <1>3, <2>2 DEF UpFits
  <2>. QED  BY <1>1, <1>2, <1>3, <2>2, <2>3 DEF Sync
<1>4. CASE ~serverOpen
  BY <1>1, <1>2, <1>4 DEF Sync
<1>. QED  BY <1>3, <1>4

\* A refusal or a failure with its reason: the server has closed.
LEMMA SyncReason ==
    ASSUME Wire, Sorted, Sync, NEW kind \in Reading, Arrived(kind), pc' = "reason",
           UNCHANGED <<up, minor, chosen>>,
           \/ kind = "types" /\ Head(down).val.types = {}
           \/ kind = "type33" /\ Head(down).val.type = 0
           \/ kind = "result" /\ ~Head(down).val.ok /\ AwaitsReason(minor)
    PROVE  Sync'
<1>. DEFINE m == Head(down)
<1>1. /\ m.is = kind /\ Awaited = kind
      /\ \/ down' = <<>>
         \/ \E n : down' = <<n>> /\ Follows(m, n)
      /\ kind \in {"types", "type33"} => chosen = 0
      /\ serverOpen => ThreadsTurn
      /\ serverOpen' = serverOpen
  BY Incoming DEF serverVars
<1>2. ~serverOpen
  BY <1>1 DEF ThreadsTurn
<1>3. Awaited' = "reason"
  BY DEF Awaited
<1>4. DownFits'
  <2>1. CASE down' = <<>>
    BY <1>3, <2>1, Shapes DEF DownFits
  <2>2. ASSUME NEW n, down' = <<n>>, Follows(m, n) PROVE DownFits'
    <3>1. Len(down') = 1 /\ Head(down') = n
      BY <2>2, Single
    <3>2. n.is = "reason" /\ (n.sealed <=> EncryptAll(chosen))
      BY <1>1, <2>2 DEF Follows, EncryptAll, VncAuth
    <3>. QED  BY <1>3, <3>1, <3>2 DEF DownFits, InChannel
  <2>. QED  BY <1>1, <2>1, <2>2
<1>. QED  BY <1>1, <1>2, <1>4 DEF Sync

LEMMA SyncWorker ==
    ASSUME Wire, Sorted, Sync, Worker
    PROVE  Sync'
<1>0. /\ VncNone = 1 /\ VncAuth = 2 /\ Ra2 = {5, 6, 129, 130}
      /\ minor \in {0, 3, 7, 8} /\ Ra2Rounds \subseteq Reading
      /\ {"error", "disconnected"} = Outcomes /\ {VncNone, VncAuth} \subseteq Types
      /\ {"banner", "types", "type33", "reason", "challenge", "result", "init"} \subseteq Reading
  BY DEF VncNone, VncAuth, Ra2, Sorted, WorkerTyped, Reading, Outcomes, Types
<1>1. ASSUME WriteFails, UNCHANGED serverVars PROVE Sync'
  BY <1>0, <1>1, SyncFinish DEF WriteFails
<1>2. ASSUME NEW kind, Arrived(kind) PROVE UNCHANGED serverVars
  BY <1>2 DEF Arrived
<1>3. ASSUME NEW kind \in Reading, Arrived(kind),
             \A n : ~Follows(Head(down), n)
      PROVE  down' = <<>>
  BY <1>3, Incoming
<1>4. ASSUME NEW k, NEW v PROVE Plain(k, v).is = k /\ ~Plain(k, v).sealed /\ Plain(k, v).val = v
  BY DEF Plain
<1>5. CASE TcpConnect
  <2>1. CASE pc' = "banner" /\ UNCHANGED events
    <3>1. pc = "connect" /\ UNCHANGED <<minor, chosen, down, up, serverVars>>
      BY <1>5 DEF TcpConnect
    <3>2. Awaited = "banner" /\ Awaited' = "banner" /\ Live /\ Live'
      BY <2>1, <3>1 DEF Awaited, Live, Outcomes
    <3>3. DownFits' /\ (serverOpen => UpFits')
      BY <3>1, <3>2 DEF Sync, DownFits, UpFits, Follows, InChannel, serverVars
    <3>4. serverOpen => (ThreadsTurn => ThreadsTurn') /\ (ServersTurn => ServersTurn')
      BY <3>1, <3>2 DEF ThreadsTurn, ServersTurn, Agree, serverVars, Begun
    <3>. QED  BY <3>1, <3>2, <3>3, <3>4 DEF Sync, serverVars
  <2>2. CASE Finish("error")
    BY <1>0, <1>5, <2>2, SyncFinish DEF TcpConnect
  <2>. QED  BY <1>5, <2>1, <2>2 DEF TcpConnect
<1>6. CASE ReadBanner
  <2>. DEFINE x == Plain("version", [version |-> minor'])
  <2>1. Arrived("banner") /\ minor' \in {3, 7, 8}
    BY <1>6 DEF ReadBanner, Reply
  <2>2. CASE WriteFails
    BY <1>1, <1>2, <2>1, <2>2
  <2>3. CASE /\ pc' = IF minor' >= 7 THEN "types" ELSE "type33"
             /\ up' = Written(<<x>>) /\ UNCHANGED <<events, chosen>>
    <3>1. Head(down).is = "banner" /\ Awaited = "banner" /\ chosen = 0
      BY <1>0, <2>1, Incoming
    <3>2. down' = <<>>
      BY <1>0, <1>3, <2>1, <3>1 DEF Follows
    <3>3. /\ Live' /\ Awaited' = IF minor' >= 7 THEN "types" ELSE "type33"
      BY <2>1, <2>3 DEF Live, Awaited, Outcomes
    <3>4. x.is = "version" /\ ~x.sealed /\ x.val.version = minor'
      BY <1>4
    <3>5. ThreadsTurn => srv = "version"
      BY <3>1 DEF ThreadsTurn, Answer
    <3>. HIDE DEF x
    <3>6. serverOpen => ThreadsTurn /\ srv' = srv
      BY <1>0, <2>1, Incoming DEF serverVars
    <3>7. serverOpen /\ ThreadsTurn /\ Head(up') = x => ServersTurn'
      <4>1. CASE serverOpen /\ Head(up') = x
        <5>1. up' # <<>>
          BY <2>3, <3>6, <4>1, Shapes DEF Written, ThreadsTurn
        <5>. QED  BY <2>1, <3>2, <3>3, <3>4, <3>5, <3>6, <4>1, <5>1 DEF ServersTurn
      <4>. QED  BY <4>1
    <3>. QED  BY <1>0, <2>1, <2>3, <3>1, <3>2, <3>3, <3>4, <3>5, <3>6, <3>7, Writes
  <2>. QED  BY <1>6, <2>2, <2>3 DEF ReadBanner
<1>7. CASE ReadTypes
  <2>. DEFINE types == Head(down).val.types
              t == Preferred(types)
  <2>1. Arrived("types") /\ minor' = minor
    BY <1>7 DEF ReadTypes
  <2>2. \/ types = {} /\ pc' = "reason" /\ UNCHANGED <<events, up, chosen>>
        \/ Finish("error") /\ UNCHANGED <<up, chosen>>
        \/ t # 0 /\ chosen' = t /\ Begin(t, minor, <<Plain("choice", [type |-> t])>>)
        \/ WriteFails
    BY <1>7 DEF ReadTypes
  <2>3. t \in {0} \cup Types
    BY PrefersKnown
  <2>4. types = {} => t = 0
    BY <1>0 DEF Preferred
  <2>. HIDE DEF t
  <2>5. CASE types = {} /\ pc' = "reason" /\ UNCHANGED <<events, up, chosen>>
    BY <1>0, <2>1, <2>5, SyncReason
  <2>6. CASE Finish("error") /\ UNCHANGED <<up, chosen>>
    BY <1>0, <1>2, <2>1, <2>6, SyncFinish
  <2>7. CASE t # 0 /\ chosen' = t /\ Begin(t, minor, <<Plain("choice", [type |-> t])>>)
    BY <2>1, <2>3, <2>4, <2>7, SyncBegin
  <2>8. CASE WriteFails
    BY <1>1, <1>2, <2>1, <2>8
  <2>. QED  BY <2>2, <2>5, <2>6, <2>7, <2>8
<1>8. CASE ReadType33
  <2>. DEFINE t == Head(down).val.type
  <2>1. Arrived("type33") /\ minor' = minor
    BY <1>8 DEF ReadType33
  <2>2. \/ t = 0 /\ pc' = "reason" /\ UNCHANGED <<events, up, chosen>>
        \/ t \in {VncNone, VncAuth} /\ chosen' = t /\ Begin(t, minor, <<>>)
        \/ WriteFails
        \/ Finish("error") /\ UNCHANGED <<up, chosen>>
    BY <1>8 DEF ReadType33
  <2>3. CASE t = 0 /\ pc' = "reason" /\ UNCHANGED <<events, up, chosen>>
    BY <1>0, <2>1, <2>3, SyncReason
  <2>4. CASE t \in {VncNone, VncAuth} /\ chosen' = t /\ Begin(t, minor, <<>>)
    BY <1>0, <2>1, <2>4, SyncBegin
  <2>5. CASE WriteFails
    BY <1>1, <1>2, <2>1, <2>5
  <2>6. CASE Finish("error") /\ UNCHANGED <<up, chosen>>
    BY <1>0, <1>2, <2>1, <2>6, SyncFinish
  <2>. QED  BY <2>2, <2>3, <2>4, <2>5, <2>6
<1>9. CASE ReadReason
  BY <1>0, <1>2, <1>9, SyncFinish DEF ReadReason
<1>10. CASE PromptTimesOut
  BY <1>0, <1>10, SyncFinish DEF PromptTimesOut
<1>11. CASE ReadFails
  BY <1>0, <1>11, SyncFinish DEF ReadFails
<1>12. CASE PromptAnswered
  <2>1. pc = "prompt" /\ UNCHANGED <<minor, chosen, down, up, serverVars>>
    BY <1>12 DEF PromptAnswered
  <2>2. CASE Finish("error")
    BY <1>0, <2>1, <2>2, SyncFinish
  <2>3. CASE pc' = Method(chosen) \/ pc' = pc
    <3>1. Awaited' = Awaited /\ Live' /\ Live
      BY <2>1, <2>3 DEF Awaited, Live, Outcomes, Method
    <3>2. DownFits' /\ (serverOpen => UpFits')
      BY <2>1, <3>1 DEF Sync, DownFits, UpFits, Follows, InChannel, serverVars
    <3>3. (ThreadsTurn => ThreadsTurn') /\ (ServersTurn => ServersTurn')
      BY <2>1, <3>1 DEF ThreadsTurn, ServersTurn, Agree, serverVars, Begun
    <3>. QED  BY <2>1, <3>1, <3>2, <3>3 DEF Sync, serverVars
  <2>. QED  BY <1>12, <2>2, <2>3 DEF PromptAnswered
<1>13. CASE VncAuthResponse
  <2>. DEFINE x == Plain("response", [pw |-> password])
  <2>1. Arrived("challenge") /\ UNCHANGED minor
    BY <1>13 DEF VncAuthResponse
  <2>2. CASE WriteFails
    BY <1>1, <1>2, <2>1, <2>2
  <2>3. CASE pc' = "result" /\ up' = Written(<<x>>) /\ UNCHANGED <<events, chosen>>
    <3>1. Head(down).is = "challenge" /\ Awaited = "challenge" /\ UNCHANGED <<srv, dialect, agreed>>
      BY <1>0, <2>1, Incoming DEF serverVars
    <3>2. down' = <<>>
      BY <1>0, <1>3, <2>1, <3>1 DEF Follows
    <3>3. Live' /\ Awaited' = "result"
      BY <2>3 DEF Live, Awaited, Outcomes
    <3>4. x.is = "response" /\ ~x.sealed
      BY <1>4
    <3>5. serverOpen => ThreadsTurn /\ srv = "response" /\ Agree
      <4>1. serverOpen => ThreadsTurn
        BY <1>0, <2>1, Incoming
      <4>. QED  BY <3>1, <4>1 DEF ThreadsTurn, Answer
    <3>. HIDE DEF x
    <3>6. serverOpen => ServersTurn'
      <4>1. serverOpen => up' # <<>> /\ Agree'
        BY <2>1, <2>3, <3>1, <3>5, Shapes DEF Written, ThreadsTurn, Agree
      <4>. QED  BY <3>1, <3>2, <3>3, <3>5, <4>1 DEF ServersTurn
    <3>. QED  BY <1>0, <2>1, <2>3, <3>2, <3>3, <3>4, <3>5, <3>6, Writes
  <2>. QED  BY <1>13, <2>2, <2>3 DEF VncAuthResponse
<1>14. ASSUME NEW kind \in Ra2Rounds, Ra2Exchange(kind) PROVE Sync'
  <2>. DEFINE x == Plain(Ra2Answer[kind], IF kind = "subtype" THEN [pw |-> password] ELSE Nothing)
  <2>1. Arrived(kind) /\ UNCHANGED minor /\ kind \in Reading
    BY <1>0, <1>14 DEF Ra2Exchange
  <2>2. \/ pc' = Ra2Next[kind] /\ up' = Written(<<x>>) /\ UNCHANGED <<events, chosen>>
        \/ WriteFails
        \/ Finish("error") /\ UNCHANGED <<up, chosen>>
    BY <1>14 DEF Ra2Exchange
  <2>3. CASE WriteFails
    BY <1>1, <1>2, <2>1, <2>3
  <2>4. CASE Finish("error") /\ UNCHANGED <<up, chosen>>
    BY <1>0, <1>2, <2>1, <2>4, SyncFinish
  <2>5. CASE pc' = Ra2Next[kind] /\ up' = Written(<<x>>) /\ UNCHANGED <<events, chosen>>
    <3>1. Head(down).is = kind /\ Awaited = kind /\ UNCHANGED <<srv, dialect, agreed>>
      BY <2>1, Incoming DEF serverVars
    <3>2. down' = <<>>
      BY <1>3, <1>14, <2>1, <3>1 DEF Follows, Ra2Rounds
    <3>3. /\ Live' /\ Awaited' = Ra2Next[kind]
          /\ Awaited' \in {"random", "hash", "subtype", "result"}
      BY <2>5 DEF Live, Awaited, Outcomes, Ra2Next, Ra2Rounds
    <3>4. x.is = Ra2Answer[kind] /\ ~x.sealed /\ Ra2Answer[kind] # "clientInit"
      BY <1>4 DEF Ra2Answer, Ra2Rounds
    <3>5. serverOpen => /\ ThreadsTurn /\ srv = Ra2Answer[kind] /\ Agree /\ chosen \in Ra2
      <4>1. serverOpen => ThreadsTurn
        BY <2>1, Incoming
      <4>2. Answer[kind] = Ra2Answer[kind] /\ kind # "type33"
        BY DEF Answer, Ra2Answer, Ra2Rounds
      <4>. QED  BY <3>1, <4>1, <4>2 DEF ThreadsTurn
    <3>. HIDE DEF x
    <3>6. serverOpen => ServersTurn'
      <4>1. serverOpen => up' # <<>> /\ Agree' /\ chosen' \in Ra2
        BY <2>1, <2>5, <3>1, <3>5, Shapes DEF Written, ThreadsTurn, Agree
      <4>2. CASE kind = "subtype"
        <5>1. Ra2Answer[kind] = "credentials" /\ Ra2Next[kind] = "result"
          BY <4>2 DEF Ra2Answer, Ra2Next
        <5>. QED  BY <3>1, <3>2, <3>3, <3>5, <4>1, <5>1 DEF ServersTurn
      <4>3. CASE kind # "subtype"
        <5>1. Ra2Answer[kind] = kind /\ kind \in {"key", "random", "hash"}
          BY <4>3 DEF Ra2Answer, Ra2Rounds
        <5>. QED  BY <3>1, <3>2, <3>3, <3>5, <4>1, <5>1 DEF ServersTurn
      <4>. QED  BY <4>2, <4>3
    <3>. QED  BY <2>1, <2>5, <3>2, <3>3, <3>4, <3>5, <3>6, Writes
  <2>. QED  BY <2>2, <2>3, <2>4, <2>5
<1>15. CASE ReadResult
  <2>. DEFINE x == InitMsg(chosen)
  <2>1. Arrived("result") /\ UNCHANGED minor
    BY <1>15 DEF ReadResult
  <2>2. \/ Head(down).val.ok /\ pc' = "init" /\ up' = Written(<<x>>) /\ UNCHANGED <<events, chosen>>
        \/ WriteFails
        \/ /\ ~Head(down).val.ok /\ AwaitsReason(minor)
           /\ pc' = "reason" /\ UNCHANGED <<up, chosen>>
        \/ Finish("error") /\ UNCHANGED <<up, chosen>>
    BY <1>15 DEF ReadResult
  <2>3. CASE WriteFails
    BY <1>1, <1>2, <2>1, <2>3
  <2>4. CASE Finish("error") /\ UNCHANGED <<up, chosen>>
    BY <1>0, <1>2, <2>1, <2>4, SyncFinish
  <2>5. CASE /\ ~Head(down).val.ok /\ AwaitsReason(minor)
             /\ pc' = "reason" /\ UNCHANGED <<up, chosen>>
    BY <1>0, <2>1, <2>5, SyncReason
  <2>6. CASE Head(down).val.ok /\ pc' = "init" /\ up' = Written(<<x>>) /\ UNCHANGED <<events, chosen>>
    <3>1. Head(down).is = "result" /\ Awaited = "result" /\ UNCHANGED <<srv, dialect, agreed>>
      BY <1>0, <2>1, Incoming DEF serverVars
    <3>2. down' = <<>>
      BY <1>0, <1>3, <2>1, <2>6, <3>1 DEF Follows
    <3>3. Live' /\ Awaited' = "init"
      BY <2>6 DEF Live, Awaited, Outcomes
    <3>4. x.is = "clientInit" /\ (x.sealed <=> EncryptAll(chosen))
      BY DEF InitMsg
    <3>5. serverOpen => ThreadsTurn /\ srv = "clientInit" /\ Agree
      <4>1. serverOpen => ThreadsTurn
        BY <1>0, <2>1, Incoming
      <4>. QED  BY <3>1, <4>1 DEF ThreadsTurn, Answer
    <3>6. serverOpen => (EncryptAll(chosen) <=> Secret(agreed))
      BY <3>5 DEF Agree, EncryptAll, Secret
    <3>. HIDE DEF x
    <3>7. serverOpen => ServersTurn'
      <4>1. serverOpen => up' # <<>> /\ Agree'
        BY <2>1, <2>6, <3>1, <3>5, Shapes DEF Written, ThreadsTurn, Agree
      <4>. QED  BY <3>1, <3>2, <3>3, <3>5, <4>1 DEF ServersTurn
    <3>. QED  BY <1>0, <2>1, <2>6, <3>2, <3>3, <3>4, <3>5, <3>6, <3>7, Writes
  <2>. QED  BY <2>2, <2>3, <2>4, <2>5, <2>6
<1>16. CASE ReadInit
  BY <1>2, <1>16, SyncEnds DEF ReadInit
<1>17. CASE SessionDrain
  <2>1. pc' \in Outcomes \cup {"session"} /\ UNCHANGED <<up, serverVars>>
    BY <1>0, <1>17 DEF SessionDrain, Finish
  <2>. QED  BY <2>1, SyncEnds
<1>. QED  BY <1>5, <1>6, <1>7, <1>8, <1>9, <1>10, <1>11, <1>12, <1>13, <1>14, <1>15, <1>16, <1>17
          DEF Worker

\* The server takes a message: what is left is the ClientInit after None, if any.
LEMMA UpTaken ==
    ASSUME Wire, Sync, NEW kind, ServerReads(kind),
           kind = "choice" => Serves(Head(up).val.type, <<>>)
    PROVE  /\ serverOpen /\ srv = kind /\ UNCHANGED <<uiVars, workerVars, offer>>
           /\ Live => ServersTurn /\ DownFits
           /\ UpFits' /\ (kind # "choice" => up' = <<>>)
           /\ up' = <<>> \/ (Len(up) = 2 /\ dialect = 7 /\ up' # <<>>)
           /\ Len(up) = 2 => up' # <<>>
<1>1. /\ serverOpen /\ srv = kind /\ up # <<>> /\ Head(up).is = kind /\ up' = Tail(up)
      /\ UNCHANGED <<uiVars, workerVars, offer>>
  BY DEF ServerReads
<1>2. UpFits /\ (Live => DownFits) /\ (Live => ServersTurn)
  BY <1>1 DEF Sync, ThreadsTurn
<1>3. \/ \E a : up = <<a>>
      \/ \E a, b : up = <<a, b>>
  BY <1>1, <1>2, Short DEF UpFits, Wire
<1>4. ASSUME NEW a, up = <<a>> PROVE up' = <<>> /\ Len(up) = 1
  BY <1>1, <1>4, Single
<1>5. ASSUME NEW a, NEW b, up = <<a, b>>
      PROVE  kind = "choice" /\ dialect = 7 /\ up' # <<>> /\ UpFits'
  <2>1. Len(up) = 2 /\ Head(up) = a /\ up[1] = a /\ up[2] = b /\ up' = <<b>>
    BY <1>1, <1>5, Double
  <2>2. srv = "choice" /\ dialect = 7 /\ a.val.type = VncNone /\ b.is = "clientInit" /\ ~b.sealed
    BY <1>2, <2>1 DEF UpFits
  <2>3. Serves(VncNone, <<>>)
    BY <1>1, <2>1, <2>2
  <2>4. srv' = "clientInit" /\ agreed' = VncNone
    <3>1. VncNone # VncAuth /\ VncNone \notin Ra2
      BY DEF VncNone, VncAuth, Ra2
    <3>. QED  BY <2>3, <3>1, Zenon DEF Serves
  <2>5. ~Secret(agreed)'
    BY <2>4 DEF Secret, VncNone
  <2>6. Len(up') = 1 /\ Head(up') = b /\ up' # <<>>
    BY <2>1, Single
  <2>7. Head(up').is = srv' /\ ~Head(up').sealed
    BY <2>2, <2>4, <2>6
  <2>8. UpFits'
    BY <2>5, <2>6, <2>7 DEF UpFits
  <2>. QED  BY <1>1, <2>2, <2>6, <2>8
<1>6. up' = <<>> => UpFits'
  BY Shapes DEF UpFits
<1>7. (\E a : up = <<a>>) => up' = <<>> /\ Len(up) = 1
  BY <1>4
<1>8. (\E a, b : up = <<a, b>>) => Len(up) = 2 /\ kind = "choice" /\ dialect = 7 /\ up' # <<>> /\ UpFits'
  BY <1>5, Double
<1>. QED  BY <1>1, <1>2, <1>3, <1>6, <1>7, <1>8

\* The thread, which the server answers, is where it was.
LEMMA Still ==
    ASSUME UNCHANGED workerVars
    PROVE  /\ Live' <=> Live
           /\ Awaited' = Awaited /\ Begun' = Begun /\ UNCHANGED <<pc, minor, chosen>>
BY DEF workerVars, Live, Awaited, Begun

\* One message or two for the thread.
LEMMA Spoken ==
    ASSUME UNCHANGED workerVars, DownFits,
           NEW x, x.is = Awaited, x.sealed <=> InChannel(Awaited),
           \/ down' = <<x>>
           \/ \E y : down' = <<x, y>> /\ Follows(x, y)
    PROVE  DownFits' /\ Head(down') = x /\ down' # <<>>
<1>1. Awaited' = Awaited /\ UNCHANGED <<minor, chosen>>
  BY Still
<1>2. CASE down' = <<x>>
  <2>1. Len(down') = 1 /\ Head(down') = x /\ down' # <<>>
    BY <1>2, Single
  <2>. QED  BY <1>1, <2>1 DEF DownFits, InChannel
<1>3. ASSUME NEW y, down' = <<x, y>>, Follows(x, y)
      PROVE  DownFits' /\ Head(down') = x /\ down' # <<>>
  <2>1. /\ Len(down') = 2 /\ Head(down') = x /\ down' # <<>> /\ down'[1] = x /\ down'[2] = y
    BY <1>3, Double
  <2>2. Follows(down[1], down[2])'
    BY <1>1, <1>3, <2>1 DEF Follows
  <2>. QED  BY <1>1, <2>1, <2>2 DEF DownFits, InChannel
<1>. QED  BY <1>2, <1>3

\* The first message of a security type, after `before`.
LEMMA Served ==
    ASSUME down = <<>>, NEW t, NEW before, Serves(t, before), IsQueue(before)
    PROVE  /\ agreed' = t /\ srv' = First(t)
           /\ t = VncNone /\ ~(dialect' >= 8) => down' = before
           /\ t = VncNone /\ dialect' >= 8 => down' = before \o <<Plain("result", [ok |-> TRUE])>>
           /\ t = VncAuth => down' = before \o <<Plain("challenge", Nothing)>>
           /\ t \in Ra2 => \E v : down' = before \o <<Plain("key", v)>>
           /\ t \notin Types => down' = before
<1>0. /\ VncNone # VncAuth /\ VncNone \notin Ra2 /\ VncAuth \notin Ra2
      /\ VncNone \in Types /\ VncAuth \in Types /\ Ra2 \subseteq Types
  BY DEF VncNone, VncAuth, Ra2, Types
<1>1. down \o before = before /\ before \o <<>> = before
  BY ConcatEmptySeq DEF IsQueue
<1>2. CASE t = VncNone
  <2>1. /\ srv' = "clientInit" /\ agreed' = t
        /\ down' = down \o before \o
             (IF ResultSent(t) THEN <<Plain("result", [ok |-> TRUE])>> ELSE <<>>)
    BY <1>0, <1>2, Zenon DEF Serves
  <2>2. ResultSent(t) <=> dialect' >= 8
    BY <1>0, <1>2 DEF ResultSent
  <2>3. First(t) = "clientInit"
    BY <1>0, <1>2, Zenon DEF First
  <2>. QED  BY <1>0, <1>1, <1>2, <2>1, <2>2, <2>3
<1>3. CASE t = VncAuth
  <2>1. /\ srv' = "response" /\ agreed' = t /\ down' = down \o before \o <<Plain("challenge", Nothing)>>
    BY <1>0, <1>3, Zenon DEF Serves
  <2>2. First(t) = "response"
    BY <1>0, <1>3, Zenon DEF First
  <2>. QED  BY <1>0, <1>1, <1>3, <2>1, <2>2
<1>4. CASE t \in Ra2
  <2>1. /\ srv' = "key" /\ agreed' = t
        /\ \E v : down' = down \o before \o <<Plain("key", v)>>
    BY <1>0, <1>4, Zenon DEF Serves
  <2>2. First(t) = "key"
    BY <1>0, <1>4, Zenon DEF First
  <2>. QED  BY <1>0, <1>1, <1>4, <2>1, <2>2
<1>5. CASE t \notin Types
  <2>1. srv' = "other" /\ agreed' = t /\ down' = down \o before
    BY <1>5 DEF Serves, Types
  <2>2. First(t) = "other"
    BY <1>5 DEF First, Types
  <2>. QED  BY <1>0, <1>1, <1>5, <2>1, <2>2
<1>. QED  BY <1>2, <1>3, <1>4, <1>5 DEF Types

\* The turn goes to the thread, or the server has closed.
LEMMA Turn ==
    ASSUME UNCHANGED workerVars, UpFits', DownFits', serverOpen' => ThreadsTurn' \/ ServersTurn'
    PROVE  Sync'
BY DEF Sync

LEMMA NotLive ==
    ASSUME ~Live, UNCHANGED workerVars, UpFits'
    PROVE  Sync'
BY Still DEF Sync

LEMMA SyncRefuses ==
    ASSUME Wire, Sync, Live, ServerReads("version"), ServersTurn, DownFits, UpFits',
           \/ Awaited = "types" /\ Refuses("types", [types |-> {}])
           \/ Awaited = "type33" /\ Refuses("type33", [type |-> 0])
    PROVE  Sync'
<1>0. UNCHANGED workerVars /\ down = <<>> /\ serverOpen' = FALSE
  BY DEF ServerReads, ServersTurn, Refuses
<1>1. ASSUME NEW k \in {"types", "type33"}, NEW v, Refuses(k, v), Awaited = k,
             (k = "types" /\ v.types = {}) \/ (k = "type33" /\ v.type = 0)
      PROVE  DownFits'
  <2>. DEFINE x == Plain(k, v)
              y == Plain("reason", Nothing)
  <2>1. down' = down \o <<x, y>>
    BY <1>1 DEF Refuses
  <2>2. down' = <<x, y>>
    BY <1>0, <2>1, Shapes
  <2>3. x.is = k /\ ~x.sealed /\ x.val = v /\ y.is = "reason" /\ ~y.sealed
    BY DEF Plain
  <2>. HIDE DEF x, y
  <2>4. Follows(x, y) /\ (x.sealed <=> InChannel(Awaited))
    BY <1>1, <2>3 DEF Follows, InChannel
  <2>. QED  BY <1>0, <1>1, <2>2, <2>3, <2>4, Spoken
<1>2. DownFits'
  <2>1. [types |-> {}].types = {} /\ [type |-> 0].type = 0
    OBVIOUS
  <2>. QED  BY <1>1, <2>1
<1>. QED  BY <1>0, <1>2, Turn

\* RFB 3.3: the server has chosen the type.
LEMMA SyncDictates ==
    ASSUME Wire, Sync, Live, ServerReads("version"), ServersTurn, DownFits, UpFits', up' = <<>>,
           Awaited = "type33", minor = 3, dialect' = minor,
           NEW t, t # 0, Serves(t, <<Plain("type33", [type |-> t])>>)
    PROVE  Sync'
<1>. DEFINE x == Plain("type33", [type |-> t])
<1>0. UNCHANGED workerVars /\ down = <<>> /\ VncNone = 1 /\ VncAuth = 2 /\ Ra2 = {5, 6, 129, 130}
      /\ Types = {1, 2, 5, 6, 129, 130}
  BY DEF ServerReads, ServersTurn, VncNone, VncAuth, Ra2, Types
<1>1. x.is = "type33" /\ ~x.sealed /\ x.val.type = t
  BY DEF Plain
<1>. HIDE DEF x
<1>2. /\ agreed' = t /\ srv' = First(t)
      /\ t = VncNone /\ ~(dialect' >= 8) => down' = <<x>>
      /\ t = VncAuth => down' = <<x>> \o <<Plain("challenge", Nothing)>>
      /\ t \in Ra2 => \E v : down' = <<x>> \o <<Plain("key", v)>>
      /\ t \notin Types => down' = <<x>>
  <2>1. IsQueue(<<x>>)
    BY ElemsFew, Zenon
  <2>2. Serves(t, <<x>>)
    BY Zenon DEF x
  <2>3. down = <<>>
    BY <1>0
  <2>. QED  BY <2>1, <2>2, <2>3, Served
<1>3. (t = VncAuth \/ t \in Ra2) =>
         \E y : down' = <<x, y>> /\ Follows(x, y)
  <2>1. CASE t = VncAuth
    <3>. DEFINE y == Plain("challenge", Nothing)
    <3>1. y.is = "challenge" /\ ~y.sealed
      BY DEF Plain
    <3>. HIDE DEF y
    <3>2. down' = <<x>> \o <<y>>
      BY <1>2, <2>1 DEF y
    <3>3. down' = <<x, y>>
      BY <3>2, Joined, Zenon
    <3>. QED  BY <1>1, <2>1, <3>1, <3>3 DEF Follows
  <2>2. CASE t \in Ra2
    <3>1. PICK v : down' = <<x>> \o <<Plain("key", v)>>
      BY <1>2, <2>2
    <3>2. down' = <<x, Plain("key", v)>>
      BY <3>1, Joined, Zenon
    <3>3. Follows(x, Plain("key", v))
      BY <1>0, <1>1, <2>2 DEF Follows
    <3>. QED  BY <3>2, <3>3
  <2>. QED  BY <2>1, <2>2
<1>4. down' = <<x>> \/ \E y : down' = <<x, y>> /\ Follows(x, y)
  BY <1>0, <1>2, <1>3
<1>5. ~InChannel(Awaited)
  BY DEF InChannel
<1>6. DownFits' /\ Head(down') = x /\ down' # <<>>
  BY <1>0, <1>1, <1>4, <1>5, Spoken
<1>7. t = VncAuth => Len(down') = 2
  BY <1>3, Double
<1>8. ThreadsTurn'
  <2>1. Awaited' = "type33" /\ minor' = 3 /\ dialect' = 3
    BY <1>0, Still
  <2>. QED  BY <1>1, <1>2, <1>6, <1>7, <2>1 DEF ThreadsTurn, Ra2Rounds
<1>. QED  BY <1>0, <1>6, <1>8, Turn

\* RFB 3.7 and 3.8: the thread has chosen it.
LEMMA SyncChosen ==
    ASSUME Wire, Sync, Live, ServerReads("choice"), ServersTurn, DownFits, UpFits',
           Serves(Head(up).val.type, <<>>), dialect' = dialect,
           up' = <<>> \/ (Len(up) = 2 /\ dialect = 7 /\ up' # <<>>), Len(up) = 2 => up' # <<>>
    PROVE  Sync'
<1>. DEFINE t == Head(up).val.type
<1>0. UNCHANGED workerVars /\ down = <<>> /\ srv = "choice"
      /\ VncNone = 1 /\ VncAuth = 2 /\ Ra2 = {5, 6, 129, 130}
      /\ Types = {1, 2, 5, 6, 129, 130}
  BY DEF ServerReads, ServersTurn, VncNone, VncAuth, Ra2, Types
<1>1. /\ t = chosen /\ chosen \in Types /\ minor = dialect /\ minor \in {7, 8} /\ Awaited = Begun
      /\ Awaited = "init" => Len(up) = 2
  BY <1>0 DEF ServersTurn
<1>2. /\ agreed' = t /\ srv' = First(t)
      /\ t = VncNone /\ ~(dialect' >= 8) => down' = <<>>
      /\ t = VncNone /\ dialect' >= 8 => down' = <<>> \o <<Plain("result", [ok |-> TRUE])>>
      /\ t = VncAuth => down' = <<>> \o <<Plain("challenge", Nothing)>>
      /\ t \in Ra2 => \E v : down' = <<>> \o <<Plain("key", v)>>
  <2>. HIDE DEF t
  <2>1. IsQueue(<<>>) /\ Serves(t, <<>>)
    BY ElemsFew DEF t
  <2>2. PICK before : before = <<>>
    OBVIOUS
  <2>3. /\ agreed' = t /\ srv' = First(t)
        /\ t = VncNone /\ ~(dialect' >= 8) => down' = before
        /\ t = VncNone /\ dialect' >= 8 => down' = before \o <<Plain("result", [ok |-> TRUE])>>
        /\ t = VncAuth => down' = before \o <<Plain("challenge", Nothing)>>
        /\ t \in Ra2 => \E v : down' = before \o <<Plain("key", v)>>
    <3>1. IsQueue(before) /\ Serves(t, before) /\ down = <<>>
      BY <1>0, <2>1, <2>2
    <3>. QED  BY <3>1, Served
  <2>. QED  BY <2>2, <2>3
<1>. HIDE DEF t
<1>3. /\ Awaited' = Awaited /\ Agree'
      /\ Awaited = IF chosen = VncNone THEN IF minor = 8 THEN "result" ELSE "init"
                   ELSE IF chosen = VncAuth THEN "challenge" ELSE "key"
      /\ srv' = IF chosen = VncNone THEN "clientInit"
                   ELSE IF chosen = VncAuth THEN "response" ELSE "key"
      /\ chosen' = chosen
  <2>1. Agree' /\ Awaited' = Awaited /\ chosen' = chosen
    BY <1>0, <1>1, <1>2, Still DEF Agree
  <2>2. Awaited = IF chosen = VncNone THEN IF minor = 8 THEN "result" ELSE "init"
                   ELSE IF chosen = VncAuth THEN "challenge" ELSE "key"
    BY <1>0, <1>1 DEF Begun, Method, AwaitsResult
  <2>3. srv' = IF chosen = VncNone THEN "clientInit"
                   ELSE IF chosen = VncAuth THEN "response" ELSE "key"
    BY <1>0, <1>1, <1>2 DEF First
  <2>. QED  BY <2>1, <2>2, <2>3
<1>4. CASE chosen = VncNone /\ minor = 7
  <2>1. down' = <<>> /\ up' # <<>> /\ Awaited = "init" /\ srv' = "clientInit"
    BY <1>1, <1>2, <1>3, <1>4
  <2>2. DownFits'
    BY <1>3, <2>1, Shapes DEF DownFits
  <2>3. ServersTurn'
    BY <1>3, <2>1 DEF ServersTurn
  <2>. QED  BY <1>0, <2>2, <2>3, Turn
<1>5. CASE ~(chosen = VncNone /\ minor = 7)
  <2>1. up' = <<>>
    <3>1. CASE chosen = VncNone
      BY <1>1, <1>5, <3>1
    <3>2. CASE chosen # VncNone
      <4>1. Len(up) # 2
        <5>1. Head(up) = up[1] /\ UpFits
          BY DEF ServerReads, Sync
        <5>. QED  BY <1>1, <3>2, <5>1 DEF UpFits, t
      <4>. QED  BY <4>1
    <3>. QED  BY <3>1, <3>2
  <2>2. PICK x : /\ down' = <<x>> /\ x.is = Awaited /\ ~x.sealed
                 /\ Awaited = "result" => x.val.ok
    <3>1. ASSUME NEW k, NEW v PROVE <<>> \o <<Plain(k, v)>> = <<Plain(k, v)>>
      BY Shapes
    <3>2. ASSUME NEW k, NEW v PROVE Plain(k, v).is = k /\ ~Plain(k, v).sealed /\ Plain(k, v).val = v
      BY DEF Plain
    <3>3. CASE chosen = VncNone
      <4>1. down' = <<Plain("result", [ok |-> TRUE])>> /\ Awaited = "result"
        BY <1>1, <1>2, <1>3, <1>5, <3>1, <3>3
      <4>2. Plain("result", [ok |-> TRUE]).val.ok
        BY DEF Plain
      <4>. QED  BY <3>2, <4>1, <4>2
    <3>4. CASE chosen = VncAuth
      <4>1. down' = <<Plain("challenge", Nothing)>> /\ Awaited = "challenge"
        BY <1>0, <1>1, <1>2, <1>3, <3>1, <3>4
      <4>. QED  BY <3>2, <4>1
    <3>5. CASE chosen \in Ra2
      <4>1. Awaited = "key" /\ \E v : down' = <<Plain("key", v)>>
        BY <1>0, <1>1, <1>2, <1>3, <3>1, <3>5
      <4>. QED  BY <3>2, <4>1
    <3>. QED  BY <1>0, <1>1, <3>3, <3>4, <3>5
  <2>3. ~InChannel(Awaited)
    BY <1>0, <1>3, <1>5 DEF InChannel, EncryptAll
  <2>4. DownFits' /\ Head(down') = x /\ down' # <<>>
    BY <1>0, <2>2, <2>3, Spoken
  <2>5. ThreadsTurn'
    <3>1. srv' = Answer[Awaited] /\ Awaited \in {"result", "challenge", "key"}
      BY <1>1, <1>3, <1>5 DEF Answer
    <3>2. Awaited = "key" => chosen \in Ra2
      BY <1>0, <1>1, <1>3
    <3>. QED  BY <1>3, <2>1, <2>2, <2>4, <3>1, <3>2 DEF ThreadsTurn, Ra2Rounds
  <2>. QED  BY <1>0, <2>4, <2>5, Turn
<1>. QED  BY <1>4, <1>5

\* The SecurityResult, for the answer to a challenge or the credentials of RA2.
LEMMA SyncDecides ==
    ASSUME Wire, Sync, Live, UNCHANGED workerVars, ServersTurn, DownFits, UpFits', up' = <<>>,
           srv \in {"response", "credentials"}, NEW pw, Decides(pw), UNCHANGED <<dialect, agreed>>
    PROVE  Sync'
<1>. DEFINE r(v) == [is |-> "result", sealed |-> Secret(agreed), val |-> [ok |-> v]]
            y == [is |-> "reason", sealed |-> Secret(agreed), val |-> Nothing]
<1>0. /\ down = <<>> /\ Agree /\ Awaited = "result"
      /\ (Secret(agreed) <=> EncryptAll(chosen)) /\ (InChannel(Awaited) <=> EncryptAll(chosen))
  BY DEF ServersTurn, Agree, Secret, EncryptAll, InChannel
<1>1. /\ r(TRUE).is = "result" /\ (r(TRUE).sealed <=> Secret(agreed)) /\ r(TRUE).val.ok
      /\ r(FALSE).is = "result" /\ (r(FALSE).sealed <=> Secret(agreed)) /\ ~r(FALSE).val.ok
      /\ y.is = "reason" /\ (y.sealed <=> Secret(agreed))
  OBVIOUS
<1>2. \/ down' = Append(down, r(TRUE)) /\ srv' = "clientInit" /\ UNCHANGED serverOpen
      \/ /\ serverOpen' = FALSE
         /\ down' = down \o (IF dialect >= 8 THEN <<r(FALSE), y>> ELSE <<r(FALSE)>>)
  BY DEF Decides
<1>. HIDE DEF r, y
<1>3. CASE down' = Append(down, r(TRUE)) /\ srv' = "clientInit" /\ UNCHANGED serverOpen
  <2>1. down' = <<r(TRUE)>>
    BY <1>0, <1>3, Shapes
  <2>2. DownFits' /\ Head(down') = r(TRUE) /\ down' # <<>>
    BY <1>0, <1>1, <2>1, Spoken
  <2>3. ThreadsTurn'
    <3>1. Awaited' = "result" /\ Agree' /\ Answer["result"] = "clientInit"
      BY <1>0, Still DEF Agree, Answer
    <3>. QED  BY <1>1, <1>3, <2>2, <3>1 DEF ThreadsTurn, Ra2Rounds
  <2>. QED  BY <2>2, <2>3, Turn
<1>4. CASE /\ serverOpen' = FALSE
           /\ down' = down \o (IF dialect >= 8 THEN <<r(FALSE), y>> ELSE <<r(FALSE)>>)
  <2>1. CASE dialect >= 8
    <3>1. down' = <<r(FALSE), y>>
      <4>1. down' = <<>> \o <<r(FALSE), y>>
        BY <1>0, <1>4, <2>1
      <4>. QED  BY <4>1, Shapes, Zenon
    <3>2. Follows(r(FALSE), y)
      BY <1>0, <1>1, <2>1 DEF Follows, Agree, AwaitsReason
    <3>3. DownFits'
      BY <1>0, <1>1, <3>1, <3>2, Spoken
    <3>. QED  BY <1>4, <3>3, Turn
  <2>2. CASE ~(dialect >= 8)
    <3>1. down' = <<r(FALSE)>>
      <4>1. down' = <<>> \o <<r(FALSE)>>
        BY <1>0, <1>4, <2>2
      <4>. QED  BY <4>1, Shapes, Zenon
    <3>2. DownFits'
      BY <1>0, <1>1, <3>1, Spoken
    <3>. QED  BY <1>4, <3>2, Turn
  <2>. QED  BY <2>1, <2>2
<1>. QED  BY <1>2, <1>3, <1>4

LEMMA SyncServer ==
    ASSUME Wire, Sorted, Sync, Server
    PROVE  Sync'
<1>1. ASSUME NEW kind, ServerReads(kind), kind # "choice"
      PROVE  /\ serverOpen /\ srv = kind /\ UNCHANGED workerVars /\ UNCHANGED offer
             /\ Live => ServersTurn /\ DownFits
             /\ UpFits' /\ up' = <<>>
  BY <1>1, UpTaken
<1>2. CASE ServerVersion
  <2>1. ServerReads("version") /\ dialect' = Head(up).val.version
    BY <1>2 DEF ServerVersion
  <2>2. /\ serverOpen /\ srv = "version" /\ UNCHANGED workerVars
        /\ Live => ServersTurn /\ DownFits
        /\ UpFits' /\ up' = <<>>
    BY <1>1, <2>1
  <2>3. CASE ~Live
    BY <2>2, <2>3, NotLive
  <2>4. CASE Live
    <3>1. /\ down = <<>> /\ dialect' = minor /\ minor \in {3, 7, 8}
          /\ Awaited = IF minor >= 7 THEN "types" ELSE "type33"
      BY <2>1, <2>2, <2>4 DEF ServersTurn
    <3>2. CASE minor >= 7
      <4>1. \/ /\ offer # {} /\ down' = Append(down, Plain("types", [types |-> offer]))
               /\ srv' = "choice"
            \/ Refuses("types", [types |-> {}])
        BY <1>2, <3>1, <3>2 DEF ServerVersion
      <4>2. CASE Refuses("types", [types |-> {}])
        BY <2>1, <2>2, <2>4, <3>1, <3>2, <4>2, SyncRefuses
      <4>3. CASE /\ offer # {} /\ down' = Append(down, Plain("types", [types |-> offer]))
                 /\ srv' = "choice"
        <5>. DEFINE x == Plain("types", [types |-> offer])
        <5>1. x.is = "types" /\ ~x.sealed /\ x.val.types = offer
          BY DEF Plain
        <5>2. down' = <<x>>
          BY <3>1, <4>3, Shapes
        <5>. HIDE DEF x
        <5>3. ~InChannel(Awaited) /\ Awaited = "types"
          BY <3>1, <3>2 DEF InChannel
        <5>4. DownFits' /\ Head(down') = x /\ down' # <<>>
          BY <2>2, <2>4, <5>1, <5>2, <5>3, Spoken
        <5>5. ThreadsTurn'
          <6>1. Awaited' = "types" /\ minor' = minor /\ minor \in {7, 8} /\ Answer["types"] = "choice"
            BY <2>2, <3>1, <3>2, <5>3, Still DEF Answer
          <6>. QED  BY <2>2, <3>1, <4>3, <5>1, <5>4, <6>1 DEF ThreadsTurn, Ra2Rounds
        <5>. QED  BY <2>2, <5>4, <5>5, Turn
      <4>. QED  BY <4>1, <4>2, <4>3
    <3>3. CASE ~(minor >= 7)
      <4>1. \/ \E t \in offer : Serves(t, <<Plain("type33", [type |-> t])>>)
            \/ Refuses("type33", [type |-> 0])
        BY <1>2, <3>1, <3>3 DEF ServerVersion
      <4>2. minor = 3 /\ Awaited = "type33"
        BY <3>1, <3>3
      <4>3. CASE Refuses("type33", [type |-> 0])
        BY <2>1, <2>2, <2>4, <4>2, <4>3, SyncRefuses
      <4>4. ASSUME NEW t \in offer, Serves(t, <<Plain("type33", [type |-> t])>>) PROVE Sync'
        <5>1. t # 0
          BY <4>4, OffersAssumption DEF Sorted, ServerTyped
        <5>. QED  BY <2>1, <2>2, <2>4, <3>1, <4>2, <4>4, <5>1, SyncDictates
      <4>. QED  BY <4>1, <4>3, <4>4
    <3>. QED  BY <3>2, <3>3
  <2>. QED  BY <2>3, <2>4
<1>3. CASE ServerChoice
  <2>1. ServerReads("choice") /\ dialect' = dialect /\ Serves(Head(up).val.type, <<>>)
    BY <1>3 DEF ServerChoice
  <2>2. /\ UNCHANGED workerVars
        /\ Live => ServersTurn /\ DownFits
        /\ UpFits' /\ (up' = <<>> \/ (Len(up) = 2 /\ dialect = 7 /\ up' # <<>>))
        /\ Len(up) = 2 => up' # <<>>
    BY <2>1, UpTaken
  <2>3. CASE ~Live
    BY <2>2, <2>3, NotLive
  <2>4. CASE Live
    BY <2>1, <2>2, <2>4, SyncChosen
  <2>. QED  BY <2>3, <2>4
<1>4. CASE ServerResponse
  <2>1. PICK kind \in {"response", "credentials"} : ServerReads(kind)
    BY <1>4 DEF ServerResponse
  <2>2. /\ srv = kind /\ UNCHANGED workerVars
        /\ Live => ServersTurn /\ DownFits
        /\ UpFits' /\ up' = <<>>
    BY <1>1, <2>1
  <2>3. CASE ~Live
    BY <2>2, <2>3, NotLive
  <2>4. CASE Live
    <3>1. Decides(Head(up).val.pw) /\ UNCHANGED <<dialect, agreed>>
      BY <1>4 DEF ServerResponse
    <3>. QED  BY <2>1, <2>2, <2>4, <3>1, SyncDecides
  <2>. QED  BY <2>3, <2>4
<1>5. CASE ServerRa2
  <2>1. PICK kind \in {"key", "random", "hash"} : ServerReads(kind)
    BY <1>5 DEF ServerRa2
  <2>2. /\ srv = kind /\ UNCHANGED workerVars
        /\ Live => ServersTurn /\ DownFits
        /\ UpFits' /\ up' = <<>>
    BY <1>1, <2>1
  <2>3. CASE ~Live
    BY <2>2, <2>3, NotLive
  <2>4. CASE Live
    <3>1. /\ srv' = Ra2Answer[Ra2Next[kind]] /\ UNCHANGED <<dialect, agreed>>
          /\ \E v \in BOOLEAN : down' = Append(down, Plain(Ra2Next[kind], [sound |-> v]))
      BY <1>5, <2>2 DEF ServerRa2
    <3>2. PICK v : down' = Append(down, Plain(Ra2Next[kind], [sound |-> v]))
      BY <3>1
    <3>. DEFINE x == Plain(Ra2Next[kind], [sound |-> v])
    <3>3. down = <<>> /\ Agree /\ chosen \in Ra2 /\ Awaited = Ra2Next[kind]
      BY <2>2, <2>4 DEF ServersTurn
    <3>4. x.is = Ra2Next[kind] /\ ~x.sealed
      BY DEF Plain
    <3>. HIDE DEF x
    <3>5. down' = <<x>>
      BY <3>2, <3>3, Shapes DEF x
    <3>6. /\ ~InChannel(Awaited) /\ Awaited \in {"random", "hash", "subtype"}
          /\ Answer[Awaited] = Ra2Answer[Ra2Next[kind]]
      BY <3>3 DEF InChannel, Ra2Next, Ra2Answer, Answer
    <3>7. DownFits' /\ Head(down') = x /\ down' # <<>>
      BY <2>2, <2>4, <3>3, <3>4, <3>5, <3>6, Spoken
    <3>8. ThreadsTurn'
      <4>1. Awaited' = Awaited /\ Agree' /\ chosen' \in Ra2
        BY <2>2, <3>1, <3>3, Still DEF Agree
      <4>2. Awaited \notin {"reason", "types", "type33", "result"}
        BY <3>6
      <4>. QED  BY <2>2, <3>1, <3>6, <3>7, <4>1, <4>2 DEF ThreadsTurn
    <3>. QED  BY <2>2, <3>7, <3>8, Turn
  <2>. QED  BY <2>3, <2>4
<1>6. CASE ServerClientInit
  <2>1. /\ ServerReads("clientInit") /\ srv' = "serving" /\ UNCHANGED <<dialect, agreed>>
        /\ down' = Append(down, [is |-> "init", sealed |-> Secret(agreed), val |-> Nothing])
    BY <1>6 DEF ServerClientInit
  <2>2. /\ srv = "clientInit" /\ UNCHANGED workerVars
        /\ Live => ServersTurn /\ DownFits
        /\ UpFits' /\ up' = <<>>
    BY <1>1, <2>1
  <2>3. CASE ~Live
    BY <2>2, <2>3, NotLive
  <2>4. CASE Live
    <3>. DEFINE x == [is |-> "init", sealed |-> Secret(agreed), val |-> Nothing]
    <3>1. down = <<>> /\ Agree /\ Awaited = "init"
      BY <2>2, <2>4 DEF ServersTurn
    <3>2. x.is = "init" /\ (x.sealed <=> Secret(agreed))
      OBVIOUS
    <3>. HIDE DEF x
    <3>3. down' = <<x>>
      BY <2>1, <3>1, Shapes DEF x
    <3>4. Secret(agreed) <=> InChannel(Awaited)
      BY <3>1 DEF Secret, InChannel, EncryptAll, Agree
    <3>5. DownFits' /\ Head(down') = x /\ down' # <<>>
      BY <2>2, <2>4, <3>1, <3>2, <3>3, <3>4, Spoken
    <3>6. ThreadsTurn'
      <4>1. Awaited' = "init" /\ Agree' /\ Answer["init"] = "serving"
        BY <2>1, <2>2, <3>1, Still DEF Agree, Answer
      <4>. QED  BY <2>1, <2>2, <3>5, <4>1 DEF ThreadsTurn, Ra2Rounds
    <3>. QED  BY <2>2, <3>5, <3>6, Turn
  <2>. QED  BY <2>3, <2>4
<1>. QED  BY <1>2, <1>3, <1>4, <1>5, <1>6 DEF Server

\* Some of what is in flight is lost with the connection.
LEMMA SyncCut ==
    ASSUME Wire, Sync, ServerCut
    PROVE  Sync'
<1>0. serverOpen' = FALSE /\ UNCHANGED workerVars
  BY DEF ServerCut
<1>1. ASSUME Live PROVE DownFits'
  <2>0. DownFits /\ Awaited' = Awaited /\ UNCHANGED <<minor, chosen>>
    BY <1>0, <1>1, Still DEF Sync
  <2>1. PICK n \in 0 .. Len(down) : down' = SubSeq(down, 1, n)
    BY DEF ServerCut
  <2>2. PICK S : down \in Seq(S)
    BY DEF Wire, IsQueue
  <2>3. Len(down) \in Nat /\ Len(down') = n /\ \A i \in 1 .. n : down'[i] = down[i]
    BY <2>1, <2>2, SubSeqProperties
  <2>4. down' # <<>> => Len(down') # 0 /\ Head(down') = down'[1] /\ Head(down) = down[1] /\ down # <<>>
    <3>1. down' \in Seq(S)
      BY <2>1, <2>2, SubSeqProperties
    <3>. QED  BY <2>2, <2>3, <3>1
  <2>5. down' # <<>> => Head(down') = Head(down)
    BY <2>3, <2>4
  <2>6. Len(down') = 2 => Len(down) = 2 /\ down'[1] = down[1] /\ down'[2] = down[2]
    <3>1. Len(down) <= 2
      BY <2>0, Zenon DEF DownFits
    <3>2. n <= Len(down) /\ Len(down) \in Nat
      BY <2>3
    <3>. SUFFICES ASSUME Len(down') = 2
                  PROVE  Len(down) = 2 /\ down'[1] = down[1] /\ down'[2] = down[2]
      OBVIOUS
    <3>3. n = 2 /\ Len(down) = 2
      BY <2>3, <3>1, <3>2
    <3>4. 1 \in 1 .. n /\ 2 \in 1 .. n
      BY <3>3
    <3>5. \A i \in 1 .. n : down'[i] = down[i]
      BY <2>3, Zenon
    <3>. QED  BY <3>3, <3>4, <3>5, Zenon
  <2>7. Len(down') = 2 => Follows(down[1], down[2])'
    BY <2>0, <2>6 DEF DownFits, Follows
  <2>. QED  BY <2>0, <2>3, <2>4, <2>5, <2>7 DEF DownFits, InChannel
<1>. QED  BY <1>0, <1>1, Still DEF Sync

LEMMA SyncUi ==
    ASSUME Sync, Ui \/ UNCHANGED vars
    PROVE  Sync'
<1>1. UNCHANGED workerVars /\ UNCHANGED <<up, down, serverOpen, srv, dialect, agreed>>
  BY DEF Ui, UiEvents, UiAnswer, UiLeave, UiInput, serverVars, vars
<1>2. /\ Live' <=> Live
      /\ Awaited' = Awaited /\ Begun' = Begun /\ UNCHANGED <<pc, minor, chosen>>
  BY <1>1, Still
<1>3. (DownFits => DownFits') /\ (UpFits => UpFits')
  BY <1>1, <1>2 DEF DownFits, UpFits, Follows, InChannel
<1>4. (ThreadsTurn => ThreadsTurn') /\ (ServersTurn => ServersTurn')
  BY <1>1, <1>2 DEF ThreadsTurn, ServersTurn, Agree
<1>. QED  BY <1>1, <1>2, <1>3, <1>4 DEF Sync

LEMMA InitSync == Init => Sync
<1>. SUFFICES ASSUME Init PROVE Sync
  OBVIOUS
<1>1. PICK b \in Banners : down = <<Plain("banner", [version |-> b])>>
  BY DEF Init
<1>. DEFINE x == Plain("banner", [version |-> b])
<1>2. x.is = "banner" /\ ~x.sealed
  BY DEF Plain
<1>. HIDE DEF x
<1>3. Len(down) = 1 /\ down # <<>> /\ Head(down) = x
  BY <1>1, Single DEF x
<1>4. Awaited = "banner" /\ ~InChannel("banner") /\ Answer["banner"] = "version"
  BY DEF Init, Awaited, InChannel, Answer
<1>5. DownFits
  BY <1>2, <1>3, <1>4 DEF Init, DownFits
<1>6. UpFits
  BY Shapes DEF Init, UpFits
<1>7. ThreadsTurn
  BY <1>3, <1>4 DEF Init, ThreadsTurn, Ra2Rounds
<1>. QED  BY <1>5, <1>6, <1>7 DEF Sync

\* For any version, any security types and any cut, whatever the user does: the
\* thread never takes the bytes of one message for another, nor sealed ones for
\* plain ones, and neither does the server (security.rs:134-143).
THEOREM InSyncAlways == Spec => []InSync
<1>1. ASSUME Inv, Wire, Sorted, Sync, [Next]_vars PROVE Wire' /\ Sorted' /\ Sync'
  BY <1>1, WireWorker, WireServer, WireOther, SortWorker, SortUi, SortServer, SortOther,
     SyncWorker, SyncServer, SyncCut, SyncUi DEF Next
<1>2. ASSUME Wire, Sorted, Sync PROVE InSync
  <2>1. ASSUME NEW s, IsQueue(s), s # <<>> PROVE Head(s) \in Elems(s)
    BY <2>1, ElemsTail
  <2>2. down # <<>> => Head(down).sealed \in BOOLEAN
    BY <1>2, <2>1 DEF Wire, Sorted, MessagesTyped, SoundDown
  <2>3. up # <<>> => Head(up).sealed \in BOOLEAN
    BY <1>2, <2>1 DEF Wire, Sorted, MessagesTyped, SoundUp
  <2>4. ASSUME pc \in Reading, down # <<>>
        PROVE  /\ Head(down).is = pc
               /\ Head(down).sealed = (pc \in {"result", "reason", "init"} /\ EncryptAll(chosen))
    <3>1. Live /\ Awaited = pc
      BY <2>4 DEF Live, Awaited, Reading, Ra2Rounds, Outcomes
    <3>2. Head(down).is = pc /\ (Head(down).sealed <=> InChannel(pc))
      BY <1>2, <2>4, <3>1 DEF Sync, DownFits
    <3>3. InChannel(pc) \in BOOLEAN
      BY DEF InChannel
    <3>4. Head(down).sealed = InChannel(pc)
      BY <2>2, <2>4, <3>2, <3>3, Zenon
    <3>. QED  BY <3>2, <3>4, Zenon DEF InChannel
  <2>5. ASSUME serverOpen, up # <<>>
        PROVE  /\ Head(up).is = srv
               /\ Head(up).sealed = (srv = "clientInit" /\ Secret(agreed))
    <3>1. Head(up).is = srv /\ (Head(up).sealed <=> (srv = "clientInit" /\ Secret(agreed)))
      BY <1>2, <2>5 DEF Sync, UpFits
    <3>. QED  BY <2>3, <2>5, <3>1, Zenon
  <2>. QED  BY <2>4, <2>5, Zenon DEF InSync
<1>. QED  BY <1>1, <1>2, InitWire, InitSorted, InitSync, Invariance, PTL DEF Spec
=============================================================================

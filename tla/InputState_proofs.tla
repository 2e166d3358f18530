--------------------------- MODULE InputState_proofs ---------------------------
(***************************************************************************)
(* InputState for any keys, desktops, zooms and positions: the server's idea *)
(* of the modifiers, of the keys held and of the pointer.                  *)
(***************************************************************************)
EXTENDS InputState, TLAPS

\* Every key with an event in the next frame has a last one, and a press that is
\* the last one is of a key still held, or let go of where the window did not see.
EventsSound ==
    /\ \A k \in Keys : (\E j \in 1 .. Len(keyEvents) : keyEvents[j].key = k) => LastEvent(k) # {}
    /\ \A k \in Keys : \A i \in LastEvent(k) :
          keyEvents[i].pressed => k \in down \cup swallowed

\* What lastModifiers and the ghosts around it have to do with each other.
ModifiersSound ==
    /\ held \cap Modifiers = lastModifiers \ cancelled
    /\ ~focused => lastModifiers = {}

Inv == TypeOK /\ ModifiersSound /\ EventsSound /\ StuckByFocusOnly /\ PointerInside

-----------------------------------------------------------------------------
(* Events.                                                                 *)

LEMMA AppendType ==
    ASSUME NEW S, NEW s \in Seq(S), NEW x \in S
    PROVE  Append(s, x) \in Seq(S)
OBVIOUS

LEMMA ElementType ==
    ASSUME NEW S, NEW s \in Seq(S), NEW i \in 1 .. Len(s)
    PROVE  s[i] \in S
OBVIOUS

\* What the last events are after one more.
LEMMA LastEventAppend ==
    ASSUME NEW e \in [key : Keys, pressed : BOOLEAN],
           keyEvents \in Seq([key : Keys, pressed : BOOLEAN]),
           keyEvents' = Append(keyEvents, e), NEW k
    PROVE  LastEvent(k)' = IF k = e.key THEN {Len(keyEvents) + 1} ELSE LastEvent(k)
<1>1. /\ Len(keyEvents') = Len(keyEvents) + 1
      /\ Len(keyEvents) \in Nat
      /\ keyEvents'[Len(keyEvents) + 1] = e
      /\ \A i \in 1 .. Len(keyEvents) : keyEvents'[i] = keyEvents[i]
  OBVIOUS
<1>2. CASE k = e.key
  BY <1>1, <1>2 DEF LastEvent
<1>3. CASE k # e.key
  <2>1. ASSUME NEW i \in 1 .. Len(keyEvents) + 1
        PROVE  i \in LastEvent(k)' <=> i \in LastEvent(k)
    BY <1>1, <1>3 DEF LastEvent
  <2>2. LastEvent(k)' \subseteq 1 .. Len(keyEvents) + 1
        /\ LastEvent(k) \subseteq 1 .. Len(keyEvents) + 1
    BY <1>1 DEF LastEvent
  <2>. QED  BY <1>3, <2>1, <2>2
<1>. QED  BY <1>2, <1>3

\* A column is within the desktop.
LEMMA ColumnInside ==
    ASSUME fbWidth \in Widths, NEW pos \in Positions
    PROVE  Column(pos) \in Nat /\ Column(pos) < fbWidth
<1>1. fbWidth \in Nat \ {0} /\ pos \in Int /\ Zoom[1] \in Nat \ {0} /\ Zoom[2] \in Nat \ {0}
  BY GeometryAssumption
<1>2. CASE pos < 0
  BY <1>1, <1>2 DEF Column
<1>3. CASE pos >= 0
  <2>1. pos * Zoom[2] \in Nat
    BY <1>1, <1>3
  <2>2. Scaled(pos) \in Nat
    <3>. DEFINE a == pos * Zoom[2]
                b == Zoom[1]
    <3>1. a \in Nat /\ b \in Nat \ {0}
      BY <1>1, <2>1
    <3>. HIDE DEF a, b
    <3>2. a \div b \in Nat
      BY <3>1
    <3>. QED  BY <3>2 DEF Scaled, a, b
  <2>. QED  BY <1>1, <1>3, <2>2 DEF Column
<1>. QED  BY <1>1, <1>2, <1>3

-----------------------------------------------------------------------------
(* The steps that are no frame.                                            *)

LEMMA InitInv == Init => Inv
<1>. SUFFICES ASSUME Init PROVE Inv
  OBVIOUS
<1>1. fbWidth \in Nat \ {0}
  BY GeometryAssumption DEF Init
<1>2. TypeOK /\ PointerInside
  <2>1. keyEvents \in Seq([key : Keys, pressed : BOOLEAN])
    BY DEF Init
  <2>2. pointer \in [x : Nat, width : Widths] /\ pointer.x < pointer.width
    BY <1>1 DEF Init
  <2>. QED  BY <2>1, <2>2 DEF Init, TypeOK, PointerInside
<1>3. ModifiersSound /\ EventsSound /\ StuckByFocusOnly
  BY DEF Init, ModifiersSound, EventsSound, LastEvent, StuckByFocusOnly
<1>. QED  BY <1>2, <1>3 DEF Inv

\* A key goes down or up, with or without the window to see it.
LEMMA PressStep ==
    ASSUME Inv, NEW k \in Modifiers \cup Keys, Press(k)
    PROVE  Inv'
<1>. DEFINE e == [key |-> k, pressed |-> TRUE]
<1>1. TypeOK /\ keyEvents \in Seq([key : Keys, pressed : BOOLEAN])
  BY DEF Inv, TypeOK
<1>2. \/ k \in Keys /\ e \in [key : Keys, pressed : BOOLEAN] /\ keyEvents' = Append(keyEvents, e)
      \/ keyEvents' = keyEvents
  BY DEF Press
<1>3. TypeOK'
  <2>1. keyEvents' \in Seq([key : Keys, pressed : BOOLEAN])
    BY <1>1, <1>2, AppendType
  <2>. QED  BY <1>1, <2>1 DEF Press, TypeOK, windowVars, serverVars
<1>4. ModifiersSound' /\ PointerInside'
  BY DEF Inv, ModifiersSound, PointerInside, Press, windowVars, serverVars
<1>5. EventsSound'
  <2>1. CASE k \in Keys /\ e \in [key : Keys, pressed : BOOLEAN] /\ keyEvents' = Append(keyEvents, e)
    <3>1. \A c : LastEvent(c)' = IF c = k THEN {Len(keyEvents) + 1} ELSE LastEvent(c)
      BY <1>1, <2>1, LastEventAppend
    <3>2. /\ Len(keyEvents') = Len(keyEvents) + 1 /\ Len(keyEvents) \in Nat
          /\ keyEvents'[Len(keyEvents) + 1] = e
          /\ \A i \in 1 .. Len(keyEvents) : keyEvents'[i] = keyEvents[i]
      BY <1>1, <2>1
    <3>3. ASSUME NEW c \in Keys, NEW j \in 1 .. Len(keyEvents'), keyEvents'[j].key = c
          PROVE  LastEvent(c)' # {}
      <4>1. CASE c = k
        BY <3>1, <4>1
      <4>2. CASE c # k
        <5>1. j \in 1 .. Len(keyEvents) /\ keyEvents[j].key = c
          BY <3>2, <3>3, <4>2
        <5>. QED  BY <3>1, <4>2, <5>1 DEF Inv, EventsSound
      <4>. QED  BY <4>1, <4>2
    <3>4. ASSUME NEW c \in Keys, NEW i \in LastEvent(c)', keyEvents'[i].pressed
          PROVE  c \in down' \cup swallowed'
      <4>1. CASE c = k
        BY <4>1 DEF Press
      <4>2. CASE c # k
        <5>1. i \in LastEvent(c) /\ keyEvents[i].pressed
          BY <3>1, <3>2, <3>4, <4>2 DEF LastEvent
        <5>. QED  BY <5>1, <4>2 DEF Inv, EventsSound, Press
      <4>. QED  BY <4>1, <4>2
    <3>. QED  BY <3>3, <3>4 DEF EventsSound
  <2>2. CASE keyEvents' = keyEvents
    BY <2>2 DEF Inv, EventsSound, LastEvent, Press
  <2>. QED  BY <1>2, <2>1, <2>2
<1>6. StuckByFocusOnly'
  <2>. SUFFICES ASSUME NEW c \in (held' \cap Keys) \ down'
                PROVE  \/ c \in swallowed'
                       \/ \E i \in 1 .. Len(keyEvents') : keyEvents'[i] = [key |-> c, pressed |-> FALSE]
    BY DEF StuckByFocusOnly
  <2>1. c \in (held \cap Keys) \ down /\ c # k
    BY DEF Press, serverVars
  <2>2. CASE c \in swallowed
    BY <2>1, <2>2 DEF Press
  <2>3. CASE c \notin swallowed
    <3>1. PICK i \in 1 .. Len(keyEvents) : keyEvents[i] = [key |-> c, pressed |-> FALSE]
      BY <2>1, <2>3 DEF Inv, StuckByFocusOnly
    <3>2. i \in 1 .. Len(keyEvents') /\ keyEvents'[i] = keyEvents[i]
      BY <1>1, <1>2
    <3>. QED  BY <3>1, <3>2
  <2>. QED  BY <2>2, <2>3
<1>. QED  BY <1>3, <1>4, <1>5, <1>6 DEF Inv

LEMMA ReleaseStep ==
    ASSUME Inv, NEW k \in Modifiers \cup Keys, Release(k)
    PROVE  Inv'
<1>. DEFINE e == [key |-> k, pressed |-> FALSE]
<1>1. TypeOK /\ keyEvents \in Seq([key : Keys, pressed : BOOLEAN])
  BY DEF Inv, TypeOK
<1>2. \/ /\ k \in Keys /\ e \in [key : Keys, pressed : BOOLEAN]
         /\ keyEvents' = Append(keyEvents, e) /\ swallowed' = swallowed
      \/ keyEvents' = keyEvents /\ swallowed' = swallowed \cup ({k} \cap Keys)
  BY DEF Release
<1>3. TypeOK'
  <2>1. keyEvents' \in Seq([key : Keys, pressed : BOOLEAN])
    BY <1>1, <1>2, AppendType
  <2>. QED  BY <1>1, <1>2, <2>1 DEF Release, TypeOK, windowVars, serverVars
<1>4. ModifiersSound' /\ PointerInside'
  BY DEF Inv, ModifiersSound, PointerInside, Release, windowVars, serverVars
<1>5. EventsSound'
  <2>1. CASE /\ k \in Keys /\ e \in [key : Keys, pressed : BOOLEAN]
             /\ keyEvents' = Append(keyEvents, e) /\ swallowed' = swallowed
    <3>1. \A c : LastEvent(c)' = IF c = k THEN {Len(keyEvents) + 1} ELSE LastEvent(c)
      BY <1>1, <2>1, LastEventAppend
    <3>2. /\ Len(keyEvents') = Len(keyEvents) + 1 /\ Len(keyEvents) \in Nat
          /\ keyEvents'[Len(keyEvents) + 1] = e
          /\ \A i \in 1 .. Len(keyEvents) : keyEvents'[i] = keyEvents[i]
      BY <1>1, <2>1
    <3>3. ASSUME NEW c \in Keys, NEW j \in 1 .. Len(keyEvents'), keyEvents'[j].key = c
          PROVE  LastEvent(c)' # {}
      <4>1. CASE c = k
        BY <3>1, <4>1
      <4>2. CASE c # k
        <5>1. j \in 1 .. Len(keyEvents) /\ keyEvents[j].key = c
          BY <3>2, <3>3, <4>2
        <5>. QED  BY <3>1, <4>2, <5>1 DEF Inv, EventsSound
      <4>. QED  BY <4>1, <4>2
    <3>4. ASSUME NEW c \in Keys, NEW i \in LastEvent(c)', keyEvents'[i].pressed
          PROVE  c \in down' \cup swallowed'
      <4>1. c # k
        BY <3>1, <3>2, <3>4
      <4>2. i \in LastEvent(c) /\ keyEvents[i].pressed
        BY <3>1, <3>2, <3>4, <4>1 DEF LastEvent
      <4>. QED  BY <2>1, <4>1, <4>2 DEF Inv, EventsSound, Release
    <3>. QED  BY <3>3, <3>4 DEF EventsSound
  <2>2. CASE keyEvents' = keyEvents /\ swallowed' = swallowed \cup ({k} \cap Keys)
    BY <2>2 DEF Inv, EventsSound, LastEvent, Release
  <2>. QED  BY <1>2, <2>1, <2>2
<1>6. StuckByFocusOnly'
  <2>. SUFFICES ASSUME NEW c \in (held' \cap Keys) \ down'
                PROVE  \/ c \in swallowed'
                       \/ \E i \in 1 .. Len(keyEvents') : keyEvents'[i] = [key |-> c, pressed |-> FALSE]
    BY DEF StuckByFocusOnly
  <2>1. c \in held \cap Keys
    BY DEF Release, serverVars
  <2>2. CASE c = k
    <3>1. CASE keyEvents' = Append(keyEvents, e)
      <4>1. keyEvents'[Len(keyEvents) + 1] = e /\ Len(keyEvents) + 1 \in 1 .. Len(keyEvents')
        BY <1>1, <3>1
      <4>. QED  BY <2>2, <4>1
    <3>2. CASE swallowed' = swallowed \cup ({k} \cap Keys)
      BY <2>1, <2>2, <3>2
    <3>. QED  BY <1>2, <3>1, <3>2
  <2>3. CASE c # k /\ c \in swallowed
    BY <1>2, <2>3
  <2>4. CASE c # k /\ c \notin swallowed
    <3>1. PICK i \in 1 .. Len(keyEvents) : keyEvents[i] = [key |-> c, pressed |-> FALSE]
      BY <2>1, <2>4 DEF Inv, StuckByFocusOnly, Release
    <3>2. i \in 1 .. Len(keyEvents') /\ keyEvents'[i] = keyEvents[i]
      BY <1>1, <1>2
    <3>. QED  BY <3>1, <3>2
  <2>. QED  BY <2>2, <2>3, <2>4
<1>. QED  BY <1>3, <1>4, <1>5, <1>6 DEF Inv

\* Another window takes the keyboard or gives it back; the desktop is resized.
LEMMA OutsideStep ==
    ASSUME Inv, SwitchWindow \/ Resize
    PROVE  Inv'
<1>1. TypeOK'
  BY DEF Inv, TypeOK, SwitchWindow, Resize, userVars, windowVars, serverVars, ghosts
<1>2. ModifiersSound' /\ PointerInside' /\ StuckByFocusOnly'
  BY DEF Inv, ModifiersSound, PointerInside, StuckByFocusOnly, SwitchWindow, Resize,
         userVars, windowVars, serverVars, ghosts
<1>3. EventsSound'
  <2>1. keyEvents' = keyEvents /\ down' = down /\ swallowed' = swallowed
    BY DEF SwitchWindow, Resize, userVars, ghosts
  <2>2. \A c : LastEvent(c)' = LastEvent(c)
    BY <2>1 DEF LastEvent
  <2>. QED  BY <2>1, <2>2 DEF Inv, EventsSound
<1>. QED  BY <1>1, <1>2, <1>3 DEF Inv

-----------------------------------------------------------------------------
(* A frame.                                                                *)

\* Once the modifiers have been told to the server, the difference from the last
\* frame makes up for whatever Ctrl+Alt+Del did.
LEMMA FrameModifiers ==
    ASSUME Inv, NEW clicked \in BOOLEAN, NEW focus \in BOOLEAN, NEW pos, NEW grabbed, NEW wheel,
           Frame(clicked, focus, pos, grabbed, wheel)
    PROVE  ModifiersSound'
<1>. DEFINE h0 == IF clicked THEN AfterCtrlAltDel(held) ELSE held
            h1 == AfterModifiers(h0, focus)
            C  == IF clicked THEN CtrlAlt ELSE {}
<1>1. held' = AfterKeys(h1, focus) /\ lastModifiers' = ModifiersSeen(focus) /\ focused' = focus
      /\ cancelled' = (cancelled \cup C) \cap (lastModifiers \cap ModifiersSeen(focus))
  BY DEF Frame
<1>2. held \cap Modifiers = lastModifiers \ cancelled /\ lastModifiers \subseteq Modifiers
  BY DEF Inv, ModifiersSound, TypeOK
<1>3. h0 \cap Modifiers = (lastModifiers \ cancelled) \ C
  BY <1>2, KeysAssumption DEF AfterCtrlAltDel
<1>4. AfterKeys(h1, focus) \cap Modifiers = h1 \cap Modifiers
  BY KeysAssumption DEF AfterKeys, Ends
<1>5. CASE focus
  <2>1. h1 = (h0 \ (lastModifiers \ Reported)) \cup (Reported \ lastModifiers)
        /\ ModifiersSeen(focus) = Reported /\ Reported \subseteq Modifiers
    BY <1>5 DEF AfterModifiers, ModifiersSeen, Reported
  <2>. HIDE DEF h0, h1, C
  <2>2. h1 \cap Modifiers = ((h0 \cap Modifiers) \ (lastModifiers \ Reported)) \cup (Reported \ lastModifiers)
    BY <2>1
  <2>3. h1 \cap Modifiers = Reported \ ((cancelled \cup C) \cap (lastModifiers \cap Reported))
    BY <2>2, <1>3
  <2>. QED  BY <1>1, <1>4, <1>5, <2>1, <2>3 DEF ModifiersSound
<1>6. CASE ~focus
  <2>1. h1 = h0 \ lastModifiers /\ ModifiersSeen(focus) = {}
    BY <1>6 DEF AfterModifiers, ModifiersSeen
  <2>. HIDE DEF h0, h1, C
  <2>. QED  BY <1>1, <1>3, <1>4, <2>1 DEF ModifiersSound
<1>. QED  BY <1>5, <1>6

\* A key with a release among the events ends released, or pressed again.
LEMMA ReleaseEnds ==
    ASSUME Inv, NEW k \in Keys, NEW i \in 1 .. Len(keyEvents),
           keyEvents[i] = [key |-> k, pressed |-> FALSE]
    PROVE  k \in Ends(FALSE) \/ k \in swallowed \cup down
<1>1. keyEvents[i].key = k
  OBVIOUS
<1>2. PICK j \in LastEvent(k) : TRUE
  BY <1>1 DEF Inv, EventsSound
<1>3. keyEvents[j] \in [key : Keys, pressed : BOOLEAN]
  <2>1. j \in 1 .. Len(keyEvents)
    BY <1>2 DEF LastEvent
  <2>2. keyEvents \in Seq([key : Keys, pressed : BOOLEAN])
    BY DEF Inv, TypeOK
  <2>. DEFINE Events == [key : Keys, pressed : BOOLEAN]
  <2>. HIDE DEF Events
  <2>3. keyEvents \in Seq(Events)
    BY <2>2 DEF Events
  <2>4. keyEvents[j] \in Events
    BY <2>1, <2>3, ElementType
  <2>. QED  BY <2>4 DEF Events
<1>4. CASE keyEvents[j].pressed
  BY <1>2, <1>4 DEF Inv, EventsSound
<1>5. CASE keyEvents[j].pressed = FALSE
  BY <1>2, <1>5 DEF Ends
<1>. QED  BY <1>3, <1>4, <1>5

LEMMA FrameKeys ==
    ASSUME Inv, NEW clicked \in BOOLEAN, NEW focus \in BOOLEAN, NEW pos, NEW grabbed, NEW wheel,
           Frame(clicked, focus, pos, grabbed, wheel)
    PROVE  StuckByFocusOnly'
<1>. DEFINE h0 == IF clicked THEN AfterCtrlAltDel(held) ELSE held
            h1 == AfterModifiers(h0, focus)
<1>1. held' = AfterKeys(h1, focus) /\ down' = down
      /\ swallowed' = IF focus THEN swallowed \ Ends(FALSE) ELSE swallowed \cup Ends(FALSE)
  BY DEF Frame
<1>2. h1 \cap Keys \subseteq held
  BY KeysAssumption DEF AfterModifiers, AfterCtrlAltDel, Reported
<1>. HIDE DEF h1
<1>. SUFFICES ASSUME NEW k \in (held' \cap Keys) \ down'
              PROVE  k \in swallowed'
  BY DEF StuckByFocusOnly
<1>3. k \in held /\ k \notin Ends(TRUE) => k \in swallowed \cup Ends(FALSE)
  <2>. SUFFICES ASSUME k \in held, k \notin swallowed PROVE k \in Ends(FALSE)
    OBVIOUS
  <2>1. PICK i \in 1 .. Len(keyEvents) : keyEvents[i] = [key |-> k, pressed |-> FALSE]
    BY <1>1 DEF Inv, StuckByFocusOnly
  <2>. QED  BY <1>1, <2>1, ReleaseEnds
<1>4. k \in Ends(TRUE) => k \in swallowed
  BY <1>1 DEF Ends, Inv, EventsSound
<1>5. Ends(TRUE) \cap Ends(FALSE) = {}
  <2>. SUFFICES ASSUME NEW c \in Ends(TRUE) \cap Ends(FALSE) PROVE FALSE
    OBVIOUS
  <2>1. PICK i \in LastEvent(c), j \in LastEvent(c) :
           keyEvents[i].pressed = TRUE /\ keyEvents[j].pressed = FALSE
    BY DEF Ends
  <2>2. i = j
    BY <2>1 DEF LastEvent, Inv, TypeOK
  <2>. QED  BY <2>1, <2>2
<1>6. CASE focus
  BY <1>1, <1>2, <1>3, <1>4, <1>5, <1>6 DEF AfterKeys
<1>7. CASE ~focus
  <2>1. k \in held /\ swallowed' = swallowed \cup Ends(FALSE)
    BY <1>1, <1>2, <1>7 DEF AfterKeys
  <2>. QED  BY <1>3, <1>4, <2>1
<1>. QED  BY <1>6, <1>7

\* The wheel turns over the picture, where the pointer has just moved to.
LEMMA FramePointer ==
    ASSUME Inv, NEW clicked \in BOOLEAN, NEW focus \in BOOLEAN, NEW pos \in Positions,
           NEW grabbed \in BOOLEAN, NEW wheel \in BOOLEAN,
           Frame(clicked, focus, pos, grabbed, wheel)
    PROVE  /\ PointerInside'
           /\ lastMouse' \in Nat
           /\ pointer' \in [x : Nat, width : Widths]
<1>1. fbWidth \in Widths /\ lastMouse \in Nat /\ pointer \in [x : Nat, width : Widths]
      /\ pointer.x < pointer.width
  BY DEF Inv, TypeOK, PointerInside
<1>2. Point(pos, grabbed, wheel)
  BY DEF Frame
<1>3. CASE Moves(pos, grabbed)
  <2>1. lastMouse' = Column(pos) /\ pointer' = [x |-> Column(pos), width |-> fbWidth]
    BY <1>2, <1>3 DEF Point
  <2>2. Column(pos) \in Nat /\ Column(pos) < fbWidth
    BY <1>1, ColumnInside
  <2>. QED  BY <1>1, <2>1, <2>2 DEF PointerInside
<1>4. CASE ~Moves(pos, grabbed)
  <2>1. lastMouse' = lastMouse /\ pointer' = pointer
    BY <1>2, <1>4 DEF Point, Moves, ScrollsAt
  <2>. QED  BY <1>1, <2>1 DEF PointerInside
<1>. QED  BY <1>3, <1>4

LEMMA FrameStep ==
    ASSUME Inv, NEW clicked \in BOOLEAN, NEW focus \in BOOLEAN, NEW pos \in Positions,
           NEW grabbed \in BOOLEAN, NEW wheel \in BOOLEAN,
           Frame(clicked, focus, pos, grabbed, wheel)
    PROVE  Inv'
<1>1. ModifiersSound' /\ StuckByFocusOnly' /\ PointerInside'
  BY FrameModifiers, FrameKeys, FramePointer
<1>2. EventsSound'
  BY DEF Frame, EventsSound, LastEvent
<1>3. TypeOK'
  <2>1. held' \subseteq Modifiers \cup Keys /\ lastModifiers' \subseteq Modifiers
        /\ swallowed' \subseteq Keys /\ cancelled' \subseteq Modifiers
    BY DEF Inv, TypeOK, Frame, AfterKeys, AfterModifiers, AfterCtrlAltDel, ModifiersSeen, Reported, Ends
  <2>2. keyEvents' \in Seq([key : Keys, pressed : BOOLEAN])
    BY DEF Frame
  <2>. QED  BY <2>1, <2>2, FramePointer DEF Inv, TypeOK, Frame
<1>. QED  BY <1>1, <1>2, <1>3 DEF Inv

-----------------------------------------------------------------------------
(* The theorems.                                                           *)

\* Inv is inductive.
THEOREM Invariance == Spec => []Inv
<1>1. ASSUME Inv, [Next]_vars PROVE Inv'
  <2>1. CASE \E k \in Modifiers \cup Keys : Press(k) \/ Release(k)
    BY <1>1, <2>1, PressStep, ReleaseStep
  <2>2. CASE SwitchWindow \/ Resize
    BY <1>1, <2>2, OutsideStep
  <2>3. CASE \E clicked, focus, grabbed, wheel \in BOOLEAN, pos \in Positions :
               Frame(clicked, focus, pos, grabbed, wheel)
    BY <1>1, <2>3, FrameStep
  <2>4. CASE UNCHANGED vars
    <3>1. \A c : LastEvent(c)' = LastEvent(c)
      BY <2>4 DEF LastEvent, vars, userVars
    <3>2. EventsSound'
      BY <1>1, <2>4, <3>1 DEF Inv, EventsSound, vars, userVars, ghosts
    <3>. QED  BY <1>1, <2>4, <3>2 DEF Inv, TypeOK, ModifiersSound, StuckByFocusOnly, PointerInside,
                     vars, userVars, windowVars, serverVars, ghosts
  <2>. QED  BY <1>1, <2>1, <2>2, <2>3, <2>4 DEF Next
<1>. QED  BY <1>1, InitInv, PTL DEF Spec

\* Every variable keeps its type.
THEOREM TypeCorrect == Spec => []TypeOK
BY Invariance, PTL DEF Inv

\* For any keyboard and any order of keys, focus changes, window switches and
\* Ctrl+Alt+Del, the server holds the modifiers the window believes it holds, and
\* none without the focus (app.rs:1037-1094).
THEOREM ModifiersAlways == Spec => []ModifiersInStep
<1>1. Inv => ModifiersInStep
  BY DEF Inv, ModifiersSound, ModifiersInStep
<1>. QED  BY <1>1, Invariance, PTL

\* A key stays down on the server without the user holding it only by a release
\* the remote screen has not seen (app.rs:1081).
THEOREM StuckByFocusAlways == Spec => []StuckByFocusOnly
BY Invariance, PTL DEF Inv

\* For any desktop sizes, zoom and pointer positions, a pointer event is within
\* the desktop of the frame that sends it (app.rs:1005).
THEOREM PointerAlways == Spec => []PointerInside
BY Invariance, PTL DEF Inv
=============================================================================

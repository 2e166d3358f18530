------------------------------- MODULE InputState -------------------------------
(***************************************************************************)
(* What the server believes of the user's keyboard and pointer: the input   *)
(* part of render_framebuffer and the Ctrl+Alt+Del button (app.rs).  The    *)
(* key and pointer commands reach the server in the order they are sent     *)
(* (InputsInOrder of VncSession), so `held` is kept as they are sent.      *)
(*                                                                         *)
(* egui is not the repository's: which widget has the focus, which key      *)
(* events a frame has and where the pointer is are choices.  A key the      *)
(* viewer has no keysym for, and text, which is pressed and released at     *)
(* once, leave no key held and are left out.  Of the pointer one axis is    *)
(* modelled; the other is treated alike.                                   *)
(*                                                                         *)
(* A definition X_Y is X with the slip Y in it.  No action uses it: it     *)
(* stands in for X when a property is tried against a faulty program.      *)
(***************************************************************************)
EXTENDS Integers, Sequences

CONSTANTS
    Modifiers,    \* Ctrl, Shift and Alt
    CtrlAlt,      \* the two that Ctrl+Alt+Del presses
    Keys,         \* other keys with a keysym
    Delete,       \* one of them
    Widths,       \* the widths the desktop may have
    Positions,    \* where the pointer may be, from the left edge of the picture
    Zoom,         \* the scale of the picture, as a fraction <<num, den>>
    MaxEvents     \* bound: key events in one frame

ASSUME KeysAssumption ==
    /\ Modifiers \cap Keys = {}
    /\ CtrlAlt \subseteq Modifiers
    /\ Delete \in Keys
ASSUME GeometryAssumption ==
    /\ Widths \subseteq Nat \ {0}
    /\ Positions \subseteq Int
    /\ Zoom \in (Nat \ {0}) \X (Nat \ {0})
ASSUME MaxEventsAssumption == MaxEvents \in Nat

VARIABLES
    \* The user, and what egui tells the next frame.
    down,          \* the keys the user holds down
    windowFocus,   \* the operating system gives the window the keyboard
    keyEvents,     \* the key events of the next frame, as [key, pressed]
    \* The window.
    fbWidth,       \* fb_width
    lastModifiers, \* last_modifiers
    lastMouse,     \* last_mouse_pos
    \* The server.
    held,          \* the keys it believes to be down
    pointer,       \* the last pointer event: [x, width of the desktop then]
    \* Ghosts.
    focused,       \* the last frame gave the remote screen the focus
    cancelled,     \* modifiers Ctrl+Alt+Del released under the user's fingers
    swallowed      \* keys whose release no frame with the focus has seen

userVars   == <<down, windowFocus, keyEvents>>
windowVars == <<fbWidth, lastModifiers, lastMouse>>
serverVars == <<held, pointer>>
ghosts     == <<focused, cancelled, swallowed>>
vars == <<userVars, windowVars, serverVars, ghosts>>

-----------------------------------------------------------------------------
(* The user.                                                               *)

Press(k) ==
    /\ k \notin down /\ down' = down \cup {k}
    /\ IF k \in Keys /\ windowFocus
       THEN /\ Len(keyEvents) < MaxEvents
            /\ keyEvents' = Append(keyEvents, [key |-> k, pressed |-> TRUE])
       ELSE UNCHANGED keyEvents
    /\ swallowed' = swallowed \ {k}
    /\ UNCHANGED <<windowFocus, windowVars, serverVars, focused, cancelled>>

Release(k) ==
    /\ k \in down /\ down' = down \ {k}
    /\ IF k \in Keys /\ windowFocus
       THEN /\ Len(keyEvents) < MaxEvents
            /\ keyEvents' = Append(keyEvents, [key |-> k, pressed |-> FALSE])
            /\ UNCHANGED swallowed
       ELSE /\ swallowed' = IF k \in Keys THEN swallowed \cup {k} ELSE swallowed
            /\ UNCHANGED keyEvents
    /\ UNCHANGED <<windowFocus, windowVars, serverVars, focused, cancelled>>

\* Alt+Tab, a click on another window, and back.
SwitchWindow ==
    /\ windowFocus' = ~windowFocus
    /\ UNCHANGED <<down, keyEvents, windowVars, serverVars, ghosts>>

\* The modifiers egui reports: none while another window has the keyboard.
Reported == IF windowFocus THEN down \cap Modifiers ELSE {}

-----------------------------------------------------------------------------
(* A frame of the window.                                                  *)

\* The six key events of the button, in the order of app.rs:551-556.
AfterCtrlAltDel(h) == h \ (CtrlAlt \cup {Delete})

\* The releases on losing the focus, or the difference of the modifiers, sent as
\* presses and releases.
AfterModifiers_FocusLossIgnored(h, focus) ==
    IF focus THEN (h \ (lastModifiers \ Reported)) \cup (Reported \ lastModifiers) ELSE h
AfterModifiers(h, focus) ==
    IF focus THEN (h \ (lastModifiers \ Reported)) \cup (Reported \ lastModifiers)
             ELSE h \ lastModifiers
ModifiersSeen(focus) == IF focus THEN Reported ELSE {}

\* The key events, the last of each key counting; none without the focus.
LastEvent(k) == {i \in 1 .. Len(keyEvents) :
                    /\ keyEvents[i].key = k
                    /\ \A j \in i + 1 .. Len(keyEvents) : keyEvents[j].key # k}
Ends(pressed) == {k \in Keys : \E i \in LastEvent(k) : keyEvents[i].pressed = pressed}
AfterKeys_PressesOnly(h, focus) == IF focus THEN h \cup Ends(TRUE) ELSE h
AfterKeys(h, focus) == IF focus THEN (h \ Ends(FALSE)) \cup Ends(TRUE) ELSE h

\* The column under the pointer: (local.x / scale).clamp(0, fb_width - 1).
Scaled(pos) == (pos * Zoom[2]) \div Zoom[1]
Column_RightEdge(pos) ==
    IF pos < 0 THEN 0 ELSE IF Scaled(pos) > fbWidth THEN fbWidth ELSE Scaled(pos)
Column_NoLeftEdge(pos) == IF Scaled(pos) > fbWidth - 1 THEN fbWidth - 1 ELSE Scaled(pos)
Column(pos) ==
    IF pos < 0 THEN 0 ELSE IF Scaled(pos) > fbWidth - 1 THEN fbWidth - 1 ELSE Scaled(pos)

\* Rect::contains takes both edges in.
InPicture(pos) == 0 <= pos /\ pos * Zoom[2] <= fbWidth * Zoom[1]

\* The pointer part: it moves the remote pointer while it is over the picture or
\* was pressed on it and not let go; the wheel is sent at last_mouse_pos.
Moves(pos, grabbed) == grabbed \/ InPicture(pos)
ScrollsAt(pos) == InPicture(pos)
Point(pos, grabbed, wheel) ==
    /\ lastMouse' = IF Moves(pos, grabbed) THEN Column(pos) ELSE lastMouse
    /\ pointer' = IF Moves(pos, grabbed) \/ (wheel /\ ScrollsAt(pos))
                  THEN [x |-> lastMouse', width |-> fbWidth]
                  ELSE pointer

\* The toolbar, then the pointer and the keyboard of the remote screen.
Frame(clicked, focus, pos, grabbed, wheel) ==
    LET h0 == IF clicked THEN AfterCtrlAltDel(held) ELSE held
        h1 == AfterModifiers(h0, focus)
    IN  /\ held' = AfterKeys(h1, focus)
        /\ lastModifiers' = ModifiersSeen(focus)
        /\ Point(pos, grabbed, wheel)
        /\ keyEvents' = <<>>
        /\ focused' = focus
        /\ cancelled' = (cancelled \cup (IF clicked THEN CtrlAlt ELSE {}))
                            \cap (lastModifiers \cap ModifiersSeen(focus))
        /\ swallowed' = IF focus THEN swallowed \ Ends(FALSE) ELSE swallowed \cup Ends(FALSE)
        /\ UNCHANGED <<down, windowFocus, fbWidth>>

\* A DesktopSize event between two frames.
Resize ==
    /\ \E w \in Widths : fbWidth' = w
    /\ UNCHANGED <<userVars, lastModifiers, lastMouse, serverVars, ghosts>>

-----------------------------------------------------------------------------

Init ==
    /\ down = {} /\ windowFocus = TRUE /\ keyEvents = <<>>
    /\ fbWidth \in Widths /\ lastModifiers = {} /\ lastMouse = 0
    /\ held = {} /\ pointer = [x |-> 0, width |-> fbWidth]
    /\ focused = FALSE /\ cancelled = {} /\ swallowed = {}

Next ==
    \/ \E k \in Modifiers \cup Keys : Press(k) \/ Release(k)
    \/ SwitchWindow
    \/ \E clicked, focus, grabbed, wheel \in BOOLEAN, pos \in Positions :
          Frame(clicked, focus, pos, grabbed, wheel)
    \/ Resize

Spec == Init /\ [][Next]_vars

-----------------------------------------------------------------------------
(* Properties.                                                             *)

\* Every variable has its type.
TypeOK ==
    /\ down \subseteq Modifiers \cup Keys /\ held \subseteq Modifiers \cup Keys
    /\ windowFocus \in BOOLEAN /\ focused \in BOOLEAN
    /\ keyEvents \in Seq([key : Keys, pressed : BOOLEAN])
    /\ fbWidth \in Widths /\ lastMouse \in Nat
    /\ lastModifiers \subseteq Modifiers /\ cancelled \subseteq Modifiers
    /\ swallowed \subseteq Keys
    /\ pointer \in [x : Nat, width : Widths]

\* The server holds the modifiers the window believes it holds, whatever order
\* of keys, focus changes, window switches and frames led there, but for those
\* the Ctrl+Alt+Del button has released while the user keeps them down; and none
\* once the remote screen has lost the focus ("so they don't get stuck down",
\* app.rs:1082).
ModifiersInStep ==
    /\ held \cap Modifiers = lastModifiers \ cancelled
    /\ ~focused => held \cap Modifiers = {}

\* Another key stays down on the server without the user holding it only when its
\* release came while something else had the focus (app.rs:1081-1094 releases
\* modifiers alone).
StuckByFocusOnly ==
    \A k \in (held \cap Keys) \ down :
        k \in swallowed \/ \E i \in 1 .. Len(keyEvents) : keyEvents[i] = [key |-> k, pressed |-> FALSE]

\* A pointer event, a wheel event at the remembered position included, is within
\* the desktop of the frame that sends it, also after the desktop has shrunk.
PointerInside == pointer.x < pointer.width
===============================================================================

------------------------------- MODULE Input -------------------------------
(***************************************************************************)
(* Input from Android's events to the X devices: what is pressed in the X  *)
(* server, and whether it is let go.  The activity turns touches, taps,    *)
(* long presses, a hardware mouse, a stylus and keys into events on the    *)
(* socket (TouchInputHandler, TapGestureDetector, InputStrategyInterface,  *)
(* InputEventSender, activity.c); the server's input thread reads them     *)
(* (handleLorieEvents) and leaves the touches to the main thread           *)
(* (handleTouchEvent).                                                     *)
(*                                                                         *)
(* Positions, pressure and tilt are left out, so the events that only move *)
(* the cursor or scroll are not there, and neither are the events that     *)
(* type text.  Several parts of the activity press the same button of the  *)
(* same X device; the server keeps one set of buttons for each device.     *)
(* The keyboard has only the socket in common with the pointers: in a      *)
(* behaviour the user uses the one or the other.                           *)
(***************************************************************************)
EXTENDS Integers, SequencesExt, FiniteSetsExt

CONSTANTS Fingers,    \* pointer ids
          Keys,       \* keys that have a character; also the codes of keys
          MaxOps,     \* bound on what the user and Android do
          MaxBacklog, \* the user does no more while more events wait
          MaxDrops    \* bound on lost connections

ASSUME FingersAssumption == Fingers \subseteq Nat /\ IsFiniteSet(Fingers)
ASSUME KeysAssumption == Keys \subseteq Nat \ {0} /\ IsFiniteSet(Keys) /\ Keys # {}
ASSUME BoundsAssumption == {MaxOps, MaxBacklog, MaxDrops} \subseteq Nat

Buttons == 1..3             \* by the number of fingers: left, right, middle
Left == 1
NoButton == 0
MouseButtons == {Left}      \* bound: the buttons used on the mouse and on the stylus
Modes == {"touch",          \* NullInputStrategy
          "pointer",        \* simulated touch, or trackpad
          "tapToMove"}      \* trackpad with tapToMove
Tools == {"pen", "eraser"}
Devices == {"mouse"} \cup Tools
Ctrl == -1
AltGr == -2
Mods == {Ctrl, AltGr}
Codes == Keys \cup Mods
Up == 0
Text == -3

VARIABLES
  user,      \* what is used in this behaviour
  (* the activity *)
  conn,      \* conn_fd # -1
  fingers,   \* the pointers of Android's gesture
  mode,      \* mInputStrategy and tapToMove
  held,      \* mHeldButton of the strategy
  pointers,  \* the ids for which pointers[] is true
  tap,       \* the TapGestureDetector
  click,     \* a delayed tap waits in mGestureListenerHandler
  mouse,     \* savedBS of the HardwareMouseListener
  stylus,    \* the device and the buttons that StylusListener sent last
  asMouse,   \* stylusIsMouse
  avail,     \* Android has a stylus
  keyboard,  \* keys and modifiers that are down, preferScancodes, the sender's sets
  layout,    \* the code that android_to_linux_keycode has for each key
  wire,      \* events on the socket
  (* the server *)
  work,      \* queued calls of handleTouchEvent
  touches,   \* active touches of lorieTouch
  pressed,   \* the buttons that are down on each device
  prev,      \* buttons_prev, and the device that had them
  present,   \* loriePen and lorieEraser exist
  codes,     \* the keys that are down on lorieKeyboard
  (* history *)
  stray,     \* fingers whose events the server did not all get, or that only hover
  doubt,     \* buttons of devices whose release was not sent, or to another device
  how,       \* as what each key was pressed
  upset,     \* codes of keys that were not released as they were pressed
  ops, drops

activity == <<conn, fingers, mode, held, pointers, tap, click, mouse, stylus, asMouse, avail>>
typing == <<keyboard, layout, codes, how, upset>>
server == <<work, touches, pressed, prev, present>>
history == <<stray, doubt, ops, drops>>
vars == <<user, activity, typing, wire, server, history>>

Init ==
  /\ user \in {"pointers", "keyboard"}
  /\ conn = TRUE /\ fingers = {} /\ held = NoButton
  /\ mode \in (IF user = "pointers" THEN Modes ELSE {"touch"})
  /\ pointers = {} /\ click = FALSE /\ mouse = {}
  /\ tap = [count |-> 0, cancelled |-> FALSE, point |-> FALSE, timer |-> FALSE]
  /\ stylus = [dev |-> "pen", buttons |-> {}]
  /\ asMouse = FALSE /\ avail = TRUE
  /\ keyboard = [down |-> {}, mods |-> {}, scan |-> FALSE, text |-> {}, keys |-> {}]
  /\ layout \in (IF user = "keyboard" THEN [Keys -> Keys] ELSE {[k \in Keys |-> k]})
  /\ wire = << >> /\ work = << >>
  /\ touches = {} /\ pressed = [d \in Devices |-> {}]
  /\ prev = [dev |-> "pen", buttons |-> {}]
  /\ present = TRUE /\ codes = {}
  /\ stray = {} /\ doubt = {} /\ how = [k \in Keys |-> Up] /\ upset = {}
  /\ ops = 0 /\ drops = 0
-----------------------------------------------------------------------------
(* Events on the socket *)

Touch(kind, f) == [t |-> "touch", kind |-> kind, f |-> f]
Mouse(b, down) == [t |-> "mouse", b |-> b, down |-> down]
Click(b) == <<Mouse(b, TRUE), Mouse(b, FALSE)>>
Key(c, down) == [t |-> "key", c |-> c, down |-> down]

\* The fingers of the touch events and the releases of the mouse among evs
FingersOf(evs) == {e.f : e \in {x \in ToSet(evs) : x.t = "touch"}}
Releases(evs) == {<<"mouse", e.b>> : e \in {x \in ToSet(evs) : x.t = "mouse" /\ ~x.down}}

\* The activity sends evs, or nothing if it is not connected.  newStray and newDoubt are
\* what it should have sent besides.
Send(evs, newStray, newDoubt) ==
  /\ wire' = IF conn THEN wire \o evs ELSE wire
  /\ stray' = IF conn THEN (stray \ FingersOf(evs)) \cup newStray
                      ELSE stray \cup FingersOf(evs) \cup newStray
  /\ doubt' = IF conn THEN (doubt \ Releases(evs)) \cup newDoubt
                      ELSE doubt \cup Releases(evs) \cup newDoubt
  /\ UNCHANGED drops

UserActs(u) ==
  /\ user = u
  /\ ops < MaxOps /\ ops' = ops + 1
  /\ Len(wire) + Len(work) <= MaxBacklog
-----------------------------------------------------------------------------
(* Fingers *)

\* The members of S from the least on
Sorted(S) ==
  CHOOSE s \in [1..Cardinality(S) -> S] : \A i, j \in 1..Cardinality(S) : i < j => s[i] < s[j]
ForEach(kind, S) == [i \in 1..Cardinality(S) |-> Touch(kind, Sorted(S)[i])]

\* ACTION_DOWN or ACTION_POINTER_DOWN.  The second tap of a double tap comes before the
\* delayed click of the first; with tapToMove it presses the button.
FingerDown(f, double) ==
  LET first == fingers = {} IN
  /\ UserActs("pointers") /\ f \notin fingers
  /\ double => first /\ click /\ mode = "tapToMove"
  /\ fingers' = fingers \cup {f}
  /\ Send(IF mode = "touch" THEN <<Touch("begin", f)>>
          ELSE IF double THEN <<Mouse(Left, TRUE)>> ELSE << >>, {}, {})
  /\ held' = IF double THEN Left ELSE held
  /\ click' = (click /\ ~double)
  /\ tap' = IF first THEN [count |-> 1, cancelled |-> FALSE, point |-> TRUE, timer |-> TRUE]
            ELSE [tap EXCEPT !.count = Max({@, Cardinality(fingers')}), !.point = TRUE]
  /\ UNCHANGED <<user, conn, mode, pointers, mouse, stylus, asMouse, avail, typing, server>>

\* ACTION_MOVE.  pointers[] is cleared only for the ids of the event, so an id that was ever
\* moved stays true.
FingerMove(far) ==
  /\ UserActs("pointers") /\ fingers # {}
  /\ IF mode = "touch"
     THEN /\ pointers' = pointers \cup fingers
          /\ Send(ForEach("update", fingers) \o ForEach("end", Fingers \ pointers'), {}, {})
     ELSE UNCHANGED <<pointers, wire, stray, doubt, drops>>
  /\ tap' = IF far /\ ~tap.cancelled THEN [tap EXCEPT !.cancelled = TRUE, !.timer = FALSE] ELSE tap
  /\ UNCHANGED <<user, conn, fingers, mode, held, click, mouse, stylus, asMouse, avail, typing, server>>

\* ACTION_HOVER_ENTER, _MOVE or _EXIT of the pointers S above the screen is handled like a move of
\* fingers on it, and nothing ends the touches that it begins.  It says nothing to the strategies
\* and detectors.
Hover(S) ==
  /\ UserActs("pointers") /\ fingers = {} /\ mode = "touch"
  /\ pointers' = pointers \cup S
  /\ Send(ForEach("update", S) \o ForEach("end", Fingers \ pointers'), S, {})
  /\ UNCHANGED <<user, conn, fingers, mode, held, tap, click, mouse, stylus, asMouse, avail, typing, server>>

\* Mutant: the left button is let go of, whatever is held.
OnMotionUpLeft(last) == IF last /\ held # NoButton THEN <<Mouse(Left, FALSE)>> ELSE << >>

\* The strategy's onMotionEvent lets go of the button when the last finger is lifted.
OnMotionUp(last) == IF last /\ held # NoButton THEN <<Mouse(held, FALSE)>> ELSE << >>

\* A tap of more fingers than there are buttons, or beside the image, does nothing.
TapClicks(inside) == ~tap.cancelled /\ tap.count \in Buttons /\ (inside \/ mode = "tapToMove")
Delayed == mode = "tapToMove" /\ tap.count = Left

\* ACTION_UP or ACTION_POINTER_UP: the strategy or the touch first, then the tap detector
FingerUp(f, inside) ==
  LET last == fingers = {f}
      tapped == last /\ mode # "touch" /\ TapClicks(inside) IN
  /\ UserActs("pointers") /\ f \in fingers
  /\ fingers' = fingers \ {f}
  /\ Send(IF mode = "touch" THEN <<Touch("update", f), Touch("end", f)>>
          ELSE OnMotionUp(last) \o (IF tapped /\ ~Delayed THEN Click(tap.count) ELSE << >>), {}, {})
  /\ held' = IF last THEN NoButton ELSE held
  /\ click' = (click \/ (tapped /\ Delayed))
  /\ tap' = [tap EXCEPT !.timer = FALSE, !.point = @ /\ ~last]
  /\ UNCHANGED <<user, conn, mode, pointers, mouse, stylus, asMouse, avail, typing, server>>

\* ACTION_CANCEL, with f as the first pointer: only that one is ended, and a held button is not
\* let go.
Cancel(f) ==
  /\ UserActs("pointers") /\ f \in fingers
  /\ fingers' = {}
  /\ IF mode = "touch"
     THEN Send(<<Touch("update", f), Touch("end", f)>>, fingers \ {f}, {})
     ELSE Send(<< >>, {}, {<<"mouse", held>>} \ {<<"mouse", NoButton>>})
  /\ tap' = [tap EXCEPT !.timer = FALSE]
  /\ UNCHANGED <<user, conn, mode, held, pointers, click, mouse, stylus, asMouse, avail, typing, server>>

\* "Sometimes Android does not send ACTION_POINTER_UP/ACTION_UP" (InputEventSender.java:122).
MissedUp(f) ==
  /\ UserActs("pointers") /\ f \in fingers
  /\ fingers' = fingers \ {f}
  /\ Send(<< >>, IF mode = "touch" THEN {f} ELSE {},
          IF fingers' = {} THEN {<<"mouse", held>>} \ {<<"mouse", NoButton>>} ELSE {})
  /\ UNCHANGED <<user, conn, mode, held, pointers, tap, click, mouse, stylus, asMouse, avail,
                 typing, server>>

\* Mutant: a long press leaves the gesture eligible for a tap.
LongPressThenTap(inside) ==
  LET press == tap.count \in Buttons /\ mode = "pointer" /\ inside IN
  /\ tap.timer /\ ~click
  /\ tap' = [tap EXCEPT !.point = FALSE, !.timer = FALSE]
  /\ held' = IF press THEN tap.count ELSE held
  /\ Send(IF press THEN <<Mouse(tap.count, TRUE)>> ELSE << >>, {},
          IF press /\ fingers = {} THEN {<<"mouse", tap.count>>} ELSE {})
  /\ UNCHANGED <<user, conn, fingers, mode, pointers, click, mouse, stylus, asMouse, avail, typing,
                 server, ops>>

\* The long press timeout, which is longer than that of a double tap.  Only the strategies
\* without tapToMove press the button, also if the last finger is gone and that was missed.
LongPress(inside) ==
  LET press == tap.count \in Buttons /\ mode = "pointer" /\ inside IN
  /\ tap.timer /\ ~click
  /\ tap' = [tap EXCEPT !.cancelled = TRUE, !.point = FALSE, !.timer = FALSE]
  /\ held' = IF press THEN tap.count ELSE held
  /\ Send(IF press THEN <<Mouse(tap.count, TRUE)>> ELSE << >>, {},
          IF press /\ fingers = {} THEN {<<"mouse", tap.count>>} ELSE {})
  /\ UNCHANGED <<user, conn, fingers, mode, pointers, click, mouse, stylus, asMouse, avail, typing,
                 server, ops>>

\* The delayed click goes to the strategy of that time.
TapTimeout ==
  /\ click /\ click' = FALSE
  /\ Send(IF mode = "touch" THEN << >> ELSE Click(Left), {}, {})
  /\ UNCHANGED <<user, conn, fingers, mode, held, pointers, tap, mouse, stylus, asMouse, avail,
                 typing, server, ops>>
-----------------------------------------------------------------------------
(* Mouse, stylus and preferences *)

\* HardwareMouseListener.onTouch compares the buttons with those it saved.
MouseEvent(bs) ==
  LET changed == (mouse \cup bs) \ (mouse \cap bs) IN
  /\ UserActs("pointers") /\ changed # {}
  /\ mouse' = bs
  /\ Send([i \in 1..Cardinality(changed) |-> Mouse(Sorted(changed)[i], Sorted(changed)[i] \in bs)],
          {}, {})
  /\ UNCHANGED <<user, conn, fingers, mode, held, pointers, tap, click, stylus, asMouse, avail,
                 typing, server>>

\* StylusListener.onTouch: an event that brings nothing new is not sent, whatever its tool.  A
\* stylus is known by the tool of the event, its X devices by the sources of Android's devices.
StylusEvent(tool, bs, moved) ==
  LET dev == IF asMouse THEN "mouse" ELSE tool IN
  /\ UserActs("pointers")
  /\ moved \/ bs # stylus.buttons
  /\ stylus' = [dev |-> dev, buttons |-> bs]
  /\ Send(<<[t |-> "stylus", dev |-> dev, buttons |-> bs]>>, {},
          IF conn THEN {} ELSE Devices \X (bs \cup stylus.buttons))
  /\ UNCHANGED <<user, conn, fingers, mode, held, pointers, tap, click, mouse, asMouse, avail,
                 typing, server>>

\* refreshInputDevices after a device was added or removed
refreshInputDevices ==
  /\ UserActs("pointers")
  /\ avail' = ~avail
  /\ Send(<<[t |-> "enable", on |-> avail']>>, {}, {})
  /\ UNCHANGED <<user, conn, fingers, mode, held, pointers, tap, click, mouse, stylus, asMouse,
                 typing, server>>

\* setInputMode makes a new strategy, whatever the preference that changed.
reloadPreferences(m, am, scan) ==
  /\ UserActs(user)
  /\ IF user = "pointers" THEN scan = keyboard.scan ELSE m = mode /\ am = asMouse
  /\ mode' = m /\ held' = NoButton /\ asMouse' = am
  /\ keyboard' = [keyboard EXCEPT !.scan = scan]
  /\ Send(<<[t |-> "enable", on |-> avail]>>, IF m # mode THEN fingers ELSE {},
          {<<"mouse", held>>} \ {<<"mouse", NoButton>>})
  /\ UNCHANGED <<user, conn, fingers, pointers, tap, click, mouse, stylus, avail, layout, codes,
                 how, upset, server>>
-----------------------------------------------------------------------------
(* Keys *)

no_modifiers == keyboard.mods = {} \/ AltGr \in keyboard.mods

\* The code of a key: the scan code of the keyboard, or that of Android's key code
CodeOf(k) == IF keyboard.scan \/ ~no_modifiers THEN k ELSE layout[k]

Typed == ~keyboard.scan /\ no_modifiers

\* AltGr is let go of while the text is typed.
TextEvent ==
  IF AltGr \in keyboard.mods THEN <<Key(AltGr, FALSE), Key(AltGr, TRUE)>> ELSE << >>

\* newUpset are codes of keys that are not released as they were pressed.
SendKeys(evs, newUpset) ==
  /\ Send(evs, {}, {})
  /\ upset' = upset \cup newUpset \cup (IF conn THEN {} ELSE {e.c : e \in ToSet(evs)})

KeyPress(k, newUpset) ==
  LET evs == IF Typed THEN TextEvent ELSE <<Key(CodeOf(k), TRUE)>> IN
  /\ keyboard' = IF Typed THEN [keyboard EXCEPT !.down = @ \cup {k}, !.text = @ \cup {k}]
                          ELSE [keyboard EXCEPT !.down = @ \cup {k}, !.keys = @ \cup {k}]
  /\ SendKeys(evs, newUpset)
  /\ UNCHANGED <<user, activity, layout, codes, server>>

KeyDown(k) ==
  /\ UserActs("keyboard") /\ k \notin keyboard.down
  /\ how' = [how EXCEPT ![k] = IF Typed THEN Text ELSE CodeOf(k)]
  /\ KeyPress(k, {})

\* A repeated key is typed again, or ignored if it has been sent as a key.
KeyRepeat(k) ==
  /\ UserActs("keyboard") /\ k \in keyboard.down
  /\ Typed \/ k \notin keyboard.keys
  /\ how' = [how EXCEPT ![k] = IF Typed THEN @ ELSE CodeOf(k)]
  /\ KeyPress(k, IF Typed /\ how[k] = Text THEN {} ELSE {k, layout[k]})

\* Is k let go of under the preferences and modifiers under which it was pressed?
AsPressed(k) == IF how[k] = Text THEN ~keyboard.scan ELSE how[k] = CodeOf(k)

\* Mutant: a key that was typed stays in mPressedTextKeys.
KeyUpKeepsText(k, canceled) ==
  LET text == ~keyboard.scan /\ k \in keyboard.text IN
  /\ UserActs("keyboard") /\ k \in keyboard.down
  /\ keyboard' = IF canceled \/ text THEN [keyboard EXCEPT !.down = @ \ {k}]
                 ELSE [keyboard EXCEPT !.down = @ \ {k}, !.keys = @ \ {k}]
  /\ SendKeys(IF canceled \/ text THEN << >> ELSE <<Key(CodeOf(k), FALSE)>>,
              IF ~canceled /\ AsPressed(k) THEN {} ELSE {k, layout[k]})
  /\ how' = [how EXCEPT ![k] = Up]
  /\ UNCHANGED <<user, activity, layout, codes, server>>

\* A canceled event is ignored.  A key that was typed is not released.
KeyUp(k, canceled) ==
  LET text == ~keyboard.scan /\ k \in keyboard.text IN
  /\ UserActs("keyboard") /\ k \in keyboard.down
  /\ keyboard' = IF canceled THEN [keyboard EXCEPT !.down = @ \ {k}]
                 ELSE IF text THEN [keyboard EXCEPT !.down = @ \ {k}, !.text = @ \ {k}]
                 ELSE [keyboard EXCEPT !.down = @ \ {k}, !.keys = @ \ {k}]
  /\ SendKeys(IF canceled \/ text THEN << >> ELSE <<Key(CodeOf(k), FALSE)>>,
              IF ~canceled /\ AsPressed(k) THEN {} ELSE {k, layout[k]})
  /\ how' = [how EXCEPT ![k] = Up]
  /\ UNCHANGED <<user, activity, layout, codes, server>>

\* A modifier has no character and one code.
Modifier(c) ==
  LET down == c \notin keyboard.mods IN
  /\ UserActs("keyboard")
  /\ keyboard' = [keyboard EXCEPT !.mods = IF down THEN @ \cup {c} ELSE @ \ {c}]
  /\ SendKeys(<<Key(c, down)>>, {})
  /\ UNCHANGED <<user, activity, layout, codes, how, server>>
-----------------------------------------------------------------------------
(* The server *)

Reading(t) == wire # << >> /\ Head(wire).t = t /\ wire' = Tail(wire)

ReadTouch ==
  /\ Reading("touch")
  /\ work' = Append(work, Head(wire))
  /\ UNCHANGED <<user, activity, typing, touches, pressed, prev, present, history>>

\* Mutant: an update of an inactive touch is dropped.
handleTouchStrict ==
  /\ work # << >> /\ work' = Tail(work)
  /\ LET e == Head(work) IN
     touches' = CASE e.kind = "end" -> touches \ {e.f}
                  [] e.kind = "begin" -> touches \cup {e.f}
                  [] OTHER -> touches
  /\ UNCHANGED <<user, activity, typing, wire, pressed, prev, present, history>>

\* handleTouchEvent on the main thread: an update of an inactive touch begins it, an end of one is
\* dropped.
handleTouchEvent ==
  /\ work # << >> /\ work' = Tail(work)
  /\ LET e == Head(work) IN
     touches' = IF e.kind = "end" THEN touches \ {e.f} ELSE touches \cup {e.f}
  /\ UNCHANGED <<user, activity, typing, wire, pressed, prev, present, history>>

ReadMouse ==
  /\ Reading("mouse")
  /\ LET e == Head(wire) IN
     pressed' = [pressed EXCEPT !["mouse"] = IF e.down THEN @ \cup {e.b} ELSE @ \ {e.b}]
  /\ UNCHANGED <<user, activity, typing, work, touches, prev, present, history>>

\* Mutant: the comparison forgets what was released.
ComparedPresses(dev, bs) == pressed[dev] \cup (bs \ prev.buttons)

\* The buttons are compared with those of the last event, which may have been of another device.
Compared(dev, bs) == (pressed[dev] \ (prev.buttons \ bs)) \cup (bs \ prev.buttons)

\* Mutant: the device is not tested.
ExistsAlways(dev) == dev \in Devices

Exists(dev) == dev = "mouse" \/ present

ReadStylus ==
  LET e == Head(wire)
      switched == IF e.dev = prev.dev THEN {}
                  ELSE ({prev.dev} \X prev.buttons) \cup ({e.dev} \X (e.buttons \cap prev.buttons))
      cured == IF e.dev = "mouse" THEN {} ELSE {e.dev} \X (prev.buttons \ e.buttons)
  IN /\ Reading("stylus")
     /\ IF Exists(e.dev)
        THEN /\ pressed' = [pressed EXCEPT ![e.dev] = Compared(e.dev, e.buttons)]
             /\ prev' = [dev |-> e.dev, buttons |-> e.buttons]
             /\ doubt' = (doubt \ cured) \cup switched
        ELSE /\ doubt' = doubt \cup switched \cup ({e.dev} \X e.buttons)
             /\ UNCHANGED <<pressed, prev>>
     /\ UNCHANGED <<user, activity, typing, work, touches, present, stray, ops, drops>>

\* lorieSetStylusEnabled; a removed device is gone with its buttons, but not from buttons_prev.
ReadStylusEnable ==
  /\ Reading("enable")
  /\ present' = Head(wire).on
  /\ pressed' = IF Head(wire).on THEN pressed
                ELSE [d \in Devices |-> IF d \in Tools THEN {} ELSE pressed[d]]
  /\ doubt' = IF Head(wire).on THEN doubt ELSE doubt \cup (Tools \X prev.buttons)
  /\ UNCHANGED <<user, activity, typing, work, touches, prev, stray, ops, drops>>

ReadKey ==
  /\ Reading("key")
  /\ LET e == Head(wire) IN codes' = IF e.down THEN codes \cup {e.c} ELSE codes \ {e.c}
  /\ UNCHANGED <<user, activity, keyboard, layout, how, upset, server, history>>

\* The connection breaks: what was not read is lost, and nothing that is pressed is let go.
Hangup ==
  /\ conn /\ drops < MaxDrops /\ drops' = drops + 1
  /\ conn' = FALSE /\ wire' = << >>
  /\ stray' = Fingers /\ doubt' = Devices \X Buttons /\ upset' = Codes
  /\ UNCHANGED <<user, fingers, mode, held, pointers, tap, click, mouse, stylus, asMouse, avail,
                 keyboard, layout, codes, how, server, ops>>

\* tryConnect, which reloads the preferences of the view: the stylus is asked for again.
Reconnect ==
  /\ ~conn /\ conn' = TRUE
  /\ wire' = <<[t |-> "enable", on |-> avail]>>
  /\ UNCHANGED <<user, fingers, mode, held, pointers, tap, click, mouse, stylus, asMouse, avail,
                 typing, server, history>>

Next ==
  \/ \E f \in Fingers : \/ \E b \in BOOLEAN : FingerDown(f, b) \/ FingerUp(f, b)
                        \/ Cancel(f)
                        \/ MissedUp(f)
  \/ \E far \in BOOLEAN : FingerMove(far)
  \/ \E S \in SUBSET Fingers \ {{}} : Hover(S)
  \/ \E inside \in BOOLEAN : LongPress(inside)
  \/ TapTimeout
  \/ \E bs \in SUBSET MouseButtons : MouseEvent(bs)
  \/ \E tool \in Tools, bs \in SUBSET MouseButtons, moved \in BOOLEAN : StylusEvent(tool, bs, moved)
  \/ refreshInputDevices
  \/ \E m \in Modes, am, scan \in BOOLEAN : reloadPreferences(m, am, scan)
  \/ \E k \in Keys : \/ KeyDown(k)
                     \/ KeyRepeat(k)
                     \/ \E canceled \in BOOLEAN : KeyUp(k, canceled)
  \/ \E c \in Mods : Modifier(c)
  \/ ReadTouch
  \/ handleTouchEvent
  \/ ReadMouse
  \/ ReadStylus
  \/ ReadStylusEnable
  \/ ReadKey
  \/ Hangup
  \/ Reconnect

Spec == Init /\ [][Next]_vars
-----------------------------------------------------------------------------
(* Properties *)

\* The server has caught up with the activity.
Quiet == conn /\ wire = << >> /\ work = << >>

\* Every variable has its type, and a device that does not exist has no buttons.
TypeOK ==
  /\ user \in {"pointers", "keyboard"} /\ {conn, click, asMouse, avail, present} \subseteq BOOLEAN
  /\ {fingers, pointers, touches, stray} \subseteq SUBSET Fingers
  /\ mode \in Modes /\ held \in Buttons \cup {NoButton} /\ mouse \in SUBSET Buttons
  /\ tap \in [count : 0..Cardinality(Fingers), cancelled : BOOLEAN, point : BOOLEAN, timer : BOOLEAN]
  /\ {stylus, prev} \subseteq [dev : Devices, buttons : SUBSET Buttons]
  /\ keyboard \in [down : SUBSET Keys, mods : SUBSET Mods, scan : BOOLEAN, text : SUBSET Keys,
                   keys : SUBSET Keys]
  /\ layout \in [Keys -> Keys] /\ {codes, upset} \subseteq SUBSET Codes
  /\ \A k \in Keys : how[k] \in Keys \cup {Up, Text}
  /\ \A e \in ToSet(work) : e.t = "touch" /\ e.f \in Fingers
  /\ pressed \in [Devices -> SUBSET Buttons] /\ doubt \subseteq Devices \X Buttons
  /\ ~present => \A d \in Tools : pressed[d] = {}
  /\ ops \in 0..MaxOps /\ drops \in 0..MaxDrops

\* When the server has caught up, the touches of the X device are the fingers on the screen, and
\* there are none in the modes that make a pointer of them.  Left out are fingers whose last event
\* was lost, cancelled with another finger's, or went to another mode, and those that only hover
\* and so begin a touch that nothing ends, until they move, are lifted, or the loop of
\* sendTouchEvent over the pointers that are gone ends them.
TouchesMatch ==
  Quiet => \A f \in Fingers \ stray : f \in touches <=> mode = "touch" /\ f \in fingers

\* No button of the mouse stays down: when the server has caught up, one that is down is that of a
\* long press whose finger is still there, is down on the hardware mouse, or on a stylus that acts
\* as a mouse.  Left out are buttons whose release was lost or never sent (the gesture was
\* cancelled, its last ACTION_UP missed, the preferences were reloaded), or was sent to another
\* device.
ButtonsLetGo ==
  Quiet => \A b \in pressed["mouse"] :
    \/ b = held /\ fingers # {}
    \/ b \in mouse
    \/ stylus.dev = "mouse" /\ b \in stylus.buttons
    \/ <<"mouse", b>> \in doubt

\* When the server has caught up, the pen and the eraser have the buttons that the stylus has,
\* although one static variable remembers the buttons of the pen, the eraser and the mouse.  Left
\* out are buttons that were down when the tool or stylusIsMouse changed, or the device was removed
\* or not there.
StylusMatches ==
  Quiet /\ present => \A d \in Tools : \A b \in Buttons :
    <<d, b>> \in doubt \/ (b \in pressed[d] <=> stylus.dev = d /\ b \in stylus.buttons)

\* The tap detector never calls its listener without a point: while the long press message is
\* queued, or the gesture may still be a tap, mInitialPoint is set.
TapHasPoint == (tap.timer \/ (fingers # {} /\ ~tap.cancelled)) => tap.point

\* No key stays down: when the server has caught up, a key that is down in X is down on the
\* keyboard.  Left out are keys whose release was canceled or lost, or has another code than the
\* press because modifiers or preferScancodes changed in between, and keys that were repeated
\* as text after they were pressed as keys, or the other way round.
KeysLetGo ==
  Quiet => \A c \in codes \ upset : c \in keyboard.mods \/ \E k \in keyboard.down : how[k] = c
=============================================================================

------------------------------ MODULE InputEvents ------------------------------
(***************************************************************************)
(* Keyboard and mouse (spyvm/display.py). SDL queues what the user does; the  *)
(* image takes it out one event at a time, with the event primitive or, in the  *)
(* old style, by polling the mouse and the keyboard, where every poll takes at  *)
(* most one event out and remembers one key.                                   *)
(***************************************************************************)
EXTENDS Integers, Sequences, FiniteSets, SequencesExt, FiniteSetsExt

CONSTANTS
    Keys,            \* records of sym, char and the modifier bits a key stands for
    Buttons,         \* numbers SDL gives to mouse buttons
    Points,          \* positions of the mouse
    InterruptKeys,   \* what the image may choose to interrupt it
    MaxInputs,       \* bounds what the user does
    ImageDoes,       \* rarer things: "polls" although it gets events
    None

ASSUME InputAssumption ==
    /\ MaxInputs \in Nat
    /\ \A k \in Keys : k.sym \in Nat /\ k.char \in Nat /\ k.mods \subseteq {1, 2, 4, 8}

RedButtonBit    == 4
BlueButtonBit   == 2
YellowButtonBit == 1
ShiftKeyBit     == 1
CtrlKeyBit      == 2
CommandKeyBit   == 8

EventTypeMouse    == 1
EventTypeKeyboard == 2
EventTypeWindow   == 5
WindowEventMetricChange == 1

VARIABLES
    happened,        \* all events SDL has queued
    polled,          \* how many of them have been polled
    key,             \* the key pressed last, with modifiers that a peek has added
    button,          \* bits of the buttons that are down
    mouse_position,
    interrupt_key,
    deferred_event,
    evented,         \* the event primitive does not fail
    lastWindowSize,
    running,
    delivered,       \* what the event primitive has answered
    taken            \* the keys that were answered to the old style primitive

inputVars == <<happened, polled, key, button, mouse_position, interrupt_key, deferred_event,
               evented, lastWindowSize, running, delivered, taken>>

--------------------------------------------------------------------------------
(* Bits, keys, modifiers.                                                    *)

BitsOf(n)   == {b \in {1, 2, 4, 8} : (n \div b) % 2 = 1}
Number(bs)  == SumSet(bs)

Event(type, arg) == [type |-> type, arg |-> arg]

\* What is still down of what has been pressed in the first n events.
StillDown(down, up, n) ==
    {happened[i].arg : i \in {i \in 1 .. n :
        /\ happened[i].type = down
        /\ \A j \in i + 1 .. n : happened[j].type = up => happened[j].arg # happened[i].arg}}

KeysDown    == StillDown("KEYDOWN", "KEYUP", Len(happened))
ButtonsDown == StillDown("MOUSEBUTTONDOWN", "MOUSEBUTTONUP", Len(happened))

\* SDL answers the modifiers of now, not those of the event that is polled. Events are
\* given them three bits further to the left.
get_modifier_mask == UNION {k.mods : k \in KeysDown}
ModifiersGiven    == {8 * b : b \in get_modifier_mask}

ArrowKey(sym) == CASE sym = 274 -> 31 [] sym = 276 -> 28 [] sym = 275 -> 29 [] sym = 273 -> 30

\* handle_keypress: arrows, characters of one byte, other keys that have a code.
KeyCode(k) ==
    IF k.sym \in 273 .. 276 THEN ArrowKey(k.sym)
    ELSE IF k.char \in 32 .. 127 THEN k.char
    ELSE IF k.sym <= 255 THEN k.sym ELSE 0

Key(code, mods) == [code |-> code, mods |-> mods]
NoKey == Key(0, {})

ButtonBits(b) ==
    CASE b = 3 -> {YellowButtonBit}
      [] b = 2 -> {BlueButtonBit}
      [] b = 1 -> {RedButtonBit}
      [] OTHER -> BitsOf(b)

--------------------------------------------------------------------------------
(* Handlers of SDL's events.                                                 *)

MouseButton(e) == e.type \in {"MOUSEBUTTONDOWN", "MOUSEBUTTONUP"}

\* handle_mouse_button
ButtonAfter(e) ==
    IF e.type = "MOUSEBUTTONDOWN" THEN button \union ButtonBits(e.arg)
    ELSE button \ ButtonBits(e.arg)

\* handle_keypress; the exception of the interrupt key is handled nowhere.
KeyAfter(e)   == Key(KeyCode(e.arg), {})
Interrupts(e) == interrupt_key = Key(KeyCode(e.arg), get_modifier_mask)

\* The masks of the modifiers are tried on their bits three places further left.
\* Mutant: they are tried where they belong.
MouseEventUnshifted(bits, position) ==
    [type |-> EventTypeMouse, what |-> position, mods |-> ModifiersGiven,
     button |-> IF bits # {RedButtonBit} THEN bits
                ELSE IF CtrlKeyBit \in get_modifier_mask THEN {BlueButtonBit}
                ELSE IF CommandKeyBit \in get_modifier_mask THEN {YellowButtonBit}
                ELSE bits]
MouseEvent(bits, position) ==
    [type |-> EventTypeMouse, what |-> position, mods |-> ModifiersGiven,
     button |-> IF bits # {RedButtonBit} THEN bits
                ELSE IF CtrlKeyBit \in ModifiersGiven THEN {BlueButtonBit}
                ELSE IF CommandKeyBit \in ModifiersGiven THEN {YellowButtonBit}
                ELSE bits]
KeyEvent(what, k) ==
    [type |-> EventTypeKeyboard, what |-> <<what, k>>, mods |-> ModifiersGiven, button |-> {}]
WindowEvent(what) ==
    [type |-> EventTypeWindow, what |-> what, mods |-> {}, button |-> {}]

--------------------------------------------------------------------------------
(* GET_NEXT_EVENT. The size of the window is taken from events whose type, not  *)
(* whose kind, has the number of a metric change.                              *)

Answer(ev) ==
    /\ delivered' = Append(delivered, ev)
    /\ lastWindowSize' = IF /\ ev.type = WindowEventMetricChange
                            /\ ev.button # {} /\ ev.mods # {}
                         THEN <<Number(ev.button), Number(ev.mods)>>
                         ELSE lastWindowSize

GetDeferred ==
    /\ running /\ evented /\ deferred_event # None
    /\ deferred_event' = None
    /\ Answer(deferred_event)
    /\ UNCHANGED <<happened, polled, key, button, mouse_position, interrupt_key, evented,
                   running, taken>>

\* Mutant: a deferred event does not come first.
PollAtOnce(types) ==
    /\ running /\ evented /\ polled < Len(happened)
    /\ happened[polled + 1].type \in types
    /\ polled' = polled + 1
    /\ UNCHANGED <<happened, interrupt_key, evented, taken>>
\* The next event is polled, and has one of these types.
Poll(types) ==
    /\ running /\ evented /\ deferred_event = None /\ polled < Len(happened)
    /\ happened[polled + 1].type \in types
    /\ polled' = polled + 1
    /\ UNCHANGED <<happened, interrupt_key, evented, taken>>

GetMouse ==
    /\ Poll({"MOUSEBUTTONDOWN", "MOUSEBUTTONUP", "MOUSEMOTION"})
    /\ LET e == happened[polled + 1]
       IN  /\ mouse_position' = IF MouseButton(e) THEN mouse_position ELSE e.arg
           /\ button' = IF MouseButton(e) THEN ButtonAfter(e) ELSE button
    /\ Answer(MouseEvent(button', mouse_position'))
    /\ UNCHANGED <<key, deferred_event, running>>

GetKeyDown ==
    /\ Poll({"KEYDOWN"})
    /\ LET e == happened[polled + 1]
       IN  /\ key' = KeyAfter(e)
           /\ running' = ~Interrupts(e)
           /\ IF Interrupts(e) THEN UNCHANGED <<delivered, lastWindowSize>>
              ELSE Answer(KeyEvent("down", KeyAfter(e)))
    /\ UNCHANGED <<button, mouse_position, deferred_event>>

\* The character, and the key that comes up, are those of the key pressed last.
GetKeyUp ==
    /\ Poll({"KEYUP"})
    /\ deferred_event' = KeyEvent("up", key)
    /\ Answer(KeyEvent("char", key))
    /\ UNCHANGED <<key, button, mouse_position, running>>

\* SDL keeps the surface of a resized window until the next video mode is set.
GetWindow ==
    /\ Poll({"VIDEORESIZE", "VIDEOEXPOSE", "QUIT"})
    /\ LET type == happened[polled + 1].type
       IN  /\ deferred_event' = IF type = "QUIT" THEN None ELSE WindowEvent("paint")
           /\ Answer(WindowEvent(CASE type = "VIDEORESIZE" -> "metric"
                                   [] type = "VIDEOEXPOSE" -> "activated"
                                   [] type = "QUIT"        -> "close"))
    /\ UNCHANGED <<key, button, mouse_position, running>>

GetNextEvent == GetDeferred \/ GetMouse \/ GetKeyDown \/ GetKeyUp \/ GetWindow

--------------------------------------------------------------------------------
(* The old style.                                                            *)

MayPoll == running /\ (~evented \/ "polls" \in ImageDoes)

\* Events of other types than these are dropped.
PumpEvents(mods) ==
    LET e     == IF polled < Len(happened) THEN happened[polled + 1] ELSE Event("NONE", None)
        stops == e.type = "QUIT" \/ (e.type = "KEYDOWN" /\ Interrupts(e))
        k     == IF e.type = "KEYDOWN" THEN KeyAfter(e) ELSE key
    IN  /\ polled' = Min({polled + 1, Len(happened)})
        /\ button' = IF MouseButton(e) THEN ButtonAfter(e) ELSE button
        /\ mouse_position' = IF e.type = "MOUSEMOTION" THEN e.arg ELSE mouse_position
        /\ running' = ~stops
        /\ key' = IF stops THEN k ELSE Key(k.code, k.mods \union mods)
        /\ UNCHANGED <<happened, interrupt_key, deferred_event, evented, lastWindowSize,
                       delivered>>

\* MOUSE_POINT and MOUSE_BUTTONS.
PollMouse == MayPoll /\ PumpEvents({}) /\ UNCHANGED taken

\* Keeps the modifiers in the key that is answered next.
KbdPeek == MayPoll /\ PumpEvents(get_modifier_mask) /\ UNCHANGED taken

\* Mutant: the key stays to be answered again.
KeyIsKept == UNCHANGED key
KeyIsTaken == key' = NoKey

KbdNext ==
    /\ MayPoll
    /\ KeyIsTaken
    /\ taken' = IF key.code = 0 THEN taken ELSE Append(taken, key.code)
    /\ UNCHANGED <<happened, polled, button, mouse_position, interrupt_key, deferred_event,
                   evented, lastWindowSize, running, delivered>>

SetInterruptKey ==
    /\ running
    /\ interrupt_key' \in InterruptKeys
    /\ UNCHANGED <<happened, polled, key, button, mouse_position, deferred_event, evented,
                   lastWindowSize, running, delivered, taken>>

--------------------------------------------------------------------------------
(* What the user, or the window system, may do next.                          *)

UserEvents ==
    {Event("KEYDOWN", k) : k \in Keys \ KeysDown} \union {Event("KEYUP", k) : k \in KeysDown}
    \union {Event("MOUSEBUTTONDOWN", b) : b \in Buttons \ ButtonsDown}
    \union {Event("MOUSEBUTTONUP", b) : b \in ButtonsDown}
    \union {Event("MOUSEMOTION", p) : p \in Points}
    \union {Event(t, None) : t \in {"VIDEORESIZE", "VIDEOEXPOSE", "QUIT"}}

UserActs ==
    /\ Len(happened) < MaxInputs
    /\ \E e \in UserEvents : happened' = Append(happened, e)
    /\ UNCHANGED <<polled, key, button, mouse_position, interrupt_key, deferred_event,
                   evented, lastWindowSize, running, delivered, taken>>

InputInit ==
    /\ happened = <<>> /\ polled = 0
    /\ key = NoKey /\ button = {}
    /\ mouse_position = <<0, 0>>
    /\ interrupt_key = Key(0, {1, 2, 4, 8})
    /\ deferred_event = None
    /\ evented \in BOOLEAN
    /\ lastWindowSize = <<0, 0>>
    /\ running = TRUE
    /\ delivered = <<>> /\ taken = <<>>

InputNext ==
    \/ UserActs \/ GetNextEvent \/ PollMouse \/ KbdPeek \/ KbdNext \/ SetInterruptKey

InputSpec == InputInit /\ [][InputNext]_inputVars

--------------------------------------------------------------------------------
(* Properties.                                                               *)

\* Types of the variables of the input.
InputTypeOK ==
    /\ polled \in 0 .. Len(happened)
    /\ key.code \in 0 .. 255 /\ key.mods \subseteq {1, 2, 4, 8}
    /\ button \subseteq {1, 2, 4, 8}
    /\ interrupt_key \in {Key(0, {1, 2, 4, 8})} \union InterruptKeys
    /\ evented \in BOOLEAN /\ running \in BOOLEAN

\* The key pressed last, in the first n events.
LastKey(n) ==
    LET downs == {i \in 1 .. n : happened[i].type = "KEYDOWN"}
    IN  IF downs = {} THEN 0 ELSE KeyCode(happened[Max(downs)].arg)

\* What an image is to get of the n-th event: types and kinds of its events.
Promised(n) ==
    LET e    == happened[n]
        last == LastKey(n)
    IN  CASE e.type = "KEYDOWN"     -> <<<<2, "down", last>>>>
          [] e.type = "KEYUP"       -> <<<<2, "char", last>>, <<2, "up", last>>>>
          [] e.type = "VIDEORESIZE" -> <<<<5, "metric">>, <<5, "paint">>>>
          [] e.type = "VIDEOEXPOSE" -> <<<<5, "activated">>, <<5, "paint">>>>
          [] e.type = "QUIT"        -> <<<<5, "close">>>>
          [] OTHER                  -> <<<<1>>>>
Kind(ev) ==
    CASE ev.type = 1 -> <<1>>
      [] ev.type = 2 -> <<2, ev.what[1], ev.what[2].code>>
      [] ev.type = 5 -> <<5, ev.what>>

\* An image that gets events gets each that was polled, once and in their order,
\* and the two events that a released key or a changed window stand for follow each
\* other, until the interrupt key ends it. (get_next_event, _deferred_event)
EventsInOrder ==
    evented /\ running /\ "polls" \notin ImageDoes =>
        [i \in DOMAIN delivered |-> Kind(delivered[i])]
            \o (IF deferred_event = None THEN <<>> ELSE <<Kind(deferred_event)>>)
        = FlattenSeq([n \in 1 .. polled |-> Promised(n)])

\* The bits of the buttons that were down when the n-th event happened.
Held(n) == UNION {ButtonBits(b) : b \in StillDown("MOUSEBUTTONDOWN", "MOUSEBUTTONUP", n)}

\* What an event tells the image of them: shift makes the red button the yellow one.
HeldAs(bits) ==
    IF bits = {RedButtonBit} /\ ShiftKeyBit \in get_modifier_mask THEN {YellowButtonBit}
    ELSE bits

\* The buttons that the image sees are those that were down when the event it has
\* got to happened, whichever way the events were polled, and a mouse event that it
\* is given has them, but for the red button alone while shift is down.
\* (handle_mouse_button, get_next_mouse_event)
ButtonsAsHeld ==
    /\ [](button = Held(polled))
    /\ [][\A i \in DOMAIN delivered' \ DOMAIN delivered :
            delivered'[i].type = EventTypeMouse
                => delivered'[i].button = HeldAs(Held(polled))']_inputVars

\* A polling image gets keys in the order they were pressed, and none twice,
\* whatever other polls come between. (next_keycode, peek_keycode, pump_events)
KeysTakenInOrder ==
    \E f \in [DOMAIN taken -> 1 .. polled] :
        /\ \A i \in DOMAIN taken : /\ happened[f[i]].type = "KEYDOWN"
                                   /\ KeyCode(happened[f[i]].arg) = taken[i]
        /\ \A i, j \in DOMAIN taken : i < j => f[i] < f[j]
===============================================================================

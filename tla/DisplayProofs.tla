----------------------------- MODULE DisplayProofs -----------------------------
(***************************************************************************)
(* Theorems about the input of the display and about its screen, for any keys, *)
(* forms, contents and extents, and however much the user does. Whatever the   *)
(* image does to its screen, it does not touch what has been queued and polled. *)
(* The second half is about the screen: which bytes of it a word of the display *)
(* reaches, and that SDL finds each pixel where its word has put it.           *)
(***************************************************************************)
EXTENDS Display, WellFoundedInduction, FiniteSetTheorems, TLAPS

EventTypes == {"KEYDOWN", "KEYUP", "MOUSEBUTTONDOWN", "MOUSEBUTTONUP", "MOUSEMOTION",
               "VIDEORESIZE", "VIDEOEXPOSE", "QUIT"}

Queued == [type : EventTypes, arg : Keys \union Buttons \union Points \union {None}]

\* Events of keys name keys, events of buttons buttons.
EventOK(e) ==
    /\ e \in Queued
    /\ e.type \in {"KEYDOWN", "KEYUP"} => e.arg \in Keys
    /\ MouseButton(e) => e.arg \in Buttons

QueueInv ==
    /\ happened \in Seq(Queued)
    /\ \A i \in 1 .. Len(happened) : EventOK(happened[i])
    /\ polled \in 0 .. Len(happened)

--------------------------------------------------------------------------------
(* What a step does to the queue: the user adds to it, the image takes the next  *)
(* event out, or leaves it alone.                                             *)

NextEvent == happened[polled + 1]

Adds(e) ==
    /\ EventOK(e)
    /\ happened' = Append(happened, e) /\ polled' = polled
    /\ button' = button /\ key' = key /\ taken' = taken

Takes ==
    /\ polled < Len(happened)
    /\ happened' = happened /\ polled' = polled + 1
    /\ button' = IF MouseButton(NextEvent) THEN ButtonAfter(NextEvent) ELSE button
    /\ key'.code = IF NextEvent.type = "KEYDOWN" THEN KeyCode(NextEvent.arg) ELSE key.code
    /\ taken' = taken

Keeps ==
    /\ happened' = happened /\ polled' = polled /\ button' = button
    /\ key'.code = key.code /\ taken' = taken

Answers ==
    /\ happened' = happened /\ polled' = polled /\ button' = button
    /\ key'.code = 0
    /\ taken' = IF key.code = 0 THEN taken ELSE Append(taken, key.code)

QueueStep == (\E e : Adds(e)) \/ Takes \/ Keeps \/ Answers

LEMMA LesserIs ==
    ASSUME NEW a \in Nat, NEW b \in Nat
    PROVE  /\ a <= b => Min({a, b}) = a
           /\ b <= a => Min({a, b}) = b
  BY DEF Min

\* What is down has been pressed before.
LEMMA DownWasPressed ==
    ASSUME QueueInv
    PROVE  KeysDown \subseteq Keys /\ ButtonsDown \subseteq Buttons
<1>1. ASSUME NEW i \in 1 .. Len(happened), happened[i].type = "KEYDOWN"
      PROVE  happened[i].arg \in Keys
  BY <1>1 DEF QueueInv, EventOK
<1>2. ASSUME NEW i \in 1 .. Len(happened), happened[i].type = "MOUSEBUTTONDOWN"
      PROVE  happened[i].arg \in Buttons
  BY <1>2 DEF QueueInv, EventOK, MouseButton
<1> QED  BY <1>1, <1>2 DEF KeysDown, ButtonsDown, StillDown

LEMMA UserAdds ==
    ASSUME QueueInv, UserActs
    PROVE  \E e : Adds(e)
<1>1. PICK e \in UserEvents : happened' = Append(happened, e)
  BY DEF UserActs
<1>2. EventOK(e)
  BY <1>1, DownWasPressed DEF UserEvents, EventOK, Event, Queued, EventTypes, MouseButton
<1> QED  BY <1>1, <1>2 DEF UserActs, Adds

LEMMA PollTakes ==
    ASSUME QueueInv, GetNextEvent
    PROVE  Takes \/ Keeps
<1>1. ASSUME GetDeferred PROVE Keeps
  BY <1>1 DEF GetDeferred, Keeps
<1>2. ASSUME GetMouse PROVE Takes
  BY <1>2 DEF GetMouse, Poll, Takes, NextEvent
<1>3. ASSUME GetKeyDown PROVE Takes
  BY <1>3 DEF GetKeyDown, Poll, Takes, NextEvent, KeyAfter, Key, MouseButton
<1>4. ASSUME GetKeyUp PROVE Takes
  BY <1>4 DEF GetKeyUp, Poll, Takes, NextEvent, MouseButton
<1>5. ASSUME GetWindow PROVE Takes
  BY <1>5 DEF GetWindow, Poll, Takes, NextEvent, MouseButton
<1> QED  BY <1>1, <1>2, <1>3, <1>4, <1>5 DEF GetNextEvent

LEMMA PumpTakes ==
    ASSUME QueueInv, NEW mods, PumpEvents(mods), taken' = taken
    PROVE  Takes \/ Keeps
<1> DEFINE n == Len(happened)
           e == IF polled < n THEN happened[polled + 1] ELSE Event("NONE", None)
           k == IF e.type = "KEYDOWN" THEN KeyAfter(e) ELSE key
<1>1. n \in Nat /\ polled \in 0 .. n
  BY DEF QueueInv
<1>2. /\ polled' = Min({polled + 1, n})
      /\ button' = IF MouseButton(e) THEN ButtonAfter(e) ELSE button
      /\ key'.code = k.code /\ happened' = happened
  BY DEF PumpEvents, Key
<1>3. k.code = IF e.type = "KEYDOWN" THEN KeyCode(e.arg) ELSE key.code
  BY DEF KeyAfter, Key
<1> HIDE DEF n, k
<1>4. CASE polled < n
  <2>1. e = NextEvent
    BY <1>4 DEF NextEvent
  <2>2. polled' = polled + 1
    <3>1. polled + 1 \in Nat /\ polled + 1 <= n
      BY <1>1, <1>4
    <3> QED  BY <1>1, <1>2, <3>1, LesserIs
  <2> HIDE DEF e
  <2> QED  BY <1>2, <1>3, <1>4, <2>1, <2>2 DEF Takes, n
<1>5. CASE ~ (polled < n)
  <2>1. e.type = "NONE"
    BY <1>5 DEF Event
  <2>2. polled' = polled
    <3>1. polled + 1 \in Nat /\ n <= polled + 1 /\ polled = n
      BY <1>1, <1>5
    <3> QED  BY <1>1, <1>2, <3>1, LesserIs
  <2> HIDE DEF e
  <2> QED  BY <1>2, <1>3, <2>1, <2>2 DEF Keeps, MouseButton
<1> QED  BY <1>4, <1>5

LEMMA InputStepIs ==
    ASSUME QueueInv, InputNext
    PROVE  QueueStep
<1>1. ASSUME UserActs PROVE QueueStep
  BY <1>1, UserAdds DEF QueueStep
<1>2. ASSUME GetNextEvent PROVE QueueStep
  BY <1>2, PollTakes DEF QueueStep
<1>3. ASSUME PollMouse \/ KbdPeek PROVE QueueStep
  BY <1>3, PumpTakes DEF PollMouse, KbdPeek, QueueStep
<1>4. ASSUME KbdNext PROVE QueueStep
  BY <1>4 DEF KbdNext, KeyIsTaken, NoKey, Key, Answers, QueueStep
<1>5. ASSUME SetInterruptKey PROVE QueueStep
  BY <1>5 DEF SetInterruptKey, Keeps, QueueStep
<1> QED  BY <1>1, <1>2, <1>3, <1>4, <1>5 DEF InputNext

LEMMA ScreenKeeps ==
    ASSUME ScreenActs
    PROVE  /\ Keeps
           /\ UNCHANGED <<key, deferred_event, evented, delivered>> /\ (running' => running)
  BY DEF ScreenActs, SetExtent, BeDisplay, Fill, AtPut, CopyBits, DeferUpdates,
         ForceDisplayUpdate, inputVars, Keeps, ImageSteps

LEMMA StepIs ==
    ASSUME QueueInv, [Next]_vars
    PROVE  QueueStep
<1>1. CASE UNCHANGED vars
  BY <1>1 DEF vars, inputVars, Keeps, QueueStep
<1>2. CASE ScreenActs
  BY <1>2, ScreenKeeps DEF QueueStep
<1>3. CASE InputActs
  BY <1>3, InputStepIs DEF InputActs
<1> QED  BY <1>1, <1>2, <1>3 DEF Next

LEMMA QueueKept ==
    ASSUME QueueInv, QueueStep
    PROVE  /\ QueueInv'
           /\ polled <= polled' /\ Len(happened) <= Len(happened')
           /\ \A i \in 1 .. polled : happened'[i] = happened[i]
<1>1. ASSUME NEW e, Adds(e)
      PROVE  /\ QueueInv'
             /\ polled <= polled' /\ Len(happened) <= Len(happened')
             /\ \A i \in 1 .. polled : happened'[i] = happened[i]
  <2>1. EventOK(e) /\ e \in Queued /\ happened' = Append(happened, e) /\ polled' = polled
    BY <1>1 DEF Adds, EventOK
  <2>2. happened \in Seq(Queued) /\ polled \in 0 .. Len(happened)
    BY DEF QueueInv
  <2>3. /\ happened' \in Seq(Queued) /\ Len(happened') = Len(happened) + 1
        /\ \A i \in 1 .. Len(happened) : happened'[i] = happened[i]
        /\ happened'[Len(happened) + 1] = e
    BY <2>1, <2>2
  <2>4. \A i \in 1 .. Len(happened') : EventOK(happened'[i])
    <3> SUFFICES ASSUME NEW i \in 1 .. Len(happened') PROVE EventOK(happened'[i])
      OBVIOUS
    <3>1. i \in 1 .. Len(happened) \/ i = Len(happened) + 1
      BY <2>2, <2>3
    <3> QED  BY <2>1, <2>3, <3>1 DEF QueueInv
  <2>5. polled' \in 0 .. Len(happened') /\ polled <= polled'
    BY <2>1, <2>2, <2>3
  <2>6. \A i \in 1 .. polled : happened'[i] = happened[i]
    BY <2>2, <2>3
  <2> QED  BY <2>2, <2>3, <2>4, <2>5, <2>6 DEF QueueInv
<1>2. ASSUME Takes \/ Keeps \/ Answers
      PROVE  /\ QueueInv'
             /\ polled <= polled' /\ Len(happened) <= Len(happened')
             /\ \A i \in 1 .. polled : happened'[i] = happened[i]
  BY <1>2 DEF QueueInv, Takes, Keeps, Answers
<1> QED  BY <1>1, <1>2 DEF QueueStep

--------------------------------------------------------------------------------
(* Keys that are polled.                                                     *)

\* f names, for each key that was taken, the event it came with.
Sources(f, m, n) ==
    /\ f \in [1 .. m -> 1 .. n]
    /\ \A i \in 1 .. m : /\ happened[f[i]].type = "KEYDOWN"
                         /\ KeyCode(happened[f[i]].arg) = taken[i]
    /\ \A i, j \in 1 .. m : i < j => f[i] < f[j]

\* The key that waits, if there is one, was pressed after the keys that were taken.
Latest(f, m, n) ==
    key.code # 0 => \E k \in 1 .. n : /\ happened[k].type = "KEYDOWN"
                                      /\ KeyCode(happened[k].arg) = key.code
                                      /\ \A i \in 1 .. m : f[i] < k

KeysInv ==
    /\ taken \in Seq(Int)
    /\ key.code \in Int
    /\ \E f : Sources(f, Len(taken), polled) /\ Latest(f, Len(taken), polled)

LEMMA KeysKept ==
    ASSUME QueueInv, KeysInv, QueueStep, key'.code \in Int
    PROVE  KeysInv'
<1>0. Len(taken) \in Nat
  BY DEF KeysInv
<1> PICK m \in Nat : m = Len(taken)
  BY <1>0
<1>1. PICK f : Sources(f, m, polled) /\ Latest(f, m, polled)
  BY DEF KeysInv
<1>2. m \in Nat /\ taken \in Seq(Int) /\ polled \in Nat
  BY DEF KeysInv, QueueInv
<1>3. polled' \in Nat /\ polled <= polled' /\ \A i \in 1 .. polled : happened'[i] = happened[i]
  BY QueueKept DEF QueueInv
<1>4. f \in [1 .. m -> 1 .. polled'] /\ \A i \in 1 .. m : f[i] \in 1 .. polled
  BY <1>1, <1>2, <1>3 DEF Sources
<1>5. ASSUME taken' = taken PROVE Sources(f, m, polled)'
  BY <1>1, <1>3, <1>4, <1>5 DEF Sources
<1>6. CASE taken' = taken /\ key'.code = key.code
  <2>1. Latest(f, m, polled)'
    <3> SUFFICES ASSUME key'.code # 0
                 PROVE  \E k \in 1 .. polled' : /\ happened'[k].type = "KEYDOWN"
                                               /\ KeyCode(happened'[k].arg) = key'.code
                                               /\ \A i \in 1 .. m : f[i] < k
      BY <1>6 DEF Latest
    <3>1. PICK k \in 1 .. polled : /\ happened[k].type = "KEYDOWN"
                                   /\ KeyCode(happened[k].arg) = key.code
                                   /\ \A i \in 1 .. m : f[i] < k
      BY <1>1, <1>6 DEF Latest
    <3>2. k \in 1 .. polled' /\ happened'[k] = happened[k]
      BY <1>2, <1>3, <3>1
    <3> QED  BY <1>6, <3>1, <3>2
  <2> QED  BY <1>2, <1>5, <1>6, <2>1 DEF KeysInv
<1>7. CASE Takes /\ NextEvent.type = "KEYDOWN"
  <2>1. /\ taken' = taken /\ polled' = polled + 1 /\ key'.code = KeyCode(NextEvent.arg)
        /\ happened'[polled'] = NextEvent
    BY <1>7 DEF Takes, NextEvent
  <2>2. polled' \in 1 .. polled' /\ \A i \in 1 .. m : f[i] < polled'
    BY <1>2, <1>4, <2>1
  <2>3. Latest(f, m, polled)'
    BY <1>7, <2>1, <2>2 DEF Latest
  <2> QED  BY <1>2, <1>5, <2>1, <2>3 DEF KeysInv
<1>8. CASE Answers /\ key.code # 0
  <2>1. PICK k \in 1 .. polled : /\ happened[k].type = "KEYDOWN"
                                 /\ KeyCode(happened[k].arg) = key.code
                                 /\ \A i \in 1 .. m : f[i] < k
    BY <1>1, <1>8 DEF Latest
  <2>2. /\ taken' = Append(taken, key.code) /\ polled' = polled /\ happened' = happened
        /\ key'.code = 0
    BY <1>8 DEF Answers
  <2>3. /\ taken' \in Seq(Int) /\ Len(taken') = m + 1 /\ taken'[m + 1] = key.code
        /\ \A i \in 1 .. m : taken'[i] = taken[i]
    BY <1>2, <2>2 DEF KeysInv
  <2> PICK g : g = [i \in 1 .. m + 1 |-> IF i <= m THEN f[i] ELSE k]
    OBVIOUS
  <2>4. \A i \in 1 .. m + 1 : /\ i <= m => i \in 1 .. m /\ g[i] = f[i]
                              /\ i > m => i = m + 1 /\ g[i] = k
                              /\ i <= m \/ i > m
    BY <1>2
  <2>5. g \in [1 .. m + 1 -> 1 .. polled]
    BY <1>4, <2>4
  <2>6. \A i \in 1 .. m + 1 : /\ happened[g[i]].type = "KEYDOWN"
                              /\ KeyCode(happened[g[i]].arg) = taken'[i]
    <3> SUFFICES ASSUME NEW i \in 1 .. m + 1
                 PROVE  /\ happened[g[i]].type = "KEYDOWN"
                        /\ KeyCode(happened[g[i]].arg) = taken'[i]
      OBVIOUS
    <3>1. CASE i <= m
      BY <1>1, <2>3, <2>4, <3>1 DEF Sources
    <3>2. CASE i > m
      BY <2>1, <2>3, <2>4, <3>2
    <3> QED  BY <2>4, <3>1, <3>2
  <2>7. \A i, j \in 1 .. m + 1 : i < j => g[i] < g[j]
    <3> SUFFICES ASSUME NEW i \in 1 .. m + 1, NEW j \in 1 .. m + 1, i < j
                 PROVE  g[i] < g[j]
      OBVIOUS
    <3>1. i <= m
      BY <1>2
    <3>2. CASE j <= m
      BY <1>1, <2>4, <3>1, <3>2 DEF Sources
    <3>3. CASE j > m
      BY <2>1, <2>4, <3>1, <3>3
    <3> QED  BY <2>4, <3>2, <3>3
  <2>8. Sources(g, m + 1, polled)'
    BY <2>2, <2>5, <2>6, <2>7 DEF Sources
  <2>9. Latest(g, m + 1, polled)'
    BY <2>2 DEF Latest
  <2> QED  BY <2>2, <2>3, <2>8, <2>9 DEF KeysInv
<1>9. Takes \/ Keeps \/ Answers \/ \E e : Adds(e)
  BY DEF QueueStep
<1> QED  BY <1>6, <1>7, <1>8, <1>9 DEF Takes, Keeps, Answers, Adds

LEMMA KeysInvOrdered ==
    ASSUME QueueInv, KeysInv
    PROVE  KeysTakenInOrder
<1>1. DOMAIN taken = 1 .. Len(taken)
  BY DEF KeysInv
<1> QED  BY <1>1 DEF KeysInv, Sources, KeysTakenInOrder

LEMMA KeyCodeIs ==
    ASSUME NEW k \in Keys
    PROVE  KeyCode(k) \in 0 .. 255
<1>1. k.sym \in Nat /\ k.char \in Nat
  BY InputAssumption
<1>2. ASSUME k.sym \in 273 .. 276 PROVE ArrowKey(k.sym) \in 0 .. 255
  <2>1. k.sym = 273 \/ k.sym = 274 \/ k.sym = 275 \/ k.sym = 276
    BY <1>1, <1>2
  <2> QED  BY <2>1 DEF ArrowKey
<1> QED  BY <1>1, <1>2 DEF KeyCode

LEMMA KeysInvStep ==
    ASSUME QueueInv, KeysInv, [Next]_vars
    PROVE  QueueInv' /\ KeysInv'
<1>1. QueueStep
  BY StepIs
<1>2. ASSUME Takes, NextEvent.type = "KEYDOWN" PROVE key'.code \in Int
  <2>1. polled + 1 \in 1 .. Len(happened)
    BY <1>2 DEF QueueInv, Takes
  <2>2. NextEvent.arg \in Keys
    BY <1>2, <2>1 DEF QueueInv, EventOK, NextEvent
  <2>3. KeyCode(NextEvent.arg) \in Int
    BY <2>2, KeyCodeIs
  <2> QED  BY <1>2, <2>3 DEF Takes
<1>3. key'.code \in Int
  BY <1>1, <1>2 DEF QueueStep, Adds, Takes, Keeps, Answers, KeysInv
<1> QED  BY <1>1, <1>3, KeysKept, QueueKept

LEMMA QueueInvInit ==
    ASSUME Init
    PROVE  QueueInv
  BY DEF Init, InputInit, QueueInv

LEMMA KeysInvInit ==
    ASSUME Init
    PROVE  KeysInv
<1>1. taken = << >> /\ key.code = 0 /\ polled = 0
  BY DEF Init, InputInit, NoKey, Key
<1>2. taken \in Seq(Int) /\ Len(taken) = 0
  BY <1>1
<1> DEFINE f == [i \in 1 .. 0 |-> i]
<1>3. Sources(f, Len(taken), polled)
  BY <1>1, <1>2 DEF Sources
<1>4. Latest(f, Len(taken), polled)
  BY <1>1 DEF Latest
<1> QED  BY <1>1, <1>2, <1>3, <1>4 DEF KeysInv

\* An image that polls gets keys in the order in which they were pressed, none
\* twice, whatever it polls in between and whatever else the user does (next_keycode,
\* peek_keycode, pump_events, get_next_event).
THEOREM KeysComeInOrder == Spec => []KeysTakenInOrder
<1>1. Init => QueueInv /\ KeysInv
  BY QueueInvInit, KeysInvInit
<1>2. QueueInv /\ KeysInv /\ [Next]_vars => QueueInv' /\ KeysInv'
  BY KeysInvStep
<1>3. QueueInv /\ KeysInv => KeysTakenInOrder
  BY KeysInvOrdered
<1> QED  BY <1>1, <1>2, <1>3, PTL DEF Spec

--------------------------------------------------------------------------------
(* Buttons.                                                                  *)

ButtonsHeld(n) == StillDown("MOUSEBUTTONDOWN", "MOUSEBUTTONUP", n)

\* The button that event k let go or pressed, and nothing else, changes.
LEMMA HeldAfter ==
    ASSUME QueueInv, NEW n \in Nat, n + 1 <= Len(happened), NEW e, e = happened[n + 1]
    PROVE  /\ e.type = "MOUSEBUTTONDOWN" => ButtonsHeld(n + 1) = ButtonsHeld(n) \union {e.arg}
           /\ e.type = "MOUSEBUTTONUP" => ButtonsHeld(n + 1) = ButtonsHeld(n) \ {e.arg}
           /\ ~ MouseButton(e) => ButtonsHeld(n + 1) = ButtonsHeld(n)
<1> DEFINE Down(b, i, m) ==
               /\ i \in 1 .. m /\ happened[i].type = "MOUSEBUTTONDOWN" /\ happened[i].arg = b
               /\ \A j \in i + 1 .. m : happened[j].type = "MOUSEBUTTONUP" => happened[j].arg # b
<1>1. \A m, b : b \in ButtonsHeld(m) <=> \E i : Down(b, i, m)
  BY DEF ButtonsHeld, StillDown
<1>2. ASSUME NEW b, NEW i \in Nat, i <= n
      PROVE  Down(b, i, n + 1) <=> /\ Down(b, i, n)
                                   /\ e.type = "MOUSEBUTTONUP" => e.arg # b
  <2>1. \A j : j \in i + 1 .. n + 1 <=> j \in i + 1 .. n \/ j = n + 1
    BY <1>2
  <2>2. i \in 1 .. n + 1 <=> i \in 1 .. n
    BY <1>2
  <2> QED  BY <2>1, <2>2
<1>3. ASSUME NEW b
      PROVE  Down(b, n + 1, n + 1) <=> e.type = "MOUSEBUTTONDOWN" /\ e.arg = b
  <2>1. n + 1 \in 1 .. n + 1 /\ n + 1 + 1 .. n + 1 = {}
    OBVIOUS
  <2> QED  BY <2>1
<1>4. \A b, i : /\ Down(b, i, n + 1) => i \in Nat /\ (i <= n \/ i = n + 1)
                /\ Down(b, i, n) => i \in Nat /\ i <= n
  OBVIOUS
<1> HIDE DEF Down
<1>5. \A b : b \in ButtonsHeld(n + 1)
               <=> \/ b \in ButtonsHeld(n) /\ (e.type = "MOUSEBUTTONUP" => e.arg # b)
                   \/ e.type = "MOUSEBUTTONDOWN" /\ e.arg = b
  BY <1>1, <1>2, <1>3, <1>4
<1> QED  BY <1>5 DEF MouseButton

\* Events that are queued behind the first n do not matter.
LEMMA HeldStays ==
    ASSUME NEW n \in Nat, \A i \in 1 .. n : happened'[i] = happened[i]
    PROVE  ButtonsHeld(n)' = ButtonsHeld(n)
<1>1. \A i \in 1 .. n : \A j \in i + 1 .. n : j \in 1 .. n
  OBVIOUS
<1> QED  BY <1>1 DEF ButtonsHeld, StillDown

BitsHeld(n) == UNION {ButtonBits(b) : b \in ButtonsHeld(n)}

\* No two buttons share a bit: a mouse of three buttons.
OwnBits == \A a, b \in Buttons : a # b => ButtonBits(a) \intersect ButtonBits(b) = {}

LEMMA HeldAreButtons ==
    ASSUME QueueInv, NEW n \in 0 .. Len(happened)
    PROVE  ButtonsHeld(n) \subseteq Buttons
<1>1. \A i \in 1 .. n : i \in 1 .. Len(happened)
  BY DEF QueueInv
<1> QED  BY <1>1 DEF QueueInv, EventOK, MouseButton, ButtonsHeld, StillDown

LEMMA ButtonsKept ==
    ASSUME OwnBits, QueueInv, QueueStep, button = BitsHeld(polled)
    PROVE  button' = BitsHeld(polled)'
<1>1. polled \in Nat /\ polled' \in Nat /\ \A i \in 1 .. polled : happened'[i] = happened[i]
  BY QueueKept DEF QueueInv
<1>2. CASE ~ Takes
  <2>1. button' = button /\ polled' = polled
    BY <1>2 DEF QueueStep, Adds, Keeps, Answers
  <2> PICK n \in Nat : n = polled
    BY <1>1
  <2>2. ButtonsHeld(n)' = ButtonsHeld(n)
    BY <1>1, HeldStays
  <2>3. BitsHeld(polled)' = BitsHeld(n)
    BY <2>1, <2>2 DEF BitsHeld
  <2> QED  BY <2>1, <2>3
<1>3. CASE Takes
  <2> PICK n \in Nat : n = polled
    BY <1>1
  <2> PICK e : e = NextEvent
    OBVIOUS
  <2>1. /\ n + 1 <= Len(happened) /\ polled' = n + 1 /\ happened' = happened
        /\ e = happened[n + 1] /\ n \in 0 .. Len(happened) /\ n + 1 \in 1 .. Len(happened)
    BY <1>3 DEF Takes, NextEvent, QueueInv
  <2>2. /\ e.type = "MOUSEBUTTONDOWN" => ButtonsHeld(n + 1) = ButtonsHeld(n) \union {e.arg}
        /\ e.type = "MOUSEBUTTONUP" => ButtonsHeld(n + 1) = ButtonsHeld(n) \ {e.arg}
        /\ ~ MouseButton(e) => ButtonsHeld(n + 1) = ButtonsHeld(n)
    BY <2>1, HeldAfter
  <2>3. button' = IF MouseButton(e) THEN ButtonAfter(e) ELSE button
    BY <1>3 DEF Takes
  <2>4. BitsHeld(polled)' = BitsHeld(n + 1)
    BY <2>1 DEF BitsHeld, ButtonsHeld, StillDown
  <2>5. ButtonsHeld(n) \subseteq Buttons
    BY <2>1, HeldAreButtons
  <2>6. CASE e.type = "MOUSEBUTTONDOWN"
    <3>1. BitsHeld(n + 1) = BitsHeld(n) \union ButtonBits(e.arg)
      BY <2>2, <2>6 DEF BitsHeld
    <3> QED  BY <2>3, <2>4, <2>6, <3>1 DEF ButtonAfter, MouseButton
  <2>7. CASE e.type = "MOUSEBUTTONUP"
    <3>1. e.arg \in Buttons
      BY <2>1, <2>7 DEF QueueInv, EventOK, MouseButton
    <3>2. \A b \in ButtonsHeld(n) \ {e.arg} : ButtonBits(b) \intersect ButtonBits(e.arg) = {}
      BY <2>5, <3>1 DEF OwnBits
    <3>3. BitsHeld(n + 1) = BitsHeld(n) \ ButtonBits(e.arg)
      BY <2>2, <2>7, <3>2 DEF BitsHeld
    <3> QED  BY <2>3, <2>4, <2>7, <3>3 DEF ButtonAfter, MouseButton
  <2>8. CASE ~ MouseButton(e)
    BY <2>2, <2>3, <2>4, <2>8 DEF BitsHeld
  <2> QED  BY <2>6, <2>7, <2>8 DEF MouseButton
<1> QED  BY <1>2, <1>3

LEMMA ModifiersAre ==
    ASSUME QueueInv
    PROVE  get_modifier_mask \subseteq {1, 2, 4, 8}
<1>1. \A k \in KeysDown : k.mods \subseteq {1, 2, 4, 8}
  BY DownWasPressed, InputAssumption
<1> HIDE DEF KeysDown
<1> QED  BY <1>1 DEF get_modifier_mask

--------------------------------------------------------------------------------
(* The buttons of the mouse events that the image is given. Deferred events are  *)
(* never the mouse's.                                                        *)

AnySeq(s) == \E S : s \in Seq(S)

GivenInv ==
    /\ AnySeq(delivered)
    /\ deferred_event # None => deferred_event.type \in {2, 5}

Fresh == DOMAIN delivered' \ DOMAIN delivered

LEMMA OneIsFresh ==
    ASSUME AnySeq(delivered), NEW ev, delivered' = Append(delivered, ev)
    PROVE  AnySeq(delivered)' /\ \A i \in Fresh : delivered'[i] = ev
<1>1. PICK S : delivered \in Seq(S)
  BY DEF AnySeq
<1>2. delivered \in Seq(S \union {ev}) /\ Len(delivered) \in Nat
  BY <1>1
<1>3. delivered' \in Seq(S \union {ev})
  BY <1>2
<1>4. /\ DOMAIN delivered' = 1 .. Len(delivered) + 1 /\ DOMAIN delivered = 1 .. Len(delivered)
      /\ delivered'[Len(delivered) + 1] = ev
  BY <1>2
<1>5. Fresh = {Len(delivered) + 1}
  BY <1>2, <1>4 DEF Fresh
<1> QED  BY <1>3, <1>4, <1>5 DEF AnySeq

LEMMA NoneIsFresh ==
    ASSUME GivenInv, delivered' = delivered, deferred_event' = deferred_event
    PROVE  GivenInv' /\ Fresh = {}
  BY DEF GivenInv, AnySeq, Fresh

\* Of ctrl nothing is left in the shifted modifiers, and shift is where command is
\* looked for.
LEMMA MouseButtonIs ==
    ASSUME QueueInv, NEW bits, NEW position
    PROVE  MouseEvent(bits, position).button = HeldAs(bits)
<1>1. \A b \in get_modifier_mask : b = 1 \/ b = 2 \/ b = 4 \/ b = 8
  BY ModifiersAre
<1>2. 2 \notin ModifiersGiven /\ (8 \in ModifiersGiven <=> 1 \in get_modifier_mask)
  BY <1>1 DEF ModifiersGiven
<1> QED  BY <1>2 DEF MouseEvent, HeldAs, CtrlKeyBit, CommandKeyBit, ShiftKeyBit

MouseGiven(ev) == ev = MouseEvent(button', mouse_position') /\ happened' = happened

LEMMA WhatIsGiven ==
    ASSUME QueueInv, GivenInv, [Next]_vars
    PROVE  /\ GivenInv'
           /\ \A i \in Fresh : delivered'[i].type = EventTypeMouse => MouseGiven(delivered'[i])
<1>1. CASE GetMouse
  <2>1. delivered' = Append(delivered, MouseEvent(button', mouse_position'))
    BY <1>1 DEF GetMouse, Answer
  <2>2. happened' = happened /\ deferred_event' = deferred_event
    BY <1>1 DEF GetMouse, Poll
  <2> PICK ev : ev = MouseEvent(button', mouse_position')
    OBVIOUS
  <2>3. AnySeq(delivered)' /\ \A i \in Fresh : delivered'[i] = ev
    BY <2>1, OneIsFresh DEF GivenInv
  <2> QED  BY <2>2, <2>3 DEF GivenInv, MouseGiven
<1>2. ASSUME NEW ev, delivered' = Append(delivered, ev), ev.type \in {2, 5},
             deferred_event' # None => deferred_event'.type \in {2, 5}
      PROVE  /\ GivenInv'
             /\ \A i \in Fresh : delivered'[i].type # EventTypeMouse
  <2>1. AnySeq(delivered)' /\ \A i \in Fresh : delivered'[i] = ev
    BY <1>2, OneIsFresh DEF GivenInv
  <2>2. ev.type # EventTypeMouse
    BY <1>2 DEF EventTypeMouse
  <2>3. \A i \in Fresh : delivered'[i].type # EventTypeMouse
    BY <2>1, <2>2
  <2>4. GivenInv'
    BY <1>2, <2>1 DEF GivenInv
  <2> QED  BY <2>3, <2>4
<1>3. CASE GetDeferred
  <2>1. /\ delivered' = Append(delivered, deferred_event) /\ deferred_event' = None
        /\ deferred_event.type \in {2, 5}
    BY <1>3 DEF GetDeferred, Answer, GivenInv
  <2> QED  BY <2>1, <1>2
<1>4. CASE GetKeyDown
  <2>1. CASE delivered' = delivered
    BY <1>4, <2>1, NoneIsFresh DEF GetKeyDown
  <2>2. CASE delivered' # delivered
    <3>1. PICK ev : ev = KeyEvent("down", KeyAfter(NextEvent))
      OBVIOUS
    <3>2. delivered' = Append(delivered, ev) /\ deferred_event' = deferred_event
      BY <1>4, <2>2, <3>1 DEF GetKeyDown, Answer, NextEvent
    <3>3. ev.type = 2
      BY <3>1 DEF KeyEvent, EventTypeKeyboard
    <3> QED  BY <3>2, <3>3, <1>2 DEF GivenInv
  <2> QED  BY <2>1, <2>2
<1>5. CASE GetKeyUp
  <2>1. PICK ev : ev = KeyEvent("char", key)
    OBVIOUS
  <2>2. delivered' = Append(delivered, ev) /\ deferred_event' = KeyEvent("up", key)
    BY <1>5, <2>1 DEF GetKeyUp, Answer
  <2>3. ev.type = 2 /\ KeyEvent("up", key).type = 2
    BY <2>1 DEF KeyEvent, EventTypeKeyboard
  <2> QED  BY <2>2, <2>3, <1>2
<1>6. CASE GetWindow
  <2>1. PICK what :
            /\ delivered' = Append(delivered, WindowEvent(what))
            /\ deferred_event' = None \/ deferred_event' = WindowEvent("paint")
    BY <1>6 DEF GetWindow, Answer
  <2>2. PICK ev : ev = WindowEvent(what)
    OBVIOUS
  <2>3. ev.type = 5 /\ WindowEvent("paint").type = 5
    BY <2>2 DEF WindowEvent, EventTypeWindow
  <2> QED  BY <2>1, <2>2, <2>3, <1>2
<1>7. CASE delivered' = delivered /\ deferred_event' = deferred_event
  BY <1>7, NoneIsFresh
<1>8. CASE ScreenActs \/ UNCHANGED vars
  BY <1>7, <1>8, ScreenKeeps DEF vars, inputVars
<1>9. CASE InputActs
  <2>1. ASSUME UserActs \/ PollMouse \/ KbdPeek \/ KbdNext \/ SetInterruptKey
        PROVE  delivered' = delivered /\ deferred_event' = deferred_event
    BY <2>1 DEF UserActs, PollMouse, KbdPeek, PumpEvents, KbdNext, SetInterruptKey
  <2> QED  BY <1>1, <1>2, <1>3, <1>4, <1>5, <1>6, <1>7, <1>9, <2>1
           DEF InputActs, InputNext, GetNextEvent, EventTypeMouse
<1> QED  BY <1>8, <1>9 DEF Next

\* The buttons that the image sees, and is given with each event of the mouse, are
\* those that were down when the event happened, however it polls, if each button has
\* bits of its own: the numbers of the wheel are bits of the first buttons
\* (handle_mouse_button, get_next_mouse_event).
THEOREM ButtonsStayAsHeld ==
    ASSUME OwnBits
    PROVE  Spec => ButtonsAsHeld
<1> DEFINE Kept  == button = Held(polled)
           Given == \A i \in DOMAIN delivered' \ DOMAIN delivered :
                        delivered'[i].type = EventTypeMouse
                            => delivered'[i].button = HeldAs(Held(polled))'
<1>1. Init => QueueInv /\ GivenInv /\ Kept
  <2> SUFFICES ASSUME Init PROVE QueueInv /\ GivenInv /\ Kept
    OBVIOUS
  <2>1. button = {} /\ polled = 0 /\ delivered = << >> /\ deferred_event = None
    BY DEF Init, InputInit
  <2>2. << >> \in Seq({})
    OBVIOUS
  <2>3. GivenInv
    BY <2>1, <2>2 DEF GivenInv, AnySeq
  <2> QED  BY <2>1, <2>3, QueueInvInit DEF Held, StillDown
<1>2. QueueInv /\ GivenInv /\ Kept /\ [Next]_vars => QueueInv' /\ GivenInv' /\ Kept' /\ Given
  <2> SUFFICES ASSUME QueueInv, GivenInv, Kept, [Next]_vars
               PROVE  QueueInv' /\ GivenInv' /\ Kept' /\ Given
    OBVIOUS
  <2>1. button = BitsHeld(polled)
    BY DEF BitsHeld, ButtonsHeld, Held
  <2>2. QueueStep
    BY StepIs
  <2>3. button' = BitsHeld(polled)'
    BY <2>1, <2>2, ButtonsKept
  <2>4. Kept'
    BY <2>3 DEF BitsHeld, ButtonsHeld, Held
  <2>5. ASSUME NEW i \in Fresh, delivered'[i].type = EventTypeMouse
        PROVE  delivered'[i].button = HeldAs(Held(polled))'
    <3>1. delivered'[i] = MouseEvent(button', mouse_position') /\ happened' = happened
      BY <2>5, WhatIsGiven DEF MouseGiven
    <3>2. MouseEvent(button', mouse_position').button = HeldAs(button')
      BY MouseButtonIs
    <3>3. get_modifier_mask' = get_modifier_mask
      BY <3>1 DEF get_modifier_mask, KeysDown, StillDown
    <3>4. HeldAs(Held(polled))' = HeldAs(button')
      BY <2>4, <3>3 DEF HeldAs
    <3> QED  BY <3>1, <3>2, <3>4
  <2> QED  BY <2>2, <2>4, <2>5, QueueKept, WhatIsGiven DEF Fresh
<1> HIDE DEF Kept, Given
<1>3. Spec => []Kept /\ [][Given]_inputVars
  BY <1>1, <1>2, PTL DEF Spec
<1> QED  BY <1>3 DEF ButtonsAsHeld, Kept, Given

--------------------------------------------------------------------------------
(* Sequences of sequences.                                                  *)

\* The kinds of events that an image may get.
Kinds ==
    {<<1>>} \union ({2} \X {"down", "char", "up"} \X Int)
            \union ({5} \X {"metric", "activated", "close", "paint"})

\* A set of natural numbers has a least element.
LEMMA LeastNumber ==
    ASSUME NEW T \in SUBSET Nat, T # {}
    PROVE  \E i \in T : \A j \in T : i <= j
<1>1. PICK i \in T : \A j \in T : ~ (<<j, i>> \in OpToRel(<, Nat))
  BY NatLessThanWellFounded, WFMin
<1>2. \A j \in T : ~ (j < i)
  BY <1>1 DEF OpToRel
<1> QED  BY <1>2

\* The first n elements of a sequence of sequences, one after the other.
Flattens(f, s, n) == f = [i \in 1 .. n |-> IF i = 1 THEN s[i] ELSE f[i - 1] \o s[i]]

LEMMA FlattenExists ==
    ASSUME NEW s \in Seq(Seq(Kinds)), NEW n \in Nat, n <= Len(s)
    PROVE  \E f \in [1 .. n -> Seq(Kinds)] : Flattens(f, s, n)
<1> DEFINE T == {m \in Nat : m <= Len(s) /\ ~ \E f \in [1 .. m -> Seq(Kinds)] : Flattens(f, s, m)}
<1>1. SUFFICES T = {}
  OBVIOUS
<1>2. SUFFICES ASSUME T # {} PROVE FALSE
  OBVIOUS
<1>3. PICK m \in T : \A j \in T : m <= j
  BY <1>2, LeastNumber
<1>4. m \in Nat /\ m <= Len(s) /\ Len(s) \in Nat
  OBVIOUS
<1>5. m # 0
  <2> SUFFICES ASSUME m = 0 PROVE FALSE
    OBVIOUS
  <2> DEFINE f == [i \in 1 .. 0 |-> s[i]]
  <2>1. f \in [1 .. m -> Seq(Kinds)] /\ Flattens(f, s, m)
    BY DEF Flattens
  <2> QED  BY <2>1
<1> PICK k \in Nat : k = m - 1
  BY <1>4, <1>5
<1>6. k + 1 = m /\ k < m /\ k <= Len(s) /\ k \notin T
  <2>1. k + 1 = m /\ k < m /\ k <= Len(s)
    BY <1>4
  <2> HIDE DEF T
  <2>2. k \in T => m <= k
    BY <1>3
  <2> QED  BY <1>4, <2>1, <2>2
<1>7. PICK f \in [1 .. k -> Seq(Kinds)] : Flattens(f, s, k)
  BY <1>6
<1>8. s[m] \in Seq(Kinds)
  BY <1>4, <1>5
<1> PICK x : x = IF m = 1 THEN s[m] ELSE f[k] \o s[m]
  OBVIOUS
<1>9. x \in Seq(Kinds)
  <2>1. CASE m = 1
    BY <1>8, <2>1
  <2>2. CASE m # 1
    <3>1. k \in 1 .. k
      BY <1>6, <2>2
    <3>2. f[k] \in Seq(Kinds)
      BY <1>7, <3>1
    <3> QED  BY <1>8, <2>2, <3>2
  <2> QED  BY <2>1, <2>2
<1> PICK g : g = [i \in 1 .. m |-> IF i <= k THEN f[i] ELSE x]
  OBVIOUS
<1>10. \A i \in 1 .. m : i \in 1 .. k \/ i = m
  BY <1>6
<1>11. \A i \in 1 .. k : i \in 1 .. m /\ g[i] = f[i]
  BY <1>6
<1>12. m \in 1 .. m /\ g[m] = x
  BY <1>6
<1>13. g \in [1 .. m -> Seq(Kinds)]
  BY <1>7, <1>9, <1>10, <1>11, <1>12
<1>14. \A i \in 1 .. m : g[i] = IF i = 1 THEN s[i] ELSE g[i - 1] \o s[i]
  <2> SUFFICES ASSUME NEW i \in 1 .. m PROVE g[i] = IF i = 1 THEN s[i] ELSE g[i - 1] \o s[i]
    OBVIOUS
  <2>1. CASE i = m
    <3>1. m # 1 => k \in 1 .. k /\ m - 1 = k
      BY <1>6
    <3> QED  BY <1>11, <1>12, <2>1, <3>1
  <2>2. CASE i \in 1 .. k
    <3>1. f[i] = IF i = 1 THEN s[i] ELSE f[i - 1] \o s[i]
      BY <1>7, <2>2 DEF Flattens
    <3>2. i # 1 => i - 1 \in 1 .. k
      BY <2>2
    <3> QED  BY <1>11, <2>2, <3>1, <3>2
  <2> QED  BY <1>10, <2>1, <2>2
<1>15. Flattens(g, s, m)
  BY <1>13, <1>14 DEF Flattens
<1> QED  BY <1>4, <1>13, <1>15

\* The first n elements are the same.
Agree(s, t, n) == \A i \in 1 .. n : s[i] = t[i]

LEMMA FlattenUnique ==
    ASSUME NEW s, NEW t, NEW n \in Nat, NEW m \in Nat, n <= m, Agree(s, t, n),
           NEW f, NEW g, Flattens(f, s, n), Flattens(g, t, m)
    PROVE  Agree(f, g, n)
<1> DEFINE T == {i \in 1 .. n : f[i] # g[i]}
<1>1. SUFFICES ASSUME T # {} PROVE FALSE
  BY DEF Agree
<1>2. PICK i \in T : \A j \in T : i <= j
  <2>1. T \in SUBSET Nat
    OBVIOUS
  <2> HIDE DEF T
  <2> QED  BY <1>1, <2>1, LeastNumber
<1>3. i \in 1 .. n /\ i \in 1 .. m
  OBVIOUS
<1>4. /\ f[i] = IF i = 1 THEN s[i] ELSE f[i - 1] \o s[i]
      /\ g[i] = IF i = 1 THEN t[i] ELSE g[i - 1] \o t[i]
  BY <1>3 DEF Flattens
<1>5. i # 1 => i - 1 \in 1 .. n /\ i - 1 \notin T
  BY <1>2, <1>3
<1> QED  BY <1>3, <1>4, <1>5 DEF Agree

LEMMA FlattenIs ==
    ASSUME NEW s, Len(s) \in Nat, Len(s) # 0, NEW f, Flattens(f, s, Len(s))
    PROVE  FlattenSeq(s) = f[Len(s)]
<1> DEFINE g == CHOOSE g : Flattens(g, s, Len(s))
<1>1. FlattenSeq(s) = g[Len(s)]
  BY DEF FlattenSeq, Flattens
<1>2. Flattens(g, s, Len(s))
  OBVIOUS
<1> HIDE DEF g
<1> PICK n \in Nat : n = Len(s)
  OBVIOUS
<1>3. n \in 1 .. n /\ n <= n
  OBVIOUS
<1>4. f[n] = g[n]
  <2>1. Flattens(f, s, n) /\ Flattens(g, s, n) /\ Agree(s, s, n)
    BY <1>2 DEF Agree
  <2>2. Agree(f, g, n)
    BY <1>3, <2>1, FlattenUnique
  <2> QED  BY <1>3, <2>2 DEF Agree
<1> QED  BY <1>1, <1>4

\* What FlattenSeq does to a sequence that grows.
LEMMA FlattenAppend ==
    ASSUME NEW s \in Seq(Seq(Kinds)), NEW x \in Seq(Kinds)
    PROVE  /\ FlattenSeq(s) \in Seq(Kinds)
           /\ FlattenSeq(Append(s, x)) = FlattenSeq(s) \o x
<1> PICK n \in Nat : n = Len(s)
  OBVIOUS
<1> PICK m \in Nat : m = n + 1
  OBVIOUS
<1> PICK t : t = Append(s, x)
  OBVIOUS
<1>1. /\ t \in Seq(Seq(Kinds)) /\ Len(t) = m /\ t[m] = x
      /\ \A i \in 1 .. n : s[i] = t[i]
  OBVIOUS
<1>1a. n <= Len(s) /\ m <= Len(t)
  BY <1>1
<1>2. PICK f \in [1 .. n -> Seq(Kinds)] : Flattens(f, s, n)
  BY <1>1a, FlattenExists
<1>3. PICK g \in [1 .. m -> Seq(Kinds)] : Flattens(g, t, m)
  BY <1>1, <1>1a, FlattenExists
<1>4. FlattenSeq(t) = g[m]
  <2>1. Len(t) \in Nat /\ Len(t) # 0 /\ Flattens(g, t, Len(t))
    BY <1>1, <1>3
  <2>2. FlattenSeq(t) = g[Len(t)]
    BY <2>1, FlattenIs
  <2> QED  BY <1>1, <2>2
<1>5. g[m] = IF m = 1 THEN x ELSE g[m - 1] \o x
  <2>1. m \in 1 .. m
    OBVIOUS
  <2> QED  BY <1>1, <1>3, <2>1 DEF Flattens
<1>6. CASE n = 0
  <2>1. s = << >>
    <3> DEFINE K == Seq(Kinds)
    <3>1. s \in Seq(K) /\ Len(s) = 0
      BY <1>6
    <3> HIDE DEF K
    <3> QED  BY <3>1
  <2>2. FlattenSeq(s) = << >>
    BY <2>1 DEF FlattenSeq
  <2>3. m = 1
    BY <1>6
  <2>4. FlattenSeq(t) = x
    BY <1>4, <1>5, <2>3
  <2>5. << >> \o x = x /\ << >> \in Seq(Kinds)
    OBVIOUS
  <2> QED  BY <2>2, <2>4, <2>5
<1>7. CASE n # 0
  <2>1. FlattenSeq(s) = f[n]
    <3>1. Len(s) \in Nat /\ Len(s) # 0 /\ Flattens(f, s, Len(s))
      BY <1>2, <1>7
    <3> QED  BY <3>1, FlattenIs
  <2>2. n \in 1 .. n /\ n <= m
    BY <1>7
  <2>3. f[n] = g[n]
    <3>1. Flattens(f, s, n) /\ Flattens(g, t, m) /\ n <= m
      BY <1>2, <1>3, <2>2
    <3>2. Agree(s, t, n)
      BY <1>1 DEF Agree
    <3>3. Agree(f, g, n)
      BY <3>1, <3>2, FlattenUnique
    <3> QED  BY <2>2, <3>3 DEF Agree
  <2>4. m - 1 = n /\ m # 1 /\ f[n] \in Seq(Kinds)
    BY <1>2, <1>7, <2>2
  <2> QED  BY <1>4, <1>5, <2>1, <2>3, <2>4
<1> QED  BY <1>6, <1>7

--------------------------------------------------------------------------------
(* Events that the image gets.                                               *)

\* An image that gets its events with the event primitive, and is not interrupted.
GetsEvents == evented /\ running /\ "polls" \notin ImageDoes

\* What it has got, what is deferred, and what it was to get for the first n.
Got     == [i \in DOMAIN delivered |-> Kind(delivered[i])]
Pending == IF deferred_event = None THEN << >> ELSE <<Kind(deferred_event)>>
Due(n)  == [i \in 1 .. n |-> Promised(i)]

OrderInv ==
    GetsEvents =>
        /\ AnySeq(delivered)
        /\ Got \in Seq(Kinds) /\ Pending \in Seq(Kinds) /\ Due(polled) \in Seq(Seq(Kinds))
        /\ key.code = LastKey(polled) /\ key.code \in Int
        /\ Got \o Pending = FlattenSeq(Due(polled))

\* None is a value of its own.
NoneIsNoEvent ==
    \A t, w, m, b : None # [type |-> t, what |-> w, mods |-> m, button |-> b]

Extends(t, s, e) == t = Append(s, e)

LEMMA AnyAppend ==
    ASSUME NEW s, AnySeq(s), NEW e, NEW t, Extends(t, s, e)
    PROVE  /\ AnySeq(t)
           /\ DOMAIN t = 1 .. Len(s) + 1 /\ DOMAIN s = 1 .. Len(s) /\ Len(s) \in Nat
           /\ t[Len(s) + 1] = e /\ \A i \in 1 .. Len(s) : t[i] = s[i]
<1>1. PICK S : s \in Seq(S)
  BY DEF AnySeq
<1> PICK U : U = S \union {e}
  OBVIOUS
<1>2. Len(s) \in Nat /\ DOMAIN s = 1 .. Len(s) /\ \A i \in 1 .. Len(s) : s[i] \in U
  BY <1>1
<1>3. s \in Seq(U) /\ e \in U
  BY <1>1, <1>2
<1>4. t \in Seq(U) /\ t = Append(s, e)
  BY <1>3 DEF Extends
<1> QED  BY <1>2, <1>3, <1>4 DEF AnySeq

LEMMA KindIs ==
    /\ <<1>> \in Kinds
    /\ \A w \in {"down", "char", "up"}, c \in Int : <<2, w, c>> \in Kinds
    /\ \A w \in {"metric", "activated", "close", "paint"} : <<5, w>> \in Kinds
  BY DEF Kinds

\* The key pressed last after one more event.
LEMMA LastKeyAfter ==
    ASSUME QueueInv, NEW n \in Nat, n + 1 <= Len(happened)
    PROVE  LastKey(n + 1) = IF happened[n + 1].type = "KEYDOWN"
                            THEN KeyCode(happened[n + 1].arg) ELSE LastKey(n)
<1> DEFINE D(m) == {i \in 1 .. m : happened[i].type = "KEYDOWN"}
<1>1. CASE happened[n + 1].type = "KEYDOWN"
  <2>1. n + 1 \in D(n + 1) /\ \A i \in D(n + 1) : n + 1 >= i
    BY <1>1
  <2>2. \A i \in D(n + 1) : (\A j \in D(n + 1) : i >= j) => i = n + 1
    BY <2>1
  <2>3. Max(D(n + 1)) = n + 1
    <3> PICK T : T = D(n + 1)
      OBVIOUS
    <3> PICK m : m = n + 1
      OBVIOUS
    <3>1. m \in T /\ \A i \in T : m >= i
      BY <2>1
    <3>2. \A i \in T : (\A j \in T : i >= j) => i = m
      BY <2>2
    <3>3. Max(T) = m
      BY <3>1, <3>2 DEF Max
    <3> QED  BY <3>3
  <2> HIDE DEF D
  <2>4. LastKey(n + 1) = IF D(n + 1) = {} THEN 0 ELSE KeyCode(happened[Max(D(n + 1))].arg)
    BY DEF LastKey, D
  <2> QED  BY <1>1, <2>1, <2>3, <2>4
<1>2. CASE happened[n + 1].type # "KEYDOWN"
  <2>1. \A i : i \in 1 .. n + 1 <=> i \in 1 .. n \/ i = n + 1
    OBVIOUS
  <2>2. D(n + 1) = D(n)
    BY <1>2, <2>1
  <2> HIDE DEF D
  <2>3. /\ LastKey(n + 1) = IF D(n + 1) = {} THEN 0 ELSE KeyCode(happened[Max(D(n + 1))].arg)
        /\ LastKey(n) = IF D(n) = {} THEN 0 ELSE KeyCode(happened[Max(D(n))].arg)
    BY DEF LastKey, D
  <2> QED  BY <1>2, <2>2, <2>3
<1> QED  BY <1>1, <1>2

\* What was promised for events that have happened stays the same.
LEMMA PromisesStay ==
    ASSUME NEW n \in Nat, \A i \in 1 .. n : happened'[i] = happened[i]
    PROVE  LastKey(n)' = LastKey(n) /\ Due(n)' = Due(n)
<1>1. ASSUME NEW m \in 0 .. n PROVE LastKey(m)' = LastKey(m)
  <2> DEFINE D == {i \in 1 .. m : happened[i].type = "KEYDOWN"}
  <2>1. \A i \in 1 .. m : happened'[i] = happened[i]
    OBVIOUS
  <2>2. D' = D
    BY <2>1
  <2>3. ASSUME D # {} PROVE Max(D) \in 1 .. m
    <3>1. PICK d \in D : TRUE
      BY <2>3
    <3>2. \E x \in D : \A y \in D : x >= y
      <4> DEFINE E == {m - i : i \in D}
      <4>1. E \in SUBSET Nat /\ E # {}
        BY <3>1
      <4> HIDE DEF E
      <4>2. PICK e \in E : \A f \in E : e <= f
        BY <4>1, LeastNumber
      <4>3. PICK x \in D : e = m - x
        BY DEF E
      <4>4. \A y \in D : m - y \in E
        BY DEF E
      <4>5. \A y \in D : m - x <= m - y
        BY <4>2, <4>3, <4>4
      <4> QED  BY <4>3, <4>5
    <3> HIDE DEF D
    <3>3. Max(D) \in D
      BY <3>2 DEF Max
    <3> QED  BY <3>3 DEF D
  <2>4. /\ LastKey(m) = IF D = {} THEN 0 ELSE KeyCode(happened[Max(D)].arg)
        /\ LastKey(m)' = IF D' = {} THEN 0 ELSE KeyCode(happened'[Max(D')].arg)
    BY DEF LastKey
  <2> HIDE DEF D
  <2> QED  BY <2>1, <2>2, <2>3, <2>4
<1>2. LastKey(n)' = LastKey(n)
  BY <1>1
<1>3. ASSUME NEW i \in 1 .. n PROVE Promised(i)' = Promised(i)
  <2>1. LastKey(i)' = LastKey(i) /\ happened'[i] = happened[i]
    BY <1>1
  <2> QED  BY <2>1 DEF Promised
<1> QED  BY <1>2, <1>3 DEF Due

LEMMA LastKeyInt ==
    ASSUME QueueInv, NEW e \in Queued, EventOK(e), e.type = "KEYDOWN"
    PROVE  KeyCode(e.arg) \in Int
<1>1. KeyCode(e.arg) \in 0 .. 255
  BY KeyCodeIs DEF EventOK
<1> QED  BY <1>1

\* One more event: what it promises comes behind the rest.
LEMMA DueAfter ==
    ASSUME NEW n \in Nat, Due(n) \in Seq(Seq(Kinds)), Promised(n + 1) \in Seq(Kinds)
    PROVE  /\ Due(n + 1) \in Seq(Seq(Kinds))
           /\ FlattenSeq(Due(n)) \in Seq(Kinds)
           /\ FlattenSeq(Due(n + 1)) = FlattenSeq(Due(n)) \o Promised(n + 1)
<1>1. Due(n + 1) = Append(Due(n), Promised(n + 1))
  <2> DEFINE K == Seq(Kinds)
             s == Due(n)
             x == Promised(n + 1)
             t == Due(n + 1)
             u == Append(s, x)
  <2>1. s \in Seq(K) /\ x \in K /\ Len(s) = n /\ DOMAIN s = 1 .. n
    BY DEF Due
  <2>2. t = [i \in 1 .. n + 1 |-> t[i]] /\ t[n + 1] = x /\ \A i \in 1 .. n : t[i] = s[i]
    BY DEF Due
  <2> HIDE DEF K, s, x, t
  <2>3. /\ u = [i \in 1 .. n + 1 |-> u[i]] /\ u[n + 1] = x
        /\ \A i \in 1 .. n : u[i] = s[i]
    <3> PICK m \in Nat : m = n + 1
      OBVIOUS
    <3>0. u \in Seq(K) /\ Len(u) = m
      BY <2>1
    <3>1. u \in Seq(K) /\ Len(u) = n + 1 /\ u[n + 1] = x /\ \A i \in 1 .. n : u[i] = s[i]
      BY <2>1, <3>0
    <3> HIDE DEF u
    <3>2. DOMAIN u = 1 .. n + 1
      BY <3>1
    <3>3. u = [i \in DOMAIN u |-> u[i]]
      BY <3>1
    <3> QED  BY <3>1, <3>2, <3>3
  <2>4. \A i \in 1 .. n + 1 : i \in 1 .. n \/ i = n + 1
    OBVIOUS
  <2> HIDE DEF u
  <2>5. \A i \in 1 .. n + 1 : t[i] = u[i]
    BY <2>2, <2>3, <2>4
  <2>6. t = u
    BY <2>2, <2>3, <2>5
  <2> QED  BY <2>6 DEF t, u, s, x
<1> DEFINE s == Due(n)
           x == Promised(n + 1)
           t == Due(n + 1)
<1>2. s \in Seq(Seq(Kinds)) /\ x \in Seq(Kinds) /\ t = Append(s, x)
  BY <1>1
<1> HIDE DEF s, x, t
<1>3. /\ FlattenSeq(s) \in Seq(Kinds)
      /\ FlattenSeq(Append(s, x)) = FlattenSeq(s) \o x
  BY <1>2, FlattenAppend
<1>4. t \in Seq(Seq(Kinds))
  <2> DEFINE K == Seq(Kinds)
  <2>1. s \in Seq(K) /\ x \in K
    BY <1>2
  <2> HIDE DEF K
  <2>2. t \in Seq(K)
    BY <1>2, <2>1
  <2> QED  BY <2>2 DEF K
<1> QED  BY <1>2, <1>3, <1>4 DEF s, x, t

\* One more event is got.
LEMMA GotGrows ==
    ASSUME AnySeq(delivered), NEW g, g = Got, g \in Seq(Kinds), NEW ev,
           delivered' = Append(delivered, ev), NEW k \in Kinds, k = Kind(ev)
    PROVE  AnySeq(delivered') /\ Got' = Append(g, k)
<1>1. /\ AnySeq(delivered') /\ DOMAIN delivered' = 1 .. Len(delivered) + 1
      /\ DOMAIN delivered = 1 .. Len(delivered) /\ Len(delivered) \in Nat
      /\ delivered'[Len(delivered) + 1] = ev
      /\ \A i \in 1 .. Len(delivered) : delivered'[i] = delivered[i]
  <2> PICK d : d = delivered
    OBVIOUS
  <2> PICK e : e = delivered'
    OBVIOUS
  <2>1. AnySeq(d) /\ Extends(e, d, ev)
    BY DEF Extends
  <2>2. /\ AnySeq(e) /\ DOMAIN e = 1 .. Len(d) + 1 /\ DOMAIN d = 1 .. Len(d)
        /\ Len(d) \in Nat /\ e[Len(d) + 1] = ev /\ \A i \in 1 .. Len(d) : e[i] = d[i]
    BY <2>1, AnyAppend
  <2> QED  BY <2>2
<1> PICK m \in Nat : m = Len(delivered)
  BY <1>1
<1> PICK t : t = Got'
  OBVIOUS
<1>2. /\ t = [i \in 1 .. m + 1 |-> t[i]] /\ t[m + 1] = k
      /\ \A i \in 1 .. m : t[i] = Kind(delivered[i])
  <2>1. t = [i \in DOMAIN delivered' |-> Kind(delivered'[i])]
    BY DEF Got, Kind
  <2>2. t = [i \in 1 .. m + 1 |-> Kind(delivered'[i])]
    BY <1>1, <2>1
  <2>3. t[m + 1] = Kind(ev)
    <3>1. m + 1 \in 1 .. m + 1
      OBVIOUS
    <3> QED  BY <1>1, <2>2, <3>1
  <2>4. \A i \in 1 .. m : i \in 1 .. m + 1
    OBVIOUS
  <2> QED  BY <1>1, <2>2, <2>3, <2>4
<1>3. /\ g \in Seq(Kinds) /\ Len(g) = m /\ \A i \in 1 .. m : g[i] = Kind(delivered[i])
  BY <1>1 DEF Got
<1> PICK u : u = Append(g, k)
  OBVIOUS
<1>4. /\ u \in Seq(Kinds) /\ Len(u) = m + 1 /\ u[m + 1] = k
      /\ \A i \in 1 .. m : u[i] = g[i]
  BY <1>3
<1>5. u = [i \in 1 .. m + 1 |-> u[i]]
  <2>1. DOMAIN u = 1 .. Len(u)
    BY <1>4
  <2>2. \A v \in Seq(Kinds) : v = [i \in DOMAIN v |-> v[i]]
    OBVIOUS
  <2> QED  BY <1>4, <2>1, <2>2, Zenon
<1>6. \A i \in 1 .. m + 1 : i \in 1 .. m \/ i = m + 1
  OBVIOUS
<1>7. \A i \in 1 .. m + 1 : t[i] = u[i]
  BY <1>2, <1>3, <1>4, <1>6
<1>8. t = u
  BY <1>2, <1>5, <1>7
<1> QED  BY <1>1, <1>8

\* The next event is polled: the image gets ev, the rest of what it was promised
\* is deferred.
LEMMA PollGives ==
    ASSUME QueueInv, OrderInv, GetsEvents, deferred_event = None,
           polled < Len(happened), happened' = happened, polled' = polled + 1,
           NEW ev, delivered' = Append(delivered, ev), Kind(ev) \in Kinds,
           Pending' = << >> \/ \E k \in Kinds : Pending' = <<k>>,
           Promised(polled + 1) = <<Kind(ev)>> \o Pending',
           key'.code = LastKey(polled + 1), key'.code \in Int
    PROVE  OrderInv'
<1>1. /\ AnySeq(delivered) /\ Got \in Seq(Kinds) /\ Due(polled) \in Seq(Seq(Kinds))
      /\ Got \o Pending = FlattenSeq(Due(polled))
  BY DEF OrderInv
<1> PICK n \in Nat : n = polled
  BY DEF QueueInv
<1> PICK k : k = Kind(ev)
  OBVIOUS
<1> PICK p : p = Pending'
  OBVIOUS
<1> PICK g : g = Got
  OBVIOUS
<1>2. AnySeq(delivered') /\ Got' = Append(g, k)
  BY <1>1, GotGrows
<1>3. p \in Seq(Kinds) /\ g \in Seq(Kinds) /\ k \in Kinds
  <2>1. p = << >> \/ \E l \in Kinds : p = <<l>>
    OBVIOUS
  <2>2. p \in Seq(Kinds)
    <3>1. CASE p = << >>
      BY <3>1
    <3>2. ASSUME NEW l \in Kinds, p = <<l>> PROVE p \in Seq(Kinds)
      BY <3>2
    <3> QED  BY <2>1, <3>1, <3>2
  <2> QED  BY <1>1, <2>2
<1>4. Promised(n + 1) = <<k>> \o p
  OBVIOUS
<1>5. Promised(n + 1) \in Seq(Kinds)
  <2>1. <<k>> \in Seq(Kinds)
    BY <1>3
  <2>2. <<k>> \o p \in Seq(Kinds)
    BY <1>3, <2>1
  <2> QED  BY <1>4, <2>2
<1>6. /\ Due(n + 1) \in Seq(Seq(Kinds))
      /\ FlattenSeq(Due(n + 1)) = FlattenSeq(Due(n)) \o Promised(n + 1)
  BY <1>1, <1>5, DueAfter
<1>7. FlattenSeq(Due(n)) = g
  <2>1. Pending = << >>
    BY DEF Pending
  <2> QED  BY <1>1, <1>3, <2>1
<1>8. Append(g, k) \o p = g \o (<<k>> \o p)
  BY <1>3
<1>9. Due(polled)' = Due(n + 1)
  BY DEF Due, Promised, LastKey
<1>10. Got' \o Pending' = FlattenSeq(Due(polled)')
  BY <1>2, <1>4, <1>6, <1>7, <1>8, <1>9
<1>11. Got' \in Seq(Kinds) /\ Pending' \in Seq(Kinds) /\ Due(polled)' \in Seq(Seq(Kinds))
  <2>1. Append(g, k) \in Seq(Kinds)
    BY <1>3
  <2> QED  BY <1>2, <1>3, <1>6, <1>9, <2>1
<1>12. key'.code = LastKey(polled)'
  <2>1. LastKey(polled)' = LastKey(n + 1)
    BY DEF LastKey
  <2> QED  BY <2>1
<1> QED  BY <1>2, <1>10, <1>11, <1>12 DEF OrderInv

\* What has been got is not disturbed.
LEMMA OrderStays ==
    ASSUME QueueInv, OrderInv, GetsEvents' => GetsEvents, QueueInv',
           \A i \in 1 .. polled : happened'[i] = happened[i],
           UNCHANGED <<polled, delivered, deferred_event>>, key'.code = key.code
    PROVE  OrderInv'
<1> SUFFICES ASSUME GetsEvents' PROVE OrderInv'
  BY DEF OrderInv
<1> PICK n \in Nat : n = polled
  BY DEF QueueInv
<1>1. LastKey(n)' = LastKey(n) /\ Due(n)' = Due(n)
  BY PromisesStay
<1>2. LastKey(polled)' = LastKey(polled) /\ Due(polled)' = Due(polled)
  <2>1. LastKey(polled)' = LastKey(n)' /\ Due(polled)' = Due(n)'
    BY DEF LastKey, Due, Promised
  <2> QED  BY <1>1, <2>1
<1>3. Got' = Got /\ Pending' = Pending
  BY DEF Got, Pending, Kind
<1> QED  BY <1>2, <1>3 DEF OrderInv

LEMMA PolledOne ==
    ASSUME QueueInv, NEW types, Poll(types)
    PROVE  /\ NextEvent.type \in types /\ EventOK(NextEvent) /\ NextEvent \in Queued
           /\ deferred_event = None /\ polled < Len(happened) /\ happened' = happened
           /\ polled' = polled + 1
           /\ LastKey(polled + 1) = IF NextEvent.type = "KEYDOWN"
                                    THEN KeyCode(NextEvent.arg) ELSE LastKey(polled)
<1> PICK n \in Nat : n = polled
  BY DEF QueueInv
<1>1. n + 1 \in 1 .. Len(happened) /\ n + 1 <= Len(happened)
  BY DEF QueueInv, Poll
<1>2. LastKey(n + 1) = IF happened[n + 1].type = "KEYDOWN"
                       THEN KeyCode(happened[n + 1].arg) ELSE LastKey(n)
  BY <1>1, LastKeyAfter
<1>3. EventOK(happened[n + 1]) /\ happened[n + 1] \in Queued
  BY <1>1 DEF QueueInv, EventOK
<1> QED  BY <1>2, <1>3 DEF Poll, NextEvent

LEMMA DeferredComes ==
    ASSUME QueueInv, OrderInv, GetsEvents, GetDeferred
    PROVE  OrderInv'
<1>1. /\ AnySeq(delivered) /\ Got \in Seq(Kinds) /\ Due(polled) \in Seq(Seq(Kinds))
      /\ Got \o Pending = FlattenSeq(Due(polled)) /\ Pending \in Seq(Kinds)
      /\ key.code = LastKey(polled) /\ key.code \in Int
  BY DEF OrderInv
<1>2. /\ deferred_event # None /\ deferred_event' = None
      /\ delivered' = Append(delivered, deferred_event)
      /\ happened' = happened /\ polled' = polled /\ key' = key
  BY DEF GetDeferred, Answer
<1> PICK ev : ev = deferred_event
  OBVIOUS
<1> PICK k : k = Kind(ev)
  OBVIOUS
<1> PICK g : g = Got
  OBVIOUS
<1>3. Pending = <<k>> /\ Pending' = << >>
  BY <1>2 DEF Pending
<1>4. k \in Kinds
  <2>1. <<k>> \in Seq(Kinds)
    BY <1>1, <1>3
  <2>2. Len(<<k>>) = 1 /\ <<k>>[1] = k
    OBVIOUS
  <2> QED  BY <2>1, <2>2
<1>5. AnySeq(delivered') /\ Got' = Append(g, k)
  BY <1>1, <1>2, <1>4, GotGrows
<1>6. LastKey(polled)' = LastKey(polled) /\ Due(polled)' = Due(polled)
  BY <1>2 DEF LastKey, Due, Promised
<1>7. Append(g, k) \in Seq(Kinds) /\ Append(g, k) \o << >> = g \o <<k>> /\ << >> \in Seq(Kinds)
  BY <1>1, <1>4
<1> QED  BY <1>1, <1>2, <1>3, <1>5, <1>6, <1>7 DEF OrderInv

LEMMA SameSeq ==
    ASSUME NEW t \in Seq(Kinds), NEW u \in Seq(Kinds), Len(t) = Len(u),
           \A i \in 1 .. Len(t) : t[i] = u[i]
    PROVE  t = u
OBVIOUS

LEMMA Joined ==
    ASSUME NEW a \in Kinds, NEW b \in Kinds
    PROVE  <<a>> = <<a>> \o << >> /\ <<a, b>> = <<a>> \o <<b>>
<1>1. <<a>> \in Seq(Kinds) /\ <<b>> \in Seq(Kinds) /\ << >> \in Seq(Kinds)
  OBVIOUS
<1> PICK s : s = <<a>>
  OBVIOUS
<1> PICK e : e = << >>
  OBVIOUS
<1>2. s \in Seq(Kinds) /\ e \in Seq(Kinds) /\ Len(e) = 0
  BY <1>1
<1>3. s \o e = s
  <2>1. Len(s \o e) = Len(s) /\ s \o e \in Seq(Kinds)
    BY <1>2
  <2>2. \A i \in 1 .. Len(s) : (s \o e)[i] = s[i]
    BY <1>2, <2>1
  <2> QED  BY <1>2, <2>1, <2>2
<1>4. Append(s, b) = s \o <<b>>
  BY <1>2
<1>5. Append(s, b) = <<a, b>>
  <2> PICK t : t = <<a, b>>
    OBVIOUS
  <2> PICK u : u = Append(s, b)
    OBVIOUS
  <2>1. <<a, b>> \in Seq(Kinds) /\ Len(<<a, b>>) = 2 /\ <<a, b>>[1] = a /\ <<a, b>>[2] = b
    OBVIOUS
  <2>2. t \in Seq(Kinds) /\ Len(t) = 2 /\ t[1] = a /\ t[2] = b
    BY <2>1
  <2>3. Len(s) = 1 /\ s[1] = a
    OBVIOUS
  <2>4. u \in Seq(Kinds) /\ Len(u) = 2 /\ u[1] = a /\ u[2] = b
    BY <1>2, <2>3
  <2>5. \A i \in 1 .. Len(t) : t[i] = u[i]
    <3>1. \A i \in 1 .. Len(t) : i = 1 \/ i = 2
      BY <2>2
    <3> QED  BY <2>2, <2>4, <3>1
  <2>6. t = u
    BY <2>2, <2>4, <2>5, SameSeq
  <2> QED  BY <2>6
<1> QED  BY <1>3, <1>4, <1>5

LEMMA MouseComes ==
    ASSUME QueueInv, OrderInv, GetsEvents, GetMouse
    PROVE  OrderInv'
<1> DEFINE types == {"MOUSEBUTTONDOWN", "MOUSEBUTTONUP", "MOUSEMOTION"}
           ev    == MouseEvent(button', mouse_position')
           e     == NextEvent
           k     == <<1>>
           none  == << >>
<1>1. Poll(types) /\ delivered' = Append(delivered, ev) /\ key' = key
      /\ deferred_event' = deferred_event
  BY DEF GetMouse, Answer
<1>2. /\ e.type \in types /\ deferred_event = None /\ polled < Len(happened)
      /\ happened' = happened /\ polled' = polled + 1
      /\ LastKey(polled + 1) = IF e.type = "KEYDOWN" THEN KeyCode(e.arg) ELSE LastKey(polled)
  BY <1>1, PolledOne
<1>3. key'.code = LastKey(polled + 1) /\ key'.code \in Int
  BY <1>1, <1>2 DEF OrderInv
<1>4. Kind(ev) = k /\ k \in Kinds
  BY KindIs DEF Kind, MouseEvent, EventTypeMouse
<1>5. Pending' = none
  BY <1>1, <1>2 DEF Pending
<1>6. Promised(polled + 1) = <<k>>
  BY <1>2 DEF Promised, NextEvent
<1> HIDE DEF types, ev, e, k, none
<1>7. <<k>> = <<k>> \o << >>
  BY <1>4, Joined
<1>8. Promised(polled + 1) = <<Kind(ev)>> \o Pending'
  BY <1>4, <1>5, <1>6, <1>7 DEF none
<1>9. Kind(ev) \in Kinds /\ Pending' = << >>
  BY <1>4, <1>5 DEF none
<1> QED  BY <1>1, <1>2, <1>3, <1>8, <1>9, PollGives

LEMMA KeyDownComes ==
    ASSUME QueueInv, OrderInv, GetsEvents, GetKeyDown
    PROVE  OrderInv'
<1> DEFINE types == {"KEYDOWN"}
           ev    == KeyEvent("down", KeyAfter(NextEvent))
           e     == NextEvent
           c     == KeyCode(e.arg)
           k     == <<2, "down", c>>
           none  == << >>
<1>1. /\ Poll(types) /\ key' = KeyAfter(e) /\ deferred_event' = deferred_event
      /\ running' = ~Interrupts(e)
      /\ ~Interrupts(e) => delivered' = Append(delivered, ev)
  BY DEF GetKeyDown, Answer, NextEvent
<1>2. /\ e.type \in types /\ deferred_event = None /\ polled < Len(happened)
      /\ happened' = happened /\ polled' = polled + 1 /\ EventOK(e) /\ e \in Queued
      /\ LastKey(polled + 1) = IF e.type = "KEYDOWN" THEN KeyCode(e.arg) ELSE LastKey(polled)
  BY <1>1, PolledOne
<1>3. LastKey(polled + 1) = c /\ c \in Int /\ key'.code = c
  BY <1>1, <1>2, LastKeyInt DEF KeyAfter, Key
<1>4. Kind(ev) = k /\ k \in Kinds
  BY <1>3, KindIs DEF Kind, KeyEvent, EventTypeKeyboard, KeyAfter, Key
<1>5. Pending' = none
  BY <1>1, <1>2 DEF Pending
<1>6. Promised(polled + 1) = <<k>>
  BY <1>2, <1>3 DEF Promised, NextEvent
<1> HIDE DEF types, ev, e, k, none, c
<1>7. <<k>> = <<k>> \o << >>
  BY <1>4, Joined
<1>8. Promised(polled + 1) = <<Kind(ev)>> \o Pending'
  BY <1>4, <1>5, <1>6, <1>7 DEF none
<1>9. Kind(ev) \in Kinds /\ Pending' = << >>
  BY <1>4, <1>5 DEF none
<1>10. CASE Interrupts(e)
  BY <1>1, <1>10 DEF OrderInv, GetsEvents
<1>11. CASE ~Interrupts(e)
  <2>1. delivered' = Append(delivered, ev)
    BY <1>1, <1>11
  <2>2. key'.code = LastKey(polled + 1) /\ key'.code \in Int
    BY <1>3
  <2> QED  BY <1>2, <1>8, <1>9, <2>1, <2>2, PollGives
<1> QED  BY <1>10, <1>11

\* One event of the window, or of a key that came up, and another behind it.
LEMMA TwoCome ==
    ASSUME QueueInv, OrderInv, GetsEvents, NEW types, Poll(types), "KEYDOWN" \notin types,
           NEW ev, delivered' = Append(delivered, ev), key' = key,
           NEW k \in Kinds, Kind(ev) = k,
           \/ Promised(polled + 1) = <<k>> /\ Pending' = << >>
           \/ \E l \in Kinds : Promised(polled + 1) = <<k, l>> /\ Pending' = <<l>>
    PROVE  OrderInv'
<1>1. /\ NextEvent.type \in types /\ deferred_event = None /\ polled < Len(happened)
      /\ happened' = happened /\ polled' = polled + 1
      /\ LastKey(polled + 1) = IF NextEvent.type = "KEYDOWN"
                               THEN KeyCode(NextEvent.arg) ELSE LastKey(polled)
  BY PolledOne
<1>2. key'.code = LastKey(polled + 1) /\ key'.code \in Int
  BY <1>1 DEF OrderInv
<1>3. Promised(polled + 1) = <<Kind(ev)>> \o Pending'
  <2>1. CASE Promised(polled + 1) = <<k>> /\ Pending' = << >>
    BY <2>1, Joined
  <2>2. ASSUME NEW l \in Kinds, Promised(polled + 1) = <<k, l>>, Pending' = <<l>>
        PROVE  Promised(polled + 1) = <<Kind(ev)>> \o Pending'
    BY <2>2, Joined
  <2> QED  BY <2>1, <2>2
<1>4. Pending' = << >> \/ \E l \in Kinds : Pending' = <<l>>
  OBVIOUS
<1> QED  BY <1>1, <1>2, <1>3, <1>4, PollGives

LEMMA KeyUpComes ==
    ASSUME NoneIsNoEvent, QueueInv, OrderInv, GetsEvents, GetKeyUp
    PROVE  OrderInv'
<1> DEFINE types == {"KEYUP"}
           ev    == KeyEvent("char", key)
           d     == KeyEvent("up", key)
           c     == key.code
           k     == <<2, "char", c>>
           l     == <<2, "up", c>>
<1>1. /\ Poll(types) /\ key' = key /\ deferred_event' = d
      /\ delivered' = Append(delivered, ev) /\ "KEYDOWN" \notin types
  BY DEF GetKeyUp, Answer
<1>2. /\ NextEvent.type \in types
      /\ LastKey(polled + 1) = IF NextEvent.type = "KEYDOWN"
                               THEN KeyCode(NextEvent.arg) ELSE LastKey(polled)
  BY <1>1, PolledOne
<1>3. LastKey(polled + 1) = c /\ c \in Int
  BY <1>2 DEF OrderInv
<1>4. Kind(ev) = k /\ Kind(d) = l /\ k \in Kinds /\ l \in Kinds
  BY <1>3, KindIs DEF Kind, KeyEvent, EventTypeKeyboard
<1>5. Pending' = <<l>>
  <2>1. d # None
    BY DEF NoneIsNoEvent, KeyEvent
  <2>2. Pending' = <<Kind(d)>>
    BY <1>1, <2>1 DEF Pending, Kind
  <2> QED  BY <1>4, <2>2
<1>6. Promised(polled + 1) = <<k, l>>
  BY <1>2, <1>3 DEF Promised, NextEvent
<1> HIDE DEF types, ev, d, k, l, c
<1> QED  BY <1>1, <1>4, <1>5, <1>6, TwoCome

LEMMA WindowComes ==
    ASSUME NoneIsNoEvent, QueueInv, OrderInv, GetsEvents, GetWindow
    PROVE  OrderInv'
<1> DEFINE types == {"VIDEORESIZE", "VIDEOEXPOSE", "QUIT"}
           t     == NextEvent.type
           w     == CASE t = "VIDEORESIZE" -> "metric"
                      [] t = "VIDEOEXPOSE" -> "activated"
                      [] t = "QUIT"        -> "close"
           ev    == WindowEvent(w)
           d     == WindowEvent("paint")
           k     == <<5, w>>
           l     == <<5, "paint">>
<1>1. /\ Poll(types) /\ key' = key
      /\ deferred_event' = IF t = "QUIT" THEN None ELSE d
      /\ delivered' = Append(delivered, ev) /\ "KEYDOWN" \notin types
  BY DEF GetWindow, Answer, NextEvent
<1>2. t \in types
  BY <1>1, PolledOne
<1>3. w \in {"metric", "activated", "close"}
  BY <1>2
<1>4. k \in Kinds /\ l \in Kinds
  BY <1>3, KindIs
<1>5. Kind(ev) = k /\ Kind(d) = l
  <2> HIDE DEF w
  <2> QED  BY DEF Kind, WindowEvent, EventTypeWindow
<1>6. CASE t = "QUIT"
  <2>1. Pending' = << >>
    BY <1>1, <1>6 DEF Pending
  <2>2. Promised(polled + 1) = <<k>>
    BY <1>6 DEF Promised, NextEvent
  <2> HIDE DEF types, ev, d, k, l, w, t
  <2> QED  BY <1>1, <1>4, <1>5, <2>1, <2>2, TwoCome
<1>7. CASE t # "QUIT"
  <2>1. d # None
    BY DEF NoneIsNoEvent, WindowEvent
  <2>2. Pending' = <<l>>
    <3>1. Pending' = <<Kind(d)>>
      BY <1>1, <1>7, <2>1 DEF Pending, Kind
    <3> QED  BY <1>5, <3>1
  <2>3. Promised(polled + 1) = <<k, l>>
    BY <1>2, <1>7 DEF Promised, NextEvent
  <2> HIDE DEF types, ev, d, k, l, w, t
  <2> QED  BY <1>1, <1>4, <1>5, <2>2, <2>3, TwoCome
<1> QED  BY <1>6, <1>7

LEMMA OrderKept ==
    ASSUME NoneIsNoEvent, QueueInv, OrderInv, [Next]_vars
    PROVE  OrderInv'
<1>1. QueueInv' /\ \A i \in 1 .. polled : happened'[i] = happened[i]
  BY StepIs, QueueKept
<1>2. CASE UNCHANGED vars
  BY <1>1, <1>2, OrderStays DEF vars, inputVars, GetsEvents
<1>3. CASE ScreenActs
  <2>1. /\ UNCHANGED <<key, deferred_event, evented, delivered>> /\ (running' => running)
        /\ polled' = polled
    BY <1>3, ScreenKeeps DEF Keeps
  <2> QED  BY <1>1, <2>1, OrderStays DEF GetsEvents
<1>4. CASE UserActs
  BY <1>1, <1>4, OrderStays DEF UserActs, GetsEvents
<1>5. CASE PollMouse \/ KbdPeek \/ KbdNext
  <2>1. ~ GetsEvents /\ evented' = evented
    BY <1>5 DEF PollMouse, KbdPeek, KbdNext, MayPoll, GetsEvents, PumpEvents
  <2>2. running
    BY <1>5 DEF PollMouse, KbdPeek, KbdNext, MayPoll
  <2> QED  BY <2>1, <2>2 DEF GetsEvents, OrderInv
<1>6. CASE SetInterruptKey
  BY <1>1, <1>6, OrderStays DEF SetInterruptKey, GetsEvents
<1>7. CASE GetNextEvent
  <2>1. running /\ evented
    BY <1>7 DEF GetNextEvent, GetDeferred, GetMouse, GetKeyDown, GetKeyUp, GetWindow, Poll
  <2>2. evented' = evented
    BY <1>7 DEF GetNextEvent, GetDeferred, GetMouse, GetKeyDown, GetKeyUp, GetWindow, Poll
  <2>3. CASE "polls" \in ImageDoes
    BY <2>3 DEF OrderInv, GetsEvents
  <2>4. CASE "polls" \notin ImageDoes
    <3>1. GetsEvents
      BY <2>1, <2>4 DEF GetsEvents
    <3> QED
      BY <1>7, <3>1, DeferredComes, MouseComes, KeyDownComes, KeyUpComes, WindowComes
      DEF GetNextEvent
  <2> QED  BY <2>3, <2>4
<1> QED  BY <1>2, <1>3, <1>4, <1>5, <1>6, <1>7 DEF Next, InputActs, InputNext

LEMMA OrderInit ==
    ASSUME Init
    PROVE  OrderInv
<1>1. /\ delivered = << >> /\ polled = 0 /\ deferred_event = None /\ key.code = 0
  BY DEF Init, InputInit, NoKey, Key
<1>2. Got = << >> /\ Pending = << >> /\ Due(polled) = << >>
  BY <1>1 DEF Got, Pending, Due
<1>3. LastKey(polled) = 0
  <2>1. {i \in 1 .. polled : happened[i].type = "KEYDOWN"} = {}
    BY <1>1
  <2> QED  BY <2>1 DEF LastKey
<1>4. AnySeq(delivered)
  <2>1. delivered \in Seq({})
    BY <1>1
  <2> QED  BY <2>1 DEF AnySeq
<1>5. FlattenSeq(<< >>) = << >>
  BY DEF FlattenSeq
<1>6. << >> \in Seq(Kinds) /\ << >> \o << >> = << >> /\ << >> \in Seq(Seq(Kinds))
  OBVIOUS
<1>7. Got \in Seq(Kinds) /\ Pending \in Seq(Kinds) /\ Due(polled) \in Seq(Seq(Kinds))
  BY <1>2, <1>6
<1>8. Got \o Pending = FlattenSeq(Due(polled))
  BY <1>2, <1>5, <1>6
<1>9. key.code = LastKey(polled) /\ key.code \in Int
  <2>1. key.code = 0
    BY <1>1
  <2> QED  BY <1>3, <2>1
<1> QED  BY <1>4, <1>7, <1>8, <1>9 DEF OrderInv

\* An image that gets its events with the event primitive gets each event that
\* was polled, once and in their order, and the two that a released key or a changed
\* window stand for follow each other, until the interrupt key ends it
\* (get_next_event, _deferred_event).
THEOREM EventsComeInOrder ==
    ASSUME NoneIsNoEvent
    PROVE  Spec => []EventsInOrder
<1>1. Init => QueueInv /\ OrderInv
  BY QueueInvInit, OrderInit
<1>2. QueueInv /\ OrderInv /\ [Next]_vars => QueueInv' /\ OrderInv'
  BY StepIs, QueueKept, OrderKept
<1>3. QueueInv /\ OrderInv => EventsInOrder
  BY DEF OrderInv, EventsInOrder, GetsEvents, Got, Pending, Due
<1> QED  BY <1>1, <1>2, <1>3, PTL DEF Spec

--------------------------------------------------------------------------------
(* Quotients and rests: where a pixel is in its word, its line and its byte.    *)

\* q and r are quotient and rest where they add up.
LEMMA Divided ==
    ASSUME NEW b \in Nat \ {0}, NEW q \in Int, NEW r \in 0 .. b - 1
    PROVE  (q * b + r) \div b = q /\ (q * b + r) % b = r
<1> DEFINE n == q * b + r
           d == n \div b
           m == n % b
<1>1. n \in Int /\ d \in Int /\ m \in 0 .. b - 1 /\ n = b * d + m
  <2>1. n \in Int
    OBVIOUS
  <2> HIDE DEF n
  <2> QED  BY <2>1
<1>2. q * b + r = b * d + m
  BY <1>1
<1> HIDE DEF d, m
<1>3. b * (q - d) = m - r
  BY <1>1, <1>2
<1>4. ~(q < d)
  <2> SUFFICES ASSUME q < d  PROVE FALSE
    OBVIOUS
  <2>1. b * (d - q) >= b
    <3>1. d - q - 1 \in Nat /\ b * (d - q - 1) >= 0
      BY <1>1
    <3> QED  BY <1>1, <3>1
  <2> QED  BY <1>1, <1>3, <2>1
<1>5. ~(d < q)
  <2> SUFFICES ASSUME d < q  PROVE FALSE
    OBVIOUS
  <2>1. b * (q - d) >= b
    <3>1. q - d - 1 \in Nat /\ b * (q - d - 1) >= 0
      BY <1>1
    <3> QED  BY <1>1, <3>1
  <2> QED  BY <1>1, <1>3, <2>1
<1>6. q = d /\ m = r
  BY <1>1, <1>3, <1>4, <1>5
<1> QED  BY <1>6 DEF d, m

LEMMA Division ==
    ASSUME NEW b \in Nat \ {0}, NEW n \in Nat
    PROVE  /\ n \div b \in Nat /\ n % b \in 0 .. b - 1
           /\ n = (n \div b) * b + (n % b)
  OBVIOUS

\* A line and a place in it, of h lines of w.
LEMMA Within ==
    ASSUME NEW w \in Nat \ {0}, NEW h \in Nat \ {0}, NEW y \in 0 .. h - 1, NEW x \in 0 .. w - 1
    PROVE  y * w + x \in 0 .. w * h - 1
<1>1. h - 1 - y \in Nat /\ w * (h - 1 - y) >= 0 /\ y * w >= 0
  OBVIOUS
<1> QED  BY <1>1

LEMMA LineOf ==
    ASSUME NEW w \in Nat \ {0}, NEW h \in Nat \ {0}, NEW n \in 0 .. w * h - 1
    PROVE  n \div w \in 0 .. h - 1 /\ n % w \in 0 .. w - 1
<1>1. n \div w \in Nat /\ n % w \in 0 .. w - 1 /\ n = (n \div w) * w + (n % w)
  BY Division
<1>2. ~(n \div w >= h)
  <2> SUFFICES ASSUME n \div w >= h  PROVE FALSE
    OBVIOUS
  <2>1. n \div w - h \in Nat /\ w * (n \div w - h) >= 0
    BY <1>1
  <2> QED  BY <1>1, <2>1
<1> QED  BY <1>1, <1>2

--------------------------------------------------------------------------------
(* Screens of depths that have their layout, with a word of pixels at least.      *)

ScreenFits(e) ==
    /\ e \in Extents
    /\ e.depth \in {1, 8, 16, 32}
    /\ e.width * e.height >= BITS \div VideoMode(e).depth

\* A bitmap that has the screen of extent e, as far as its layout goes.
OnScreen(b, e) ==
    /\ b.depth = e.depth
    /\ b.pitch = VideoMode(e).pitch
    /\ Len(b.words) = Size(e)

PitchOf(e)   == VideoMode(e).pitch
MemoryOf(e)  == 0 .. PitchOf(e) * e.height - 1

LEMMA ExtentIs ==
    ASSUME NEW e, ScreenFits(e)
    PROVE  /\ e.width \in Nat \ {0} /\ e.height \in Nat \ {0}
           /\ e.depth \in {1, 8, 16, 32}
  BY DisplayAssumption DEF ScreenFits

LEMMA VideoModeIs ==
    ASSUME NEW e, ScreenFits(e)
    PROVE  /\ VideoMode(e).width = e.width /\ VideoMode(e).height = e.height
           /\ VideoMode(e).depth = IF e.depth = 1 THEN 8 ELSE e.depth
           /\ e.depth = 1 => PitchOf(e) = 4 * ((e.width + 3) \div 4)
           /\ e.depth # 1 => PitchOf(e) = 4 * Pitch(e)
           /\ Pitch(e) \in Nat \ {0} /\ PitchOf(e) \in Nat \ {0}
           /\ Size(e) = Pitch(e) * e.height
<1> DEFINE w == e.width
           d == Max({e.depth, MINIMUM_DEPTH})
<1>1. w \in Nat \ {0} /\ e.depth \in {1, 8, 16, 32}
  BY ExtentIs
<1>2. d = IF e.depth = 1 THEN 8 ELSE e.depth
  BY <1>1 DEF Max, MINIMUM_DEPTH
<1> HIDE DEF d
<1>3. VideoMode(e) = [width |-> e.width, height |-> e.height, depth |-> d,
                      pitch |-> BYTES_PER_WORD * CeilDiv(e.width * (d \div 8), BYTES_PER_WORD)]
  BY DEF VideoMode, d
<1>4. /\ VideoMode(e).width = e.width /\ VideoMode(e).height = e.height
      /\ VideoMode(e).depth = d
      /\ PitchOf(e) = 4 * ((w * (d \div 8) + 4 - 1) \div 4)
  BY <1>3 DEF PitchOf, CeilDiv, BYTES_PER_WORD
<1>5. Pitch(e) = (w + (32 \div e.depth) - 1) \div (32 \div e.depth)
  BY DEF Pitch, CeilDiv, PixPerWord, BITS
<1> HIDE DEF w
<1>6. CASE e.depth = 1
  <2>1. PitchOf(e) = 4 * ((w + 3) \div 4) /\ Pitch(e) = (w + 31) \div 32
    BY <1>1, <1>2, <1>4, <1>5, <1>6
  <2>2. (w + 3) \div 4 \in Nat \ {0} /\ (w + 31) \div 32 \in Nat \ {0}
    BY <1>1
  <2> QED  BY <1>2, <1>4, <1>6, <2>1, <2>2 DEF Size, w
<1>7. CASE e.depth = 8
  <2>1. PitchOf(e) = 4 * ((w + 3) \div 4) /\ Pitch(e) = (w + 3) \div 4
    BY <1>1, <1>2, <1>4, <1>5, <1>7
  <2>2. (w + 3) \div 4 \in Nat \ {0}
    BY <1>1
  <2> QED  BY <1>2, <1>4, <1>7, <2>1, <2>2 DEF Size
<1>8. CASE e.depth = 16
  <2>1. PitchOf(e) = 4 * ((w * 2 + 3) \div 4) /\ Pitch(e) = (w + 1) \div 2
    BY <1>1, <1>2, <1>4, <1>5, <1>8
  <2>2. (w + 1) \div 2 \in Nat \ {0} /\ (w * 2 + 3) \div 4 = (w + 1) \div 2
    BY <1>1
  <2> QED  BY <1>2, <1>4, <1>8, <2>1, <2>2 DEF Size
<1>9. CASE e.depth = 32
  <2>1. PitchOf(e) = 4 * ((w * 4 + 3) \div 4) /\ Pitch(e) = w \div 1
    BY <1>1, <1>2, <1>4, <1>5, <1>9
  <2>2. w \div 1 = w /\ (w * 4 + 3) \div 4 = w
    BY <1>1
  <2> QED  BY <1>1, <1>2, <1>4, <1>9, <2>1, <2>2 DEF Size
<1> QED  BY <1>1, <1>6, <1>7, <1>8, <1>9

\* A mapping bitmap has a word for each 32 pixels of the memory's line, the last of
\* which is cut off where the line ends.
LEMMA MappedLine ==
    ASSUME NEW e, ScreenFits(e), e.depth = 1
    PROVE  /\ words_per_line(PitchOf(e)) = Pitch(e)
           /\ e.width <= PitchOf(e)
           /\ bits_in_last_word(PitchOf(e)) \in 0 .. 31
           /\ 32 * (Pitch(e) - 1) + (IF bits_in_last_word(PitchOf(e)) > 0
                                     THEN bits_in_last_word(PitchOf(e)) ELSE 32) = PitchOf(e)
<1> DEFINE w == e.width
           p == PitchOf(e)
<1>1. w \in Nat \ {0} /\ p = 4 * ((w + 3) \div 4) /\ Pitch(e) = (w + 31) \div 32
  BY ExtentIs, VideoModeIs DEF Pitch, CeilDiv, PixPerWord, BITS
<1> HIDE DEF w, p
<1>2. /\ bits_in_last_word(p) = p % 32
      /\ words_per_line(p) = (p - (p % 32)) \div 32 + (IF p % 32 > 0 THEN 1 ELSE 0)
  BY DEF bits_in_last_word, words_per_line, BITS
<1>3. p \in Nat /\ w <= p /\ p < w + 4
  BY <1>1
<1>4. p % 32 \in 0 .. 31 /\ (p - (p % 32)) \div 32 = p \div 32 /\ p = 32 * (p \div 32) + (p % 32)
  BY <1>3
<1>5. (w + 31) \div 32 = (p \div 32) + (IF p % 32 > 0 THEN 1 ELSE 0)
  BY <1>1, <1>3, <1>4
<1>6. /\ words_per_line(p) = (w + 31) \div 32
      /\ 32 * ((w + 31) \div 32 - 1) + (IF p % 32 > 0 THEN p % 32 ELSE 32) = p
  BY <1>2, <1>3, <1>4, <1>5
<1> QED  BY <1>1, <1>2, <1>3, <1>4, <1>6 DEF p, w

--------------------------------------------------------------------------------
(* Where words go. Each byte of the memory is reached by one word at most.         *)

\* The word that reaches byte p.
WordAt(e, p) ==
    IF e.depth = 1 THEN (p \div PitchOf(e)) * Pitch(e) + (p % PitchOf(e)) \div 32
    ELSE p \div 4

\* Word x of line y of a mapping bitmap puts this many pixels on the line.
MappedAs(b, e, y, x, word, bits) ==
    /\ CellsOf(b, y * Pitch(e) + x, word)
         = [p \in y * PitchOf(e) + x * 32 .. y * PitchOf(e) + x * 32 + bits - 1 |->
               Pixel(word, p - (y * PitchOf(e) + x * 32))]
    /\ x * 32 + bits <= PitchOf(e)
    /\ x < Pitch(e) - 1 => bits = 32
    /\ x = Pitch(e) - 1 => x * 32 + bits = PitchOf(e)

LEMMA MappedCells ==
    ASSUME NEW b, NEW e, ScreenFits(e), OnScreen(b, e), e.depth = 1,
           NEW y \in 0 .. e.height - 1, NEW x \in 0 .. Pitch(e) - 1, NEW word
    PROVE  \E bits \in 1 .. 32 : MappedAs(b, e, y, x, word, bits)
<1> DEFINE wpl == Pitch(e)
           pitch == PitchOf(e)
           rest == bits_in_last_word(pitch)
           n == y * wpl + x
           last == (n + 1) % wpl = 0 /\ rest > 0
           bits == IF last THEN rest ELSE 32
           pos == y * pitch + x * 32
<1>1. /\ wpl \in Nat \ {0} /\ pitch \in Nat \ {0}
      /\ words_per_line(pitch) = wpl
      /\ rest \in 0 .. 31
      /\ 32 * (wpl - 1) + (IF rest > 0 THEN rest ELSE 32) = pitch
  BY VideoModeIs, MappedLine
<1>2. b.depth = 1 /\ b.pitch = pitch
  BY DEF OnScreen, PitchOf
<1> HIDE DEF wpl, pitch, rest
<1>3. n % wpl = x /\ (n - x) \div wpl = y
  <2>1. x \in 0 .. wpl - 1 /\ y \in Int /\ 0 \in 0 .. wpl - 1
    BY <1>1 DEF wpl
  <2>2. (y * wpl + x) % wpl = x /\ (y * wpl + 0) \div wpl = y
    BY <1>1, <2>1, Divided
  <2>3. n - x = y * wpl + 0
    BY <1>1, <2>1
  <2> QED  BY <2>2, <2>3
<1>4. MappedPosition(b, n) = pos
  <2>1. MappedPosition(b, n) = ((n - (n % wpl)) \div wpl) * pitch + ((n % wpl) * 32) \div 1
    BY <1>1, <1>2 DEF MappedPosition, BITS
  <2>2. (x * 32) \div 1 = x * 32
    OBVIOUS
  <2> HIDE DEF n
  <2> QED  BY <1>3, <2>1, <2>2
<1>5. (n + 1) % wpl = 0 <=> x = wpl - 1
  <2>1. CASE x = wpl - 1
    <3>1. ((y + 1) * wpl + 0) % wpl = 0
      BY <1>1, Divided
    <3>2. n + 1 = (y + 1) * wpl + 0
      BY <1>1, <2>1
    <3> QED  BY <2>1, <3>1, <3>2
  <2>2. CASE x # wpl - 1
    <3>1. x + 1 \in 0 .. wpl - 1 /\ x \in Nat /\ y \in Int
      BY <1>1, <2>2 DEF wpl
    <3>2. (y * wpl + (x + 1)) % wpl = x + 1
      BY <1>1, <3>1, Divided
    <3>3. n + 1 = y * wpl + (x + 1)
      BY <1>1
    <3> QED  BY <2>2, <3>1, <3>2, <3>3
  <2> QED  BY <2>1, <2>2
<1>6. CellsOf(b, n, word) = [p \in pos .. pos + (bits \div 1) - 1 |-> Pixel(word, p - pos)]
  <2>1. b.depth < 8
    BY <1>2
  <2> HIDE DEF n, pos
  <2> QED  BY <1>1, <1>2, <1>4, <2>1 DEF CellsOf, BITS, rest
<1>7. bits \in 1 .. 32 /\ bits \div 1 = bits
  BY <1>1
<1>8. /\ x * 32 + bits <= pitch
      /\ x < wpl - 1 => bits = 32
      /\ x = wpl - 1 => x * 32 + bits = pitch
  <2>1. CASE x = wpl - 1
    BY <1>1, <1>5, <2>1
  <2>2. CASE x # wpl - 1
    <3>1. x <= wpl - 2 /\ x \in Nat
      BY <1>1, <2>2 DEF wpl
    <3>2. bits = 32
      BY <1>5, <2>2
    <3> QED  BY <1>1, <3>1, <3>2
  <2> QED  BY <2>1, <2>2
<1> HIDE DEF bits
<1>9. CellsOf(b, n, word) = [p \in pos .. pos + bits - 1 |-> Pixel(word, p - pos)]
  BY <1>6, <1>7
<1> QED  BY <1>7, <1>8, <1>9 DEF MappedAs, wpl, pitch

LEMMA DirectCells ==
    ASSUME NEW b, NEW e, ScreenFits(e), OnScreen(b, e), e.depth # 1, NEW n \in Nat, NEW word
    PROVE  CellsOf(b, n, word) = [p \in 4 * n .. 4 * n + 3 |->
                                     Pixel(word, (p % 4) \div (e.depth \div 8))]
<1>1. b.depth = e.depth /\ ~(b.depth < 8)
  BY ExtentIs DEF OnScreen
<1> QED  BY <1>1 DEF CellsOf, BYTES_PER_WORD, PixelInByte

LEMMA CellIn ==
    ASSUME NEW b, NEW e, ScreenFits(e), OnScreen(b, e), NEW n \in 0 .. Size(e) - 1, NEW word,
           NEW p \in DOMAIN CellsOf(b, n, word)
    PROVE  p \in MemoryOf(e) /\ n = WordAt(e, p)
<1>1. /\ Pitch(e) \in Nat \ {0} /\ PitchOf(e) \in Nat \ {0} /\ e.height \in Nat \ {0}
      /\ Size(e) = Pitch(e) * e.height
      /\ e.depth # 1 => PitchOf(e) = 4 * Pitch(e)
  BY VideoModeIs, ExtentIs
<1>2. CASE e.depth = 1
  <2> DEFINE y == n \div Pitch(e)
             x == n % Pitch(e)
  <2>1. /\ y \in 0 .. e.height - 1 /\ x \in 0 .. Pitch(e) - 1
    BY <1>1, LineOf
  <2>2. n = y * Pitch(e) + x
    <3>1. n \in Nat
      BY <1>1
    <3> QED  BY <1>1, <3>1, Division
  <2> HIDE DEF x, y
  <2>3. PICK bits \in 1 .. 32 : MappedAs(b, e, y, x, word, bits)
    BY <1>2, <2>1, MappedCells
  <2>4. p \in y * PitchOf(e) + x * 32 .. y * PitchOf(e) + x * 32 + bits - 1
    BY <2>2, <2>3 DEF MappedAs
  <2> DEFINE l == y * PitchOf(e)
             r == p - l
  <2>5. /\ p \in Int /\ r \in Int /\ x * 32 <= r /\ r <= x * 32 + 31
        /\ r \in 0 .. PitchOf(e) - 1 /\ p = l + r
    <3>1. l \in Int /\ x \in Nat /\ bits \in 1 .. 32 /\ PitchOf(e) \in Nat
      BY <1>1, <2>1
    <3>2. p \in l + x * 32 .. l + x * 32 + bits - 1 /\ x * 32 + bits <= PitchOf(e)
      BY <2>3, <2>4 DEF MappedAs
    <3> HIDE DEF l
    <3> QED  BY <3>1, <3>2
  <2> HIDE DEF r
  <2>6. p \div PitchOf(e) = y /\ p % PitchOf(e) = r
    <3>1. y \in Int
      BY <2>1
    <3> QED  BY <1>1, <2>5, <3>1, Divided
  <2>7. r \div 32 = x
    BY <2>1, <2>5
  <2>8. p \in 0 .. PitchOf(e) * e.height - 1
    BY <1>1, <2>1, <2>5, Within
  <2> QED  BY <1>2, <2>2, <2>6, <2>7, <2>8 DEF WordAt, MemoryOf
<1>3. CASE e.depth # 1
  <2>1. p \in 4 * n .. 4 * n + 3
    BY <1>3, DirectCells
  <2>2. p \div 4 = n
    BY <2>1
  <2> DEFINE s == Pitch(e) * e.height
  <2>3. PitchOf(e) * e.height = 4 * s /\ s \in Nat /\ n \in 0 .. s - 1
    BY <1>1, <1>3
  <2> HIDE DEF s
  <2>4. p \in 0 .. 4 * s - 1
    BY <2>1, <2>3
  <2> QED  BY <1>3, <2>2, <2>3, <2>4 DEF WordAt, MemoryOf
<1> QED  BY <1>2, <1>3

\* Where SDL looks for a pixel, the word that holds it has put it.
PixelIs(b, e, x, y, i) ==
    LET n == y * Pitch(e) + x \div PixPerWord(e.depth)
        p == y * PitchOf(e) + x * (VideoMode(e).depth \div 8) + i
    IN  /\ n \in 0 .. Size(e) - 1
        /\ \A word : /\ p \in DOMAIN CellsOf(b, n, word)
                     /\ CellsOf(b, n, word)[p] = Pixel(word, x % PixPerWord(e.depth))

LEMMA PixelIn ==
    ASSUME NEW b, NEW e, ScreenFits(e), OnScreen(b, e),
           NEW x \in 0 .. e.width - 1, NEW y \in 0 .. e.height - 1,
           NEW i \in 0 .. (VideoMode(e).depth \div 8) - 1
    PROVE  PixelIs(b, e, x, y, i)
<1> DEFINE ppw == PixPerWord(e.depth)
           q == x \div ppw
           r == x % ppw
           bytes == VideoMode(e).depth \div 8
           n == y * Pitch(e) + q
           p == y * PitchOf(e) + x * bytes + i
<1>1. /\ Pitch(e) \in Nat \ {0} /\ PitchOf(e) \in Nat \ {0}
      /\ e.height \in Nat \ {0} /\ e.width \in Nat \ {0}
      /\ Size(e) = Pitch(e) * e.height
      /\ e.depth # 1 => PitchOf(e) = 4 * Pitch(e)
      /\ VideoMode(e).depth = IF e.depth = 1 THEN 8 ELSE e.depth
      /\ e.depth \in {1, 8, 16, 32}
  BY VideoModeIs, ExtentIs
<1>2. ppw \in {32, 4, 2, 1} /\ ppw = 32 \div e.depth
  BY <1>1 DEF PixPerWord, BITS
<1>3. x \in Nat /\ y \in Nat /\ x < e.width
  BY <1>1
<1>4. q \in 0 .. Pitch(e) - 1
  <2>1. Pitch(e) = (e.width + ppw - 1) \div ppw
    BY DEF Pitch, CeilDiv
  <2> HIDE DEF ppw
  <2>2. CASE ppw = 32
    BY <1>1, <1>3, <2>1, <2>2
  <2>3. CASE ppw = 4
    BY <1>1, <1>3, <2>1, <2>3
  <2>4. CASE ppw = 2
    BY <1>1, <1>3, <2>1, <2>4
  <2>5. CASE ppw = 1
    BY <1>1, <1>3, <2>1, <2>5
  <2> QED  BY <1>2, <2>2, <2>3, <2>4, <2>5
<1>5. n \in 0 .. Size(e) - 1
  <2> HIDE DEF q
  <2> QED  BY <1>1, <1>4, Within
<1>6. ASSUME NEW word
      PROVE  p \in DOMAIN CellsOf(b, n, word) /\ CellsOf(b, n, word)[p] = Pixel(word, r)
  <2>1. CASE e.depth = 1
    <3>1. PICK bits \in 1 .. 32 : MappedAs(b, e, y, q, word, bits)
      <4> HIDE DEF q
      <4> QED  BY <1>4, <2>1, MappedCells
    <3>2. ppw = 32 /\ bytes = 1 /\ i = 0 /\ q = x \div 32 /\ r = x % 32
      BY <1>1, <1>2, <2>1
    <3>3. e.width <= PitchOf(e)
      BY <2>1, MappedLine
    <3> DEFINE l == y * PitchOf(e)
    <3>4. l \in Nat /\ p = l + x
      BY <1>1, <1>3, <3>2
    <3>5. x = q * 32 + r /\ r \in 0 .. 31 /\ q \in Nat
      BY <1>3, <3>2
    <3>6. r < bits
      <4>1. /\ q < Pitch(e) - 1 => bits = 32
            /\ q = Pitch(e) - 1 => q * 32 + bits = PitchOf(e)
        BY <3>1 DEF MappedAs
      <4>2. q \in 0 .. Pitch(e) - 1
        BY <1>4
      <4> HIDE DEF q, r
      <4> QED  BY <1>1, <1>3, <3>3, <3>5, <4>1, <4>2
    <3>7. CellsOf(b, n, word) = [a \in l + q * 32 .. l + q * 32 + bits - 1 |->
                                    Pixel(word, a - (l + q * 32))]
      BY <3>1 DEF MappedAs
    <3> HIDE DEF l, q, r, p, n
    <3>8. p \in l + q * 32 .. l + q * 32 + bits - 1 /\ p - (l + q * 32) = r
      BY <3>4, <3>5, <3>6
    <3> QED  BY <3>7, <3>8
  <2>2. CASE e.depth # 1
    <3> DEFINE s == y * Pitch(e)
    <3>1. s \in Nat /\ y * PitchOf(e) = 4 * s
      BY <1>1, <1>3, <2>2
    <3>2. bytes = e.depth \div 8 /\ p = 4 * s + x * bytes + i /\ n = s + q
      BY <1>1, <2>2, <3>1
    <3> HIDE DEF s, p, n
    <3>3. /\ n \in Nat
          /\ p \in 4 * n .. 4 * n + 3
          /\ (p % 4) \div (e.depth \div 8) = r
      <4>1. CASE e.depth = 8
        BY <1>1, <1>2, <1>3, <3>1, <3>2, <4>1
      <4>2. CASE e.depth = 16
        BY <1>1, <1>2, <1>3, <3>1, <3>2, <4>2
      <4>3. CASE e.depth = 32
        BY <1>1, <1>2, <1>3, <3>1, <3>2, <4>3
      <4> QED  BY <1>1, <2>2, <4>1, <4>2, <4>3
    <3>4. CellsOf(b, n, word) = [a \in 4 * n .. 4 * n + 3 |->
                                    Pixel(word, (a % 4) \div (e.depth \div 8))]
      BY <2>2, <3>3, DirectCells
    <3> HIDE DEF r
    <3> QED  BY <3>3, <3>4
  <2> QED  BY <2>1, <2>2
<1> QED  BY <1>5, <1>6 DEF PixelIs


--------------------------------------------------------------------------------
(* What is stored on the screen.                                                *)

\* The bytes that words reach are what the words say.
LaidOut(m, b) ==
    \A n \in Indexes(b) : \A p \in DOMAIN CellsOf(b, n, Blank) :
        m[p] = CellsOf(b, n, b.words[n + 1])[p]

\* Which bytes a word reaches does not depend on the word.
LEMMA SameCells ==
    ASSUME NEW b, NEW n, NEW word
    PROVE  DOMAIN CellsOf(b, n, word) = DOMAIN CellsOf(b, n, Blank)
<1>1. CASE b.depth < 8
  BY <1>1 DEF CellsOf
<1>2. CASE ~(b.depth < 8)
  BY <1>2 DEF CellsOf
<1> QED  BY <1>1, <1>2

LEMMA LastOfOne ==
    ASSUME NEW n \in Nat, NEW cells, NEW here, here = {<<n, cells>>}
    PROVE  here # {} /\ LastOf(here)[2] = cells
<1>1. LastOf(here) = <<n, cells>>
  BY DEF LastOf
<1> QED  BY <1>1

\* The words that reach byte p, each with all that it puts there.
Here(b, indexes, p) ==
    {c \in {<<n, CellsOf(b, n, b.words[n + 1])>> : n \in indexes} : p \in DOMAIN c[2]}

LEMMA StoresWords ==
    ASSUME NEW b, NEW e, ScreenFits(e), OnScreen(b, e), NEW m, DOMAIN m = MemoryOf(e),
           NEW indexes \in SUBSET (0 .. Size(e) - 1)
    PROVE  /\ DOMAIN StoredAll(m, b, indexes) = DOMAIN m
           /\ \A n \in indexes : \A p \in DOMAIN CellsOf(b, n, Blank) :
                 StoredAll(m, b, indexes)[p] = CellsOf(b, n, b.words[n + 1])[p]
           /\ \A n \in (0 .. Size(e) - 1) \ indexes : \A p \in DOMAIN CellsOf(b, n, Blank) :
                 StoredAll(m, b, indexes)[p] = m[p]
           /\ ~Beyond(m, b, indexes)
<1>1. \A n \in 0 .. Size(e) - 1 : \A p \in DOMAIN CellsOf(b, n, Blank) :
          p \in DOMAIN m /\ n = WordAt(e, p)
  BY CellIn
<1>2. ASSUME NEW n \in indexes, NEW p \in DOMAIN CellsOf(b, n, Blank)
      PROVE  StoredAll(m, b, indexes)[p] = CellsOf(b, n, b.words[n + 1])[p]
  <2>1. n \in Nat /\ p \in DOMAIN m
    BY <1>1
  <2> DEFINE cell == CellsOf(b, n, b.words[n + 1])
             here == Here(b, indexes, p)
  <2>2. here = {<<n, cell>>}
    <3>1. \A c \in here : c = <<n, cell>>
      BY <1>1, <1>2, SameCells DEF Here
    <3>2. <<n, cell>> \in here
      BY <1>2, SameCells DEF Here
    <3> QED  BY <3>1, <3>2
  <2>3. here # {} /\ LastOf(here)[2] = cell
    <3> HIDE DEF cell, here
    <3> QED  BY <2>1, <2>2, LastOfOne
  <2>4. StoredAll(m, b, indexes)[p] = IF here = {} THEN m[p] ELSE LastOf(here)[2][p]
    BY <2>1 DEF StoredAll, Here
  <2> QED  BY <2>3, <2>4
<1>3. ASSUME NEW n \in (0 .. Size(e) - 1) \ indexes, NEW p \in DOMAIN CellsOf(b, n, Blank)
      PROVE  StoredAll(m, b, indexes)[p] = m[p]
  <2>1. Here(b, indexes, p) = {} /\ p \in DOMAIN m
    BY <1>1, <1>3, SameCells DEF Here
  <2> QED  BY <2>1 DEF StoredAll, Here
<1>4. ~Beyond(m, b, indexes)
  BY <1>1 DEF Beyond
<1> QED  BY <1>2, <1>3, <1>4 DEF StoredAll

\* The whole of a bitmap, stored on a screen, is laid out there.
LEMMA StoresAllWords ==
    ASSUME NEW b, NEW e, ScreenFits(e), OnScreen(b, e), NEW m, DOMAIN m = MemoryOf(e)
    PROVE  /\ DOMAIN StoredAll(m, b, Indexes(b)) = DOMAIN m
           /\ LaidOut(StoredAll(m, b, Indexes(b)), b)
           /\ ~Beyond(m, b, Indexes(b))
<1>1. Indexes(b) = 0 .. Size(e) - 1
  BY DEF Indexes, OnScreen
<1> DEFINE I == Indexes(b)
<1>2. I \in SUBSET (0 .. Size(e) - 1)
  BY <1>1
<1> HIDE DEF I
<1>3. /\ DOMAIN StoredAll(m, b, I) = DOMAIN m
      /\ \A n \in I : \A p \in DOMAIN CellsOf(b, n, Blank) :
            StoredAll(m, b, I)[p] = CellsOf(b, n, b.words[n + 1])[p]
      /\ ~Beyond(m, b, I)
  BY <1>2, StoresWords
<1> QED  BY <1>3 DEF LaidOut, I

\* Some words of it are set.
WordsSet(b, indexes, word) ==
    [b EXCEPT !.words = [n \in DOMAIN @ |-> IF n - 1 \in indexes THEN word ELSE @[n]]]

Word   == Ink \union {Blank}
Bitmap == [kind : {"words", "display"}, words : Seq(Word), depth : Nat,
           pixelbuffer_words : Nat, pitch : Nat]

LEMMA SetsWords ==
    ASSUME NEW b \in Bitmap, NEW indexes, NEW word \in Word
    PROVE  LET c == WordsSet(b, indexes, word)
           IN  /\ c \in Bitmap
               /\ c.kind = b.kind /\ c.depth = b.depth /\ c.pitch = b.pitch
               /\ c.pixelbuffer_words = b.pixelbuffer_words
               /\ Len(c.words) = Len(b.words)
               /\ \A n \in 1 .. Len(b.words) :
                     c.words[n] = IF n - 1 \in indexes THEN word ELSE b.words[n]
<1> DEFINE ws == [n \in DOMAIN b.words |-> IF n - 1 \in indexes THEN word ELSE b.words[n]]
           c == WordsSet(b, indexes, word)
<1>1. b.words \in Seq(Word) /\ DOMAIN b.words = 1 .. Len(b.words) /\ Len(b.words) \in Nat
  BY DEF Bitmap
<1>2. /\ ws \in Seq(Word) /\ Len(ws) = Len(b.words)
      /\ \A n \in 1 .. Len(b.words) : ws[n] = IF n - 1 \in indexes THEN word ELSE b.words[n]
  BY <1>1
<1>3. c = [b EXCEPT !.words = ws]
  BY DEF WordsSet
<1> HIDE DEF ws, c
<1>4. /\ c \in Bitmap /\ c.kind = b.kind /\ c.depth = b.depth /\ c.pitch = b.pitch
      /\ c.pixelbuffer_words = b.pixelbuffer_words /\ c.words = ws
  BY <1>2, <1>3 DEF Bitmap
<1> QED  BY <1>2, <1>4 DEF c

LEMMA SetsLaidOut ==
    ASSUME NEW b \in Bitmap, NEW e, ScreenFits(e), OnScreen(b, e),
           NEW m, DOMAIN m = MemoryOf(e), LaidOut(m, b),
           NEW indexes \in SUBSET Indexes(b), NEW word \in Word
    PROVE  LET c == WordsSet(b, indexes, word)
           IN  /\ OnScreen(c, e)
               /\ DOMAIN StoredAll(m, c, indexes) = DOMAIN m
               /\ LaidOut(StoredAll(m, c, indexes), c)
               /\ ~Beyond(m, c, indexes)
<1> DEFINE c == WordsSet(b, indexes, word)
           m2 == StoredAll(m, c, indexes)
<1>1. /\ c.depth = b.depth /\ c.pitch = b.pitch /\ Len(c.words) = Len(b.words)
      /\ \A n \in 1 .. Len(b.words) :
            c.words[n] = IF n - 1 \in indexes THEN word ELSE b.words[n]
  BY SetsWords
<1> HIDE DEF c
<1>2. OnScreen(c, e)
  BY <1>1 DEF OnScreen
<1>3. Indexes(b) = 0 .. Size(e) - 1 /\ Indexes(c) = 0 .. Size(e) - 1
  BY <1>1 DEF Indexes, OnScreen
<1>4. /\ DOMAIN m2 = DOMAIN m
      /\ \A n \in indexes : \A p \in DOMAIN CellsOf(c, n, Blank) :
            m2[p] = CellsOf(c, n, c.words[n + 1])[p]
      /\ \A n \in (0 .. Size(e) - 1) \ indexes : \A p \in DOMAIN CellsOf(c, n, Blank) :
            m2[p] = m[p]
      /\ ~Beyond(m, c, indexes)
  BY <1>2, <1>3, StoresWords
<1> HIDE DEF m2
<1>5. \A n, w : CellsOf(c, n, w) = CellsOf(b, n, w)
  BY <1>1 DEF CellsOf, MappedPosition
<1>6. \A n \in (0 .. Size(e) - 1) \ indexes : c.words[n + 1] = b.words[n + 1]
  <2>1. Len(b.words) = Size(e) /\ Len(b.words) \in Nat
    BY DEF OnScreen, Bitmap
  <2> SUFFICES ASSUME NEW n \in (0 .. Size(e) - 1) \ indexes
               PROVE  c.words[n + 1] = b.words[n + 1]
    OBVIOUS
  <2>2. n + 1 \in 1 .. Len(b.words) /\ (n + 1) - 1 = n
    BY <2>1
  <2> QED  BY <1>1, <2>2
<1>7. LaidOut(m2, c)
  BY <1>3, <1>4, <1>5, <1>6 DEF LaidOut
<1> QED  BY <1>2, <1>4, <1>7 DEF c, m2

LEMMA LaidOutShows ==
    ASSUME NEW m, NEW e, ScreenFits(e), NEW b, OnScreen(b, e), LaidOut(m, b),
           mode = VideoMode(e), shownAs.extent = e, bitmaps[shownAs.bits] = b
    PROVE  Shows(m)
<1>1. mode.width = e.width /\ mode.height = e.height
  BY VideoModeIs
<1> SUFFICES ASSUME NEW x \in 0 .. e.width - 1, NEW y \in 0 .. e.height - 1,
                    NEW i \in 0 .. (VideoMode(e).depth \div 8) - 1
             PROVE  m[y * PitchOf(e) + x * (VideoMode(e).depth \div 8) + i]
                      = Pixel(b.words[y * Pitch(e) + x \div PixPerWord(e.depth) + 1],
                              x % PixPerWord(e.depth))
  BY <1>1 DEF Shows, PitchOf
<1> DEFINE n == y * Pitch(e) + x \div PixPerWord(e.depth)
           p == y * PitchOf(e) + x * (VideoMode(e).depth \div 8) + i
<1>2. /\ n \in 0 .. Size(e) - 1
      /\ \A word : /\ p \in DOMAIN CellsOf(b, n, word)
                   /\ CellsOf(b, n, word)[p] = Pixel(word, x % PixPerWord(e.depth))
  BY PixelIn DEF PixelIs
<1> HIDE DEF n, p
<1>3. n \in Indexes(b)
  BY <1>2 DEF Indexes, OnScreen
<1>4. m[p] = Pixel(b.words[n + 1], x % PixPerWord(e.depth))
  BY <1>2, <1>3 DEF LaidOut
<1> QED  BY <1>4 DEF n, p

--------------------------------------------------------------------------------
(* The invariant of the screen.                                                  *)

Form == [bits : Nat, extent : Extents]

FormsInv ==
    /\ bitmaps \in Seq(Bitmap)
    /\ \A i \in 1 .. Len(bitmaps) : Attached(bitmaps[i]) => IsDisplay(bitmaps[i])
    /\ forms \in [Forms -> Form]
    /\ \A f \in Forms : /\ forms[f].bits \in 1 .. Len(bitmaps)
                        /\ Len(Bits(f).words) = Size(forms[f].extent)
    /\ \A f, g \in Forms : f # g => forms[f].bits # forms[g].bits
    /\ shadow \in [Forms -> Form \union {None}]
    /\ \A f \in Forms : shadow[f] = None \/ shadow[f].bits \in 1 .. Len(bitmaps)
    /\ defer_updates \in BOOLEAN

\* What is so as long as the display keeps its bits: they are laid out on the screen.
Displayed(f) ==
    /\ Attached(Bits(f)) /\ OnScreen(Bits(f), shownAs.extent)
    /\ LaidOut(memory, Bits(f))

DisplayInv ==
    /\ DOMAIN shown = DOMAIN memory
    /\ beyond = FALSE
    /\ w_display # None =>
          /\ w_display \in Forms
          /\ shownAs \in Form /\ shownAs.bits \in 1 .. Len(bitmaps)
          /\ mode = VideoMode(shownAs.extent)
          /\ DOMAIN memory = MemoryOf(shownAs.extent)
          /\ IsDisplay(Bits(w_display)) => forms[w_display] = shownAs
          /\ forms[w_display] = shownAs => Displayed(w_display)

ScreenInv == FormsInv /\ DisplayInv

\* Every extent has a layout, and the image leaves what was the display alone.
ScreensFit == \A e \in Extents : ScreenFits(e)
Orderly    == "former" \notin ImageDoes /\ "redraws" \notin ImageDoes

LEMMA BitsIs ==
    ASSUME FormsInv, NEW f \in Forms
    PROVE  /\ Bits(f) \in Bitmap /\ Bits(f) = bitmaps[forms[f].bits]
           /\ forms[f] \in Form /\ forms[f].extent \in Extents
           /\ forms[f].bits \in 1 .. Len(bitmaps)
           /\ Attached(Bits(f)) => IsDisplay(Bits(f))
<1>1. forms[f] \in Form /\ forms[f].bits \in 1 .. Len(bitmaps)
  BY DEF FormsInv
<1>2. bitmaps[forms[f].bits] \in Bitmap
  BY <1>1 DEF FormsInv
<1> QED  BY <1>1, <1>2 DEF Bits, Form, FormsInv

\* Words of the bits of f are set: if f is the display, on the screen too.
LEMMA SetsKeep ==
    ASSUME ScreensFit, ScreenInv, NEW f \in Forms, f = w_display \/ ~Attached(Bits(f)),
           NEW indexes \in SUBSET Indexes(Bits(f)), NEW word \in Ink,
           SetWords(forms[f].bits, indexes, word),
           UNCHANGED <<forms, w_display, shownAs, mode, defer_updates>>,
           shadow' \in [Forms -> Form \union {None}],
           \A g \in Forms : shadow'[g] = None \/ shadow'[g].bits \in 1 .. Len(bitmaps),
           DOMAIN shown' = DOMAIN shown \/ DOMAIN shown' = DOMAIN memory'
    PROVE  ScreenInv'
<1> DEFINE k == forms[f].bits
           b == Bits(f)
           c == WordsSet(b, indexes, word)
<1>1. /\ b \in Bitmap /\ b = bitmaps[k] /\ k \in 1 .. Len(bitmaps)
      /\ Attached(b) => IsDisplay(b)
  BY BitsIs DEF ScreenInv
<1>2. /\ c \in Bitmap /\ c.kind = b.kind /\ c.depth = b.depth /\ c.pitch = b.pitch
      /\ c.pixelbuffer_words = b.pixelbuffer_words /\ Len(c.words) = Len(b.words)
  <2>1. word \in Word
    BY DEF Word
  <2> QED  BY <1>1, <2>1, SetsWords
<1>3. /\ bitmaps' = [bitmaps EXCEPT ![k] = c]
      /\ memory' = IF Attached(c) THEN StoredAll(memory, c, indexes) ELSE memory
      /\ beyond' = (beyond \/ (Attached(c) /\ Beyond(memory, c, indexes)))
  BY <1>1 DEF SetWords, WordsSet
<1> HIDE DEF k, c
<1>4. /\ Attached(c) <=> Attached(b)
      /\ IsDisplay(c) <=> IsDisplay(b)
  BY <1>2 DEF Attached, IsDisplay
<1>5. /\ bitmaps' \in Seq(Bitmap) /\ Len(bitmaps') = Len(bitmaps)
      /\ bitmaps'[k] = c /\ \A i \in 1 .. Len(bitmaps) : i # k => bitmaps'[i] = bitmaps[i]
  BY <1>1, <1>2, <1>3 DEF ScreenInv, FormsInv
<1>6. /\ Bits(f)' = c
      /\ \A g \in Forms : g # f => Bits(g)' = Bits(g)
  <2>1. Bits(f)' = bitmaps'[k]
    BY DEF Bits, k
  <2>2. ASSUME NEW g \in Forms, g # f  PROVE Bits(g)' = Bits(g)
    <3>1. forms[g].bits # k /\ forms[g].bits \in 1 .. Len(bitmaps)
      BY <2>2 DEF ScreenInv, FormsInv, k
    <3> QED  BY <1>5, <3>1 DEF Bits
  <2> QED  BY <1>5, <2>1, <2>2
<1>7. FormsInv'
  <2>1. \A i \in 1 .. Len(bitmaps') : Attached(bitmaps'[i]) => IsDisplay(bitmaps'[i])
    BY <1>1, <1>4, <1>5 DEF ScreenInv, FormsInv
  <2>2. \A g \in Forms : Len(Bits(g)'.words) = Len(Bits(g).words)
    BY <1>2, <1>6
  <2>3. \A g \in Forms : /\ forms'[g].bits \in 1 .. Len(bitmaps')
                         /\ Len(Bits(g)'.words) = Size(forms'[g].extent)
    BY <1>5, <2>2 DEF ScreenInv, FormsInv
  <2> HIDE DEF Bits
  <2> QED  BY <1>5, <2>1, <2>3 DEF ScreenInv, FormsInv, Bits
<1>8. CASE ~Attached(b)
  <2>1. memory' = memory /\ beyond' = FALSE /\ DOMAIN shown' = DOMAIN memory'
    BY <1>3, <1>4, <1>8 DEF ScreenInv, DisplayInv
  <2>2. ASSUME w_display # None, forms[w_display] = shownAs
        PROVE  w_display \in Forms /\ w_display # f /\ Bits(w_display)' = Bits(w_display)
    BY <1>6, <1>8, <2>2 DEF ScreenInv, DisplayInv, Displayed
  <2>3. w_display # None => w_display \in Forms
                            /\ (IsDisplay(Bits(w_display)') <=> IsDisplay(Bits(w_display)))
    BY <1>4, <1>6 DEF ScreenInv, DisplayInv
  <2>4. DisplayInv'
    BY <1>5, <2>1, <2>2, <2>3 DEF ScreenInv, DisplayInv, Displayed
  <2> QED  BY <1>7, <2>4 DEF ScreenInv
<1>9. CASE Attached(b)
  <2>1. f = w_display /\ w_display # None /\ IsDisplay(b)
    BY <1>1, <1>9, DisplayAssumption
  <2> DEFINE e == shownAs.extent
  <2>2. /\ forms[w_display] = shownAs /\ Displayed(w_display) /\ DOMAIN memory = MemoryOf(e)
        /\ shownAs \in Form
    BY <2>1 DEF ScreenInv, DisplayInv
  <2>3. ScreenFits(e)
    BY <2>2 DEF ScreensFit, Form
  <2>4. /\ OnScreen(c, e) /\ DOMAIN StoredAll(memory, c, indexes) = DOMAIN memory
        /\ LaidOut(StoredAll(memory, c, indexes), c)
        /\ ~Beyond(memory, c, indexes)
    <3>1. OnScreen(b, e) /\ LaidOut(memory, b) /\ word \in Word
      BY <2>1, <2>2 DEF Displayed, Word
    <3> HIDE DEF b, e
    <3>2. indexes \in SUBSET Indexes(b)
      BY DEF b
    <3> QED  BY <1>1, <2>2, <2>3, <3>1, <3>2, SetsLaidOut DEF c
  <2>5. /\ DOMAIN memory' = DOMAIN memory /\ LaidOut(memory', c) /\ beyond' = FALSE
        /\ DOMAIN shown' = DOMAIN memory' /\ Attached(c)
    BY <1>3, <1>4, <1>9, <2>4 DEF ScreenInv, DisplayInv
  <2>6. Displayed(w_display)'
    BY <1>6, <2>1, <2>4, <2>5 DEF Displayed, LaidOut, Indexes, Attached, OnScreen
  <2>7. DisplayInv'
    BY <1>5, <2>1, <2>2, <2>5, <2>6 DEF ScreenInv, DisplayInv
  <2> QED  BY <1>7, <2>7 DEF ScreenInv
<1> QED  BY <1>8, <1>9

LEMMA WordsObjectIs ==
    ASSUME NEW e \in Extents
    PROVE  /\ WordsObject(e) \in Bitmap /\ ~Attached(WordsObject(e)) /\ ~IsDisplay(WordsObject(e))
           /\ Len(WordsObject(e).words) = Size(e)
<1> DEFINE w == WordsObject(e)
<1>1. Size(e) \in Nat
  <2>1. /\ e.width \in Nat \ {0} /\ e.height \in Nat \ {0}
        /\ e.depth \in {1, 2, 4, 8, 16, 32}
    BY DisplayAssumption
  <2>2. PixPerWord(e.depth) \in Nat \ {0}
    BY <2>1 DEF PixPerWord, BITS
  <2>3. (e.width + PixPerWord(e.depth) - 1) \div PixPerWord(e.depth) \in Nat
    <3>1. e.width + PixPerWord(e.depth) - 1 \in Nat
      BY <2>1, <2>2
    <3> HIDE DEF PixPerWord
    <3> QED  BY <2>2, <3>1, Division
  <2> QED  BY <2>1, <2>3 DEF Size, Pitch, CeilDiv
<1> DEFINE ws == [i \in 1 .. Size(e) |-> Blank]
<1>2. ws \in Seq(Word) /\ Len(ws) = Size(e)
  BY <1>1 DEF Word
<1>3. w = [kind |-> "words", words |-> ws, depth |-> 0, pixelbuffer_words |-> 0, pitch |-> 0]
  BY DEF WordsObject
<1> HIDE DEF ws, w
<1> QED  BY <1>2, <1>3 DEF Bitmap, Attached, IsDisplay, w

LEMMA SetExtentKeeps ==
    ASSUME ScreenInv, NEW f \in Forms, NEW e \in Extents, SetExtent(f, e)
    PROVE  ScreenInv'
<1> DEFINE n == Len(bitmaps)
           w == WordsObject(e)
           new == [bits |-> n + 1, extent |-> e]
<1>1. /\ bitmaps' = Append(bitmaps, w) /\ forms' = [forms EXCEPT ![f] = new]
      /\ UNCHANGED <<shadow, w_display, shownAs, mode, memory, shown, beyond, defer_updates>>
  BY DEF SetExtent
<1>2. /\ w \in Bitmap /\ ~Attached(w) /\ ~IsDisplay(w) /\ Len(w.words) = Size(e)
  BY WordsObjectIs
<1> HIDE DEF n, w, new
<1>3. n \in Nat /\ bitmaps \in Seq(Bitmap) /\ forms \in [Forms -> Form]
  BY DEF ScreenInv, FormsInv, n
<1>4. /\ bitmaps' \in Seq(Bitmap) /\ Len(bitmaps') = n + 1 /\ bitmaps'[n + 1] = w
      /\ \A i \in 1 .. n : bitmaps'[i] = bitmaps[i]
  BY <1>1, <1>2, <1>3 DEF n
<1>5. /\ new \in Form /\ new.bits = n + 1 /\ new.extent = e
      /\ forms' \in [Forms -> Form] /\ forms'[f] = new
      /\ \A g \in Forms : g # f => forms'[g] = forms[g]
  BY <1>1, <1>3 DEF Form, new
<1>6. \A g \in Forms : forms[g].bits \in 1 .. n
  BY DEF ScreenInv, FormsInv, n
<1>7. /\ Bits(f)' = w
      /\ \A g \in Forms : g # f => Bits(g)' = Bits(g)
  BY <1>3, <1>4, <1>5, <1>6 DEF Bits
<1>8. FormsInv'
  <2>1. \A i \in 1 .. n + 1 : Attached(bitmaps'[i]) => IsDisplay(bitmaps'[i])
    <3>1. \A i \in 1 .. n + 1 : i \in 1 .. n \/ i = n + 1
      BY <1>3
    <3> QED  BY <1>2, <1>4, <3>1 DEF ScreenInv, FormsInv, n
  <2>2. \A g \in Forms : /\ forms'[g].bits \in 1 .. n + 1
                         /\ Len(Bits(g)'.words) = Size(forms'[g].extent)
    <3>1. \A i \in 1 .. n : i \in 1 .. n + 1
      BY <1>3
    <3>2. n + 1 \in 1 .. n + 1
      BY <1>3
    <3> QED  BY <1>2, <1>5, <1>6, <1>7, <3>1, <3>2 DEF ScreenInv, FormsInv
  <2>3. \A g, h \in Forms : g # h => forms'[g].bits # forms'[h].bits
    <3>1. \A i \in 1 .. n : i # n + 1
      BY <1>3
    <3> QED  BY <1>5, <1>6, <3>1 DEF ScreenInv, FormsInv
  <2>4. \A g \in Forms : shadow[g] = None \/ shadow[g].bits \in 1 .. n + 1
    <3>1. \A i \in 1 .. n : i \in 1 .. n + 1
      BY <1>3
    <3> QED  BY <3>1 DEF ScreenInv, FormsInv, n
  <2> HIDE DEF Bits
  <2> QED  BY <1>1, <1>4, <1>5, <2>1, <2>2, <2>3, <2>4 DEF ScreenInv, FormsInv, Bits
<1>9. DisplayInv'
  <2>1. ASSUME w_display # None
        PROVE  /\ w_display \in Forms
               /\ shownAs \in Form /\ shownAs.bits \in 1 .. n + 1
               /\ IsDisplay(Bits(w_display)') => forms'[w_display] = shownAs
               /\ forms'[w_display] = shownAs => Displayed(w_display)'
    <3>1. w_display \in Forms /\ shownAs \in Form /\ shownAs.bits \in 1 .. n
      BY <2>1 DEF ScreenInv, DisplayInv, n
    <3>2. shownAs.bits \in 1 .. n + 1 /\ shownAs.bits # n + 1
      BY <1>3, <3>1
    <3>3. CASE w_display = f
      <4>1. ~IsDisplay(Bits(w_display)') /\ forms'[w_display] # shownAs
        <5>1. Bits(w_display)' = w
          BY <1>1, <1>7, <3>3 DEF Bits
        <5> QED  BY <1>2, <1>5, <3>2, <3>3, <5>1
      <4> QED  BY <3>1, <3>2, <4>1
    <3>4. CASE w_display # f
      <4>1. forms'[w_display] = forms[w_display] /\ Bits(w_display)' = Bits(w_display)
        BY <1>1, <1>5, <1>7, <3>1, <3>4 DEF Bits
      <4>2. Displayed(w_display)' <=> Displayed(w_display)
        BY <1>1, <4>1 DEF Displayed
      <4> QED  BY <2>1, <3>1, <3>2, <4>1, <4>2 DEF ScreenInv, DisplayInv
    <3> QED  BY <3>3, <3>4
  <2> QED  BY <1>1, <1>4, <2>1 DEF ScreenInv, DisplayInv
<1> QED  BY <1>8, <1>9 DEF ScreenInv

LEMMA Reached ==
    ASSUME NEW e, ScreenFits(e)
    PROVE  /\ (VideoMode(e).width * VideoMode(e).height)
                 \div (BYTES_PER_WORD \div (VideoMode(e).depth \div 8)) \in Nat \ {0}
           /\ PitchOf(e) \in Nat
<1> DEFINE s == e.width * e.height
           d == VideoMode(e).depth
<1>1. /\ e.width \in Nat \ {0} /\ e.height \in Nat \ {0} /\ d \in {8, 16, 32}
      /\ VideoMode(e).width = e.width /\ VideoMode(e).height = e.height
      /\ PitchOf(e) \in Nat
  BY ExtentIs, VideoModeIs
<1>2. s \in Nat /\ s >= 32 \div d
  BY <1>1 DEF ScreenFits, BITS
<1> HIDE DEF s, d
<1>3. s \div (4 \div (d \div 8)) \in Nat \ {0}
  <2>1. CASE d = 8
    BY <1>2, <2>1
  <2>2. CASE d = 16
    BY <1>2, <2>2
  <2>3. CASE d = 32
    BY <1>2, <2>3
  <2> QED  BY <1>1, <2>1, <2>2, <2>3
<1> QED  BY <1>1, <1>3 DEF s, d, BYTES_PER_WORD

LEMMA BeDisplayKeeps ==
    ASSUME ScreensFit, ScreenInv, NEW f \in Forms, BeDisplay(f)
    PROVE  ScreenInv'
<1> DEFINE e     == forms[f].extent
           video == VideoMode(e)
           n     == Len(bitmaps)
           old   == HasDisplayBitmap(f)
           k     == IF old THEN forms[f].bits ELSE n + 1
           a     == IF old THEN Bits(f) ELSE DisplayBitmap(Bits(f).words, e.depth)
           b     == TakenOver(a, video)
           blank == [p \in 0 .. video.pitch * video.height - 1 |-> Blank]
           new   == [forms[f] EXCEPT !.bits = k]
<1>1. /\ w_display' = f /\ shownAs' = new /\ mode' = video
      /\ bitmaps' = IF old THEN [bitmaps EXCEPT ![k] = b] ELSE Append(bitmaps, b)
      /\ forms' = [forms EXCEPT ![f] = new]
      /\ memory' = IF Attached(b) THEN StoredAll(blank, b, Indexes(b)) ELSE blank
      /\ beyond' = (beyond \/ (Attached(b) /\ Beyond(blank, b, Indexes(b))))
      /\ shown' = IF defer_updates THEN blank ELSE memory'
      /\ UNCHANGED <<shadow, defer_updates>>
  BY DEF BeDisplay
<1>2. /\ Bits(f) \in Bitmap /\ Bits(f) = bitmaps[forms[f].bits]
      /\ forms[f] \in Form /\ e \in Extents /\ forms[f].bits \in 1 .. n
      /\ Len(Bits(f).words) = Size(e) /\ n \in Nat
  BY BitsIs DEF ScreenInv, FormsInv
<1>3. ScreenFits(e)
  BY <1>2 DEF ScreensFit
<1>4. /\ e.depth \in {1, 8, 16, 32} /\ video.height = e.height
      /\ MemoryOf(e) = 0 .. video.pitch * e.height - 1 /\ video.pitch \in Nat
  BY <1>3, ExtentIs, VideoModeIs, Reached DEF MemoryOf, PitchOf
<1>5. /\ a \in Bitmap /\ a.depth = e.depth /\ IsDisplay(a) /\ a.words = Bits(f).words
  <2>1. CASE old
    BY <1>2, <2>1 DEF HasDisplayBitmap
  <2>2. CASE ~old
    <3>1. a = [kind |-> "display", words |-> Bits(f).words, depth |-> e.depth,
               pixelbuffer_words |-> 0, pitch |-> 0]
      BY <2>2 DEF DisplayBitmap
    <3>2. Bits(f).words \in Seq(Word)
      BY <1>2 DEF Bitmap
    <3> HIDE DEF a
    <3> QED  BY <1>4, <3>1, <3>2 DEF Bitmap, IsDisplay
  <2> QED  BY <2>1, <2>2
<1>6. PICK reach \in Nat \ {0} : b = [a EXCEPT !.pitch = video.pitch, !.pixelbuffer_words = reach]
  BY <1>3, Reached DEF TakenOver
<1> HIDE DEF a, b, blank, video, old
<1>7. /\ b \in Bitmap /\ b.depth = e.depth /\ b.pitch = video.pitch /\ b.words = a.words
      /\ Attached(b) /\ IsDisplay(b)
  <2>1. PICK vp \in Nat : vp = video.pitch
    BY <1>4
  <2>2. b = [a EXCEPT !.pitch = vp, !.pixelbuffer_words = reach]
    BY <1>6, <2>1
  <2>3. b = [kind |-> a.kind, words |-> a.words, depth |-> a.depth,
             pixelbuffer_words |-> reach, pitch |-> vp]
    BY <1>5, <2>2 DEF Bitmap
  <2> QED  BY <1>5, <2>1, <2>3 DEF Bitmap, Attached, IsDisplay
<1>8. OnScreen(b, e)
  BY <1>2, <1>5, <1>7 DEF OnScreen, video
<1>9. DOMAIN blank = MemoryOf(e)
  BY <1>4 DEF blank
<1>10. /\ DOMAIN StoredAll(blank, b, Indexes(b)) = DOMAIN blank
       /\ LaidOut(StoredAll(blank, b, Indexes(b)), b)
       /\ ~Beyond(blank, b, Indexes(b))
  BY <1>3, <1>8, <1>9, StoresAllWords
<1>11. /\ DOMAIN memory' = MemoryOf(e) /\ DOMAIN shown' = MemoryOf(e)
       /\ LaidOut(memory', b) /\ beyond' = FALSE
  BY <1>1, <1>7, <1>9, <1>10 DEF ScreenInv, DisplayInv
<1>12. /\ k \in 1 .. Len(bitmaps') /\ bitmaps' \in Seq(Bitmap) /\ bitmaps'[k] = b
       /\ Len(bitmaps') = n \/ Len(bitmaps') = n + 1
       /\ \A i \in 1 .. Len(bitmaps') : i # k => i \in 1 .. n /\ bitmaps'[i] = bitmaps[i]
       /\ \A i \in 1 .. n : i \in 1 .. Len(bitmaps')
       /\ \A i \in 1 .. n : i # k \/ i = forms[f].bits
  <2>0. bitmaps \in Seq(Bitmap)
    BY DEF ScreenInv, FormsInv
  <2>1. CASE old
    <3>1. bitmaps' = [bitmaps EXCEPT ![k] = b] /\ k = forms[f].bits /\ k \in 1 .. n
      BY <1>1, <1>2, <2>1
    <3> HIDE DEF k
    <3> QED  BY <1>7, <2>0, <3>1 DEF n
  <2>2. CASE ~old
    <3>1. bitmaps' = Append(bitmaps, b) /\ k = n + 1
      BY <1>1, <2>2
    <3> HIDE DEF k
    <3>2. /\ bitmaps' \in Seq(Bitmap) /\ Len(bitmaps') = n + 1 /\ bitmaps'[n + 1] = b
          /\ \A i \in 1 .. n : bitmaps'[i] = bitmaps[i]
      BY <1>7, <2>0, <3>1 DEF n
    <3>3. /\ n + 1 \in 1 .. n + 1 /\ \A i \in 1 .. n : i # n + 1 /\ i \in 1 .. n + 1
          /\ \A i \in 1 .. n + 1 : i # n + 1 => i \in 1 .. n
      BY <1>2
    <3> QED  BY <3>1, <3>2, <3>3
  <2> QED  BY <2>1, <2>2
<1> HIDE DEF n, k
<1>13. new \in Form /\ new.bits = k /\ new.extent = e
  <2>1. k \in Nat
    BY <1>12
  <2> QED  BY <1>2, <2>1 DEF Form
<1> HIDE DEF new
<1>14. /\ forms' \in [Forms -> Form] /\ forms'[f] = new
       /\ \A g \in Forms : g # f => forms'[g] = forms[g]
  BY <1>1, <1>13 DEF ScreenInv, FormsInv
<1>15. /\ Bits(f)' = b
       /\ \A g \in Forms : g # f => forms[g].bits # k /\ Bits(g)' = Bits(g)
  <2>1. Bits(f)' = b
    BY <1>12, <1>13, <1>14 DEF Bits
  <2>2. ASSUME NEW g \in Forms, g # f  PROVE forms[g].bits # k /\ Bits(g)' = Bits(g)
    <3>1. forms[g].bits \in 1 .. n /\ forms[g].bits # forms[f].bits
      BY <2>2 DEF ScreenInv, FormsInv, n
    <3> QED  BY <1>12, <1>14, <2>2, <3>1 DEF Bits
  <2> QED  BY <2>1, <2>2
<1>16. FormsInv'
  <2>1. \A i \in 1 .. Len(bitmaps') : Attached(bitmaps'[i]) => IsDisplay(bitmaps'[i])
    BY <1>7, <1>12 DEF ScreenInv, FormsInv, n
  <2>2. \A g \in Forms : /\ forms'[g].bits \in 1 .. Len(bitmaps')
                         /\ Len(Bits(g)'.words) = Size(forms'[g].extent)
    <3>1. \A g \in Forms : forms[g].bits \in 1 .. n /\ Len(Bits(g).words) = Size(forms[g].extent)
      BY DEF ScreenInv, FormsInv, n
    <3>2. Len(b.words) = Size(e)
      BY <1>8 DEF OnScreen
    <3> QED  BY <1>12, <1>13, <1>14, <1>15, <3>1, <3>2
  <2>3. \A g, h \in Forms : g # h => forms'[g].bits # forms'[h].bits
    BY <1>13, <1>14, <1>15 DEF ScreenInv, FormsInv
  <2>4. \A g \in Forms : shadow'[g] = None \/ shadow'[g].bits \in 1 .. Len(bitmaps')
    BY <1>1, <1>12 DEF ScreenInv, FormsInv, n
  <2> HIDE DEF Bits
  <2> QED  BY <1>1, <1>12, <1>14, <2>1, <2>2, <2>3, <2>4 DEF ScreenInv, FormsInv, Bits
<1>17. DisplayInv'
  <2>1. /\ w_display' \in Forms /\ forms'[w_display'] = shownAs' /\ Bits(w_display)' = b
        /\ shownAs' = new
    BY <1>1, <1>14, <1>15 DEF Bits
  <2>2. Displayed(w_display)'
    BY <1>7, <1>8, <1>11, <1>13, <2>1 DEF Displayed, LaidOut, Indexes, Attached, OnScreen
  <2>3. /\ shownAs' \in Form /\ shownAs'.bits \in 1 .. Len(bitmaps')
        /\ mode' = VideoMode(shownAs'.extent) /\ DOMAIN memory' = MemoryOf(shownAs'.extent)
    BY <1>1, <1>11, <1>12, <1>13, <2>1 DEF video
  <2> QED  BY <1>11, <2>1, <2>2, <2>3 DEF DisplayInv
<1> QED  BY <1>16, <1>17 DEF ScreenInv

LEMMA ScreenMatches ==
    ASSUME ScreensFit, ScreenInv, w_display # None, forms[w_display] = shownAs
    PROVE  Shows(memory)
<1> DEFINE e == shownAs.extent
           b == Bits(w_display)
<1>1. /\ shownAs \in Form /\ mode = VideoMode(e) /\ OnScreen(b, e) /\ LaidOut(memory, b)
      /\ b = bitmaps[shownAs.bits]
  BY DEF ScreenInv, DisplayInv, Displayed, Bits
<1>2. ScreenFits(e)
  BY <1>1 DEF ScreensFit, Form
<1> HIDE DEF b
<1> QED  BY <1>1, <1>2, LaidOutShows

LEMMA ScreenUnseen ==
    ASSUME ScreenInv, UNCHANGED <<forms, bitmaps, shadow, w_display, shownAs, mode, memory, beyond>>,
           DOMAIN shown' = DOMAIN shown, defer_updates' \in BOOLEAN
    PROVE  ScreenInv'
<1>1. \A f : Bits(f)' = Bits(f)
  BY DEF Bits
<1>2. FormsInv'
  BY <1>1 DEF ScreenInv, FormsInv
<1>3. DisplayInv'
  BY <1>1 DEF ScreenInv, DisplayInv, Displayed
<1> QED  BY <1>2, <1>3 DEF ScreenInv

LEMMA OrderlyStores ==
    ASSUME Orderly, NEW f \in Forms
    PROVE  /\ MayStore(f) => f = w_display \/ ~Attached(Bits(f))
           /\ MayDraw(f) => /\ MayStore(f) /\ FormShadow(f) = forms[f]
                            /\ f = w_display => IsDisplay(Bits(f))
  BY DEF Orderly, MayStore, MayDraw

LEMMA StoreKeepsScreen ==
    ASSUME ScreensFit, Orderly, ScreenInv, NEW f \in Forms, NEW word \in Ink,
           NEW indexes \in SUBSET Indexes(Bits(f)),
           MayStore(f), SetWords(forms[f].bits, indexes, word),
           UNCHANGED <<forms, shadow, w_display, shownAs, mode, shown, defer_updates>>
    PROVE  ScreenInv'
<1>1. f = w_display \/ ~Attached(Bits(f))
  BY OrderlyStores
<1>2. /\ shadow' \in [Forms -> Form \union {None}]
      /\ \A g \in Forms : shadow'[g] = None \/ shadow'[g].bits \in 1 .. Len(bitmaps)
  BY DEF ScreenInv, FormsInv
<1>3. DOMAIN shown' = DOMAIN shown
  OBVIOUS
<1> QED  BY <1>1, <1>2, <1>3, SetsKeep

LEMMA CopyBitsKeeps ==
    ASSUME ScreensFit, Orderly, ScreenInv, NEW f \in Forms, NEW n, NEW word \in Ink,
           CopyBits(f, n, word)
    PROVE  ScreenInv'
<1>1. /\ MayStore(f) /\ FormShadow(f) = forms[f] /\ (f = w_display \/ ~Attached(Bits(f)))
      /\ (f = w_display => IsDisplay(Bits(f)))
  BY OrderlyStores DEF CopyBits
<1>2. {n} \in SUBSET Indexes(Bits(f))
  BY <1>1 DEF CopyBits, Bits
<1>3. /\ SetWords(forms[f].bits, {n}, word)
      /\ shadow' = [shadow EXCEPT ![f] = forms[f]]
      /\ UNCHANGED <<forms, w_display, shownAs, mode, defer_updates>>
      /\ shown' = shown \/ shown' = memory'
  BY <1>1 DEF CopyBits, Flipped
<1>4. forms[f] \in Form /\ forms[f].bits \in 1 .. Len(bitmaps)
  BY BitsIs DEF ScreenInv
<1>5. /\ shadow' \in [Forms -> Form \union {None}]
      /\ \A g \in Forms : shadow'[g] = None \/ shadow'[g].bits \in 1 .. Len(bitmaps)
  BY <1>3, <1>4 DEF ScreenInv, FormsInv
<1>6. DOMAIN shown' = DOMAIN shown \/ DOMAIN shown' = DOMAIN memory'
  BY <1>3
<1> QED  BY <1>1, <1>2, <1>3, <1>5, <1>6, SetsKeep

LEMMA ScreenStep ==
    ASSUME ScreensFit, Orderly, ScreenInv, [Next]_vars
    PROVE  ScreenInv'
<1>1. CASE UNCHANGED vars
  BY <1>1, ScreenUnseen DEF vars, screenVars, ScreenInv, FormsInv
<1>2. CASE InputActs
  BY <1>2, ScreenUnseen DEF InputActs, screenVars, ScreenInv, FormsInv
<1>3. CASE DeferUpdates
  <2>1. defer_updates' \in BOOLEAN
    BY <1>3 DEF DeferUpdates
  <2> QED  BY <1>3, <2>1, ScreenUnseen DEF DeferUpdates
<1>4. CASE ForceDisplayUpdate
  BY <1>4, ScreenUnseen DEF ForceDisplayUpdate, ScreenInv, FormsInv, DisplayInv
<1>5. CASE \E f \in Forms, e \in Extents : SetExtent(f, e)
  BY <1>5, SetExtentKeeps
<1>6. CASE \E f \in Forms : BeDisplay(f)
  BY <1>6, BeDisplayKeeps
<1>7. ASSUME NEW f \in Forms, NEW word \in Ink, Fill(f, word)
      PROVE  ScreenInv'
  BY <1>7, StoreKeepsScreen DEF Fill
<1>8. ASSUME NEW f \in Forms, NEW word \in Ink, NEW n \in Indexes(Bits(f)), AtPut(f, n, word)
      PROVE  ScreenInv'
  BY <1>8, StoreKeepsScreen DEF AtPut
<1>9. CASE \E f \in Forms, word \in Ink : \E n : CopyBits(f, n, word)
  BY <1>9, CopyBitsKeeps
<1> QED
  BY <1>1, <1>2, <1>3, <1>4, <1>5, <1>6, <1>7, <1>8, <1>9 DEF Next, ScreenActs

\* Each form has bits of its own at the start.
LEMMA Numbered ==
    /\ Cardinality(Forms) \in Nat
    /\ \A f \in Forms : /\ Index(FormNumber, f) \in 1 .. Cardinality(Forms)
                        /\ FormNumber[Index(FormNumber, f)] = f
<1> DEFINE n == Cardinality(Forms)
<1>1. n \in Nat /\ ExistsBijection(1 .. n, Forms)
  BY DisplayAssumption, FS_CardinalityType
<1>2. \E g \in [1 .. n -> Forms] : IsInjective(g)
  BY <1>1 DEF ExistsBijection, Bijection, Injection
<1>3. FormNumber \in [1 .. n -> Forms] /\ IsInjective(FormNumber)
  BY <1>2 DEF FormNumber, SetToSeq
<1>4. Cardinality(1 .. n) = n
  <2>1. 1 \in Int /\ n \in Int
    BY <1>1
  <2>2. Cardinality(1 .. n) = IF 1 > n THEN 0 ELSE n - 1 + 1
    BY <2>1, FS_Interval
  <2> HIDE DEF n
  <2> QED  BY <1>1, <2>2
<1>5. FormNumber \in Surjection(1 .. n, Forms)
  <2>1. FormNumber \in Injection(1 .. n, Forms)
    BY <1>3 DEF Injection
  <2> QED  BY <1>4, <2>1, FS_Injection, DisplayAssumption
<1>6. \A f \in Forms : \E i \in DOMAIN FormNumber : FormNumber[i] = f
  BY <1>3, <1>5 DEF Surjection
<1> QED  BY <1>1, <1>3, <1>6 DEF Index

LEMMA ScreenInit ==
    ASSUME Init
    PROVE  ScreenInv
<1> DEFINE n == Cardinality(Forms)
<1>1. PICK e \in Extents :
          /\ bitmaps = [i \in 1 .. n |-> WordsObject(e)]
          /\ forms = [f \in Forms |-> [bits |-> Index(FormNumber, f), extent |-> e]]
  BY DEF Init
<1>2. WordsObject(e) \in Bitmap /\ ~Attached(WordsObject(e)) /\ Len(WordsObject(e).words) = Size(e)
  BY WordsObjectIs
<1>3. /\ n \in Nat
      /\ \A f \in Forms : /\ Index(FormNumber, f) \in 1 .. n
                          /\ FormNumber[Index(FormNumber, f)] = f
  BY Numbered
<1> HIDE DEF n
<1>4. /\ bitmaps \in Seq(Bitmap) /\ Len(bitmaps) = n
      /\ \A i \in 1 .. n : bitmaps[i] = WordsObject(e)
  BY <1>1, <1>2, <1>3
<1>5. /\ forms \in [Forms -> Form]
      /\ \A f \in Forms : forms[f].bits = Index(FormNumber, f) /\ forms[f].extent = e
  BY <1>1, <1>3 DEF Form
<1>6. \A f \in Forms : Len(Bits(f).words) = Size(forms[f].extent)
  BY <1>2, <1>3, <1>4, <1>5 DEF Bits
<1>7. \A f, g \in Forms : f # g => forms[f].bits # forms[g].bits
  BY <1>3, <1>5
<1>8. FormsInv
  BY <1>2, <1>3, <1>4, <1>5, <1>6, <1>7 DEF Init, FormsInv
<1>9. DisplayInv
  BY DEF Init, DisplayInv
<1> QED  BY <1>8, <1>9 DEF ScreenInv

--------------------------------------------------------------------------------
(* The types of the input, which ScreenSound is about as well.                   *)

InputSound ==
    /\ key.code \in 0 .. 255 /\ key.mods \subseteq {1, 2, 4, 8}
    /\ button \subseteq {1, 2, 4, 8}
    /\ interrupt_key \in {Key(0, {1, 2, 4, 8})} \union InterruptKeys
    /\ evented \in BOOLEAN /\ running \in BOOLEAN

LEMMA ButtonBitsAre == \A b : ButtonBits(b) \subseteq {1, 2, 4, 8}
  BY DEF ButtonBits, YellowButtonBit, BlueButtonBit, RedButtonBit, BitsOf

LEMMA NextKeyIs ==
    ASSUME QueueInv, polled < Len(happened), NextEvent.type = "KEYDOWN"
    PROVE  KeyCode(NextEvent.arg) \in 0 .. 255
<1>1. polled + 1 \in 1 .. Len(happened)
  BY DEF QueueInv
<1>2. NextEvent.arg \in Keys
  BY <1>1 DEF QueueInv, EventOK, NextEvent
<1> QED  BY <1>2, KeyCodeIs

LEMMA PumpSound ==
    ASSUME QueueInv, InputSound, NEW mods, mods \subseteq {1, 2, 4, 8}, PumpEvents(mods)
    PROVE  InputSound'
<1> DEFINE e == IF polled < Len(happened) THEN happened[polled + 1] ELSE Event("NONE", None)
           k == IF e.type = "KEYDOWN" THEN KeyAfter(e) ELSE key
           stops == e.type = "QUIT" \/ (e.type = "KEYDOWN" /\ Interrupts(e))
<1>1. /\ button' = IF MouseButton(e) THEN ButtonAfter(e) ELSE button
      /\ key' = IF stops THEN k ELSE Key(k.code, k.mods \union mods)
      /\ running' = ~stops
      /\ UNCHANGED <<interrupt_key, evented>>
  BY DEF PumpEvents
<1>2. e.type = "KEYDOWN" => KeyCode(e.arg) \in 0 .. 255
  <2>1. polled < Len(happened) => e = NextEvent
    BY DEF NextEvent
  <2>2. ~(polled < Len(happened)) => e.type # "KEYDOWN"
    BY DEF Event
  <2> QED  BY <2>1, <2>2, NextKeyIs
<1> HIDE DEF e
<1>3. k.code \in 0 .. 255 /\ k.mods \subseteq {1, 2, 4, 8}
  BY <1>2 DEF KeyAfter, Key, InputSound
<1>4. button' \subseteq {1, 2, 4, 8}
  BY <1>1, ButtonBitsAre DEF ButtonAfter, InputSound
<1>5. running' \in BOOLEAN
  BY <1>1
<1> HIDE DEF k, stops
<1>6. key'.code \in 0 .. 255 /\ key'.mods \subseteq {1, 2, 4, 8}
  BY <1>1, <1>3 DEF Key
<1> QED  BY <1>1, <1>4, <1>5, <1>6 DEF InputSound

LEMMA InputStep ==
    ASSUME QueueInv, InputSound, InputNext
    PROVE  InputSound'
<1>1. CASE UserActs \/ GetDeferred \/ GetKeyUp \/ GetWindow
  BY <1>1 DEF UserActs, GetDeferred, GetKeyUp, GetWindow, Poll, InputSound
<1>2. CASE GetMouse
  BY <1>2, ButtonBitsAre DEF GetMouse, Poll, ButtonAfter, InputSound
<1>3. CASE GetKeyDown
  <2>1. /\ key' = Key(KeyCode(NextEvent.arg), {}) /\ running' = ~Interrupts(NextEvent)
        /\ polled < Len(happened) /\ NextEvent.type = "KEYDOWN"
        /\ UNCHANGED <<interrupt_key, evented, button>>
    BY <1>3 DEF GetKeyDown, Poll, KeyAfter, NextEvent
  <2>2. key'.code \in 0 .. 255 /\ key'.mods = {} /\ running' \in BOOLEAN
    BY <2>1, NextKeyIs DEF Key
  <2> QED  BY <2>1, <2>2 DEF InputSound
<1>4. CASE PollMouse
  BY <1>4, PumpSound DEF PollMouse
<1>5. CASE KbdPeek
  BY <1>5, PumpSound, ModifiersAre DEF KbdPeek
<1>6. CASE KbdNext
  BY <1>6 DEF KbdNext, KeyIsTaken, NoKey, Key, InputSound
<1>7. CASE SetInterruptKey
  BY <1>7 DEF SetInterruptKey, InputSound
<1> QED  BY <1>1, <1>2, <1>3, <1>4, <1>5, <1>6, <1>7 DEF InputNext, GetNextEvent

LEMMA RunningOn ==
    ASSUME ScreenActs
    PROVE  UNCHANGED <<button, interrupt_key, key, evented>> /\ running' \in BOOLEAN \union {running}
  BY DEF ScreenActs, SetExtent, BeDisplay, Fill, AtPut, CopyBits, DeferUpdates,
         ForceDisplayUpdate, inputVars

LEMMA InputSoundStep ==
    ASSUME QueueInv, InputSound, [Next]_vars
    PROVE  QueueInv' /\ InputSound'
<1>1. QueueInv'
  BY StepIs, QueueKept
<1>2. CASE UNCHANGED vars
  BY <1>1, <1>2 DEF vars, inputVars, InputSound
<1>3. CASE ScreenActs
  BY <1>1, <1>3, RunningOn DEF InputSound
<1>4. CASE InputActs
  BY <1>1, <1>4, InputStep DEF InputActs
<1> QED  BY <1>1, <1>2, <1>3, <1>4 DEF Next

LEMMA InputSoundInit ==
    ASSUME Init
    PROVE  QueueInv /\ InputSound
<1>1. QueueInv
  BY QueueInvInit
<1> QED  BY <1>1 DEF Init, InputInit, InputSound, NoKey, Key

\* The words of the display and the pixels on the screen are the same picture, for
\* every width and height, in the depths that have a layout, whichever forms become
\* the display and change their extents in between; and no word is stored where
\* the screen has no memory (W_DisplayBitmap and its subclasses, BE_DISPLAY).
THEOREM ScreenStaysSound ==
    ASSUME ScreensFit, Orderly
    PROVE  Spec => []ScreenSound
<1>1. Init => QueueInv /\ InputSound /\ ScreenInv
  BY InputSoundInit, ScreenInit
<1>2. QueueInv /\ InputSound /\ ScreenInv /\ [Next]_vars
        => QueueInv' /\ InputSound' /\ ScreenInv'
  BY InputSoundStep, ScreenStep
<1>3. QueueInv /\ InputSound /\ ScreenInv => ScreenSound
  <2> SUFFICES ASSUME QueueInv, InputSound, ScreenInv  PROVE ScreenSound
    OBVIOUS
  <2>1. InputTypeOK
    BY DEF QueueInv, InputSound, InputTypeOK
  <2>2. TypeOK
    <3>1. DOMAIN bitmaps = 1 .. Len(bitmaps)
      BY DEF ScreenInv, FormsInv
    <3>2. \A f \in Forms : forms[f].extent \in Extents
      BY DEF ScreenInv, FormsInv, Form
    <3> QED  BY <2>1, <3>1, <3>2 DEF ScreenInv, FormsInv, DisplayInv, TypeOK
  <2>3. MemoryMatchesDisplay
    BY ScreenMatches DEF MemoryMatchesDisplay
  <2> QED  BY <2>2, <2>3 DEF ScreenInv, DisplayInv, ScreenSound, StaysInMemory
<1> QED  BY <1>1, <1>2, <1>3, PTL DEF Spec

\* What is drawn on the display can be seen at once, with all that was stored there
\* before it, unless updates are deferred, and a forced update shows all of it
\* (primitiveCopyBits, flush_to_screen, flip).
THEOREM DrawnIsShown ==
    ASSUME ScreensFit, Orderly
    PROVE  Spec => WhatIsDrawnIsShown
<1> DEFINE Kept == w_display # None /\ forms[w_display] = shownAs /\ shown = memory
                      => Shows(shown)
<1>1. Init => ScreenInv
  BY ScreenInit
<1>2. ScreenInv /\ [Next]_vars => ScreenInv'
  BY ScreenStep
<1>3. ScreenInv => Kept
  BY ScreenMatches
<1>4. ScreenInv /\ Kept' /\ [Next]_vars
        => [/\ (/\ w_display # None /\ ~defer_updates
                /\ \E word \in Ink, n \in Indexes(bitmaps[FormShadow(w_display).bits]) :
                       CopyBits(w_display, n, word)) => Shows(shown)'
            /\ (ForceDisplayUpdate /\ w_display # None /\ forms[w_display] = shownAs)
                   => Shows(shown)']_vars
  <2> SUFFICES ASSUME ScreenInv, Kept', w_display # None,
                      \/ /\ ~defer_updates
                         /\ \E word \in Ink,
                               n \in Indexes(bitmaps[FormShadow(w_display).bits]) :
                                   CopyBits(w_display, n, word)
                      \/ ForceDisplayUpdate /\ forms[w_display] = shownAs
               PROVE  Shows(shown)'
    OBVIOUS
  <2>1. w_display \in Forms
    BY DEF ScreenInv, DisplayInv
  <2>2. CASE ForceDisplayUpdate /\ forms[w_display] = shownAs
    BY <2>2 DEF ForceDisplayUpdate
  <2>3. ASSUME ~defer_updates, NEW n, NEW word, CopyBits(w_display, n, word)
        PROVE  Shows(shown)'
    <3>1. IsDisplay(Bits(w_display))
      BY <2>1, <2>3, OrderlyStores DEF CopyBits
    <3>2. forms[w_display] = shownAs
      BY <3>1 DEF ScreenInv, DisplayInv
    <3>3. shown' = memory' /\ UNCHANGED <<forms, w_display, shownAs>>
      BY <2>3, <3>1 DEF CopyBits, Flipped
    <3> QED  BY <3>2, <3>3
  <2> QED  BY <2>2, <2>3
<1> HIDE DEF Kept
<1> QED  BY <1>1, <1>2, <1>3, <1>4, PTL DEF Spec, WhatIsDrawnIsShown
===============================================================================

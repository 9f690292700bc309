----------------------- MODULE InterruptAndStartupProofs -----------------------
(***************************************************************************)
(* Theorems about the two parts of the VM that drive the scheduler of the  *)
(* image: interrupt checks and the timer, for any number of processes and  *)
(* semaphores, any size of the counter and any clock, and the start of an  *)
(* image with code to run, for any image that was saved.  Each part has    *)
(* its own specification, and rests on what ProcessSchedulerProofs says of *)
(* the process primitives; no theorem uses the assumptions of both parts.  *)
(***************************************************************************)
EXTENDS TimerInterrupts, Startup, ProcessSchedulerProofs

-----------------------------------------------------------------------------
(* Interrupt checks and the timer *)

timerAll == <<vars, timerVars>>

\* What the timer's types rest on: whoever is woken has a context.
TimerInv == TimerTypeOK /\ ContextsOwned

LEMMA SignalEffectTyped ==
    ASSUME TypeOK, ContextsOwned, Running, NEW s \in Semaphore, SignalEffect(s),
           UNCHANGED <<suppressed, stopped>>
    PROVE  TypeOK' /\ ContextsOwned'
<1>1. SlotsTyped /\ heap \in Heap(Process, List)
  BY DEF TypeOK, SlotsTyped
<1>2. excessSignals' \in [Semaphore -> Nat]
  BY DEF SignalEffect, TypeOK
<1>3. suppressed' \in BOOLEAN /\ stopped' \subseteq Process
  BY DEF TypeOK
<1>4. CASE UNCHANGED <<heap, myList>> /\ NoSwitch
  BY <1>2, <1>3, <1>4 DEF NoSwitch, TypeOK, ContextsOwned, Running
<1>5. CASE /\ ~ IsEmptyList(heap, s)
           /\ ResumeIn(RemoveFirstLink(heap, s), heap.first[s])
  <2>1. s \in List /\ activeProcess \in Process
    BY ConstantFacts DEF TypeOK
  <2>2. /\ RemoveFirstLink(heap, s) \in Heap(Process, List)
        /\ heap.first[s] \in Process
    BY <1>1, <1>5, <2>1, ConstantFacts, ListOperationsTyped
  <2>3. SlotsTyped' /\ ContextsOwned'
    BY <1>1, <1>5, <2>2, ResumeInTyped
  <2> QED  BY <1>2, <1>3, <2>3 DEF SlotsTyped, TypeOK
<1> QED  BY <1>4, <1>5 DEF SignalEffect

LEMMA CheckTyped ==
    ASSUME TimerInv, Running, CheckForInterrupts
    PROVE  /\ TypeOK' /\ ContextsOwned'
           /\ now' = now /\ timerSemaphore' = timerSemaphore
           /\ nextWakeupTick' \in {0, nextWakeupTick}
<1>1. CASE UNCHANGED <<heap, myList, excessSignals>> /\ NoSwitch
  BY <1>1 DEF CheckForInterrupts, NoSwitch, TimerInv, TimerTypeOK, TypeOK, ContextsOwned, Running
<1>2. CASE timerSemaphore # Nil /\ SignalEffect(timerSemaphore)
  <2>1. timerSemaphore \in Semaphore
    BY <1>2 DEF TimerInv, TimerTypeOK
  <2> QED  BY <1>2, <2>1, SignalEffectTyped DEF CheckForInterrupts, TimerInv, TimerTypeOK
<1>3. /\ UNCHANGED <<suppressed, stopped, now, timerSemaphore>>
      /\ nextWakeupTick' \in {0, nextWakeupTick}
  BY DEF CheckForInterrupts
<1> QED  BY <1>1, <1>2, <1>3 DEF CheckForInterrupts

LEMMA TimerTypesPreserved == TimerInv /\ [TimerNext]_timerAll => TimerInv'
<1> SUFFICES ASSUME TimerInv, [TimerNext]_timerAll  PROVE TimerInv'
  OBVIOUS
<1>0. /\ CounterSize \in Nat \ {0} /\ MaxClock \in Nat \ {0} /\ MaxTraceStep \in Nat \ {0}
      /\ 0 \in 0 .. MaxClock /\ CounterSize \in 1 .. CounterSize
  BY TimerAssumption
<1>1. ASSUME SchedulerStep  PROVE TimerInv'
  <2>1. TypeOK' /\ ContextsOwned'
    BY <1>1, TypesPreserved DEF SchedulerStep, TimerInv, TimerTypeOK
  <2> QED  BY <1>1, <2>1 DEF SchedulerStep, timerVars, TimerInv, TimerTypeOK
<1>2. ASSUME NEW dec \in 1 .. MaxTraceStep, EnterFrame(dec)  PROVE TimerInv'
  <2>1. CASE interruptCheckCounter - dec > 0
    <3>1. interruptCheckCounter' \in 1 .. CounterSize
      BY <1>0, <1>2, <2>1 DEF EnterFrame, QuickCheck, TimerInv, TimerTypeOK
    <3>2. UNCHANGED <<vars, now, nextWakeupTick, timerSemaphore, sleeping>>
      BY <1>0, <1>2, <2>1 DEF EnterFrame, QuickCheck, TimerInv, TimerTypeOK
    <3> QED  BY <3>1, <3>2 DEF vars, TimerInv, TimerTypeOK, TypeOK, ContextsOwned, Running
  <2>2. CASE interruptCheckCounter' = CounterSize /\ CheckForInterrupts
    <3>1. Running /\ sleeping' = sleeping
      BY <1>2 DEF EnterFrame
    <3> QED  BY <1>0, <2>2, <3>1, CheckTyped DEF TimerInv, TimerTypeOK
  <2> QED  BY <1>2, <2>1, <2>2 DEF EnterFrame, QuickCheck
<1>3. ASSUME IdleFor \/ WakeFromSleep  PROVE TimerInv'
  <2>1. Running /\ interruptCheckCounter' = CounterSize /\ CheckForInterrupts
    BY <1>3 DEF IdleFor, WakeFromSleep
  <2>2. sleeping' \in BOOLEAN
    BY <1>3 DEF IdleFor, WakeFromSleep
  <2> QED  BY <1>0, <2>1, <2>2, CheckTyped DEF TimerInv, TimerTypeOK
<1>4. ASSUME NEW w \in Semaphore \cup {Nil}, NEW t \in 0 .. MaxClock,
             SignalAtMilliseconds(w, t)
      PROVE  TimerInv'
  BY <1>4 DEF SignalAtMilliseconds, vars, TimerInv, TimerTypeOK, TypeOK, ContextsOwned, Running
<1>5. ASSUME Tick  PROVE TimerInv'
  <2>1. now' \in 0 .. MaxClock
    BY <1>0, <1>5 DEF Tick, TimerInv, TimerTypeOK
  <2> QED  BY <1>5, <2>1 DEF Tick, vars, TimerInv, TimerTypeOK, TypeOK, ContextsOwned, Running
<1>6. CASE UNCHANGED timerAll
  BY <1>6 DEF timerAll, vars, timerVars, TimerInv, TimerTypeOK, TypeOK, ContextsOwned, Running
<1> QED  BY <1>1, <1>2, <1>3, <1>4, <1>5, <1>6 DEF TimerNext

\* Whatever the clock does between two checks, and whoever a check wakes, the counter,
\* the tick and everything the scheduler keeps have their types: an interrupt activates
\* no process without a context (check_for_interrupts, quick_check_for_interrupt).
THEOREM TimerTypeCorrect == TimerSpec => []TimerTypeOK
<1>1. TimerInit => TimerInv
  <2> SUFFICES ASSUME TimerInit  PROVE TimerInv
    OBVIOUS
  <2>1. TypeOK /\ ContextsOwned
    BY TypesInitially DEF TimerInit
  <2>2. 0 \in 0 .. MaxClock /\ CounterSize \in 1 .. CounterSize
    BY TimerAssumption
  <2>3. /\ now = 0 /\ nextWakeupTick = 0 /\ timerSemaphore = Nil
        /\ interruptCheckCounter = CounterSize /\ sleeping = FALSE
    BY DEF TimerInit
  <2> QED  BY <2>1, <2>2, <2>3 DEF TimerInv, TimerTypeOK
<1>2. TimerInv /\ [TimerNext]_<<vars, timerVars>> => TimerInv'
  BY TimerTypesPreserved DEF timerAll
<1>3. TimerInv => TimerTypeOK
  BY DEF TimerInv
<1> QED  BY <1>1, <1>2, <1>3, PTL DEF TimerSpec

\* A switch that no primitive of the image asked for comes from one expired tick and uses
\* it up, although the exception leaves the check, and a sleep, before they have finished
\* (check_for_interrupts, primitive 230).
THEOREM InterruptsConsumeTheirTick == TimerSpec => InterruptConsumesTick
<1> DEFINE Consumes == Check /\ activeProcess' # activeProcess
                       => /\ Expired /\ nextWakeupTick' = 0
                          /\ ~ sleeping'
                          /\ interruptCheckCounter' = CounterSize
<1>1. ASSUME Check, activeProcess' # activeProcess
      PROVE  /\ Expired /\ nextWakeupTick' = 0
             /\ ~ sleeping'
             /\ interruptCheckCounter' = CounterSize
  <2>1. ASSUME CheckForInterrupts  PROVE Expired /\ nextWakeupTick' = 0
    BY <1>1, <2>1 DEF CheckForInterrupts, NoSwitch
  <2>2. ASSUME NEW dec \in 1 .. MaxTraceStep, EnterFrame(dec)
        PROVE  /\ Expired /\ nextWakeupTick' = 0 /\ ~ sleeping'
               /\ interruptCheckCounter' = CounterSize
    <3>1. CASE UNCHANGED <<vars, now, nextWakeupTick, timerSemaphore>>
      BY <1>1, <3>1 DEF vars
    <3>2. CASE interruptCheckCounter' = CounterSize /\ CheckForInterrupts
      BY <2>1, <2>2, <3>2 DEF EnterFrame
    <3> QED  BY <2>2, <3>1, <3>2 DEF EnterFrame, QuickCheck
  <2>3. ASSUME IdleFor
        PROVE  /\ Expired /\ nextWakeupTick' = 0 /\ ~ sleeping'
               /\ interruptCheckCounter' = CounterSize
    BY <1>1, <2>1, <2>3 DEF IdleFor
  <2>4. ASSUME WakeFromSleep
        PROVE  /\ Expired /\ nextWakeupTick' = 0 /\ ~ sleeping'
               /\ interruptCheckCounter' = CounterSize
    BY <2>1, <2>4 DEF WakeFromSleep
  <2> QED  BY <1>1, <2>2, <2>3, <2>4 DEF Check
<1>2. [TimerNext]_<<vars, timerVars>> => [Consumes]_<<vars, timerVars>>
  BY <1>1
<1> QED  BY <1>2, PTL DEF TimerSpec, InterruptConsumesTick

-----------------------------------------------------------------------------
(* The start of an image: no switch while its compiler runs *)

\* What the compiler leaves alone, as StartupInit has it.
CompileInv ==
    phase = "compile" =>
        /\ suppressed
        /\ activeProcess = Initial
        /\ frame = ToplevelContext
        /\ suspendedContext =
              [p \in Process |-> IF p = NewProcess THEN Nil ELSE ImageContext(p)]

\* A primitive switches only where it finds that it may.
LEMMA SuppressedPrimitives ==
    ASSUME suppressed, phase = "compile", Primitive
    PROVE  UNCHANGED <<suppressed, activeProcess, frame, suspendedContext>>
<1>1. ASSUME NEW h, NEW p, ResumeIn(h, p)
      PROVE  UNCHANGED <<activeProcess, frame, suspendedContext>>
  BY <1>1 DEF ResumeIn, NoSwitch, Raise
<1>2. ASSUME NEW h, SuspendActiveIn(h)
      PROVE  UNCHANGED <<activeProcess, frame, suspendedContext>>
  BY <1>2 DEF SuspendActiveIn, NoSwitch
<1>3. ASSUME NEW s \in Semaphore, Signal(s)
      PROVE  UNCHANGED <<suppressed, activeProcess, frame, suspendedContext>>
  BY <1>1, <1>3 DEF Signal, SignalEffect, NoSwitch
<1>4. ASSUME NEW s \in Semaphore, Wait(s)
      PROVE  UNCHANGED <<suppressed, activeProcess, frame, suspendedContext>>
  BY <1>2, <1>4 DEF Wait, NoSwitch
<1>5. ASSUME NEW p \in Process, Resume(p)
      PROVE  UNCHANGED <<suppressed, activeProcess, frame, suspendedContext>>
  BY <1>1, <1>5 DEF Resume
<1>6. ASSUME NEW p \in Process, Suspend(p)
      PROVE  UNCHANGED <<suppressed, activeProcess, frame, suspendedContext>>
  BY <1>6 DEF Suspend, SuspendOther, NoSwitch, Raise
<1> QED  BY <1>3, <1>4, <1>5, <1>6 DEF Primitive

LEMMA CompilePreserved == CompileInv /\ [StartupNext]_startupVars => CompileInv'
<1> SUFFICES ASSUME CompileInv, [StartupNext]_startupVars  PROVE CompileInv'
  OBVIOUS
<1>1. CASE PrimitiveStep
  BY <1>1, SuppressedPrimitives DEF PrimitiveStep, CompileInv
<1>2. CASE CompileDone \/ RunHeadless \/ RunProcess
  BY <1>2 DEF CompileDone, SymbolDone, RunHeadless, RunProcess, CompileInv
<1>3. CASE UNCHANGED startupVars
  BY <1>3 DEF startupVars, vars, CompileInv
<1> QED  BY <1>1, <1>2, <1>3 DEF StartupNext

LEMMA CompileInitially == StartupInit => CompileInv
  BY DEF StartupInit, CompileInv

\* "The idle process will never be left once it is entered": the processor stays
\* with the context that compiles, whatever the compiler signals or resumes.
THEOREM CompilerKeepsTheProcessor == StartupSpec => []CompilerKeepsProcessor
<1>1. CompileInv => CompilerKeepsProcessor
  BY DEF CompileInv, CompilerKeepsProcessor
<1> QED  BY <1>1, CompileInitially, CompilePreserved, PTL DEF StartupSpec

-----------------------------------------------------------------------------
(* Processes without a context *)

\* No pointer of a heap leads to a link of X.
Avoids(h, X) ==
    /\ \A l \in List : h.first[l] \notin X /\ h.last[l] \notin X
    /\ \A p \in Process : h.next[p] \notin X

\* Processes of X are nowhere where the VM would take them from.
Apart(X) ==
    Avoids(heap, X) /\ activeProcess \notin X /\ \A x \in X : myList[x] = Nil

\* All others, but the active one, have a context to continue with.
OthersOwn(X) ==
    Running =>
        /\ frame[1] = activeProcess
        /\ \A p \in Process \ X : p # activeProcess =>
              suspendedContext[p] # Nil /\ suspendedContext[p][1] = p

LEMMA ListOperationsAvoid ==
    ASSUME NEW X \in SUBSET Process, NEW h \in Heap(Process, List), Avoids(h, X),
           NEW l \in List, NEW p \in Process
    PROVE  /\ p \notin X => Avoids(AddLastLink(h, l, p), X)
           /\ ~ IsEmptyList(h, l) =>
                 Avoids(RemoveFirstLink(h, l), X) /\ h.first[l] \in Process \ X
           /\ CanRemoveLink(h, l, p) => Avoids(RemoveLink(h, l, p), X)
<1>1. /\ h.first \in [List -> Process \cup {Nil}]
      /\ h.last \in [List -> Process \cup {Nil}]
      /\ h.next \in [Process -> Process \cup {Nil}]
      /\ Nil \notin X
  BY ConstantFacts DEF Heap
<1>2. ASSUME p \notin X  PROVE Avoids(AddLastLink(h, l, p), X)
  BY <1>1, <1>2 DEF Avoids, AddLastLink
<1>3. ASSUME ~ IsEmptyList(h, l)
      PROVE  Avoids(RemoveFirstLink(h, l), X) /\ h.first[l] \in Process \ X
  BY <1>1, <1>3 DEF Avoids, RemoveFirstLink, IsEmptyList
<1>4. ASSUME CanRemoveLink(h, l, p), h.first[l] # p
      PROVE  Avoids(RemoveInnerLink(h, l, p), X)
  <2> DEFINE c == CHOOSE c \in DOMAIN h.next : IsBefore(h, l, c, p)
             cleared == [h.next EXCEPT ![p] = Nil]
             S == DOMAIN h.next \ X
  <2>1. c \in DOMAIN h.next /\ IsBefore(h, l, c, p)
    BY <1>1, <1>4 DEF CanRemoveLink
  <2>2. S \in SUBSET DOMAIN h.next /\ h.first[l] \in S \cup {Nil}
        /\ \A x \in S : h.next[x] \in S \cup {Nil}
    BY <1>1 DEF Avoids
  <2>3. c \in S
    BY <2>1, <2>2 DEF IsBefore, Links
  <2>4. cleared \in [Process -> Process \cup {Nil}] /\ cleared[p] = Nil
        /\ \A x \in Process : cleared[x] \notin X
    BY <1>1 DEF Avoids
  <2> HIDE DEF c, cleared, S
  <2>5. RemoveInnerLink(h, l, p) =
           [first |-> h.first,
            last  |-> [h.last EXCEPT ![l] = IF cleared[p] = Nil THEN c ELSE @],
            next  |-> [cleared EXCEPT ![c] = cleared[p]]]
    BY DEF RemoveInnerLink, c, cleared
  <2>6. c \notin X
    BY <2>3 DEF S
  <2> QED  BY <1>1, <2>4, <2>5, <2>6 DEF Avoids
<1>5. ASSUME CanRemoveLink(h, l, p)  PROVE Avoids(RemoveLink(h, l, p), X)
  <2>1. h.first[l] = p => ~ IsEmptyList(h, l)
    BY <1>1, ConstantFacts DEF IsEmptyList
  <2> QED  BY <2>1, <1>3, <1>4, <1>5 DEF RemoveLink
<1> QED  BY <1>2, <1>3, <1>5

\* What a switch to a process that is not of X leaves of all this.
LEMMA SwitchToApart ==
    ASSUME SlotsTyped, Running, NEW X \in SUBSET Process, Apart(X), OthersOwn(X),
           NEW p \in Process \ X, p # activeProcess,
           NEW lists \in [Process -> List \cup {Nil}], \A x \in X : lists[x] = Nil,
           SwitchTo(p, lists), heap' \in Heap(Process, List), Avoids(heap', X)
    PROVE  SlotsTyped' /\ Apart(X)' /\ OthersOwn(X)'
<1>1. suspendedContext[p] \in Context /\ suspendedContext[p][1] = p
  BY DEF SlotsTyped, OthersOwn
<1>2. /\ activeProcess' = p
      /\ frame' = suspendedContext[p]
      /\ suspendedContext' =
            [suspendedContext EXCEPT ![activeProcess] = frame, ![p] = Nil]
      /\ myList' = [lists EXCEPT ![p] = Nil]
      /\ halted' = halted
  BY DEF SwitchTo
<1>3. /\ suspendedContext' \in [Process -> Context \cup {Nil}]
      /\ suspendedContext'[activeProcess] = frame
      /\ \A x \in Process \ {p, activeProcess} :
            suspendedContext'[x] = suspendedContext[x]
  BY <1>2 DEF SlotsTyped
<1>4. SlotsTyped'
  BY <1>1, <1>2, <1>3 DEF SlotsTyped
<1>5. frame # Nil /\ frame[1] = activeProcess
  BY ConstantFacts DEF SlotsTyped, OthersOwn
<1>6. OthersOwn(X)'
  BY <1>1, <1>2, <1>3, <1>5 DEF OthersOwn
<1>7. Apart(X)'
  BY <1>2 DEF Apart
<1> QED  BY <1>4, <1>6, <1>7

LEMMA ResumeInApart ==
    ASSUME SlotsTyped, Running, NEW X \in SUBSET Process, Apart(X), OthersOwn(X),
           NEW h \in Heap(Process, List), Avoids(h, X), NEW p \in Process \ X,
           ResumeIn(h, p)
    PROVE  SlotsTyped' /\ Apart(X)' /\ OthersOwn(X)'
<1>1. CASE /\ heap' = h
           /\ NoSwitch /\ UNCHANGED myList
  BY <1>1 DEF NoSwitch, SlotsTyped, Apart, OthersOwn, Running
<1>2. CASE /\ priority[p] > priority[activeProcess]
           /\ HasProcessList(activeProcess)
           /\ heap' = PutToSleep(h, activeProcess)
           /\ SwitchTo(p, [myList EXCEPT ![activeProcess] = priority[activeProcess]])
  <2>1. activeProcess \in Process /\ priority[activeProcess] \in List /\ activeProcess \notin X
    BY <1>2, ConstantFacts DEF SlotsTyped, HasProcessList, Apart
  <2>2. p # activeProcess
    BY <1>2, <2>1, ConstantFacts
  <2>3. heap' \in Heap(Process, List) /\ Avoids(heap', X)
    BY <1>2, <2>1, ConstantFacts, ListOperationsTyped, ListOperationsAvoid DEF PutToSleep
  <2> DEFINE lists == [myList EXCEPT ![activeProcess] = priority[activeProcess]]
  <2>4. lists \in [Process -> List \cup {Nil}] /\ \A x \in X : lists[x] = Nil
    BY <2>1 DEF SlotsTyped, Apart
  <2> HIDE DEF lists
  <2>5. SwitchTo(p, lists)
    BY <1>2 DEF lists
  <2> QED  BY <2>2, <2>3, <2>4, <2>5, SwitchToApart
<1>3. CASE /\ HasProcessList(p)
           /\ heap' = PutToSleep(h, p)
           /\ myList' = [myList EXCEPT ![p] = priority[p]]
           /\ NoSwitch
  <2>1. priority[p] \in List
    BY <1>3, ConstantFacts DEF HasProcessList
  <2>2. heap' \in Heap(Process, List) /\ Avoids(heap', X)
    BY <1>3, <2>1, ConstantFacts, ListOperationsTyped, ListOperationsAvoid DEF PutToSleep
  <2>3. myList' \in [Process -> List \cup {Nil}] /\ \A x \in X : myList'[x] = Nil
    BY <1>3, <2>1 DEF SlotsTyped, Apart
  <2> QED  BY <1>3, <2>2, <2>3 DEF NoSwitch, SlotsTyped, Apart, OthersOwn, Running
<1>4. CASE heap' = h /\ Raise("LayoutException")
  BY <1>4 DEF Raise, SlotsTyped, Apart, OthersOwn, Running, Exception
<1> QED  BY <1>1, <1>2, <1>3, <1>4 DEF ResumeIn

LEMMA SuspendActiveInApart ==
    ASSUME SlotsTyped, Running, NEW X \in SUBSET Process, Apart(X), OthersOwn(X),
           NEW h \in Heap(Process, List), Avoids(h, X), SuspendActiveIn(h)
    PROVE  SlotsTyped' /\ Apart(X)' /\ OthersOwn(X)'
<1>1. CASE /\ heap' = h
           /\ NoSwitch /\ UNCHANGED myList
  BY <1>1 DEF NoSwitch, SlotsTyped, Apart, OthersOwn, Running
<1>2. CASE /\ heap' = h
           /\ Raise("AssertionError") \/ Raise("FatalError")
  BY <1>2 DEF Raise, SlotsTyped, Apart, OthersOwn, Running, Exception
<1>3. CASE /\ \E l \in ReadyList : IsRunnable(h, l)
           /\ heap' = RemoveFirstLink(h, HighestList(h))
           /\ LET p == h.first[HighestList(h)]
              IN  IF p = activeProcess
                  THEN /\ halted' = "AssertionError"
                       /\ suspendedContext' = [suspendedContext EXCEPT ![p] = frame]
                       /\ UNCHANGED <<myList, activeProcess, frame>>
                  ELSE SwitchTo(p, myList)
  <2> DEFINE l == HighestList(h)
             p == h.first[l]
  <2>1. l \in List /\ ~ IsEmptyList(h, l)
    BY <1>3, HighestListExists, ConstantFacts DEF IsRunnable
  <2> HIDE DEF l
  <2>2. activeProcess \in Process
    BY DEF SlotsTyped
  <2>3. /\ p \in Process \ X
        /\ RemoveFirstLink(h, l) \in Heap(Process, List)
        /\ Avoids(RemoveFirstLink(h, l), X)
    BY <2>1, <2>2, ConstantFacts, ListOperationsTyped, ListOperationsAvoid
  <2>4. heap' \in Heap(Process, List) /\ Avoids(heap', X)
    BY <1>3, <2>3 DEF l
  <2>5. CASE p = activeProcess
    <3>1. /\ halted' = "AssertionError"
          /\ suspendedContext' = [suspendedContext EXCEPT ![activeProcess] = frame]
          /\ UNCHANGED <<myList, activeProcess, frame>>
      BY <1>3, <2>5 DEF l
    <3>2. suspendedContext' \in [Process -> Context \cup {Nil}]
      BY <3>1 DEF SlotsTyped
    <3> QED  BY <2>4, <3>1, <3>2 DEF SlotsTyped, Apart, OthersOwn, Exception, Running
  <2>6. CASE p # activeProcess
    <3>1. SwitchTo(p, myList)
      BY <1>3, <2>6 DEF l
    <3>2. myList \in [Process -> List \cup {Nil}] /\ \A x \in X : myList[x] = Nil
      BY DEF SlotsTyped, Apart
    <3> QED  BY <2>3, <2>4, <2>6, <3>1, <3>2, SwitchToApart
  <2> QED  BY <2>5, <2>6
<1> QED  BY <1>1, <1>2, <1>3 DEF SuspendActiveIn

LEMMA SuspendOtherApart ==
    ASSUME SlotsTyped, Running, NEW X \in SUBSET Process, Apart(X), OthersOwn(X),
           NEW p \in Process, SuspendOther(p)
    PROVE  SlotsTyped' /\ Apart(X)' /\ OthersOwn(X)'
<1>1. CASE UNCHANGED <<heap, myList>> /\ NoSwitch
  BY <1>1 DEF NoSwitch, SlotsTyped, Apart, OthersOwn, Running
<1>2. CASE UNCHANGED heap /\ Raise("WrapperException")
  BY <1>2 DEF Raise, SlotsTyped, Apart, OthersOwn, Running, Exception
<1>3. CASE /\ myList[p] # Nil
           /\ CanRemoveLink(heap, myList[p], p)
           /\ heap' = RemoveLink(heap, myList[p], p)
           /\ myList' = [myList EXCEPT ![p] = Nil]
           /\ NoSwitch
  <2>1. heap \in Heap(Process, List) /\ myList[p] \in List /\ Avoids(heap, X)
    BY <1>3 DEF SlotsTyped, Apart
  <2>2. heap' \in Heap(Process, List) /\ Avoids(heap', X)
    BY <1>3, <2>1, ConstantFacts, ListOperationsTyped, ListOperationsAvoid
  <2>3. myList' \in [Process -> List \cup {Nil}] /\ \A x \in X : myList'[x] = Nil
    BY <1>3 DEF SlotsTyped, Apart
  <2> QED  BY <1>3, <2>2, <2>3 DEF NoSwitch, SlotsTyped, Apart, OthersOwn, Running
<1> QED  BY <1>1, <1>2, <1>3 DEF SuspendOther

\* Where the context is that the image was saved with: in the slot of its active
\* process, as long as that has been active, and otherwise lost.
LeftInv ==
    phase # "run" /\ Running =>
        /\ left => phase = "symbol" /\ suspendedContext[activeProcess] = Nil
        /\ ~ left => /\ activeProcess = Initial
                    /\ suspendedContext[Initial] = ImageContext(Initial)

\* Only the process made for the code may be without a context, until it is ready.
StartupInv ==
    /\ TypeOK /\ CompileInv /\ LeftInv
    /\ phase \in {"compile", "symbol", "run"}
    /\ Apart(Unmade) /\ OthersOwn(Unmade) /\ stopped \cap Unmade = {}

LEMMA LeftPreserved ==
    ASSUME TypeOK, CompileInv, LeftInv, phase \in {"compile", "symbol", "run"}, PrimitiveStep
    PROVE  LeftInv'
<1>1. SUFFICES ASSUME phase' # "run", Running'
               PROVE  /\ left' => phase' = "symbol" /\ suspendedContext'[activeProcess'] = Nil
                      /\ ~ left' => /\ activeProcess' = Initial
                                   /\ suspendedContext'[Initial] = ImageContext(Initial)
  BY DEF LeftInv, ImageContext
<1>2. /\ phase' = phase /\ phase # "run" /\ Primitive
      /\ left' <=> left \/ activeProcess' # activeProcess
  BY <1>1 DEF PrimitiveStep
<1>3. KeepsOrHands /\ Running
  <2>1. Next
    BY <1>2 DEF Primitive, Next
  <2>2. Running
    BY <1>2 DEF Primitive, Signal, Wait, Resume, Suspend, SuspendActive
  <2> QED  BY <2>1, <2>2, StepKeepsOrHands
<1>4. CASE UNCHANGED <<suspendedContext, activeProcess>>
  BY <1>2, <1>3, <1>4 DEF LeftInv
<1>5. ASSUME NEW p \in Process, Hands(p)
      PROVE  left' /\ phase = "symbol" /\ suspendedContext'[activeProcess'] = Nil
  <2>1. phase # "compile"
    BY <1>2, <1>5, SuppressedPrimitives DEF CompileInv, Hands
  <2> QED  BY <1>2, <1>5, <2>1 DEF Hands, TypeOK
<1> QED  BY <1>1, <1>2, <1>3, <1>4, <1>5 DEF KeepsOrHands

LEMMA PrimitiveApart ==
    ASSUME TypeOK, NEW X \in SUBSET Process, Apart(X), OthersOwn(X), stopped \cap X = {},
           X = Unmade, Primitive
    PROVE  TypeOK' /\ Apart(X)' /\ OthersOwn(X)' /\ stopped' \cap X = {}
<1>0. /\ SlotsTyped /\ heap \in Heap(Process, List) /\ Avoids(heap, X)
      /\ activeProcess \in Process \ X /\ Semaphore \subseteq List
  BY ConstantFacts DEF TypeOK, SlotsTyped, Apart
<1>1. ASSUME NEW s \in Semaphore, Signal(s)
      PROVE  TypeOK' /\ Apart(X)' /\ OthersOwn(X)' /\ stopped' \cap X = {}
  <2>1. excessSignals' \in [Semaphore -> Nat]
    BY <1>1 DEF Signal, SignalEffect, TypeOK
  <2>2. suppressed' = suppressed /\ stopped' = stopped /\ Running
    BY <1>1 DEF Signal
  <2>3. CASE UNCHANGED <<heap, myList>> /\ NoSwitch
    BY <2>1, <2>2, <2>3 DEF NoSwitch, TypeOK, Apart, OthersOwn, Running
  <2>4. CASE /\ ~ IsEmptyList(heap, s)
             /\ ResumeIn(RemoveFirstLink(heap, s), heap.first[s])
    <3>1. /\ RemoveFirstLink(heap, s) \in Heap(Process, List)
          /\ Avoids(RemoveFirstLink(heap, s), X)
          /\ heap.first[s] \in Process \ X
      BY <1>0, <2>4, ConstantFacts, ListOperationsTyped, ListOperationsAvoid
    <3>2. SlotsTyped' /\ Apart(X)' /\ OthersOwn(X)'
      BY <1>0, <2>2, <2>4, <3>1, ResumeInApart
    <3> QED  BY <2>1, <2>2, <3>2 DEF SlotsTyped, TypeOK
  <2> QED  BY <1>1, <2>3, <2>4 DEF Signal, SignalEffect
<1>2. ASSUME NEW s \in Semaphore, Wait(s)
      PROVE  TypeOK' /\ Apart(X)' /\ OthersOwn(X)' /\ stopped' \cap X = {}
  <2>1. excessSignals' \in [Semaphore -> Nat]
    BY <1>2 DEF Wait, TypeOK
  <2>2. suppressed' = suppressed /\ stopped' = stopped /\ Running
    BY <1>2 DEF Wait
  <2>3. CASE UNCHANGED <<heap, myList>> /\ NoSwitch
    BY <2>1, <2>2, <2>3 DEF NoSwitch, TypeOK, Apart, OthersOwn, Running
  <2>4. CASE SuspendActiveIn(AddLastLink(heap, s, activeProcess))
    <3>1. /\ AddLastLink(heap, s, activeProcess) \in Heap(Process, List)
          /\ Avoids(AddLastLink(heap, s, activeProcess), X)
      BY <1>0, ConstantFacts, ListOperationsTyped, ListOperationsAvoid
    <3>2. SlotsTyped' /\ Apart(X)' /\ OthersOwn(X)'
      BY <1>0, <2>2, <2>4, <3>1, SuspendActiveInApart
    <3> QED  BY <2>1, <2>2, <3>2 DEF SlotsTyped, TypeOK
  <2> QED  BY <1>2, <2>3, <2>4 DEF Wait
<1>3. ASSUME NEW p \in Process, Resume(p)
      PROVE  TypeOK' /\ Apart(X)' /\ OthersOwn(X)' /\ stopped' \cap X = {}
  <2>1. p \in Process \ X
    BY <1>3 DEF Resume
  <2>2. SlotsTyped' /\ Apart(X)' /\ OthersOwn(X)'
    BY <1>0, <1>3, <2>1, ResumeInApart DEF Resume
  <2> QED  BY <1>3, <2>2 DEF Resume, SlotsTyped, TypeOK
<1>4. ASSUME NEW p \in Process \ Unmade, Suspend(p)
      PROVE  TypeOK' /\ Apart(X)' /\ OthersOwn(X)' /\ stopped' \cap X = {}
  <2>1. SlotsTyped' /\ Apart(X)' /\ OthersOwn(X)'
    BY <1>0, <1>4, SuspendOtherApart DEF Suspend
  <2>2. p \notin X
    BY <1>4
  <2> QED  BY <1>4, <2>1, <2>2 DEF Suspend, SlotsTyped, TypeOK
<1>5. ASSUME SuspendActive
      PROVE  TypeOK' /\ Apart(X)' /\ OthersOwn(X)' /\ stopped' \cap X = {}
  <2>1. SlotsTyped' /\ Apart(X)' /\ OthersOwn(X)'
    BY <1>0, <1>5, SuspendActiveInApart DEF SuspendActive
  <2> QED  BY <1>0, <1>5, <2>1 DEF SuspendActive, SlotsTyped, TypeOK
<1> QED  BY <1>1, <1>2, <1>3, <1>4, <1>5 DEF Primitive

LEMMA StartFacts ==
    /\ Initial \in Process /\ NewProcess \in Process /\ Initial # NewProcess
    /\ priority[NewProcess] \in List /\ Nil \notin Context
    /\ ToplevelContext \in Context /\ ToplevelContext[1] = Initial
    /\ \A p \in Process : ImageContext(p) \in Context /\ ImageContext(p)[1] = p
<1>1. NumFrames = 2 /\ 1 \in 1 .. 2 /\ 2 \in 1 .. 2
  BY StartupAssumption
<1> QED  BY <1>1, ConstantsAssumption, StartupAssumption, ConstantFacts
         DEF HasProcessList, Context, ToplevelContext, ImageContext

LEMMA CompileDonePreserves ==
    ASSUME StartupInv, CompileDone
    PROVE  StartupInv'
<1>1. /\ UNCHANGED <<heap, myList, suspendedContext, excessSignals, activeProcess, stopped,
                     halted, headless, left>>
      /\ suppressed' = FALSE /\ frame' = ToplevelContext /\ phase = "compile"
      /\ phase' = "symbol" /\ Unmade = {NewProcess} /\ Unmade' = {NewProcess}
      /\ activeProcess = Initial
  BY DEF CompileDone, StartupInv, CompileInv, Unmade
<1>2. TypeOK'
  BY <1>1, StartFacts DEF StartupInv, TypeOK
<1>3. CompileInv' /\ LeftInv'
  BY <1>1 DEF StartupInv, CompileInv, LeftInv, Running, ImageContext
<1>4. Apart(Unmade)' /\ stopped' \cap Unmade' = {}
  BY <1>1 DEF StartupInv, Apart
<1>5. OthersOwn(Unmade)'
  BY <1>1, StartFacts DEF StartupInv, OthersOwn, Running
<1> QED  BY <1>1, <1>2, <1>3, <1>4, <1>5 DEF StartupInv

LEMMA RunPreserves ==
    ASSUME StartupInv, RunHeadless \/ RunProcess
    PROVE  StartupInv'
<1>0. /\ phase = "symbol" /\ phase' = "run" /\ headless' = headless /\ Running
      /\ frame = ToplevelContext /\ Unmade = {NewProcess} /\ activeProcess = Initial
      /\ UNCHANGED <<excessSignals, activeProcess, suppressed, stopped, headless>>
  <2>1. SymbolDone
    BY DEF RunHeadless, RunProcess
  <2> QED  BY <2>1, StartFacts DEF SymbolDone, Unmade, StartupInv, OthersOwn
<1>1. CompileInv' /\ LeftInv'
  BY <1>0 DEF CompileInv, LeftInv
<1>2. CASE RunHeadless
  <2>1. /\ UNCHANGED <<heap, myList, suspendedContext, halted>>
        /\ frame' = ToplevelContext /\ Unmade' = Unmade
    BY <1>0, <1>2 DEF RunHeadless, Unmade
  <2>2. TypeOK'
    BY <1>0, <2>1 DEF StartupInv, TypeOK
  <2>3. Apart(Unmade)' /\ stopped' \cap Unmade' = {}
    BY <1>0, <2>1 DEF StartupInv, Apart
  <2>4. OthersOwn(Unmade)'
    BY <1>0, <2>1 DEF StartupInv, OthersOwn, Running
  <2> QED  BY <1>0, <1>1, <2>2, <2>3, <2>4 DEF StartupInv
<1>3. CASE RunProcess
  <2>1. /\ Unmade' = {}
        /\ heap' = AddLastLink(heap, priority[NewProcess], NewProcess)
        /\ myList' = [myList EXCEPT ![NewProcess] = priority[NewProcess]]
        /\ suspendedContext' = [suspendedContext EXCEPT
                ![NewProcess] = ImageContext(NewProcess), ![Initial] = Nil]
        /\ \/ suspendedContext[Initial] # Nil /\ frame' = suspendedContext[Initial]
              /\ halted' = halted
           \/ suspendedContext[Initial] = Nil /\ halted' = "ValueError" /\ frame' = frame
    BY <1>0, <1>3 DEF RunProcess, Unmade, PutToSleep
  <2>2. heap' \in Heap(Process, List)
    BY <2>1, StartFacts, ConstantFacts, ListOperationsTyped DEF StartupInv, TypeOK
  <2>3. suspendedContext[Initial] # Nil => suspendedContext[Initial] = ImageContext(Initial)
    BY <1>0 DEF StartupInv, LeftInv
  <2>4. TypeOK'
    <3>1. suspendedContext' \in [Process -> Context \cup {Nil}]
      BY <2>1, StartFacts DEF StartupInv, TypeOK
    <3>2. myList' \in [Process -> List \cup {Nil}]
      BY <2>1, StartFacts DEF StartupInv, TypeOK
    <3>3. frame' \in Context
      BY <2>1, <2>3, StartFacts DEF StartupInv, TypeOK
    <3>4. halted' \in Exception \cup {"no"}
      BY <2>1 DEF StartupInv, TypeOK, Exception
    <3> QED  BY <1>0, <2>2, <3>1, <3>2, <3>3, <3>4 DEF StartupInv, TypeOK
  <2>5. Apart(Unmade)' /\ stopped' \cap Unmade' = {}
    BY <2>1 DEF Apart, Avoids
  <2>6. OthersOwn(Unmade)'
    <3>1. SUFFICES ASSUME Running'
                   PROVE  /\ frame'[1] = Initial
                          /\ \A p \in Process : p # Initial =>
                                suspendedContext'[p] # Nil /\ suspendedContext'[p][1] = p
      BY <1>0, <2>1 DEF OthersOwn
    <3>2. frame' = ImageContext(Initial)
      BY <2>1, <2>3, <3>1 DEF Running
    <3>3. \A p \in Process \ {Initial, NewProcess} :
              suspendedContext[p] # Nil /\ suspendedContext[p][1] = p
      BY <1>0 DEF StartupInv, OthersOwn
    <3>4. \A p \in Process \ {Initial} : suspendedContext'[p] =
              IF p = NewProcess THEN ImageContext(NewProcess) ELSE suspendedContext[p]
      BY <2>1, StartFacts DEF StartupInv, TypeOK
    <3> QED  BY <3>2, <3>3, <3>4, StartFacts
  <2> QED  BY <1>0, <1>1, <2>4, <2>5, <2>6 DEF StartupInv
<1> QED  BY <1>2, <1>3

LEMMA StartupPreserved == StartupInv /\ [StartupNext]_startupVars => StartupInv'
<1> SUFFICES ASSUME StartupInv, [StartupNext]_startupVars  PROVE StartupInv'
  OBVIOUS
<1>0. CompileInv'
  BY CompilePreserved DEF StartupInv
<1>1. CASE PrimitiveStep
  <2>1. Unmade' = Unmade /\ phase' = phase /\ Primitive
    BY <1>1 DEF PrimitiveStep, Unmade
  <2>2. Unmade \in SUBSET Process
    BY StartupAssumption DEF Unmade
  <2> DEFINE X == Unmade
  <2>3. TypeOK' /\ Apart(X)' /\ OthersOwn(X)' /\ stopped' \cap X = {}
    <3> SUFFICES ASSUME NEW Y, Y = Unmade
                 PROVE  TypeOK' /\ Apart(Y)' /\ OthersOwn(Y)' /\ stopped' \cap Y = {}
      BY <2>1
    <3> QED  BY <2>1, <2>2, PrimitiveApart DEF StartupInv
  <2>4. LeftInv'
    BY <1>1, LeftPreserved DEF StartupInv
  <2> QED  BY <1>0, <2>1, <2>3, <2>4 DEF StartupInv
<1>2. CASE CompileDone \/ RunHeadless \/ RunProcess
  BY <1>2, CompileDonePreserves, RunPreserves
<1>3. CASE UNCHANGED startupVars
  <2>1. /\ TypeOK' /\ LeftInv' /\ Unmade' = Unmade
        /\ UNCHANGED <<phase, heap, myList, activeProcess, stopped>>
    BY <1>3 DEF startupVars, vars, StartupInv, TypeOK, LeftInv, Unmade, Running, ImageContext
  <2>2. Apart(Unmade)' /\ OthersOwn(Unmade)' /\ stopped' \cap Unmade' = {}
    BY <1>3, <2>1 DEF startupVars, vars, StartupInv, Apart, OthersOwn, Running
  <2> QED  BY <1>0, <2>1, <2>2 DEF StartupInv
<1> QED  BY <1>1, <1>2, <1>3 DEF StartupNext

LEMMA StartupInitially == StartupInit => StartupInv
<1> SUFFICES ASSUME StartupInit  PROVE StartupInv
  OBVIOUS
<1>0. /\ Initial \in Process /\ NewProcess \in Process /\ Initial # NewProcess
      /\ NumFrames = 2 /\ MaxExcess \in Nat /\ Nil \notin Process
  BY ConstantsAssumption, StartupAssumption, ConstantFacts
<1> DEFINE others == Process \ {Initial, NewProcess}
<1>1. PICK r \in {p \in others : priority[p] <= priority[Initial]} \cup {Nil},
           w \in [Semaphore -> others \cup {Nil}] :
              (r # Nil => HasProcessList(r)) /\ SavedImage(r, w)
  BY DEF StartupInit
<1> DEFINE queued(l) == IF l \in Semaphore THEN w[l]
                        ELSE IF r # Nil /\ priority[r] = l THEN r ELSE Nil
<1>2. \A l \in List : queued(l) \in others \cup {Nil}
  BY <1>1
<1>3. /\ heap = [first |-> [l \in List |-> queued(l)],
                 last  |-> [l \in List |-> queued(l)],
                 next  |-> [p \in Process |-> Nil]]
      /\ myList = [p \in Process |-> IF p = r THEN priority[r] ELSE Nil]
      /\ stopped \subseteq Process \ {Initial, NewProcess}
  BY <1>1 DEF SavedImage
<1> HIDE DEF queued
<1>4. heap \in Heap(Process, List) /\ Avoids(heap, {NewProcess})
  BY <1>0, <1>2, <1>3 DEF Heap, Avoids
<1>5. /\ myList \in [Process -> List \cup {Nil}]
      /\ myList[NewProcess] = Nil
  <2>1. r # Nil => priority[r] \in List
    BY <1>1, ConstantFacts DEF HasProcessList
  <2>2. r # NewProcess
    BY <1>0, <1>1
  <2> QED  BY <1>0, <1>3, <2>1, <2>2
<1>6. /\ ToplevelContext \in Context /\ ToplevelContext[1] = Initial
      /\ \A p \in Process : ImageContext(p) \in Context /\ ImageContext(p)[1] = p
  BY StartFacts
<1>7. /\ suspendedContext =
            [p \in Process |-> IF p = NewProcess THEN Nil ELSE ImageContext(p)]
      /\ activeProcess = Initial /\ frame = ToplevelContext
      /\ suppressed \in BOOLEAN /\ halted = "no" /\ phase \in {"compile", "symbol"}
      /\ left = FALSE /\ excessSignals \in [Semaphore -> 0 .. MaxExcess]
  BY DEF StartupInit
<1>8. excessSignals \in [Semaphore -> Nat]
  BY <1>0, <1>7
<1>9. TypeOK
  <2>1. suspendedContext \in [Process -> Context \cup {Nil}]
    BY <1>6, <1>7
  <2> QED  BY <1>0, <1>3, <1>4, <1>5, <1>6, <1>7, <1>8, <2>1 DEF TypeOK
<1>10. Unmade = {NewProcess}
  BY <1>7 DEF Unmade
<1>11. Apart(Unmade) /\ stopped \cap Unmade = {}
  BY <1>0, <1>3, <1>4, <1>5, <1>7, <1>10 DEF Apart
<1>12. OthersOwn(Unmade)
  BY <1>0, <1>6, <1>7, <1>10, ConstantFacts DEF OthersOwn
<1>13. LeftInv
  BY <1>0, <1>7 DEF LeftInv
<1> QED  BY <1>7, <1>9, <1>11, <1>12, <1>13, CompileInitially DEF StartupInv

LEMMA StartupInvariant == StartupSpec => []StartupInv
  BY StartupInitially, StartupPreserved, PTL DEF StartupSpec

\* The context that the image was saved with survives the compilation, and is what
\* the image's active process continues with, as long as asSymbol has not given the
\* processor away before the code is started; then, and only then, the VM ends.
THEOREM ImageContextIsKept == StartupSpec => ImageContextKept
<1> DEFINE A == /\ CompilerKeepsProcessor'
                /\ phase' # phase /\ phase' = "run" /\ ~ headless =>
                      IF left THEN halted' = "ValueError"
                      ELSE halted' = "no" /\ frame' = ImageContext(Initial)
<1>1. StartupInv' => CompilerKeepsProcessor'
  BY DEF StartupInv, CompileInv, CompilerKeepsProcessor
<1>2. ASSUME StartupInv, StartupNext, phase' # phase, phase' = "run", ~ headless
      PROVE  IF left THEN halted' = "ValueError"
             ELSE halted' = "no" /\ frame' = ImageContext(Initial)
  <2>1. RunProcess
    BY <1>2 DEF StartupNext, PrimitiveStep, CompileDone, RunHeadless
  <2>2. phase = "symbol" /\ Running
    BY <2>1 DEF RunProcess, SymbolDone
  <2>3. /\ left => suspendedContext[activeProcess] = Nil
        /\ ~ left => suspendedContext[activeProcess] = ImageContext(Initial)
    BY <1>2, <2>2 DEF StartupInv, LeftInv
  <2>4. ImageContext(Initial) # Nil
    BY StartFacts
  <2> QED  BY <2>1, <2>2, <2>3, <2>4 DEF RunProcess, Running
<1>3. StartupInv /\ StartupInv' /\ [StartupNext]_startupVars => [A]_startupVars
  BY <1>1, <1>2
<1> QED  BY <1>3, StartupInvariant, PTL DEF StartupSpec, ImageContextKept

\* Every process that can be activated has a context of its own from the moment on
\* when switches are allowed, whoever has the processor while asSymbol runs: activate
\* never hands nil, or the context of another, to the interpreter.
THEOREM RunnableAlwaysHaveContext == StartupSpec => []RunnableHaveContext
<1>1. StartupInv => RunnableHaveContext
  BY DEF StartupInv, OthersOwn, RunnableHaveContext
<1> QED  BY <1>1, StartupInvariant, PTL
================================================================================

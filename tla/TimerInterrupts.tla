---------------------------- MODULE TimerInterrupts ----------------------------
(***************************************************************************)
(* How the interpreter of spyvm/interpreter.py turns the passing of time    *)
(* into process switches: it counts frames, every so many frames reads the  *)
(* clock, and signals the timer semaphore once the wakeup tick is reached.  *)
(* The signal goes through the ProcessScheduler and may end the check with  *)
(* a ProcessSwitch exception.                                               *)
(***************************************************************************)
EXTENDS ProcessScheduler

CONSTANTS
    CounterSize,    \* interrupt_counter_size
    MaxClock,       \* last value of the clock; it stops there (no rollover)
    MaxTraceStep    \* most a compiled loop takes off the counter

ASSUME TimerAssumption ==
    /\ CounterSize \in Nat \ {0}
    /\ MaxClock \in Nat \ {0}
    /\ MaxTraceStep \in Nat \ {0}

VARIABLES
    now,                    \* time_now()
    nextWakeupTick,         \* next_wakeup_tick, 0 when no timer is set
    timerSemaphore,         \* objtable["w_timerSemaphore"]
    interruptCheckCounter,  \* interrupt_check_counter
    sleeping                \* inside the time.sleep of primitive 230

timerVars == <<now, nextWakeupTick, timerSemaphore, interruptCheckCounter,
               sleeping>>

TimerTypeOK ==
    /\ TypeOK
    /\ now \in 0 .. MaxClock
    /\ nextWakeupTick \in 0 .. MaxClock
    /\ timerSemaphore \in Semaphore \cup {Nil}
    /\ interruptCheckCounter \in 1 .. CounterSize
    /\ sleeping \in BOOLEAN

TimerInit ==
    /\ Init
    /\ now = 0
    /\ nextWakeupTick = 0
    /\ timerSemaphore = Nil
    /\ interruptCheckCounter = CounterSize
    /\ sleeping = FALSE

\* Mutant: a tick that the clock has passed is never seen.
ExpiredExactly == nextWakeupTick # 0 /\ now = nextWakeupTick

Expired == nextWakeupTick # 0 /\ now >= nextWakeupTick

\* Mutant: the timer semaphore is not signalled.
CheckForgetsSemaphore ==
    /\ nextWakeupTick' = IF Expired THEN 0 ELSE nextWakeupTick
    /\ UNCHANGED <<vars, now, timerSemaphore>>

\* Mutant: the tick is cleared after the signal, which may not return.
CheckClearsTickLast ==
    /\ \/ /\ ~ (Expired /\ timerSemaphore # Nil)
          /\ UNCHANGED <<heap, myList, excessSignals>> /\ NoSwitch
       \/ /\ Expired /\ timerSemaphore # Nil
          /\ SignalEffect(timerSemaphore)
    /\ nextWakeupTick' = IF Expired /\ activeProcess' = activeProcess
                         THEN 0 ELSE nextWakeupTick
    /\ UNCHANGED <<suppressed, stopped, now, timerSemaphore>>

\* check_for_interrupts: the tick is cleared before the signal, which may not
\* return.
CheckForInterrupts ==
    /\ \/ /\ ~ Expired
          /\ UNCHANGED <<heap, myList, excessSignals, nextWakeupTick>>
          /\ NoSwitch
       \/ /\ Expired
          /\ nextWakeupTick' = 0
          /\ \/ /\ timerSemaphore = Nil
                /\ UNCHANGED <<heap, myList, excessSignals>> /\ NoSwitch
             \/ /\ timerSemaphore # Nil
                /\ SignalEffect(timerSemaphore)
    /\ UNCHANGED <<suppressed, stopped, now, timerSemaphore>>

\* quick_check_for_interrupt.
QuickCheck(dec) ==
    \/ /\ interruptCheckCounter - dec > 0
       /\ interruptCheckCounter' = interruptCheckCounter - dec
       /\ UNCHANGED <<vars, now, nextWakeupTick, timerSemaphore>>
    \/ /\ interruptCheckCounter - dec <= 0
       /\ interruptCheckCounter' = CounterSize
       /\ CheckForInterrupts

\* A frame is entered in the interpreter (dec = 1), or a compiled loop jumps
\* back.
EnterFrame(dec) ==
    /\ Running /\ ~ sleeping
    /\ QuickCheck(dec)
    /\ UNCHANGED sleeping

\* Primitive 230: check at once, then sleep unless the check has switched to
\* another process, then check again.
IdleFor ==
    /\ Running /\ ~ sleeping
    /\ interruptCheckCounter' = CounterSize
    /\ CheckForInterrupts
    /\ sleeping' = (activeProcess' = activeProcess /\ halted' = "no")

WakeFromSleep ==
    /\ Running /\ sleeping
    /\ interruptCheckCounter' = CounterSize
    /\ CheckForInterrupts
    /\ sleeping' = FALSE

\* Primitive 136; an argument that is no semaphore removes the semaphore.
SignalAtMilliseconds(w, tick) ==
    /\ Running /\ ~ sleeping
    /\ w \in Semaphore => excessSignals[w] < MaxExcess
    /\ timerSemaphore' = IF w \in Semaphore THEN w ELSE Nil
    /\ nextWakeupTick' = tick
    /\ UNCHANGED <<vars, now, interruptCheckCounter, sleeping>>

Tick ==
    /\ now < MaxClock
    /\ now' = now + 1
    /\ UNCHANGED <<vars, nextWakeupTick, timerSemaphore, interruptCheckCounter,
                   sleeping>>

SchedulerStep == ~ sleeping /\ Next /\ UNCHANGED timerVars

TimerNext ==
    \/ SchedulerStep
    \/ \E dec \in 1 .. MaxTraceStep : EnterFrame(dec)
    \/ IdleFor
    \/ WakeFromSleep
    \/ \E w \in Semaphore \cup {Nil}, t \in 0 .. MaxClock :
          SignalAtMilliseconds(w, t)
    \/ Tick

\* Time passes, a sleep ends, and a process that runs keeps entering frames
\* (or idling): nothing else in the VM is fair.
Fairness ==
    /\ WF_now(Tick)
    /\ WF_<<vars, timerVars>>(WakeFromSleep)
    /\ WF_<<vars, timerVars>>(IdleFor \/ EnterFrame(1))

TimerSpec ==
    TimerInit /\ [][TimerNext]_<<vars, timerVars>> /\ Fairness

-----------------------------------------------------------------------------
\* A wakeup tick that has been set does not stay set: the timer fires, or the
\* image sets another, or the VM has stopped.
TimerFires ==
    \A t \in 1 .. MaxClock :
        nextWakeupTick = t ~> (nextWakeupTick # t \/ ~ Running)

Check == (\E dec \in 1 .. MaxTraceStep : EnterFrame(dec)) \/ IdleFor \/ WakeFromSleep

\* The process that the timer wakes runs at once if it outranks the active
\* one: when a check finds the tick expired, the longest waiter of the timer
\* semaphore leaves its list, and the processor goes to the higher of the two.
TimerWakesWaiter ==
    [][Check /\ nextWakeupTick' # nextWakeupTick /\ timerSemaphore # Nil
       => LET w == heap.first[timerSemaphore] IN
          w # Nil =>
            /\ w \notin Links(heap, timerSemaphore)'
            /\ activeProcess' = IF priority[w] > priority[activeProcess]
                                THEN w ELSE activeProcess]_<<vars, timerVars>>

\* A process switch that does not come from a primitive of the image comes
\* from one expired tick and consumes it, although the exception leaves the
\* check, and the sleep of primitive 230, before they have finished.
InterruptConsumesTick ==
    [][Check /\ activeProcess' # activeProcess
       => /\ Expired /\ nextWakeupTick' = 0
          /\ ~ sleeping'
          /\ interruptCheckCounter' = CounterSize]_<<vars, timerVars>>
=============================================================================

--------------------------- MODULE ProcessScheduler ---------------------------
(***************************************************************************)
(* The process scheduler of spyvm/wrapper.py, at the level of the pointers  *)
(* the code writes: the four process primitives (signal, wait, resume,      *)
(* suspend), the ready lists of the ProcessorScheduler and the lists of the *)
(* semaphores, the my_list and suspended_context slots of every process,    *)
(* and the context the interpreter loop runs.                               *)
(*                                                                          *)
(* The Smalltalk image is the client.  It calls the primitives in any order *)
(* under one rule: it resumes only a process it has created or suspended    *)
(* and not resumed since (the set `stopped`).  Two constants say what else  *)
(* it does: SuspendScope names the processes, besides the active one, that  *)
(* it suspends, by their place in the lists; ResumeQueued whether it        *)
(* resumes one that it suspended while a semaphore held it, which suspend   *)
(* leaves in the semaphore's list.                                          *)
(***************************************************************************)
EXTENDS Integers, LinkedLists

CONSTANTS Process, Semaphore,
          NumLists,       \* size of the scheduler's priority_list
          priority,       \* the priority slot of every process
          Initial,        \* the process that is active when the VM starts
          NumFrames,      \* contexts per process
          MaxExcess,      \* bound on the excess_signals of a semaphore
          SuspendScope,   \* subset of {"first", "last", "inner", "blocked"}
          ResumeQueued    \* does the image resume a process that is in a list?

ReadyList == 0 .. NumLists - 1      \* indices into priority_list
List      == ReadyList \cup Semaphore
Context   == Process \X (1 .. NumFrames)

ASSUME ConstantsAssumption ==
    /\ NumLists \in Nat \ {0}
    /\ NumFrames \in Nat \ {0}
    /\ MaxExcess \in Nat \ {0}
    /\ priority \in [Process -> 1 .. NumLists]
    /\ Initial \in Process
    /\ Nil \notin Process \cup List \cup Context
    /\ Semaphore \cap ReadyList = {}
    /\ SuspendScope \subseteq {"first", "last", "inner", "blocked"}
    /\ ResumeQueued \in BOOLEAN

VARIABLES
    heap,               \* first_link, last_link and next_link pointers
    myList,             \* my_list slot of every process
    suspendedContext,   \* suspended_context slot of every process
    excessSignals,      \* excess_signals slot of every semaphore
    activeProcess,      \* active_process slot of the scheduler
    frame,              \* s_current_frame: the context the interpreter runs
    suppressed,         \* space.suppress_process_switch
    stopped,            \* processes the image may resume
    halted              \* "no", or the exception that ended the VM

vars == <<heap, myList, suspendedContext, excessSignals, activeProcess,
          frame, suppressed, stopped, halted>>

Exception == {"FatalError", "WrapperException", "LayoutException",
              "AssertionError", "ValueError"}

TypeOK ==
    /\ heap \in Heap(Process, List)
    /\ myList \in [Process -> List \cup {Nil}]
    /\ suspendedContext \in [Process -> Context \cup {Nil}]
    /\ excessSignals \in [Semaphore -> Nat]
    /\ activeProcess \in Process
    /\ frame \in Context
    /\ suppressed \in BOOLEAN
    /\ stopped \subseteq Process
    /\ halted \in Exception \cup {"no"}

\* A loaded image: the active process has handed its suspended context to
\* the interpreter (active_context), every other process is suspended.
Init ==
    /\ heap = EmptyHeap(Process, List)
    /\ myList = [p \in Process |-> Nil]
    /\ suspendedContext =
            [p \in Process |-> IF p = Initial THEN Nil ELSE <<p, 1>>]
    /\ excessSignals = [s \in Semaphore |-> 0]
    /\ activeProcess = Initial
    /\ frame = <<Initial, 1>>
    /\ suppressed = FALSE
    /\ stopped = Process \ {Initial}
    /\ halted = "no"

-----------------------------------------------------------------------------
(* ProcessWrapper, SchedulerWrapper *)

Running == halted = "no"

\* get_process_list reads slot `priority` of an Array of NumLists elements.
HasProcessList(p) == priority[p] \in ReadyList

\* put_to_sleep, of a process that has a list, in the lists of heap h.
PutToSleep(h, p) == AddLastLink(h, priority[p], p)

IsRunnable(h, l) == l \in ReadyList /\ ~ IsEmptyList(h, l)

\* Mutant: the loop runs upwards.
LowestList(h) ==
    CHOOSE l \in ReadyList :
        IsRunnable(h, l) /\ \A m \in ReadyList : IsRunnable(h, m) => m >= l

\* pop_highest_priority_process: the highest list that is not empty.
HighestList(h) ==
    CHOOSE l \in ReadyList :
        IsRunnable(h, l) /\ \A m \in ReadyList : IsRunnable(h, m) => m <= l

Raise(exception) ==
    /\ halted' = exception
    /\ UNCHANGED <<myList, suspendedContext, activeProcess, frame>>

NoSwitch == UNCHANGED <<suspendedContext, activeProcess, frame, halted>>

\* Mutant: deactivate forgets to store the context.
SwitchToForgetsFrame(p, lists) ==
    /\ activeProcess' = p
    /\ frame' = suspendedContext[p]
    /\ suspendedContext' = [suspendedContext EXCEPT ![p] = Nil]
    /\ myList' = [lists EXCEPT ![p] = Nil]
    /\ UNCHANGED halted

\* deactivate(put_to_sleep=False) of the active process, then activate of p,
\* which ends in a ProcessSwitch to p's context.
SwitchTo(p, lists) ==
    /\ activeProcess' = p
    /\ frame' = suspendedContext[p]
    /\ suspendedContext' =
            [suspendedContext EXCEPT ![activeProcess] = frame, ![p] = Nil]
    /\ myList' = [lists EXCEPT ![p] = Nil]
    /\ UNCHANGED halted

\* Mutant: no process is preempted.
ResumeInNeverPreempts(h, p) ==
    \/ /\ HasProcessList(p)
       /\ heap' = PutToSleep(h, p)
       /\ myList' = [myList EXCEPT ![p] = priority[p]]
       /\ NoSwitch
    \/ /\ ~ HasProcessList(p)
       /\ heap' = h
       /\ Raise("LayoutException")

\* Mutant: a higher priority preempts even while switches are suppressed.
ResumeInAlwaysPreempts(h, p) ==
    \/ /\ priority[p] > priority[activeProcess]
       /\ HasProcessList(activeProcess)
       /\ heap' = PutToSleep(h, activeProcess)
       /\ SwitchTo(p, [myList EXCEPT ![activeProcess] = priority[activeProcess]])
    \/ /\ priority[p] <= priority[activeProcess]
       /\ HasProcessList(p)
       /\ heap' = PutToSleep(h, p)
       /\ myList' = [myList EXCEPT ![p] = priority[p]]
       /\ NoSwitch

\* ProcessWrapper.resume of p, called with the lists as in h.
ResumeIn(h, p) ==
    \/ /\ priority[p] > priority[activeProcess]
       /\ suppressed
       /\ heap' = h
       /\ NoSwitch /\ UNCHANGED myList
    \/ /\ priority[p] > priority[activeProcess]
       /\ ~ suppressed
       /\ HasProcessList(activeProcess)
       /\ heap' = PutToSleep(h, activeProcess)
       /\ SwitchTo(p, [myList EXCEPT ![activeProcess] = priority[activeProcess]])
    \/ /\ priority[p] <= priority[activeProcess]
       /\ HasProcessList(p)
       /\ heap' = PutToSleep(h, p)
       /\ myList' = [myList EXCEPT ![p] = priority[p]]
       /\ NoSwitch
    \/ /\ priority[p] <= priority[activeProcess]
       /\ ~ HasProcessList(p)
       /\ heap' = h
       /\ Raise("LayoutException")

\* ProcessWrapper.suspend of the active process, with the lists as in h.  The
\* process whose list is popped has been deactivated when activate asserts that
\* it is not the active one.
SuspendActiveIn(h) ==
    \/ /\ suppressed
       /\ heap' = h
       /\ NoSwitch /\ UNCHANGED myList
    \/ /\ ~ suppressed
       /\ myList[activeProcess] # Nil
       /\ heap' = h
       /\ Raise("AssertionError")
    \/ /\ ~ suppressed
       /\ myList[activeProcess] = Nil
       /\ \A l \in ReadyList : IsEmptyList(h, l)
       /\ heap' = h
       /\ Raise("FatalError")
    \/ /\ ~ suppressed
       /\ myList[activeProcess] = Nil
       /\ \E l \in ReadyList : IsRunnable(h, l)
       /\ heap' = RemoveFirstLink(h, HighestList(h))
       /\ LET p == h.first[HighestList(h)]
          IN  IF p = activeProcess
              THEN /\ halted' = "AssertionError"
                   /\ suspendedContext' = [suspendedContext EXCEPT ![p] = frame]
                   /\ UNCHANGED <<myList, activeProcess, frame>>
              ELSE SwitchTo(p, myList)

\* Mutant: my_list is cleared, the list itself is not.
SuspendOtherKeepsLink(p) ==
    /\ myList' = [myList EXCEPT ![p] = Nil]
    /\ UNCHANGED heap
    /\ NoSwitch

\* ProcessWrapper.suspend of a process that is not active.
SuspendOther(p) ==
    \/ /\ myList[p] = Nil
       /\ UNCHANGED <<heap, myList>> /\ NoSwitch
    \/ /\ myList[p] # Nil
       /\ CanRemoveLink(heap, myList[p], p)
       /\ heap' = RemoveLink(heap, myList[p], p)
       /\ myList' = [myList EXCEPT ![p] = Nil]
       /\ NoSwitch
    \/ /\ myList[p] # Nil
       /\ ~ CanRemoveLink(heap, myList[p], p)
       /\ UNCHANGED heap
       /\ Raise("WrapperException")

-----------------------------------------------------------------------------
(* The primitives *)

\* SIGNAL: SemaphoreWrapper.signal.
SignalEffect(s) ==
    \/ /\ IsEmptyList(heap, s)
       /\ excessSignals' = [excessSignals EXCEPT ![s] = @ + 1]
       /\ UNCHANGED <<heap, myList>> /\ NoSwitch
    \/ /\ ~ IsEmptyList(heap, s)
       /\ ResumeIn(RemoveFirstLink(heap, s), heap.first[s])
       /\ UNCHANGED excessSignals

Signal(s) ==
    /\ Running
    /\ excessSignals[s] < MaxExcess
    /\ SignalEffect(s)
    /\ UNCHANGED <<suppressed, stopped>>

\* WAIT: SemaphoreWrapper.wait.
Wait(s) ==
    /\ Running
    /\ \/ /\ excessSignals[s] > 0
          /\ excessSignals' = [excessSignals EXCEPT ![s] = @ - 1]
          /\ UNCHANGED <<heap, myList>> /\ NoSwitch
       \/ /\ excessSignals[s] = 0
          /\ SuspendActiveIn(AddLastLink(heap, s, activeProcess))
          /\ UNCHANGED excessSignals
    /\ UNCHANGED <<suppressed, stopped>>

IsQueued(p) == \E l \in List : p \in Links(heap, l)

\* RESUME of a process the image holds back.
Resume(p) ==
    /\ Running
    /\ p \in stopped
    /\ ResumeQueued \/ (p # activeProcess /\ ~ IsQueued(p))
    /\ stopped' = stopped \ {p}
    /\ ResumeIn(heap, p)
    /\ UNCHANGED <<suppressed, excessSignals>>

\* Where the image finds a process it suspends.
Place(p) == IF myList[p] = Nil THEN "blocked"
            ELSE IF heap.first[myList[p]] = p THEN "first"
            ELSE IF heap.last[myList[p]] = p THEN "last" ELSE "inner"

\* SUSPEND of the active process (also how a process terminates).
SuspendActive ==
    /\ Running
    /\ stopped' = stopped \cup {activeProcess}
    /\ SuspendActiveIn(heap)
    /\ UNCHANGED <<suppressed, excessSignals>>

\* SUSPEND of another process.
Suspend(p) ==
    /\ Running
    /\ p # activeProcess
    /\ p \notin stopped
    /\ Place(p) \in SuspendScope
    /\ stopped' = stopped \cup {p}
    /\ SuspendOther(p)
    /\ UNCHANGED <<suppressed, excessSignals>>

\* The active process executes bytecodes: sends, returns and jumps leave it
\* in another of its contexts.
Execute(f) ==
    /\ Running
    /\ f \in Context /\ f[1] = frame[1] /\ f # frame
    /\ frame' = f
    /\ UNCHANGED <<heap, myList, suspendedContext, excessSignals,
                   activeProcess, suppressed, stopped, halted>>

Next ==
    \/ \E s \in Semaphore : Signal(s) \/ Wait(s)
    \/ \E p \in Process : Resume(p) \/ Suspend(p)
    \/ SuspendActive
    \/ \E f \in Context : Execute(f)

Spec == Init /\ [][Next]_vars

-----------------------------------------------------------------------------
(* Properties *)

QueuedIn(l) == Links(heap, l)

\* Every list the VM walks is a chain that ends, at its last_link, so
\* add_last_link appends behind every link and no walk runs forever.
ListsWellFormed == \A l \in List : WellFormedList(heap, l)

\* A process waits in one place at most: next_link is one slot, so a process
\* in two lists would splice them together.
ListsDisjoint ==
    \A l, m \in List : l # m => QueuedIn(l) \cap QueuedIn(m) = {}

\* "activate does not remove the process from the process_list. The caller of
\* activate is responsible" (test_wrapper.py): whoever runs is in no list.
ActiveInNoList ==
    Running => \A l \in List : activeProcess \notin QueuedIn(l)

\* The lists of the ready processes and of the semaphores are separate chains of
\* the processes that do not run.
ListsSound == ListsWellFormed /\ ListsDisjoint /\ ActiveInNoList

\* No process vanishes: one that is neither active nor held back by the
\* image is in the list of a semaphore or in its own ready list, and my_list
\* names the ready list it is in, for suspend to remove it from.
NoProcessLost ==
    Running => \A p \in Process \ (stopped \cup {activeProcess}) :
        \/ myList[p] = Nil /\ \E s \in Semaphore : p \in QueuedIn(s)
        \/ myList[p] = priority[p] /\ p \in QueuedIn(myList[p])

\* The VM may only give up with "Scheduler could not find a runnable process"
\* when no process waits for the processor.
FatalMeansNoRunnable ==
    halted = "FatalError" => \A p \in Process : myList[p] = Nil

\* A context is in one pair of hands: the interpreter runs a context of the
\* active process, whose slot is nil, and every other process has one of its
\* own contexts to continue with.
ContextsOwned ==
    Running =>
        /\ frame[1] = activeProcess
        /\ suspendedContext[activeProcess] = Nil
        /\ \A p \in Process \ {activeProcess} :
              suspendedContext[p] # Nil /\ suspendedContext[p][1] = p

\* No ready process outranks the active one.
PriorityRespected ==
    \A l \in ReadyList : \A p \in QueuedIn(l) :
        priority[p] <= priority[activeProcess]

\* A semaphore never keeps a signal back from a process that waits for one.
NoWastedSignal ==
    \A s \in Semaphore : excessSignals[s] > 0 => QueuedIn(s) = {}

\* What suspend holds back stays back until it is resumed: it neither runs nor
\* waits in a list.  (Not so for a process suspended while a semaphore has it.)
SuspendedStaysOut ==
    Running => \A p \in stopped : p # activeProcess /\ ~ IsQueued(p)

\* get_process_list indexes an array of NumLists slots by the priority
\* itself, so a process of the top priority has no list.  If there is only one
\* such process it is never put to sleep and the missing slot never read.
TopPriorityNeverQueued == halted # "LayoutException"

\* The assertions of activate and suspend never fail.
AssertionsHold == halted # "AssertionError"

\* The scheduler fails only where it has to: for lack of any ready process, never
\* for a broken assertion of its own or for the list that the top priority lacks.
FailuresJustified ==
    AssertionsHold /\ FatalMeansNoRunnable /\ TopPriorityNeverQueued

\* The pointers implement the queues: every step of the lists, slots and
\* contexts is a step of the abstract scheduler.
Queues == INSTANCE AbstractScheduler WITH
    ready   <- [l \in ReadyList |-> LinkSeq(heap, l)],
    waiting <- [s \in Semaphore |-> LinkSeq(heap, s)],
    excess  <- excessSignals,
    active  <- activeProcess,
    context <- suspendedContext,
    failed  <- halted # "no"

ImplementsQueues == Queues!Spec
=============================================================================

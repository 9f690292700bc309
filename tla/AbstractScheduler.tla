--------------------------- MODULE AbstractScheduler ---------------------------
(***************************************************************************)
(* What the process scheduler of spyvm/wrapper.py promises to the image,    *)
(* without its pointers: first-in first-out queues of processes, one per    *)
(* priority and one per semaphore, a processor that the highest priority    *)
(* holds, and a context that each process continues with.                   *)
(***************************************************************************)
EXTENDS Naturals, Sequences, Functions

CONSTANTS Process, Semaphore, Nil, NumLists, priority, Initial, NumFrames

ReadyList == 0 .. NumLists - 1
Context   == Process \X (1 .. NumFrames)

VARIABLES ready,      \* the queue of each ready list
          waiting,    \* the queue of each semaphore
          excess,     \* signals no process has waited for yet
          active,     \* the process that has the processor
          context,    \* where every other process continues
          frame,      \* where the active process is
          stopped,    \* processes the image may resume
          failed      \* the VM has given up

avars == <<ready, waiting, excess, active, context, frame, stopped, failed>>

Init ==
    /\ ready = [l \in ReadyList |-> <<>>]
    /\ waiting = [s \in Semaphore |-> <<>>]
    /\ excess = [s \in Semaphore |-> 0]
    /\ active = Initial
    /\ context = [p \in Process |-> IF p = Initial THEN Nil ELSE <<p, 1>>]
    /\ frame = <<Initial, 1>>
    /\ stopped = Process \ {Initial}
    /\ failed = FALSE

Enqueued(p) == [ready EXCEPT ![priority[p]] = Append(@, p)]

\* p takes the processor; the active process leaves its context behind.
Dispatch(p) ==
    /\ active' = p
    /\ frame' = context[p]
    /\ context' = [context EXCEPT ![active] = frame, ![p] = Nil]
    /\ UNCHANGED failed

KeepProcessor == UNCHANGED <<active, frame, context, failed>>

\* p becomes ready; it preempts the active process if it outranks it, which
\* then queues behind the others of its priority.
MakeReady(p) ==
    \/ /\ priority[p] > priority[active]
       /\ ready' = Enqueued(active)
       /\ Dispatch(p)
    \/ /\ priority[p] <= priority[active]
       /\ ready' = Enqueued(p)
       /\ KeepProcessor

\* The active process gives the processor to the head of the highest queue
\* that has a process, or the VM gives up.
GiveUpProcessor ==
    \/ \E l \in ReadyList :
          /\ ready[l] # <<>>
          /\ \A m \in ReadyList : m > l => ready[m] = <<>>
          /\ ready' = [ready EXCEPT ![l] = Tail(@)]
          /\ Dispatch(Head(ready[l]))
    \/ /\ \A l \in ReadyList : ready[l] = <<>>
       /\ failed' = TRUE
       /\ UNCHANGED <<ready, active, frame, context>>

Signal(s) ==
    /\ \/ /\ waiting[s] = <<>>
          /\ excess' = [excess EXCEPT ![s] = @ + 1]
          /\ UNCHANGED <<ready, waiting>> /\ KeepProcessor
       \/ /\ waiting[s] # <<>>
          /\ waiting' = [waiting EXCEPT ![s] = Tail(@)]
          /\ MakeReady(Head(waiting[s]))
          /\ UNCHANGED excess
    /\ UNCHANGED stopped

Wait(s) ==
    /\ \/ /\ excess[s] > 0
          /\ excess' = [excess EXCEPT ![s] = @ - 1]
          /\ UNCHANGED <<ready, waiting>> /\ KeepProcessor
       \/ /\ excess[s] = 0
          /\ waiting' = [waiting EXCEPT ![s] = Append(@, active)]
          /\ GiveUpProcessor
          /\ UNCHANGED excess
    /\ UNCHANGED stopped

Resume(p) ==
    /\ p \in stopped
    /\ stopped' = stopped \ {p}
    /\ MakeReady(p)
    /\ UNCHANGED <<waiting, excess>>

SuspendActive ==
    /\ stopped' = stopped \cup {active}
    /\ GiveUpProcessor
    /\ UNCHANGED <<waiting, excess>>

\* A ready process is taken out of its queue and the others keep their order;
\* a process that waits for a semaphore goes on waiting.
Suspend(p) ==
    /\ \/ \E l \in ReadyList : \E i \in 1 .. Len(ready[l]) :
             /\ ready[l][i] = p
             /\ ready' = [ready EXCEPT ![l] =
                             SubSeq(@, 1, i - 1) \o SubSeq(@, i + 1, Len(@))]
       \/ /\ \E s \in Semaphore : p \in Range(waiting[s])
          /\ UNCHANGED ready
    /\ stopped' = stopped \cup {p}
    /\ UNCHANGED <<waiting, excess>> /\ KeepProcessor

Execute(f) ==
    /\ f \in Context /\ f[1] = frame[1]
    /\ frame' = f
    /\ UNCHANGED <<ready, waiting, excess, active, context, stopped, failed>>

Next ==
    /\ ~ failed
    /\ \/ \E s \in Semaphore : Signal(s) \/ Wait(s)
       \/ \E p \in Process : Resume(p) \/ Suspend(p)
       \/ SuspendActive
       \/ \E f \in Context : Execute(f)

Spec == Init /\ [][Next]_avars
=============================================================================

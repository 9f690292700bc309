-------------------------------- MODULE Startup --------------------------------
(***************************************************************************)
(* How the VM starts an image with code to run (entry_point, compile_code,  *)
(* create_process and active_context of targetimageloadingsmalltalk.py).    *)
(* The code is compiled by the image itself, in a context of the VM's own   *)
(* that runs under the name of the image's active process while             *)
(* suppress_process_switch holds; the process primitives the compiler calls *)
(* then work on the lists of the image but never switch.  After that the    *)
(* image once more is asked for something, the selector as a symbol, and    *)
(* now it may switch: asSymbol is over when its own context is, which may   *)
(* have waited for the processor in between.                                *)
(***************************************************************************)
EXTENDS ProcessScheduler

CONSTANTS
    NewProcess      \* the process create_process makes for the code

ASSUME StartupAssumption ==
    /\ NewProcess \in Process \ {Initial}
    /\ NumFrames = 2
    /\ HasProcessList(NewProcess)  \* 7 of 8 lists, or 11 to 41 of 80

VARIABLES
    phase,      \* "compile", "symbol" or "run"
    headless,   \* option: run the code instead of the image's active process
    left        \* auxiliary: has the processor been given to another process
                \*   before the code is started?

startupVars == <<vars, phase, headless, left>>

ImageContext(p) == <<p, 1>>           \* the context the image was saved with
ToplevelContext == <<Initial, 2>>     \* the last create_toplevel_context has built

\* The image as it was saved: the active process, a process ready to run
\* (perhaps), and up to one process waiting at each semaphore.
SavedImage(r, w) ==
    LET waits(p)  == \E s \in Semaphore : w[s] = p
        queued(l) == IF l \in Semaphore THEN w[l]
                     ELSE IF r # Nil /\ priority[r] = l THEN r ELSE Nil
    IN  /\ heap = [first |-> [l \in List |-> queued(l)],
                   last  |-> [l \in List |-> queued(l)],
                   next  |-> [p \in Process |-> Nil]]
        /\ myList = [p \in Process |-> IF p = r THEN priority[r] ELSE Nil]
        /\ stopped = {p \in Process \ {Initial, NewProcess, r} : ~ waits(p)}

StartupInit ==
    LET others == Process \ {Initial, NewProcess} IN
    /\ \E r \in {p \in others : priority[p] <= priority[Initial]} \cup {Nil},
          w \in [Semaphore -> others \cup {Nil}] :
          /\ \A s, t \in Semaphore : w[s] = w[t] /\ s # t => w[s] = Nil
          /\ r # Nil => HasProcessList(r) /\ \A s \in Semaphore : w[s] # r
          /\ SavedImage(r, w)
    /\ suspendedContext =
            [p \in Process |-> IF p = NewProcess THEN Nil ELSE ImageContext(p)]
    /\ excessSignals \in
            {e \in [Semaphore -> 0 .. MaxExcess] :
                \A s \in Semaphore : IsEmptyList(heap, s) \/ e[s] = 0}
    /\ activeProcess = Initial
    /\ frame = ToplevelContext
    /\ halted = "no"
    /\ phase \in {"compile", "symbol"}   \* with code to compile, or a selector
    /\ suppressed = (phase = "compile")
    /\ headless \in BOOLEAN
    /\ left = FALSE

\* The image knows the process for the code from create_process on.
Unmade == IF phase = "run" /\ ~ headless THEN {} ELSE {NewProcess}

\* The process primitives, whoever calls them.  The compiler waits only for
\* semaphores that have a signal: any other wait would queue the process that
\* goes on running.
Primitive ==
    \/ \E s \in Semaphore : Signal(s)
    \/ \E s \in Semaphore :
          /\ phase # "compile" \/ excessSignals[s] > 0
          /\ Wait(s)
    \/ \E p \in Process : Resume(p)
    \/ \E p \in Process \ Unmade : Suspend(p)
    \/ phase # "compile" /\ SuspendActive

PrimitiveStep ==
    /\ Primitive
    /\ left' = (left \/ (phase # "run" /\ activeProcess' # activeProcess))
    /\ UNCHANGED <<phase, headless>>

\* compile_code is over: switches are allowed again.  create_context sends
\* asSymbol to the selector, in a context like the compiler's.
CompileDone ==
    /\ Running /\ phase = "compile"
    /\ suppressed' = FALSE
    /\ frame' = ToplevelContext
    /\ phase' = "symbol"
    /\ UNCHANGED <<heap, myList, suspendedContext, excessSignals,
                   activeProcess, stopped, halted, headless, left>>

\* asSymbol returns from its context.  (No process of the image returns from
\* its first context, which would end asSymbol, too.)
SymbolDone ==
    /\ Running /\ phase = "symbol" /\ frame = ToplevelContext
    /\ phase' = "run"
    /\ UNCHANGED <<excessSignals, activeProcess, suppressed, stopped, headless, left>>

\* The VM runs the code, in a context of its own under the name of the active
\* process.
RunHeadless ==
    /\ SymbolDone /\ headless
    /\ frame' = ToplevelContext
    /\ UNCHANGED <<heap, myList, suspendedContext, halted>>

\* The code becomes a new ready process (create_process), and the process that
\* is active goes on in the context that its slot holds (active_context).  A
\* switch has left nil there, which as_context_get_shadow refuses.
RunProcess ==
    /\ SymbolDone /\ ~ headless
    /\ heap' = PutToSleep(heap, NewProcess)
    /\ myList' = [myList EXCEPT ![NewProcess] = priority[NewProcess]]
    /\ suspendedContext' = [suspendedContext EXCEPT
            ![NewProcess] = ImageContext(NewProcess), ![activeProcess] = Nil]
    /\ \/ /\ suspendedContext[activeProcess] # Nil
          /\ frame' = suspendedContext[activeProcess]
          /\ UNCHANGED halted
       \/ /\ suspendedContext[activeProcess] = Nil
          /\ halted' = "ValueError"
          /\ UNCHANGED frame

StartupNext == PrimitiveStep \/ CompileDone \/ RunHeadless \/ RunProcess

StartupSpec == StartupInit /\ [][StartupNext]_startupVars

-----------------------------------------------------------------------------
\* While the code is compiled the processor stays with the image's active
\* process and the VM's own context, whatever the compiler signals, resumes or
\* waits for: "the idle process will never be left once it is entered".
CompilerKeepsProcessor ==
    phase = "compile" => activeProcess = Initial /\ frame = ToplevelContext

\* So the image's own context of its active process survives the compilation,
\* and with -P it is what "the last active Process in the image" is started in
\* (targetimageloadingsmalltalk.py 24): unless asSymbol has given the processor
\* away in between.  Then it is lost for good, also when the processor has come
\* back to that process, and the VM ends.
ImageContextKept ==
    [][/\ CompilerKeepsProcessor'
       /\ phase' # phase /\ phase' = "run" /\ ~ headless =>
             IF left THEN halted' = "ValueError"
             ELSE halted' = "no" /\ frame' = ImageContext(Initial)]_startupVars

\* Once switches are allowed every process but the active one has a context
\* of its own to continue with, which is what activate asserts: also when the
\* processes have changed while asSymbol ran, and of the process made for the code
\* as soon as it can be activated.
RunnableHaveContext ==
    phase # "compile" /\ Running =>
        \A p \in Process \ (Unmade \cup {activeProcess}) :
            suspendedContext[p] # Nil /\ suspendedContext[p][1] = p
=============================================================================

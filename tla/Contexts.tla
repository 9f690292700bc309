-------------------------------- MODULE Contexts --------------------------------
(***************************************************************************)
(* How the VM executes contexts (loop, stack_frame and unwind_context_chain *)
(* of spyvm/interpreter.py, ContextPartShadow of spyvm/storage_contexts.py, *)
(* _return and _activate_unwind_context of spyvm/interpreter_bytecodes.py). *)
(*                                                                          *)
(* Contexts are linked by their senders, in the image's memory.  While they *)
(* run they are also on a stack of the VM's own, one invocation of          *)
(* stack_frame above the other, and returns and process switches travel     *)
(* down that stack as exceptions.  The stack holds only what was called     *)
(* since the last switch: contexts below that are unwound by the loop.      *)
(*                                                                          *)
(* The constant ImageDoes says which of the rarer things the image does.    *)
(***************************************************************************)
EXTENDS Integers, Sequences, SequencesExt

CONSTANTS MaxContexts,  \* bound: contexts created in a behaviour
          Nil,
          ImageDoes     \* a subset of Features

Features ==
    {"switch",          \* processes are forked and switched
     "switch_cleanup",  \* also by a cleanup block while a return is under way
     "return_cleanup",  \* a block that stack_frame runs returns non-locally
     "return_unwind",   \* or one that unwind_context_chain runs
     "sender",          \* senders are changed to another context
     "sender_nil",      \* or to nil
     "stray",           \* a block returns from a method not below it
     "orphan"}          \* a block returns whose outer block has returned

ASSUME ContextsAssumption ==
    /\ MaxContexts \in Nat \ {0}
    /\ Nil \notin Int
    /\ ImageDoes \subseteq Features

Ctx == 1 .. MaxContexts     \* in the order of their creation
Toplevel == 1               \* built by create_toplevel_context

VARIABLES
    kind,       \* what a context executes
    outer,      \* of a block: its outerContext; of an ensure: its blocks'
    sender,     \* _s_sender
    pc,         \* _pc, as far as it matters; -1 is returned
    state,      \* InactiveContext, ActiveContext or DirtyContext
    complete,   \* of an ensure: its second temp, set when the cleanup starts
    suspended,  \* the contexts in which the waiting processes continue
    stack,      \* the invocations of stack_frame, innermost last
    exc,        \* the exception that travels down the stack
    loopSender, \* s_sender in loop
    unwind,     \* the locals of unwind_context_chain, while loop is in it
    halted      \* "no", or why the VM has ended

vars == <<kind, outer, sender, pc, state, complete, suspended, stack, exc,
          loopSender, unwind, halted>>

NoException == [type |-> "none"]

\* A return owes its value to its goal: for a local one the sender, for a
\* non-local one the sender of the home context, or Nil if that is not below.
Return(target, goal) ==
    [type |-> "Return", target |-> target, arrived |-> FALSE, goal |-> goal]
NonVirtualReturn(target, current, goal) ==
    [type |-> "NonVirtualReturn", target |-> target, current |-> current,
     goal |-> goal]
ProcessSwitch(to) == [type |-> "ContextSwitch", to |-> to]
NoUnwind == [at |-> Nil, target |-> Nil, next |-> Nil, goal |-> Nil]

Frame(c, s) == [ctx |-> c, sender |-> s, pending |-> NoException]

CtxOrNil == Ctx \cup {Nil}

Exception ==
    {NoException}
    \cup [type : {"Return"}, target : CtxOrNil, arrived : BOOLEAN, goal : CtxOrNil]
    \cup [type : {"NonVirtualReturn"}, target : CtxOrNil, current : CtxOrNil,
          goal : CtxOrNil]
    \cup [type : {"ContextSwitch"}, to : Ctx]

Kinds == {"free", "toplevel", "method", "block", "ensure", "process"}
States == {"Inactive", "Active", "Dirty"}
Invocation == [ctx : Ctx, sender : CtxOrNil, pending : Exception]

TypeOK ==
    /\ kind \in [Ctx -> Kinds]
    /\ outer \in [Ctx -> CtxOrNil]
    /\ sender \in [Ctx -> CtxOrNil]
    /\ pc \in [Ctx -> -1 .. 2]
    /\ state \in [Ctx -> States]
    /\ complete \in [Ctx -> BOOLEAN]
    /\ suspended \subseteq Ctx
    /\ stack \in Seq(Invocation)
    /\ exc \in Exception
    /\ loopSender \in CtxOrNil
    /\ unwind \in [at : CtxOrNil, target : CtxOrNil, next : CtxOrNil, goal : CtxOrNil]
    /\ halted \in {"no", "ReturnFromTopLevel", "FatalError", "AssertionError",
                   "BlockCannotReturnError", "uncaught"}

\* loop has just called stack_frame for the toplevel context.
Init ==
    /\ kind = [c \in Ctx |-> IF c = Toplevel THEN "toplevel" ELSE "free"]
    /\ outer = [c \in Ctx |-> Nil]
    /\ sender = [c \in Ctx |-> Nil]
    /\ pc = [c \in Ctx |-> 0]
    /\ state = [c \in Ctx |-> IF c = Toplevel THEN "Active" ELSE "Inactive"]
    /\ complete = [c \in Ctx |-> FALSE]
    /\ suspended = {}
    /\ stack = <<Frame(Toplevel, Nil)>>
    /\ exc = NoException
    /\ loopSender = Nil
    /\ unwind = NoUnwind
    /\ halted = "no"

-----------------------------------------------------------------------------
(* Contexts *)

Halt(reason) ==
    /\ halted' = reason
    /\ UNCHANGED <<kind, outer, sender, pc, state, complete, suspended, stack,
                   exc, loopSender, unwind>>

IsReturned(c) == pc[c] = -1 /\ sender[c] = Nil

\* The contexts below c on its chain of senders, which has no cycles.
Senders(c) ==
    LET From[x \in CtxOrNil] == IF x = Nil THEN {} ELSE {x} \cup From[sender[x]]
    IN  From[sender[c]]

\* s_home, without the check for contexts that have returned.
Home[c \in Ctx] == IF kind[c] = "block" THEN Home[outer[c]] ELSE c

\* s_home raises BlockCannotReturnError.
IsOrphan[c \in Ctx] ==
    kind[c] = "block" /\ (IsReturned(outer[c]) \/ IsOrphan[outer[c]])

Top == Last(stack)

\* c executes the next bytecode.
Executes(c) ==
    /\ halted = "no" /\ exc = NoException /\ stack # <<>>
    /\ Top.ctx = c /\ pc[c] >= 0

\* A frame is evaluating a cleanup block before it goes on with a return.
PendingReturn == \E i \in 1 .. Len(stack) : stack[i].pending # NoException

InCleanup == PendingReturn \/ unwind # NoUnwind

\* stack_frame of a context made for it, called with the stack `frames` by
\* context c.
Enter(n, k, o, c, frames) ==
    /\ kind[n] = "free" /\ \A m \in Ctx : m < n => kind[m] # "free"
    /\ kind' = [kind EXCEPT ![n] = k]
    /\ outer' = [outer EXCEPT ![n] = o]
    /\ sender' = [sender EXCEPT ![n] = c]
    /\ state' = [state EXCEPT ![n] = "Active"]
    /\ stack' = Append(frames, Frame(n, c))

-----------------------------------------------------------------------------
(* What the running context does *)

\* A send to a method, or the value of a block that o made.
Call(c) ==
    /\ Executes(c)
    /\ \/ kind[c] \in {"method", "block"} /\ UNCHANGED pc
       \/ kind[c] = "toplevel" /\ pc[c] = 0 /\ pc' = [pc EXCEPT ![c] = 1]
    /\ \E n \in Ctx :
          \/ Enter(n, "method", Nil, c, stack)
          \/ /\ kind[c] # "toplevel"
             /\ \E o \in Ctx : kind[o] \in {"method", "block"}
                               /\ Enter(n, "block", o, c, stack)
          \/ /\ kind[c] # "toplevel"
             /\ Enter(n, "ensure", c, c, stack)
    /\ UNCHANGED <<complete, suspended, exc, loopSender, unwind, halted>>

\* BlockClosure>>ensure: evaluates its receiver, then, unless an unwind has
\* done so, its argument.
EnsureCalls(c) ==
    /\ Executes(c) /\ kind[c] = "ensure"
    /\ \/ pc[c] = 0 /\ UNCHANGED complete
       \/ pc[c] = 1 /\ ~ complete[c] /\ complete' = [complete EXCEPT ![c] = TRUE]
    /\ pc' = [pc EXCEPT ![c] = @ + 1]
    /\ \E n \in Ctx : Enter(n, "block", outer[c], c, stack)
    /\ UNCHANGED <<suspended, exc, loopSender, unwind, halted>>

\* The base context of a forked process evaluates its block.
ProcessCalls(c) ==
    /\ Executes(c) /\ kind[c] = "process" /\ pc[c] = 0
    /\ pc' = [pc EXCEPT ![c] = 1]
    /\ \E n \in Ctx : Enter(n, "block", outer[c], c, stack)
    /\ UNCHANGED <<complete, suspended, exc, loopSender, unwind, halted>>

Raise(exception) ==
    /\ exc' = exception
    /\ UNCHANGED <<kind, outer, sender, pc, state, complete, stack,
                   loopSender, unwind, halted>>

\* _return with home_is_self or local_return.
ReturnLocal(c) ==
    /\ Executes(c)
    /\ \/ kind[c] \in {"method", "block"}
       \/ kind[c] = "toplevel" /\ pc[c] = 1
       \/ kind[c] = "ensure" /\ (pc[c] = 2 \/ (pc[c] = 1 /\ complete[c]))
    /\ Raise(Return(Nil, sender[c]))
    /\ UNCHANGED suspended

\* _return of a block from its home h.
ReturnNonLocal(c) ==
    \E h \in Ctx :
        /\ Executes(c) /\ kind[c] = "block" /\ h = Home[c]
        /\ PendingReturn => "return_cleanup" \in ImageDoes
        /\ unwind # NoUnwind => "return_unwind" \in ImageDoes
        /\ \/ /\ IsOrphan[c] /\ "orphan" \in ImageDoes
              /\ Halt("BlockCannotReturnError")
           \/ /\ ~ IsOrphan[c] /\ sender[h] = Nil /\ "stray" \in ImageDoes
              /\ Halt("AssertionError")
           \/ /\ ~ IsOrphan[c] /\ sender[h] # Nil
              /\ sender[h] \in Senders(c) \/ "stray" \in ImageDoes
              /\ Raise(Return(sender[h], IF sender[h] \in Senders(c) THEN sender[h]
                                        ELSE Nil))
              /\ UNCHANGED suspended

\* A process is made for a block that c evaluates to; its base context is
\* built by the image.
Fork(c) ==
    /\ Executes(c) /\ kind[c] = "method" /\ "switch" \in ImageDoes
    /\ \E n \in Ctx :
          /\ kind[n] = "free" /\ \A m \in Ctx : m < n => kind[m] # "free"
          /\ kind' = [kind EXCEPT ![n] = "process"]
          /\ outer' = [outer EXCEPT ![n] = c]
          /\ suspended' = suspended \cup {n}
    /\ UNCHANGED <<sender, pc, state, complete, stack, exc, loopSender, unwind,
                   halted>>

\* An interrupt check or a primitive of the scheduler switches to the process
\* that waits in d; or the stack overflows (d = c).
Switch(c, d) ==
    /\ Executes(c) /\ d \in suspended \cup {c}
    /\ "switch" \in ImageDoes
    /\ InCleanup => "switch_cleanup" \in ImageDoes
    /\ Raise(ProcessSwitch(d))
    /\ suspended' = (suspended \cup {c}) \ {d}

\* A forked process has evaluated its block and terminates.
Terminate(c) ==
    /\ Executes(c) /\ kind[c] = "process" /\ pc[c] = 1
    /\ \E d \in suspended :
          Raise(ProcessSwitch(d)) /\ suspended' = suspended \ {d}

\* Mutant: a changed sender is not noticed.
StoreSenderUnnoticed(x, s) ==
    /\ \E c \in Ctx : Executes(c) /\ kind[c] \in {"method", "block"}
    /\ ~ InCleanup
    /\ kind[x] # "free" /\ s # sender[x] /\ ~ IsReturned(x)
    /\ s # Nil /\ "sender" \in ImageDoes
    /\ kind[s] # "free" /\ x \notin Senders(s) \cup {s}
    /\ \A y \in Senders(s) \cup {s} : ~ IsReturned(y)
    /\ sender' = [sender EXCEPT ![x] = s]
    /\ UNCHANGED <<kind, outer, pc, state, complete, suspended, stack, exc,
                   loopSender, unwind, halted>>

\* store_s_sender by code of the image, which makes no cycles and does not
\* reuse contexts that have returned.
StoreSender(x, s) ==
    /\ \E c \in Ctx : Executes(c) /\ kind[c] \in {"method", "block"}
    /\ ~ InCleanup
    /\ kind[x] # "free" /\ s # sender[x] /\ ~ IsReturned(x)
    /\ \/ /\ s # Nil /\ "sender" \in ImageDoes
          /\ kind[s] # "free" /\ x \notin Senders(s) \cup {s}
          /\ \A y \in Senders(s) \cup {s} : ~ IsReturned(y)
          /\ state' = [state EXCEPT ![x] = IF @ = "Active" THEN "Dirty" ELSE @]
       \/ s = Nil /\ "sender_nil" \in ImageDoes /\ UNCHANGED state
    /\ sender' = [sender EXCEPT ![x] = s]
    /\ UNCHANGED <<kind, outer, pc, complete, suspended, stack, exc, loopSender,
                   unwind, halted>>

\* fetch_next_bytecode asserts that the context has not returned.
ExecuteReturned ==
    /\ halted = "no" /\ exc = NoException /\ stack # <<>> /\ pc[Top.ctx] < 0
    /\ Halt("AssertionError")

-----------------------------------------------------------------------------
(* Leaving frames *)

\* Mutant: the flag is read the wrong way round.
RanCleanup(c) == kind[c] = "ensure" /\ complete[c]

\* _activate_unwind_context has a cleanup block to run.
HasCleanup(c) == kind[c] = "ensure" /\ ~ complete[c]

MarkReturned(c) ==
    /\ pc' = [pc EXCEPT ![c] = -1]
    /\ sender' = [sender EXCEPT ![c] = Nil]

\* The rest of _activate_unwind_context: an ensure that has run its cleanup
\* itself is not marked.
Unwind(c) ==
    IF kind[c] = "ensure" THEN UNCHANGED <<pc, sender>> ELSE MarkReturned(c)

\* Mutant: the sender is not read again when it has changed.
ReraisedByOldSender(f, r) ==
    IF state[f.ctx] = "Dirty"
    THEN NonVirtualReturn(IF r.target = Nil THEN f.sender ELSE r.target,
                          f.sender, r.goal)
    ELSE [r EXCEPT !.arrived = r.target = Nil \/ r.target = f.sender]

\* What the handler of stack_frame raises for a Return r that leaves frame f.
Reraised(f, r) ==
    IF state[f.ctx] = "Dirty"
    THEN NonVirtualReturn(IF r.target = Nil THEN sender[f.ctx] ELSE r.target,
                          sender[f.ctx], r.goal)
    ELSE [r EXCEPT !.arrived = r.target = Nil \/ r.target = f.sender]

\* Mutant: the state is not reset.
PopFrameOnly ==
    /\ stack' = Front(stack)
    /\ UNCHANGED state

\* The finally of stack_frame.
PopFrame ==
    /\ stack' = Front(stack)
    /\ state' = [state EXCEPT ![Top.ctx] = "Inactive"]

Travels == halted = "no" /\ stack # <<>> /\ exc # NoException

\* A Return leaves the frame it was raised in, or passes through it.
LeaveByReturn ==
    /\ Travels /\ exc.type = "Return" /\ ~ exc.arrived
    /\ Top.pending = NoException
    /\ ~ HasCleanup(Top.ctx)
    /\ exc' = Reraised(Top, exc)
    /\ Unwind(Top.ctx)
    /\ PopFrame
    /\ UNCHANGED <<kind, outer, complete, suspended, loopSender, unwind, halted>>

\* The cleanup block is evaluated first, above the frame it belongs to.
LeaveByCleanup ==
    /\ Travels /\ exc.type = "Return" /\ ~ exc.arrived
    /\ Top.pending = NoException
    /\ HasCleanup(Top.ctx)
    /\ complete' = [complete EXCEPT ![Top.ctx] = TRUE]
    /\ \E n \in Ctx :
          Enter(n, "block", outer[Top.ctx], Top.ctx,
                Append(Front(stack), [Top EXCEPT !.pending = Reraised(Top, exc)]))
    /\ exc' = NoException
    /\ UNCHANGED <<pc, suspended, loopSender, unwind, halted>>

\* loop_bytecodes pushes the value of a Return that has arrived.
Deliver ==
    /\ Travels /\ exc.type = "Return" /\ exc.arrived
    /\ Top.pending = NoException
    /\ exc' = NoException
    /\ UNCHANGED <<kind, outer, sender, pc, state, complete, suspended, stack,
                   loopSender, unwind, halted>>

\* The cleanup block has returned: the first Return goes on.  If something else
\* comes out of the block, that goes on instead.
LeaveAfterCleanup ==
    /\ Travels /\ Top.pending # NoException
    /\ exc' = IF exc.type = "Return" /\ exc.arrived THEN Top.pending ELSE exc
    /\ MarkReturned(Top.ctx)
    /\ PopFrame
    /\ UNCHANGED <<kind, outer, complete, suspended, loopSender, unwind, halted>>

\* Mutant: the contexts are marked as returned by every exception.
LeaveReturnedByOther ==
    /\ Travels /\ exc.type # "Return" /\ Top.pending = NoException
    /\ MarkReturned(Top.ctx)
    /\ PopFrame
    /\ UNCHANGED <<kind, outer, complete, suspended, exc, loopSender, unwind,
                   halted>>

\* stack_frame does not handle the other exceptions.
LeaveByOther ==
    /\ Travels /\ exc.type # "Return" /\ Top.pending = NoException
    /\ PopFrame
    /\ UNCHANGED <<kind, outer, sender, pc, complete, suspended, exc, loopSender,
                   unwind, halted>>

-----------------------------------------------------------------------------
(* The loop *)

InLoop == halted = "no" /\ stack = <<>>

Start(c) ==
    /\ stack' = <<Frame(c, Nil)>>
    /\ state' = [state EXCEPT ![c] = "Active"]
    /\ loopSender' = sender[c]

LoopSwitch ==
    /\ InLoop /\ unwind = NoUnwind /\ exc.type = "ContextSwitch"
    /\ Start(exc.to)
    /\ exc' = NoException
    /\ UNCHANGED <<kind, outer, sender, pc, complete, suspended, unwind, halted>>

\* unwind_context_chain is called.
UnwindFrom(start, target) ==
    \/ /\ Nil \in {start, target}
       /\ Halt(IF start = Nil THEN "ReturnFromTopLevel" ELSE "AssertionError")
    \/ /\ start # Nil /\ target # Nil
       /\ unwind' = [at |-> start, target |-> target, next |-> Nil, goal |-> exc.goal]
       /\ exc' = NoException
       /\ UNCHANGED <<kind, outer, sender, pc, state, complete, suspended, stack,
                      loopSender, halted>>

LoopReturn ==
    /\ InLoop /\ unwind = NoUnwind
    /\ \/ exc.type = "Return"
          /\ UnwindFrom(loopSender, IF exc.arrived THEN loopSender ELSE exc.target)
       \/ exc.type = "NonVirtualReturn"
          /\ UnwindFrom(exc.current, exc.target)

\* Mutant: the sender is read after the context has been marked as returned.
UnwindOneThenRead ==
    /\ InLoop /\ unwind # NoUnwind /\ exc = NoException
    /\ unwind.at # unwind.target
    /\ \/ /\ unwind.at = Nil
          /\ Halt("FatalError")
       \/ /\ unwind.at # Nil
          /\ Unwind(unwind.at)
          /\ unwind' = [unwind EXCEPT !.at = sender'[unwind.at]]
          /\ UNCHANGED <<kind, outer, state, complete, suspended, stack, exc,
                         loopSender, halted>>

\* The unwind passes a context, or runs its cleanup block, or comes to its end.
UnwindOne ==
    /\ InLoop /\ unwind # NoUnwind /\ exc = NoException
    /\ \/ /\ unwind.at = unwind.target
          /\ Start(unwind.at)
          /\ unwind' = NoUnwind
          /\ UNCHANGED <<kind, outer, sender, pc, complete, suspended, exc, halted>>
       \/ /\ unwind.at = Nil
          /\ Halt("FatalError")
       \/ /\ unwind.at \notin {Nil, unwind.target} /\ HasCleanup(unwind.at)
          /\ complete' = [complete EXCEPT ![unwind.at] = TRUE]
          /\ unwind' = [unwind EXCEPT !.next = sender[unwind.at]]
          /\ \E n \in Ctx :
                Enter(n, "block", outer[unwind.at], unwind.at, <<>>)
          /\ UNCHANGED <<pc, suspended, exc, loopSender, halted>>
       \/ /\ unwind.at \notin {Nil, unwind.target} /\ ~ HasCleanup(unwind.at)
          /\ Unwind(unwind.at)
          /\ unwind' = [unwind EXCEPT !.at = sender[unwind.at]]
          /\ UNCHANGED <<kind, outer, state, complete, suspended, stack, exc,
                         loopSender, halted>>

\* The cleanup block is done; any other exception ends the loop and the VM.
UnwindAfterCleanup ==
    /\ InLoop /\ unwind # NoUnwind /\ exc # NoException
    /\ MarkReturned(unwind.at)
    /\ \/ /\ exc.type = "Return" /\ exc.arrived
          /\ unwind' = [unwind EXCEPT !.at = unwind.next, !.next = Nil]
          /\ exc' = NoException
          /\ UNCHANGED halted
       \/ /\ ~ (exc.type = "Return" /\ exc.arrived)
          /\ halted' = "uncaught"
          /\ UNCHANGED <<unwind, exc>>
    /\ UNCHANGED <<kind, outer, state, complete, suspended, stack, loopSender>>

-----------------------------------------------------------------------------
Image ==
    \/ \E c \in Ctx :
          \/ Call(c) \/ EnsureCalls(c) \/ ProcessCalls(c)
          \/ ReturnLocal(c) \/ ReturnNonLocal(c)
          \/ Fork(c) \/ Terminate(c) \/ \E d \in Ctx : Switch(c, d)
    \/ \E x \in Ctx, s \in CtxOrNil : StoreSender(x, s)

Interpreter ==
    \/ ExecuteReturned
    \/ LeaveByReturn \/ LeaveByCleanup \/ LeaveAfterCleanup \/ LeaveByOther
    \/ Deliver
    \/ LoopSwitch \/ LoopReturn \/ UnwindOne \/ UnwindAfterCleanup

Next == Image \/ Interpreter

Spec == Init /\ [][Next]_vars
-----------------------------------------------------------------------------
(* Properties *)

Frames == {stack[i].ctx : i \in 1 .. Len(stack)}

\* What the VM may still come back to: the running context, those where a
\* process waits, those a jump is under way to, and all below them.
Live ==
    LET jump == exc.type \in {"ContextSwitch", "NonVirtualReturn"}
        roots ==
            suspended \cup {unwind.at, unwind.next}
            \cup (IF jump \/ stack = <<>> THEN {} ELSE {Top.ctx})
            \cup (IF exc.type = "ContextSwitch" THEN {exc.to} ELSE {})
            \cup (IF exc.type = "NonVirtualReturn" THEN {exc.current} ELSE {})
            \cup (IF exc.type = "Return" /\ unwind = NoUnwind /\ stack = <<>>
                  THEN {loopSender} ELSE {})
    IN  UNION {{c} \cup Senders(c) : c \in roots \ {Nil}}

\* A context is on the VM's stack at most once, and exactly while it is Active
\* or Dirty: the assertion stack_frame has as a comment, "assert s_frame.state
\* is InactiveContext", holds at every entry, also after process switches and
\* unwinds have left frames by exceptions.
FramesMatchStates ==
    /\ \A i, j \in 1 .. Len(stack) : stack[i].ctx = stack[j].ctx => i = j
    /\ \A c \in Ctx : state[c] # "Inactive" <=> c \in Frames

\* A frame's caller is the frame below it, and while its context is Active
\* that is also the context's sender, so that _return may use the local ("we
\* don't have to force the reference"); below the last frame it is s_sender in
\* loop, or the context whose cleanup block an unwind runs.
SendersMatchFrames ==
    \A i \in 1 .. Len(stack) :
        LET f == stack[i] IN
        /\ IF i > 1 THEN f.sender = stack[i - 1].ctx
           ELSE f.sender \in {Nil, unwind.at}
        /\ state[f.ctx] = "Active" =>
              sender[f.ctx] = IF i = 1 /\ f.sender = Nil THEN loopSender ELSE f.sender

\* Nothing that may be executed again has been marked as returned: the
\* assertion of fetch_next_bytecode, "assert pc >= 0", never fails.
NoReturnedContextRuns ==
    halted = "no" => \A c \in Live : pc[c] >= 0

\* The cleanup block of an ensure: that was entered has been started by the
\* time the VM can no longer come back to it, however it was left.
CleanupRuns ==
    halted = "no" =>
        \A c \in Ctx : kind[c] = "ensure" /\ c \notin Live => complete[c]

\* A returned value is pushed in the context it is returned to and in no other,
\* whichever way it comes there: by arriving at a frame, or at the end of an
\* unwind of contexts that have no frames. It does not hold of every image: not of one
\* that sets senders to nil, and not of one that has all of "sender", "stray" and
\* "return_cleanup": nobody looks whether the frame is dirty from which a return comes
\* that a cleanup block has raised (interpreter.py 137-147).
ReturnsArrive ==
    /\ exc.type = "Return" /\ exc.arrived /\ stack # <<>> /\ Top.pending = NoException
          => Top.ctx = exc.goal
    /\ unwind # NoUnwind => unwind.goal \in {unwind.target, Nil}

\* "Context chain ended while trying to return" ends the VM only if the target
\* was not below the returning context, "This is the toplevel frame. Execution
\* ended." only if the toplevel context has returned, and no exception gets
\* past the handlers of loop.
EndsForAReason ==
    /\ halted = "FatalError" => unwind.goal = Nil
    /\ halted = "ReturnFromTopLevel" => IsReturned(Toplevel)
    /\ halted # "uncaught"

=============================================================================

---------------------------- MODULE OperandStacks ------------------------------
(***************************************************************************)
(* The contexts of spyvm/storage_contexts.py as the bytecodes of              *)
(* spyvm/interpreter_bytecodes.py use them, with the control primitives and  *)
(* wrap_primitive of spyvm/primitives.py.                                    *)
(*                                                                         *)
(* A context keeps its temporaries and its operands in one array, below a    *)
(* stack pointer. An action is one bytecode of the running context, one      *)
(* return, or one store into a waiting context by the image. Which           *)
(* bytecode comes next is left open, within what compiled code does: it does *)
(* not take more operands than it has pushed, and fits into its frame. What  *)
(* a message comes to - a primitive, a method or a doesNotUnderstand: - is   *)
(* left open too. Returns that leave more than one context are in Contexts.  *)
(***************************************************************************)
EXTENDS Naturals, Sequences, SequencesExt, FiniteSets

CONSTANTS
    Context,     \* contexts that may exist at a time
    Object,      \* values that are neither contexts, arrays nor closures
    Nil, True, False,
    FrameSize,   \* the size of _temps_and_stack
    MaxArgs,     \* bounds on the arguments of a message, the temporaries of a
    MaxTemps,    \*   method
    MaxListed,   \* bound on the elements of an array and arguments of a block
    MaxArrays,   \* bounds on the arrays, and on the blocks, contexts and messages,
    MaxBoxes,    \*   that are held at a time
    PerformOutcome   \* what a message sent by perform:withArguments: comes to

ASSUME OperandStacksAssumption ==
    /\ {FrameSize, MaxArgs, MaxTemps, MaxArrays, MaxBoxes} \subseteq Nat
    /\ MaxListed \in 0 .. MaxArgs
    /\ MaxTemps <= FrameSize /\ MaxListed < FrameSize
    /\ {Nil, True} \subseteq Object
    /\ Object \intersect Context = {}
    /\ PerformOutcome \subseteq {"primitive", "failure", "method", "doesNotUnderstand"}

Array   == [array : BoundedSeq(Object, MaxListed)]
Message == [message : BoundedSeq(Object, MaxArgs)]

\* BlockClosure: the context that made it, its argument count, copied values.
Closure == [outer : Context, numArgs : 0 .. MaxListed, copied : BoundedSeq(Object, 1)]
Boxed   == Array \union Message \union Closure
Value   == Object \union Boxed \union Context

VARIABLES
    frame,   \* of each context: its kind, its receiver, _temps_and_stack and the
             \*   stack pointer; tempsize; the home of a block and the arguments
             \*   it expects; and how many slots will be in use when the message
             \*   that it is sending has been answered
    stack    \* the contexts from the bottom to the one that runs

vars == <<frame, stack>>

Running == Last(stack)
Active  == ToSet(stack)

NewFrame(kind, receiver, tempsize, home, eargc) ==
    [kind |-> kind, receiver |-> receiver, slots |-> [i \in 1 .. FrameSize |-> Nil],
     sp |-> tempsize, tempsize |-> tempsize, home |-> home, eargc |-> eargc, due |-> 0]

Empty == NewFrame("free", Nil, 0, Nil, 0)

--------------------------------------------------------------------------------
(* Stack manipulation, storage_contexts.py.                                  *)

Push(f, v) == [f EXCEPT !.slots[f.sp + 1] = v, !.sp = @ + 1]

\* Mutant: what has been popped stays in its slot.
PopNOnly(f, n) == [f EXCEPT !.sp = @ - n]
PopN(f, n) ==
    [f EXCEPT !.slots = [i \in 1 .. FrameSize |->
                            IF i > f.sp - n /\ i <= f.sp THEN Nil ELSE @[i]],
              !.sp = @ - n]

Peek(f, i) == f.slots[f.sp - i]

\* pop_and_return_n: the deepest of the n operands comes first.
PeekN(f, n) == [k \in 1 .. n |-> Peek(f, n - k)]

\* push_all and initialize_temps: vs are put into the slots from k on.
Filled(f, k, vs) ==
    [f EXCEPT !.slots = [i \in 1 .. FrameSize |->
                            IF i - k + 1 \in DOMAIN vs THEN vs[i - k + 1] ELSE @[i]]]

PushAll(f, vs) == [Filled(f, f.sp + 1, vs) EXCEPT !.sp = f.sp + Len(vs)]

Depth(f) == f.sp - f.tempsize

\* store_stackpointer
StoreStackPointer(f, n) ==
    IF n < f.sp THEN PopN(f, f.sp - n)
    ELSE PushAll(f, [i \in 1 .. (n - f.sp) |-> Nil])

\* The slot of a field behind the named ones, store_context_part: a store above
\* the stack pointer is ignored.
StoreSlot(f, i, v) ==
    IF i <= f.tempsize \/ i <= f.sp THEN [f EXCEPT !.slots[i] = v] ELSE f

\* copy_from: a context shadow takes over the fields sp and raw of an ordinary
\* object, the stack pointer before the slots.
CopyFrom(f, n, raw) ==
    LET g == StoreStackPointer(f, n)
    IN  [g EXCEPT !.slots = [i \in 1 .. FrameSize |-> StoreSlot(g, i, raw[i]).slots[i]]]

Holder(c)   == IF frame[c].kind = "block" THEN frame[c].home ELSE c
ReceiverOf(c) == frame[Holder(c)].receiver

--------------------------------------------------------------------------------
(* Objects that are not referred to are gone: their place can be used.       *)

Mentions(v, c) == v = c \/ (v \in Closure /\ v.outer = c)

Referred(fr, c) ==
    \E d \in Context \ {c} : \/ fr[d].home = c
                           \/ \E i \in 1 .. fr[d].sp : Mentions(fr[d].slots[i], c)

Unused(c) == c \notin Active /\ ~Referred(frame, c)

\* Places that hold more than plain objects: arrays, and others.
Held(p) == IF p[2] = 0 THEN frame[p[1]].receiver ELSE frame[p[1]].slots[p[2]]
Boxes   == {p \in Context \X (0 .. FrameSize) : Held(p) \notin Object}
Arrays  == {p \in Boxes : Held(p) \in Array}
FewBoxes == Cardinality(Arrays) <= MaxArrays /\ Cardinality(Boxes \ Arrays) <= MaxBoxes

SetFrame(f) == frame' = [frame EXCEPT ![Running] = f] /\ FewBoxes'

--------------------------------------------------------------------------------
(* Bytecodes that only move operands.                                        *)

Me == frame[Running]
HasRoom(n) == Me.sp + n <= FrameSize
Takes(n)   == Depth(Me) >= n

\* Constants, literals, the variables of the receiver or of a remote array.
PushValue(v) ==
    /\ HasRoom(1)
    /\ SetFrame(Push(Me, v))
    /\ UNCHANGED stack

PushTemp(i) ==
    /\ HasRoom(1)
    /\ i <= frame[Holder(Running)].tempsize
    /\ SetFrame(Push(Me, frame[Holder(Running)].slots[i]))
    /\ UNCHANGED stack

PushReceiver == PushValue(ReceiverOf(Running))

PushActiveContext == PushValue(Running)

DuplicateTop == Takes(1) /\ PushValue(Peek(Me, 0))

\* pop, or a store with pop into a variable of the receiver, of a literal or of
\* a remote array
PopTop ==
    /\ Takes(1)
    /\ SetFrame(PopN(Me, 1))
    /\ UNCHANGED stack

\* The temporary of a block is one of its home.
StoreTemp(i, popped) ==
    /\ Takes(1)
    /\ i <= frame[Holder(Running)].tempsize
    /\ frame' = [[frame EXCEPT ![Running] = PopN(Me, popped)]
                    EXCEPT ![Holder(Running)].slots[i] = Peek(Me, 0)]
    /\ FewBoxes'
    /\ UNCHANGED stack

\* pushNewArrayBytecode, with or without the elements from the stack
PushNewArray(n, popped) ==
    /\ Takes(popped * n) /\ HasRoom(1)
    /\ ToSet(PeekN(Me, popped * n)) \subseteq Object
    /\ SetFrame(Push(PopN(Me, popped * n),
           [array |-> IF popped = 1 THEN PeekN(Me, n) ELSE [k \in 1 .. n |-> Nil]]))
    /\ UNCHANGED stack

PushClosureCopyCopiedValues(numArgs, numCopied) ==
    /\ Takes(numCopied) /\ HasRoom(1)
    /\ ToSet(PeekN(Me, numCopied)) \subseteq Object
    /\ SetFrame(Push(PopN(Me, numCopied),
           [outer |-> Running, numArgs |-> numArgs, copied |-> PeekN(Me, numCopied)]))
    /\ UNCHANGED stack

--------------------------------------------------------------------------------
(* Sends.                                                                    *)

\* A new context c is called by the running one, of which f is left, and which
\* expects to have n operands less than now before it is given the result.
StackFrame(c, new, f, n) ==
    /\ frame' = [frame EXCEPT ![Running] = [f EXCEPT !.due = Me.sp - n], ![c] = new]
    /\ FewBoxes'
    /\ stack' = Append(stack, c)

\* W_CompiledMethod.create_frame
CreateFrame(receiver, args, tempsize) ==
    Filled(NewFrame("method", receiver, tempsize, Nil, 0), 1, args)

\* A primitive that succeeds, in wrap_primitive: the arguments are only popped
\* when nothing can fail any more.
CallPrimitive(argcount, result) ==
    /\ Takes(argcount + 1)
    /\ SetFrame(Push(PopN(Me, argcount + 1), result))
    /\ UNCHANGED stack

\* The method is activated when there is no primitive, or it has failed.
SendMethod(c, argcount, tempsize) ==
    /\ Takes(argcount + 1) /\ Unused(c)
    /\ argcount <= tempsize /\ tempsize <= FrameSize
    /\ StackFrame(c, CreateFrame(Peek(Me, argcount), PeekN(Me, argcount), tempsize),
                  PopN(Me, argcount + 1), argcount + 1)

\* _doesNotUnderstand: the operands are f's
NotUnderstoodFrom(c, f, receiver, argcount, tempsize, n) ==
    /\ 1 <= tempsize
    /\ ToSet(PeekN(f, argcount)) \subseteq Object
    /\ StackFrame(c, CreateFrame(receiver, <<[message |-> PeekN(f, argcount)]>>, tempsize),
                  PopN(f, argcount + 1), n)

DoesNotUnderstand(c, argcount, tempsize) ==
    /\ Takes(argcount + 1) /\ Unused(c)
    /\ NotUnderstoodFrom(c, Me, Peek(Me, argcount), argcount, tempsize, argcount + 1)

\* A jump on a condition: what is not a boolean is told so.
Boolean == {True, False}
JumpConditional ==
    /\ Takes(1)
    /\ Peek(Me, 0) \in Boolean
    /\ SetFrame(PopN(Me, 1))
    /\ UNCHANGED stack

MustBeBoolean(c, tempsize) ==
    /\ Takes(1) /\ Unused(c)
    /\ Peek(Me, 0) \notin Boolean
    /\ StackFrame(c, CreateFrame(Peek(Me, 0), <<>>, tempsize), PopN(Me, 1), 1)

\* perform:withArguments:, with receiver, selector and array on the stack. Where
\* the method has a primitive the arguments are pushed for it.
PerformWithArguments(c, outcome, tempsize, result) ==
    /\ Takes(3) /\ Unused(c)
    /\ Peek(Me, 0) \in Array
    /\ LET args == Peek(Me, 0).array
           f    == PopN(Me, 2)
           pushed == PushAll(f, args)
           new  == CreateFrame(Peek(Me, 2), args, tempsize)
       IN  /\ f.sp + Len(args) <= FrameSize
           /\ outcome = "primitive" \/ Len(args) <= tempsize
           /\ CASE outcome = "primitive" ->
                     SetFrame(Push(PopN(pushed, Len(args) + 1), result)) /\ UNCHANGED stack
                [] outcome = "failure" -> StackFrame(c, new, PopN(pushed, 1), 3)
                [] outcome = "method" -> StackFrame(c, new, PopN(f, 1), 3)
                [] outcome = "doesNotUnderstand" ->
                     /\ Depth(f) > Len(args)
                     /\ NotUnderstoodFrom(c, f, Peek(Me, 2), Len(args), tempsize, 3)

\* withArgs:executeMethod:, with receiver, array and method on the stack
WithArgsExecuteMethod(c, tempsize) ==
    /\ Takes(3) /\ Unused(c)
    /\ Peek(Me, 1) \in Array
    /\ LET args == Peek(Me, 1).array
       IN  /\ Len(args) <= tempsize
           /\ StackFrame(c, CreateFrame(Peek(Me, 2), args, tempsize), PopN(Me, 3), 3)

\* The method context that a block made in c belongs to.
BlockCopy(c, numArgs) ==
    /\ Takes(2) /\ Unused(c)
    /\ Peek(Me, 1) \in Context
    /\ frame[Holder(Peek(Me, 1))].kind = "method"
    /\ frame' = [frame EXCEPT ![Running] = Push(PopN(Me, 2), c),
                              ![c] = NewFrame("block", Nil, 0, Holder(Peek(Me, 1)), numArgs)]
    /\ FewBoxes'
    /\ UNCHANGED stack

\* A block context is not evaluated while it is active.
EvaluableBlock(c) == c \in Context \ Active /\ frame[c].kind = "block"

\* Primitive 81.
Value0(argcount) ==
    LET c == Peek(Me, argcount)
    IN  /\ Takes(argcount + 1)
        /\ EvaluableBlock(c) /\ frame[c].eargc = argcount
        /\ StackFrame(c, PushAll(PopN(frame[c], frame[c].sp), PeekN(Me, argcount)),
                      PopN(Me, argcount + 1), argcount + 1)

\* Primitive 82 does not reset the stack of the block.
ValueWithArgs ==
    LET c == Peek(Me, 1)
    IN  /\ Takes(2)
        /\ EvaluableBlock(c) /\ Peek(Me, 0) \in Array
        /\ frame[c].eargc = Len(Peek(Me, 0).array)
        /\ frame[c].sp + frame[c].eargc <= FrameSize
        /\ StackFrame(c, PushAll(frame[c], Peek(Me, 0).array), PopN(Me, 2), 2)

\* activateClosure: first the arguments, then the copied values. The temporaries
\* of the block itself are made by its first bytecodes.
\* Mutant: the copied values come first.
CopiedFirst(c, closure, args, n) ==
    /\ Unused(c)
    /\ closure \in Closure /\ closure.numArgs = Len(args)
    /\ LET temps == closure.copied \o args
       IN  StackFrame(c, Filled(NewFrame("closure", ReceiverOf(closure.outer), Len(temps), Nil, 0),
                                1, temps), PopN(Me, n), n)
ActivateClosure(c, closure, args, n) ==
    /\ Unused(c)
    /\ closure \in Closure /\ closure.numArgs = Len(args)
    /\ LET temps == args \o closure.copied
       IN  StackFrame(c, Filled(NewFrame("closure", ReceiverOf(closure.outer), Len(temps), Nil, 0),
                                1, temps), PopN(Me, n), n)

ClosureValue(c, argcount) ==
    /\ Takes(argcount + 1)
    /\ ActivateClosure(c, Peek(Me, argcount), PeekN(Me, argcount), argcount + 1)

ClosureValueWithArgs(c) ==
    /\ Takes(2)
    /\ Peek(Me, 0) \in Array
    /\ ActivateClosure(c, Peek(Me, 1), Peek(Me, 0).array, 2)

--------------------------------------------------------------------------------
(* Returns to the sender, which is given the value by loop_bytecodes. A block *)
(* only returns what is left of its operands at its end.                     *)

ReturnValue(v, popped) ==
    /\ Len(stack) > 1
    /\ LET fr == [frame EXCEPT ![Last(Front(stack))] = Push([@ EXCEPT !.due = 0], v),
                                ![Running] = PopN(@, popped)]
       IN  frame' = [fr EXCEPT ![Running] = IF Referred(fr, Running) THEN @ ELSE Empty]
    /\ stack' = Front(stack)

Return(v) == Me.kind = "method" /\ ReturnValue(v, 0)

ReturnTop ==
    /\ Takes(1)
    /\ Me.kind # "method" => Depth(Me) = 1
    /\ ReturnValue(Peek(Me, 0), 1)

--------------------------------------------------------------------------------
(* Stores of the image into the fields of a context that waits.               *)

Waiting == Active \ {Running}

StoreStackp(c, n) ==
    /\ c \in Waiting
    /\ frame[c].tempsize <= n /\ n < FrameSize
    /\ frame' = [frame EXCEPT ![c] = [StoreStackPointer(frame[c], n) EXCEPT !.due = n]]
    /\ UNCHANGED stack

StoreField(c, i, v) ==
    /\ c \in Waiting
    /\ frame' = [frame EXCEPT ![c] = StoreSlot(frame[c], i, v)]
    /\ UNCHANGED stack

--------------------------------------------------------------------------------
\* A process of the image file: one context, as it was written.
Init ==
    /\ \E c \in Context, t \in 0 .. MaxTemps, raw \in [1 .. FrameSize -> Object] :
        \E n \in t .. FrameSize :
            /\ frame = [d \in Context |-> IF d = c THEN CopyFrom(NewFrame("method", Nil, t, Nil, 0), n, raw)
                                          ELSE Empty]
            /\ stack = <<c>>

Next ==
    \/ \E v \in Object : PushValue(v) \/ Return(v)
    \/ \E i \in 1 .. FrameSize : PushTemp(i) \/ (\E popped \in 0 .. 1 : StoreTemp(i, popped))
    \/ PushReceiver \/ PushActiveContext \/ DuplicateTop \/ PopTop \/ JumpConditional
    \/ \E n \in 0 .. MaxListed, popped \in 0 .. 1 : PushNewArray(n, popped)
    \/ \E n \in 0 .. MaxListed, m \in 0 .. 1 : PushClosureCopyCopiedValues(n, m)
    \/ \E n \in 0 .. MaxArgs : CallPrimitive(n, True)
    \/ \E c \in Context, t \in 0 .. MaxTemps :
        \/ \E n \in 0 .. MaxArgs : SendMethod(c, n, t) \/ DoesNotUnderstand(c, n, t)
        \/ MustBeBoolean(c, t) \/ WithArgsExecuteMethod(c, t)
        \/ \E outcome \in PerformOutcome : PerformWithArguments(c, outcome, t, True)
    \/ \E c \in Context, n \in 0 .. MaxListed : BlockCopy(c, n) \/ ClosureValue(c, n)
    \/ \E n \in 0 .. MaxListed : Value0(n)
    \/ ValueWithArgs \/ ReturnTop
    \/ \E c \in Context : ClosureValueWithArgs(c)
    \/ \E c \in Context, n \in 0 .. FrameSize : StoreStackp(c, n)
    \/ \E c \in Context, i \in 1 .. FrameSize : StoreField(c, i, True)

Spec == Init /\ [][Next]_vars

--------------------------------------------------------------------------------
(* Properties.                                                               *)

\* The variables have their types, and the operands fit into the frames.
TypeOK ==
    /\ stack \in Seq(Context) /\ stack # <<>>
    /\ \A c \in Context :
        LET f == frame[c]
        IN  /\ f.kind \in {"free", "method", "closure", "block"}
            /\ f.receiver \in Value
            /\ f.slots \in [1 .. FrameSize -> Value]
            /\ f.tempsize \in 0 .. FrameSize /\ f.sp \in f.tempsize .. FrameSize
            /\ f.home \in Context \union {Nil}
            /\ f.eargc \in 0 .. MaxArgs

\* Whatever a context has popped, it does not hold any more: the image sees nil
\* above the stack pointer, also after it has raised it, and objects are not kept
\* alive (storage_contexts.py 377-425, fetch_context_part).
NothingAboveStackPointer ==
    \A c \in Context : \A i \in 1 .. FrameSize : i > frame[c].sp => frame[c].slots[i] = Nil

\* The slots of every context: temps, then operands, then nothing.
SlotsSound == TypeOK /\ NothingAboveStackPointer

\* A context that waits for the answer to a message has lost the receiver and the
\* arguments of this message and nothing else. It holds of sends, of blocks and of the
\* methods that perform: finds and whose primitives do not fail. It does not hold of the
\* others: the comments at interpreter_bytecodes.py 320 and 353 say that the receiver is
\* popped there, and the code pops an argument, or operands that nobody has pushed.
ReceiverAndArgumentsPopped == \A c \in Waiting : frame[c].sp = frame[c].due

\* The contexts implement activations with operands.
ActivationOperands(c) == SubSeq(frame[c].slots, frame[c].tempsize + 1, frame[c].sp)
ActivationTemps(c)    == SubSeq(frame[c].slots, 1, frame[c].tempsize)
Machine == INSTANCE Evaluation WITH
    temps    <- [c \in Context |-> ActivationTemps(c)],
    operands <- [c \in Context |-> ActivationOperands(c)],
    receiver <- [c \in Context |-> ReceiverOf(c)],
    MaxSlots <- FrameSize
ImplementsEvaluation == Machine!Spec
================================================================================

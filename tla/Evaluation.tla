------------------------------ MODULE Evaluation -------------------------------
(***************************************************************************)
(* What spyvm/interpreter_bytecodes.py promises of the evaluation of          *)
(* methods: an activation has temporaries and a sequence of operands, a send *)
(* takes its receiver and its arguments from the operands and in the end      *)
(* leaves its result in their place. Neither a primitive that has failed nor *)
(* a message that is not understood, nor a debugger that looks at an           *)
(* activation that waits, makes a difference to the other operands.           *)
(***************************************************************************)
EXTENDS Naturals, Sequences, SequencesExt

CONSTANTS Context, Nil, Array, Closure, MaxSlots

VARIABLES stack,     \* the activations, the running one last
          temps,     \* of each activation: its arguments, copied values and
                     \*   temporaries
          operands,  \* of each activation
          receiver   \* of each activation

evars == <<stack, temps, operands, receiver>>

Running == Last(stack)
Active  == ToSet(stack)

Top(s, n)  == SubSeq(s, Len(s) - n + 1, Len(s))
Rest(s, n) == SubSeq(s, 1, Len(s) - n)

Init ==
    /\ \E c \in Context : stack = <<c>>
    /\ DOMAIN temps = Context
    /\ DOMAIN operands = Context
    /\ DOMAIN receiver = Context

\* Operands make way for one value, or none.
Compute ==
    /\ UNCHANGED <<stack, temps, receiver>>
    /\ \A d \in Context \ {Running} : operands'[d] = operands[d]
    /\ LET old == operands[Running]
           new == operands'[Running]
       IN  \E n \in 0 .. Len(old) : IsPrefix(Rest(old, n), new) /\ Len(new) <= Len(old) - n + 1

\* The last operand is stored in a temporary, and may be removed.
Assign(c, i, taken) ==
    /\ UNCHANGED <<stack, receiver>>
    /\ i \in DOMAIN temps[c]
    /\ 1 <= Len(operands[Running])
    /\ temps' = [temps EXCEPT ![c][i] = Last(operands[Running])]
    /\ operands' = [operands EXCEPT ![Running] = Rest(@, taken)]

\* The receiver and the arguments of a send are operands ...
Sent(n)       == Top(operands[Running], n)
Receiver(n)   == Top(operands[Running], n + 1)[1]

\* ... or, where a list of arguments is sent, in the operands.
Listed(k) == Top(operands[Running], k)[1]

Others(c) == Context \ {c, Running}
Untouched(d) ==
    /\ temps'[d] = temps[d]
    /\ operands'[d] = operands[d]
    /\ receiver'[d] = receiver[d]

\* The n last operands are taken, and c is activated.
Call(c, n) ==
    /\ stack' = Append(stack, c)
    /\ c \notin Active
    /\ n <= Len(operands[Running])
    /\ operands'[Running] = Rest(operands[Running], n)
    /\ temps'[Running] = temps[Running]
    /\ receiver'[Running] = receiver[Running]
    /\ \A d \in Others(c) : Untouched(d)

\* An activation with its own temporaries, first the arguments.
Begins(c, args) ==
    /\ operands'[c] = <<>>
    /\ IsPrefix(args, temps'[c])

Send(c, n) ==
    /\ n < Len(operands[Running])
    /\ Call(c, n + 1)
    /\ Begins(c, Sent(n))
    /\ receiver'[c] = Receiver(n)

\* What is not understood is told to the receiver with what was sent.
NotUnderstood(c, n) ==
    /\ n < Len(operands[Running])
    /\ Call(c, n + 1)
    /\ Begins(c, <<[message |-> Sent(n)]>>)
    /\ receiver'[c] = Receiver(n)

\* A list of arguments is sent; n operands lie above the receiver.
SendList(c, n, args) ==
    /\ n < Len(operands[Running])
    /\ Call(c, n + 1)
    /\ Begins(c, args)
    /\ receiver'[c] = Receiver(n)

\* A closure is activated with its arguments and copied values.
CallClosure(c, n, args) ==
    /\ n < Len(operands[Running])
    /\ Receiver(n) \in Closure
    /\ Call(c, n + 1)
    /\ Begins(c, args \o Receiver(n).copied)
    /\ receiver'[c] = receiver[Receiver(n).outer]

\* A block of the old kind is evaluated: its operands start with the arguments.
CallBlock(c, n, args) ==
    /\ n < Len(operands[Running])
    /\ c = Receiver(n)
    /\ Call(c, n + 1)
    /\ operands'[c] = args
    /\ temps'[c] = temps[c]
    /\ receiver'[c] = receiver[c]

NewBlock(c) ==
    /\ UNCHANGED stack
    /\ c \notin Active
    /\ 2 <= Len(operands[Running])
    /\ operands' = [operands EXCEPT ![Running] = Append(Rest(@, 2), c), ![c] = <<>>]
    /\ temps' = [temps EXCEPT ![c] = <<>>]
    /\ \A d \in Context \ {c} : receiver'[d] = receiver[d]

\* The result takes the place of what was taken by the send.
Return ==
    /\ Len(stack) > 1
    /\ stack' = Front(stack)
    /\ LET s == Last(Front(stack))
       IN  /\ \E v \in {Last(operands'[s])} : operands'[s] = Append(operands[s], v)
           /\ temps'[s] = temps[s]
           /\ receiver'[s] = receiver[s]
           /\ \A d \in Others(s) : Untouched(d)

\* A waiting activation is given more operands, or fewer, or another value in
\* the place of one operand or temporary.
Resize(c) ==
    /\ UNCHANGED <<stack, temps, receiver>>
    /\ \A d \in Context \ {c} : operands'[d] = operands[d]
    /\ \/ IsPrefix(operands'[c], operands[c])
       \/ \E n \in 1 .. MaxSlots : operands'[c] = operands[c] \o [i \in 1 .. n |-> Nil]

\* old and new are sequences of the same length that differ in one place.
OneReplaced(old, new) ==
    /\ DOMAIN new = DOMAIN old
    /\ \E i \in DOMAIN old : \A j \in DOMAIN old \ {i} : new[j] = old[j]

Edit(c) ==
    /\ UNCHANGED <<stack, receiver>>
    /\ \A d \in Context \ {c} : operands'[d] = operands[d] /\ temps'[d] = temps[d]
    /\ \/ OneReplaced(operands[c], operands'[c]) /\ temps'[c] = temps[c]
       \/ OneReplaced(temps[c], temps'[c]) /\ operands'[c] = operands[c]

\* The ways to send a message, to the context c.
Calls(c) ==
    \/ \E n \in 0 .. MaxSlots :
        \/ Send(c, n)
        \/ NotUnderstood(c, n)
        \/ CallBlock(c, n, Sent(n))
        \/ CallClosure(c, n, Sent(n))
    \/ \E k \in 1 .. 2 :
        /\ k <= Len(operands[Running])
        /\ Listed(k) \in Array
        /\ \/ k = 1 /\ CallBlock(c, 1, Listed(1).array)
           \/ k = 1 /\ CallClosure(c, 1, Listed(1).array)
           \/ SendList(c, 2, Listed(k).array)

Next ==
    \/ Compute
    \/ \E c \in Context, i \in 1 .. MaxSlots, taken \in 0 .. 1 : Assign(c, i, taken)
    \/ \E c \in Context : NewBlock(c)
    \/ \E c \in Active \ {Running} : Edit(c) \/ Resize(c)
    \/ Len(stack') > Len(stack) /\ Calls(Last(stack'))
    \/ Return

Spec == Init /\ [][Next]_evars
================================================================================

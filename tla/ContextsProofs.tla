----------------------------- MODULE ContextsProofs -----------------------------
(*****************************************************************************)
(* Theorems about the execution of contexts, for any number of contexts: that *)
(* frames match the states of contexts, whatever the image does; and, each    *)
(* for an image that does not do what would break it, that frames match the   *)
(* senders, that returned values arrive where they belong, that contexts that *)
(* have returned do not run, that cleanup blocks are started, and how the VM  *)
(* ends.                                                                      *)
(*****************************************************************************)
EXTENDS Contexts, TLAPS, WellFoundedInduction

-----------------------------------------------------------------------------
(* The stack *)

\* FramesMatchStates of a state function st and a stack fs.
OneFrameEach(fs) ==
    \A i, j \in 1 .. Len(fs) : fs[i].ctx = fs[j].ctx => i = j

IsOn(c, fs) == \E i \in 1 .. Len(fs) : fs[i].ctx = c

StatesMatch(st, fs) ==
    \A c \in Ctx : st[c] # "Inactive" <=> IsOn(c, fs)

Matches(st, fs) == OneFrameEach(fs) /\ StatesMatch(st, fs)

\* A stack with another frame on top.
LEMMA PushedFrame ==
    ASSUME NEW fs \in Seq(Invocation), NEW f \in Invocation
    PROVE  /\ Append(fs, f) \in Seq(Invocation)
           /\ Len(Append(fs, f)) = Len(fs) + 1
           /\ Append(fs, f)[Len(fs) + 1] = f
           /\ \A i \in 1 .. Len(fs) : Append(fs, f)[i] = fs[i]
  OBVIOUS

\* The first m elements of a sequence.
LEMMA Prefix ==
    ASSUME NEW S, NEW fs \in Seq(S), NEW m \in Nat, m <= Len(fs)
    PROVE  /\ SubSeq(fs, 1, m) \in Seq(S)
           /\ Len(SubSeq(fs, 1, m)) = m
           /\ \A i \in 1 .. m : SubSeq(fs, 1, m)[i] = fs[i]
<1>1. SubSeq(fs, 1, m) \in Seq(S)
  OBVIOUS
<1>2. Len(SubSeq(fs, 1, m)) = m
  OBVIOUS
<1>3. \A i \in 1 .. m : SubSeq(fs, 1, m)[i] = fs[i]
  OBVIOUS
<1> QED BY <1>1, <1>2, <1>3

\* A stack without its top frame.
LEMMA PoppedFrame ==
    ASSUME NEW fs \in Seq(Invocation), fs # << >>
    PROVE  /\ Front(fs) \in Seq(Invocation)
           /\ Len(fs) \in Nat \ {0}
           /\ Len(Front(fs)) = Len(fs) - 1
           /\ \A i \in 1 .. Len(fs) - 1 : Front(fs)[i] = fs[i]
           /\ Last(fs) = fs[Len(fs)]
           /\ Last(fs) \in Invocation
<1> DEFINE m == Len(fs) - 1
<1>1. /\ Len(fs) \in Nat \ {0}
      /\ \A i \in 1 .. Len(fs) : fs[i] \in Invocation
  OBVIOUS
<1>2. m \in Nat /\ m <= Len(fs)
  BY <1>1
<1>3. Front(fs) = SubSeq(fs, 1, m)
  BY DEF Front
<1>4. Last(fs) = fs[Len(fs)] /\ Last(fs) \in Invocation
  BY <1>1 DEF Last
<1> HIDE DEF m
<1>5. /\ Front(fs) \in Seq(Invocation)
      /\ Len(Front(fs)) = m
      /\ \A i \in 1 .. m : Front(fs)[i] = fs[i]
  BY <1>2, <1>3, Prefix, Zenon
<1> QED BY <1>1, <1>4, <1>5 DEF m

\* A context that is entered for the first time, or again, gets a frame.
LEMMA PushMatches ==
    ASSUME NEW fs \in Seq(Invocation), NEW f \in Invocation,
           NEW st \in [Ctx -> States], Matches(st, fs), st[f.ctx] = "Inactive"
    PROVE  Matches([st EXCEPT ![f.ctx] = "Active"], Append(fs, f))
<1> DEFINE new == Append(fs, f)
           n == Len(fs)
<1>1. /\ Len(new) = n + 1 /\ n \in Nat
      /\ new[n + 1] = f
      /\ \A i \in 1 .. n : new[i] = fs[i]
  BY PushedFrame
<1>2. f.ctx \in Ctx /\ ~ IsOn(f.ctx, fs)
  BY DEF Invocation, Matches, StatesMatch
<1>3. OneFrameEach(new)
  <2> SUFFICES ASSUME NEW i \in 1 .. n + 1, NEW j \in 1 .. n + 1,
                      new[i].ctx = new[j].ctx
               PROVE  i = j
    BY <1>1 DEF OneFrameEach
  <2>1. CASE i \in 1 .. n /\ j \in 1 .. n
    BY <2>1, <1>1 DEF Matches, OneFrameEach
  <2>2. CASE i = n + 1 /\ j = n + 1
    BY <2>2
  <2>3. CASE i = n + 1 /\ j \in 1 .. n
    BY <2>3, <1>1, <1>2 DEF IsOn
  <2>4. CASE i \in 1 .. n /\ j = n + 1
    BY <2>4, <1>1, <1>2 DEF IsOn
  <2> QED BY <2>1, <2>2, <2>3, <2>4, <1>1
<1>4. ASSUME NEW c \in Ctx
      PROVE  IsOn(c, new) <=> c = f.ctx \/ IsOn(c, fs)
  <2>1. IsOn(c, new) => c = f.ctx \/ IsOn(c, fs)
    BY <1>1 DEF IsOn
  <2>2. c = f.ctx => IsOn(c, new)
    BY <1>1, n + 1 \in 1 .. Len(new) DEF IsOn
  <2>3. IsOn(c, fs) => IsOn(c, new)
    BY <1>1 DEF IsOn
  <2> QED BY <2>1, <2>2, <2>3
<1>5. StatesMatch([st EXCEPT ![f.ctx] = "Active"], new)
  BY <1>2, <1>4 DEF StatesMatch, Matches
<1> QED BY <1>3, <1>5 DEF Matches

\* A context that is left loses its frame.
LEMMA PopMatches ==
    ASSUME NEW fs \in Seq(Invocation), fs # << >>,
           NEW st \in [Ctx -> States], Matches(st, fs)
    PROVE  Matches([st EXCEPT ![Last(fs).ctx] = "Inactive"], Front(fs))
<1> DEFINE n == Len(fs)
           new == Front(fs)
           top == Last(fs)
<1>1. /\ Len(new) = n - 1 /\ n \in Nat \ {0}
      /\ top = fs[n] /\ top.ctx \in Ctx
      /\ \A i \in 1 .. n - 1 : new[i] = fs[i]
  BY PoppedFrame DEF Invocation
<1> HIDE DEF new, top
<1>2. OneFrameEach(new)
  BY <1>1 DEF OneFrameEach, Matches
<1>3. ASSUME NEW c \in Ctx
      PROVE  IsOn(c, new) <=> c # top.ctx /\ IsOn(c, fs)
  <2>1. IsOn(c, new) => IsOn(c, fs)
    BY <1>1 DEF IsOn
  <2>2. ~ IsOn(top.ctx, new)
    <3> SUFFICES ASSUME NEW i \in 1 .. n - 1, new[i].ctx = top.ctx PROVE FALSE
      BY <1>1 DEF IsOn
    <3>1. i \in 1 .. n /\ n \in 1 .. n /\ fs[i].ctx = fs[n].ctx
      BY <1>1
    <3> QED BY <3>1, <1>1 DEF Matches, OneFrameEach
  <2>3. ASSUME IsOn(c, fs), c # top.ctx PROVE IsOn(c, new)
    <3>1. PICK i \in 1 .. n : fs[i].ctx = c
      BY <2>3 DEF IsOn
    <3>2. i \in 1 .. n - 1
      BY <3>1, <2>3, <1>1
    <3> QED BY <3>1, <3>2, <1>1 DEF IsOn
  <2> QED BY <2>1, <2>2, <2>3
<1>4. StatesMatch([st EXCEPT ![top.ctx] = "Inactive"], new)
  BY <1>1, <1>3 DEF StatesMatch, Matches
<1> QED BY <1>2, <1>4 DEF Matches, new, top

\* Another frame of the same context in place of the top one.
LEMMA ReplaceMatches ==
    ASSUME NEW fs \in Seq(Invocation), fs # << >>, NEW f \in Invocation,
           f.ctx = Last(fs).ctx, NEW st, Matches(st, fs)
    PROVE  /\ Append(Front(fs), f) \in Seq(Invocation)
           /\ Matches(st, Append(Front(fs), f))
           /\ \A i \in 1 .. Len(Append(Front(fs), f)) :
                  \/ Append(Front(fs), f)[i] = f
                  \/ \E j \in 1 .. Len(fs) : Append(Front(fs), f)[i] = fs[j]
<1> DEFINE n == Len(fs)
           low == Front(fs)
           new == Append(low, f)
<1>1. /\ low \in Seq(Invocation) /\ n \in Nat \ {0}
      /\ Len(low) = n - 1 /\ Last(fs) = fs[n]
      /\ \A i \in 1 .. n - 1 : low[i] = fs[i]
  BY PoppedFrame
<1> HIDE DEF low
<1>2. /\ new \in Seq(Invocation)
      /\ Len(new) = n
      /\ new[n] = f
      /\ \A i \in 1 .. n - 1 : new[i] = fs[i]
  BY <1>1, PushedFrame
<1> HIDE DEF new
<1>3. \A i \in 1 .. n : new[i].ctx = fs[i].ctx
  BY <1>1, <1>2
<1>4. OneFrameEach(new)
  BY <1>2, <1>3 DEF OneFrameEach, Matches
<1>5. \A c \in Ctx : IsOn(c, new) <=> IsOn(c, fs)
  BY <1>2, <1>3 DEF IsOn
<1>6. StatesMatch(st, new)
  BY <1>5 DEF StatesMatch, Matches
<1>7. \A i \in 1 .. Len(new) : new[i] = f \/ \E j \in 1 .. n : new[i] = fs[j]
  BY <1>1, <1>2
<1> QED BY <1>2, <1>4, <1>6, <1>7 DEF new, low, Matches

\* The loop starts again with a single frame.
LEMMA StartMatches ==
    ASSUME NEW f \in Invocation, NEW st \in [Ctx -> States], Matches(st, << >>)
    PROVE  /\ <<f>> \in Seq(Invocation)
           /\ Len(<<f>>) = 1 /\ <<f>>[1] = f
           /\ Matches([st EXCEPT ![f.ctx] = "Active"], <<f>>)
<1>1. /\ <<f>> \in Seq(Invocation)
      /\ Len(<<f>>) = 1 /\ <<f>>[1] = f
  OBVIOUS
<1>2. f.ctx \in Ctx /\ \A c \in Ctx : st[c] = "Inactive"
  BY DEF Invocation, Matches, StatesMatch, IsOn
<1>3. \A c \in Ctx : IsOn(c, <<f>>) <=> c = f.ctx
  BY <1>1 DEF IsOn
<1>4. StatesMatch([st EXCEPT ![f.ctx] = "Active"], <<f>>)
  BY <1>2, <1>3 DEF StatesMatch
<1>5. OneFrameEach(<<f>>)
  BY <1>1 DEF OneFrameEach
<1> QED BY <1>1, <1>4, <1>5 DEF Matches

-----------------------------------------------------------------------------
(* Exceptions *)

LEMMA ExceptionsTyped ==
    /\ NoException \in Exception /\ NoException.type = "none"
    /\ \A t, g \in CtxOrNil :
          Return(t, g) \in Exception /\ Return(t, g).type = "Return"
    /\ \A t, c, g \in CtxOrNil :
          /\ NonVirtualReturn(t, c, g) \in Exception
          /\ NonVirtualReturn(t, c, g).type = "NonVirtualReturn"
          /\ NonVirtualReturn(t, c, g).current = c
    /\ \A c \in Ctx :
          /\ ProcessSwitch(c) \in Exception
          /\ ProcessSwitch(c).type = "ContextSwitch"
          /\ ProcessSwitch(c).to = c
<1>1. NoException \in Exception /\ NoException.type = "none"
  BY DEF NoException, Exception
<1>2. \A t, g \in CtxOrNil :
          Return(t, g) \in Exception /\ Return(t, g).type = "Return"
  BY DEF Return, Exception
<1>3. \A t, c, g \in CtxOrNil :
          /\ NonVirtualReturn(t, c, g) \in Exception
          /\ NonVirtualReturn(t, c, g).type = "NonVirtualReturn"
          /\ NonVirtualReturn(t, c, g).current = c
  BY DEF NonVirtualReturn, Exception
<1>4. \A c \in Ctx :
          /\ ProcessSwitch(c) \in Exception
          /\ ProcessSwitch(c).type = "ContextSwitch"
          /\ ProcessSwitch(c).to = c
  BY DEF ProcessSwitch, Exception
<1> QED BY <1>1, <1>2, <1>3, <1>4

LEMMA ExceptionFields ==
    ASSUME NEW e \in Exception
    PROVE  /\ e.type = "Return" =>
                 /\ e.target \in CtxOrNil /\ e.goal \in CtxOrNil
                 /\ \A b \in BOOLEAN : /\ [e EXCEPT !.arrived = b] \in Exception
                                       /\ [e EXCEPT !.arrived = b].type = "Return"
           /\ e.type = "NonVirtualReturn" =>
                 e.target \in CtxOrNil /\ e.current \in CtxOrNil /\ e.goal \in CtxOrNil
           /\ e.type = "ContextSwitch" => e.to \in Ctx
<1>1. CASE e = NoException
  BY <1>1 DEF NoException
<1>2. CASE e \in [type : {"Return"}, target : CtxOrNil, arrived : BOOLEAN,
                  goal : CtxOrNil]
  <2>1. ASSUME NEW b \in BOOLEAN
        PROVE  [e EXCEPT !.arrived = b] \in
                   [type : {"Return"}, target : CtxOrNil, arrived : BOOLEAN,
                    goal : CtxOrNil]
    BY <1>2
  <2> QED BY <1>2, <2>1 DEF Exception
<1>3. CASE e \in [type : {"NonVirtualReturn"}, target : CtxOrNil,
                  current : CtxOrNil, goal : CtxOrNil]
  BY <1>3
<1>4. CASE e \in [type : {"ContextSwitch"}, to : Ctx]
  BY <1>4
<1> QED BY <1>1, <1>2, <1>3, <1>4 DEF Exception

-----------------------------------------------------------------------------
(* The inductive invariant *)

IsKnown(c) == c # Nil => kind[c] # "free"

KnownException(e) ==
    /\ e.type = "ContextSwitch" => IsKnown(e.to)
    /\ e.type = "NonVirtualReturn" => IsKnown(e.current)

KnownFrames(fs) == \A i \in 1 .. Len(fs) : KnownException(fs[i].pending)

\* A context that has not been created yet is not referred to, so that no frame
\* is entered for it twice; and an unwind ends at a context.
Known ==
    /\ \A c \in Ctx : kind[c] = "free" => state[c] = "Inactive"
    /\ \A c \in Ctx : IsKnown(sender[c])
    /\ \A c \in suspended : IsKnown(c)
    /\ KnownException(exc)
    /\ KnownFrames(stack)
    /\ IsKnown(loopSender)
    /\ IsKnown(unwind.at) /\ IsKnown(unwind.next)
    /\ unwind # NoUnwind => unwind.target # Nil

FrameInv == TypeOK /\ Matches(state, stack) /\ Known

LEMMA NilIsNoContext == Nil \notin Ctx /\ Toplevel \in Ctx
  BY ContextsAssumption DEF Ctx, Toplevel

LEMMA Constants == "free" \in Kinds /\ \A s \in {"Inactive", "Active", "Dirty"} : s \in States
  BY DEF Kinds, States

LEMMA FrameInvImplies == FrameInv => TypeOK /\ FramesMatchStates
<1> SUFFICES ASSUME FrameInv PROVE FramesMatchStates
  BY DEF FrameInv
<1>1. \A c : c \in Frames <=> IsOn(c, stack)
  BY DEF Frames, IsOn
<1> QED
  BY <1>1 DEF FrameInv, Matches, OneFrameEach, StatesMatch, FramesMatchStates

LEMMA FrameInvInit == Init => FrameInv
<1> SUFFICES ASSUME Init PROVE FrameInv
  OBVIOUS
<1> USE NilIsNoContext
<1> DEFINE f == Frame(Toplevel, Nil)
           st == [c \in Ctx |-> "Inactive"]
<1>1. f \in Invocation /\ f.ctx = Toplevel /\ f.pending = NoException
  BY ExceptionsTyped DEF Frame, Invocation, CtxOrNil
<1>2. st \in [Ctx -> States] /\ Matches(st, << >>)
  BY DEF States, Matches, OneFrameEach, StatesMatch, IsOn
<1>3. state = [st EXCEPT ![f.ctx] = "Active"] /\ stack = <<f>>
  BY <1>1 DEF Init
<1> HIDE DEF f, st
<1>4. /\ stack \in Seq(Invocation) /\ Matches(state, stack)
      /\ Len(stack) = 1 /\ stack[1] = f
  BY <1>1, <1>2, <1>3, StartMatches
<1>5. TypeOK
  <2>1. /\ kind \in [Ctx -> Kinds] /\ outer \in [Ctx -> CtxOrNil]
        /\ sender \in [Ctx -> CtxOrNil] /\ pc \in [Ctx -> -1 .. 2]
        /\ state \in [Ctx -> States] /\ complete \in [Ctx -> BOOLEAN]
    BY DEF Init, Kinds, States, CtxOrNil
  <2>2. /\ suspended \subseteq Ctx /\ exc \in Exception /\ loopSender \in CtxOrNil
        /\ unwind \in [at : CtxOrNil, target : CtxOrNil, next : CtxOrNil,
                       goal : CtxOrNil]
    BY ExceptionsTyped DEF Init, NoUnwind, CtxOrNil
  <2>3. halted = "no"
    BY DEF Init
  <2> QED BY <1>4, <2>1, <2>2, <2>3 DEF TypeOK
<1>6. Known
  <2>1. KnownException(NoException)
    BY ExceptionsTyped DEF KnownException
  <2>2. KnownFrames(stack)
    BY <1>1, <1>4, <2>1 DEF KnownFrames
  <2>3. \A c \in Ctx : /\ kind[c] = "free" => state[c] = "Inactive"
                       /\ IsKnown(sender[c])
    BY DEF Init, IsKnown
  <2>4. unwind.at = Nil /\ unwind.next = Nil /\ loopSender = Nil
    BY DEF Init, NoUnwind
  <2> QED BY <2>1, <2>2, <2>3, <2>4 DEF Known, Init, IsKnown
<1> QED BY <1>4, <1>5, <1>6 DEF FrameInv

-----------------------------------------------------------------------------
(* The steps *)

\* The running context, or the one an exception leaves.
LEMMA TopFacts ==
    ASSUME FrameInv, stack # << >>
    PROVE  /\ Top \in Invocation /\ Top.ctx \in Ctx
           /\ Top.pending \in Exception /\ KnownException(Top.pending)
           /\ state[Top.ctx] # "Inactive" /\ kind[Top.ctx] # "free"
           /\ Len(stack) \in Nat \ {0} /\ Top = stack[Len(stack)]
<1>1. stack \in Seq(Invocation)
  BY DEF FrameInv, TypeOK
<1>2. Top \in Invocation /\ Len(stack) \in Nat \ {0} /\ Top = stack[Len(stack)]
  BY <1>1, PoppedFrame DEF Top
<1>3. Top.ctx \in Ctx /\ Top.pending \in Exception
  BY <1>2 DEF Invocation
<1>4. IsOn(Top.ctx, stack)
  BY <1>2 DEF IsOn
<1>5. KnownException(Top.pending)
  BY <1>2 DEF FrameInv, Known, KnownFrames
<1> QED
  BY <1>2, <1>3, <1>4, <1>5 DEF FrameInv, Known, Matches, StatesMatch

\* What Enter changes.
LEMMA EnterKeeps ==
    ASSUME FrameInv, NEW n \in Ctx, NEW k \in Kinds \ {"free"},
           NEW o \in CtxOrNil, NEW c \in Ctx, kind[c] # "free",
           NEW fs \in Seq(Invocation), Matches(state, fs), KnownFrames(fs),
           Enter(n, k, o, c, fs)
    PROVE  /\ kind' \in [Ctx -> Kinds] /\ outer' \in [Ctx -> CtxOrNil]
           /\ sender' \in [Ctx -> CtxOrNil] /\ state' \in [Ctx -> States]
           /\ stack' \in Seq(Invocation)
           /\ Matches(state', stack')
           /\ \A x \in Ctx : kind[x] # "free" => kind'[x] # "free"
           /\ \A x \in Ctx : kind'[x] = "free" => state'[x] = "Inactive"
           /\ \A x \in Ctx : IsKnown(sender[x])'
           /\ KnownFrames(stack)'
<1> DEFINE f == Frame(n, c)
<1> USE NilIsNoContext
<1>1. f \in Invocation /\ f.ctx = n /\ f.pending = NoException
  BY ExceptionsTyped DEF Frame, Invocation, CtxOrNil
<1>2. /\ kind[n] = "free"
      /\ kind' = [kind EXCEPT ![n] = k]
      /\ outer' = [outer EXCEPT ![n] = o]
      /\ sender' = [sender EXCEPT ![n] = c]
      /\ state' = [state EXCEPT ![n] = "Active"]
      /\ stack' = Append(fs, f)
  BY DEF Enter
<1> HIDE DEF f
<1>3. /\ kind \in [Ctx -> Kinds] /\ outer \in [Ctx -> CtxOrNil]
      /\ sender \in [Ctx -> CtxOrNil] /\ state \in [Ctx -> States]
  BY DEF FrameInv, TypeOK
<1>4. state[n] = "Inactive"
  BY <1>2 DEF FrameInv, Known
<1>5. Matches(state', stack')
  BY <1>1, <1>2, <1>3, <1>4, PushMatches
<1>6. /\ kind' \in [Ctx -> Kinds] /\ outer' \in [Ctx -> CtxOrNil]
      /\ sender' \in [Ctx -> CtxOrNil] /\ state' \in [Ctx -> States]
  BY <1>2, <1>3 DEF Kinds, States, CtxOrNil
<1>7. \A x \in Ctx : /\ kind[x] # "free" => kind'[x] # "free"
                     /\ kind'[x] = "free" => state'[x] = "Inactive"
  BY <1>2, <1>3 DEF FrameInv, Known
<1>8. \A x \in Ctx : IsKnown(sender[x])'
  BY <1>2, <1>3, <1>7 DEF FrameInv, Known, IsKnown, CtxOrNil
<1>9. /\ stack' \in Seq(Invocation)
      /\ Len(stack') = Len(fs) + 1 /\ Len(fs) \in Nat
      /\ stack'[Len(fs) + 1] = f
      /\ \A i \in 1 .. Len(fs) : stack'[i] = fs[i]
  BY <1>1, <1>2, PushedFrame
<1>10. ASSUME NEW e \in Exception, KnownException(e)
       PROVE  KnownException(e)'
  BY <1>7, <1>10, ExceptionFields DEF KnownException, IsKnown, CtxOrNil
<1>11. KnownFrames(stack)'
  <2> SUFFICES ASSUME NEW i \in 1 .. Len(fs) + 1
               PROVE  KnownException(stack[i].pending)'
    BY <1>9 DEF KnownFrames
  <2>1. CASE i = Len(fs) + 1
    BY <2>1, <1>1, <1>9, ExceptionsTyped DEF KnownException
  <2>2. CASE i \in 1 .. Len(fs)
    <3>1. fs[i] \in Invocation
      BY <2>2
    <3>2. fs[i].pending \in Exception
      BY <3>1 DEF Invocation
    <3>3. KnownException(fs[i].pending)'
      BY <2>2, <3>2, <1>10 DEF KnownFrames
    <3> QED BY <2>2, <3>3, <1>9 DEF KnownException, IsKnown
  <2> QED BY <2>1, <2>2, <1>9
<1> QED BY <1>5, <1>6, <1>7, <1>8, <1>9, <1>11

Outcomes == {"no", "ReturnFromTopLevel", "FatalError", "AssertionError",
             "BlockCannotReturnError", "uncaught"}

UnwindState == [at : CtxOrNil, target : CtxOrNil, next : CtxOrNil, goal : CtxOrNil]

\* A context is entered, above a stack with frames of the same contexts.
LEMMA EnterStep ==
    ASSUME FrameInv, NEW n \in Ctx, NEW k \in Kinds \ {"free"},
           NEW o \in CtxOrNil, NEW c \in Ctx, kind[c] # "free",
           NEW fs \in Seq(Invocation), Matches(state, fs), KnownFrames(fs),
           Enter(n, k, o, c, fs),
           pc' \in [Ctx -> -1 .. 2], complete' \in [Ctx -> BOOLEAN],
           UNCHANGED <<suspended, loopSender, halted>>,
           exc' = NoException,
           unwind' \in UnwindState, unwind'.at = unwind.at,
           IsKnown(unwind'.next), unwind' # NoUnwind => unwind'.target # Nil
    PROVE  FrameInv'
<1>1. /\ kind' \in [Ctx -> Kinds] /\ outer' \in [Ctx -> CtxOrNil]
      /\ sender' \in [Ctx -> CtxOrNil] /\ state' \in [Ctx -> States]
      /\ stack' \in Seq(Invocation)
      /\ Matches(state', stack')
      /\ \A x \in Ctx : kind[x] # "free" => kind'[x] # "free"
      /\ \A x \in Ctx : kind'[x] = "free" => state'[x] = "Inactive"
      /\ \A x \in Ctx : IsKnown(sender[x])'
      /\ KnownFrames(stack)'
  BY EnterKeeps
<1>2. TypeOK'
  BY <1>1, ExceptionsTyped DEF FrameInv, TypeOK, UnwindState
<1>3. ASSUME NEW x \in CtxOrNil, IsKnown(x)
      PROVE  x # Nil => kind'[x] # "free"
  BY <1>1, <1>3 DEF IsKnown, CtxOrNil
<1>4. /\ loopSender \in CtxOrNil /\ unwind.at \in CtxOrNil
      /\ unwind'.next \in CtxOrNil /\ suspended \subseteq CtxOrNil
  BY DEF FrameInv, TypeOK, UnwindState, CtxOrNil
<1>5. /\ IsKnown(loopSender)' /\ IsKnown(unwind.at)' /\ IsKnown(unwind.next)'
      /\ \A x \in suspended' : IsKnown(x)'
  BY <1>3, <1>4 DEF FrameInv, Known, IsKnown
<1>6. KnownException(exc)'
  BY ExceptionsTyped DEF KnownException
<1> QED BY <1>1, <1>2, <1>5, <1>6 DEF FrameInv, Known

\* The running context raises an exception.
LEMMA RaiseStep ==
    ASSUME FrameInv, NEW e \in Exception, KnownException(e), Raise(e),
           suspended' \subseteq Ctx, \A x \in suspended' : kind[x] # "free"
    PROVE  FrameInv'
<1>1. /\ exc' = e
      /\ UNCHANGED <<kind, outer, sender, pc, state, complete, stack,
                     loopSender, unwind, halted>>
  BY DEF Raise
<1>2. TypeOK'
  BY <1>1 DEF FrameInv, TypeOK
<1>3. Matches(state', stack')
  BY <1>1 DEF FrameInv
<1>4. Known'
  BY <1>1 DEF FrameInv, Known, IsKnown, KnownException, KnownFrames
<1> QED BY <1>2, <1>3, <1>4 DEF FrameInv

LEMMA HaltStep ==
    ASSUME FrameInv, NEW reason \in Outcomes, Halt(reason)
    PROVE  FrameInv'
<1>1. /\ halted' = reason
      /\ UNCHANGED <<kind, outer, sender, pc, state, complete, suspended, stack,
                     exc, loopSender, unwind>>
  BY DEF Halt
<1>2. TypeOK'
  BY <1>1 DEF FrameInv, TypeOK, Outcomes
<1>3. Matches(state', stack')
  BY <1>1 DEF FrameInv
<1>4. Known'
  BY <1>1 DEF FrameInv, Known, IsKnown, KnownException, KnownFrames
<1> QED BY <1>2, <1>3, <1>4 DEF FrameInv

\* A frame is left.
LEMMA PopStep ==
    ASSUME FrameInv, stack # << >>, PopFrame,
           UNCHANGED <<kind, outer, complete, suspended, loopSender, unwind, halted>>,
           pc' \in [Ctx -> -1 .. 2], sender' \in [Ctx -> CtxOrNil],
           \A x \in Ctx : IsKnown(sender'[x]),
           exc' \in Exception, KnownException(exc')
    PROVE  FrameInv'
<1>1. /\ stack' = Front(stack)
      /\ state' = [state EXCEPT ![Last(stack).ctx] = "Inactive"]
  BY DEF PopFrame, Top
<1>2. stack \in Seq(Invocation) /\ state \in [Ctx -> States] /\ Matches(state, stack)
  BY DEF FrameInv, TypeOK
<1>3. Matches(state', stack')
  BY <1>1, <1>2, PopMatches
<1>4. /\ stack' \in Seq(Invocation) /\ Len(stack) \in Nat \ {0}
      /\ Len(stack') = Len(stack) - 1
      /\ \A i \in 1 .. Len(stack) - 1 : stack'[i] = stack[i]
  BY <1>1, <1>2, PoppedFrame
<1>5. state' \in [Ctx -> States]
  BY <1>1, <1>2 DEF States
<1>6. TypeOK'
  BY <1>4, <1>5 DEF FrameInv, TypeOK
<1>7. KnownFrames(stack')
  BY <1>4 DEF FrameInv, Known, KnownFrames
<1>8. \A x \in Ctx : kind[x] = "free" => state'[x] = "Inactive"
  BY <1>1, <1>2 DEF FrameInv, Known
<1>9. Known'
  BY <1>7, <1>8 DEF FrameInv, Known, IsKnown, KnownException, KnownFrames
<1> QED BY <1>3, <1>6, <1>9 DEF FrameInv

\* The loop calls stack_frame.
LEMMA StartStep ==
    ASSUME FrameInv, stack = << >>, NEW c \in Ctx, kind[c] # "free", Start(c),
           UNCHANGED <<kind, outer, sender, pc, complete, suspended, halted>>,
           exc' \in {exc, NoException}, unwind' \in {unwind, NoUnwind}
    PROVE  FrameInv'
<1> DEFINE f == Frame(c, Nil)
<1>1. f \in Invocation /\ f.ctx = c /\ f.pending = NoException
  BY ExceptionsTyped DEF Frame, Invocation, CtxOrNil
<1>2. /\ stack' = <<f>>
      /\ state' = [state EXCEPT ![f.ctx] = "Active"]
      /\ loopSender' = sender[c]
  BY <1>1 DEF Start
<1> HIDE DEF f
<1>3. state \in [Ctx -> States] /\ sender \in [Ctx -> CtxOrNil] /\ Matches(state, << >>)
  BY DEF FrameInv, TypeOK
<1>4. /\ stack' \in Seq(Invocation) /\ Matches(state', stack')
      /\ Len(stack') = 1 /\ stack'[1] = f
  BY <1>1, <1>2, <1>3, StartMatches
<1>5. TypeOK'
  <2>1. state' \in [Ctx -> States] /\ loopSender' \in CtxOrNil
    BY <1>2, <1>3 DEF States
  <2>2. exc' \in Exception /\ unwind' \in UnwindState
    BY ExceptionsTyped DEF FrameInv, TypeOK, UnwindState, NoUnwind, CtxOrNil
  <2> QED BY <1>4, <2>1, <2>2 DEF FrameInv, TypeOK, UnwindState
<1>6. KnownException(NoException) /\ KnownFrames(stack')
  BY <1>1, <1>4, ExceptionsTyped DEF KnownException, KnownFrames
<1>7. /\ IsKnown(unwind'.at) /\ IsKnown(unwind'.next)
      /\ unwind' # NoUnwind => unwind'.target # Nil
  BY DEF FrameInv, Known, NoUnwind, IsKnown
<1>8. KnownException(exc')
  BY <1>6 DEF FrameInv, Known
<1>9. \A x \in Ctx : kind[x] = "free" => state'[x] = "Inactive"
  BY <1>1, <1>2, <1>3 DEF FrameInv, Known
<1>10. Known'
  BY <1>2, <1>6, <1>7, <1>8, <1>9
     DEF FrameInv, Known, IsKnown, KnownException, KnownFrames
<1> QED BY <1>4, <1>5, <1>10 DEF FrameInv

-----------------------------------------------------------------------------
(* The actions *)

\* What follows from the invariant for the context that executes.
LEMMA ExecutesFacts ==
    ASSUME FrameInv, NEW c \in Ctx, Executes(c)
    PROVE  /\ kind[c] # "free" /\ exc = NoException
           /\ stack \in Seq(Invocation) /\ Matches(state, stack) /\ KnownFrames(stack)
           /\ unwind \in UnwindState /\ IsKnown(unwind.next)
           /\ unwind # NoUnwind => unwind.target # Nil
           /\ pc \in [Ctx -> -1 .. 2] /\ complete \in [Ctx -> BOOLEAN]
           /\ outer[c] \in CtxOrNil /\ sender[c] \in CtxOrNil
           /\ suspended \subseteq Ctx /\ \A x \in suspended : kind[x] # "free"
           /\ \A k \in {"method", "block", "ensure"} : k \in Kinds \ {"free"}
<1>1. kind[c] # "free" /\ exc = NoException
  BY TopFacts DEF Executes
<1>2. \A x \in suspended : kind[x] # "free"
  BY NilIsNoContext DEF FrameInv, Known, IsKnown, TypeOK
<1> QED BY <1>1, <1>2 DEF FrameInv, TypeOK, Known, UnwindState, Kinds

LEMMA CallStep ==
    ASSUME FrameInv, NEW c \in Ctx, Call(c)
    PROVE  FrameInv'
<1>1. Executes(c) /\ UNCHANGED <<complete, suspended, exc, loopSender, unwind, halted>>
  BY DEF Call
<1>2. pc' \in [Ctx -> -1 .. 2]
  BY <1>1, ExecutesFacts DEF Call
<1>3. PICK n \in Ctx, k \in {"method", "block", "ensure"}, o \in CtxOrNil :
          Enter(n, k, o, c, stack)
  BY DEF Call, CtxOrNil
<1> HIDE DEF Call
<1>4. k \in Kinds \ {"free"}
  BY <1>1, ExecutesFacts
<1> QED BY <1>1, <1>2, <1>3, <1>4, ExecutesFacts, EnterStep

LEMMA EnsureCallsStep ==
    ASSUME FrameInv, NEW c \in Ctx, EnsureCalls(c)
    PROVE  FrameInv'
<1>1. Executes(c) /\ UNCHANGED <<suspended, exc, loopSender, unwind, halted>>
  BY DEF EnsureCalls
<1>2. pc' \in [Ctx -> -1 .. 2] /\ complete' \in [Ctx -> BOOLEAN]
  <2>1. pc \in [Ctx -> -1 .. 2] /\ complete \in [Ctx -> BOOLEAN]
    BY <1>1, ExecutesFacts
  <2>2. pc' = [pc EXCEPT ![c] = @ + 1] /\ pc[c] \in {0, 1}
    BY DEF EnsureCalls
  <2>3. complete' = complete \/ complete' = [complete EXCEPT ![c] = TRUE]
    BY DEF EnsureCalls
  <2>4. pc' \in [Ctx -> -1 .. 2]
    BY <2>1, <2>2
  <2> QED BY <2>1, <2>3, <2>4
<1>3. PICK n \in Ctx : Enter(n, "block", outer[c], c, stack)
  BY DEF EnsureCalls
<1>4. "block" \in Kinds \ {"free"} /\ outer[c] \in CtxOrNil
  BY <1>1, ExecutesFacts
<1> QED BY <1>1, <1>2, <1>3, <1>4, ExecutesFacts, EnterStep

LEMMA ProcessCallsStep ==
    ASSUME FrameInv, NEW c \in Ctx, ProcessCalls(c)
    PROVE  FrameInv'
<1>1. Executes(c) /\ UNCHANGED <<complete, suspended, exc, loopSender, unwind, halted>>
  BY DEF ProcessCalls
<1>2. pc' \in [Ctx -> -1 .. 2] /\ complete' \in [Ctx -> BOOLEAN]
  BY <1>1, ExecutesFacts DEF ProcessCalls
<1>3. PICK n \in Ctx : Enter(n, "block", outer[c], c, stack)
  BY DEF ProcessCalls
<1>4. "block" \in Kinds \ {"free"} /\ outer[c] \in CtxOrNil
  BY <1>1, ExecutesFacts
<1> QED BY <1>1, <1>2, <1>3, <1>4, ExecutesFacts, EnterStep

LEMMA ReturnLocalStep ==
    ASSUME FrameInv, NEW c \in Ctx, ReturnLocal(c)
    PROVE  FrameInv'
<1>1. Executes(c) /\ Raise(Return(Nil, sender[c])) /\ UNCHANGED suspended
  BY DEF ReturnLocal
<1>2. /\ Return(Nil, sender[c]) \in Exception
      /\ Return(Nil, sender[c]).type = "Return"
  <2>1. sender[c] \in CtxOrNil /\ Nil \in CtxOrNil
    BY <1>1, ExecutesFacts DEF CtxOrNil
  <2> QED BY <2>1, ExceptionsTyped
<1>3. KnownException(Return(Nil, sender[c]))
  BY <1>2 DEF KnownException
<1> QED BY <1>1, <1>2, <1>3, ExecutesFacts, RaiseStep

LEMMA ReturnNonLocalStep ==
    ASSUME FrameInv, NEW c \in Ctx, ReturnNonLocal(c)
    PROVE  FrameInv'
<1>1. PICK h \in Ctx :
          /\ Executes(c)
          /\ \/ Halt("BlockCannotReturnError")
             \/ Halt("AssertionError")
             \/ \E g \in {sender[h], Nil} :
                    Raise(Return(sender[h], g)) /\ UNCHANGED suspended
  BY DEF ReturnNonLocal
<1>2. sender[h] \in CtxOrNil /\ Nil \in CtxOrNil
  BY DEF FrameInv, TypeOK, CtxOrNil
<1>3. ASSUME NEW g \in {sender[h], Nil}, Raise(Return(sender[h], g)),
             UNCHANGED suspended
      PROVE  FrameInv'
  <2>1. /\ Return(sender[h], g) \in Exception
        /\ Return(sender[h], g).type = "Return"
    BY <1>2, ExceptionsTyped
  <2>2. KnownException(Return(sender[h], g))
    BY <2>1 DEF KnownException
  <2> QED BY <1>1, <1>3, <2>1, <2>2, ExecutesFacts, RaiseStep
<1>4. \A r \in {"BlockCannotReturnError", "AssertionError"} : r \in Outcomes
  BY DEF Outcomes
<1> QED BY <1>1, <1>3, <1>4, HaltStep

LEMMA ForkStep ==
    ASSUME FrameInv, NEW c \in Ctx, Fork(c)
    PROVE  FrameInv'
<1>1. PICK n \in Ctx :
          /\ kind[n] = "free"
          /\ kind' = [kind EXCEPT ![n] = "process"]
          /\ outer' = [outer EXCEPT ![n] = c]
          /\ suspended' = suspended \cup {n}
  BY DEF Fork
<1>2. /\ Executes(c)
      /\ UNCHANGED <<sender, pc, state, complete, stack, exc, loopSender, unwind,
                     halted>>
  BY DEF Fork
<1>3. kind' \in [Ctx -> Kinds] /\ outer' \in [Ctx -> CtxOrNil]
  BY <1>1 DEF FrameInv, TypeOK, Kinds, CtxOrNil
<1>4. TypeOK'
  BY <1>1, <1>2, <1>3 DEF FrameInv, TypeOK
<1>5. Matches(state', stack')
  BY <1>2 DEF FrameInv
<1>6. \A x \in Ctx : kind'[x] = "free" => kind[x] = "free"
  BY <1>1 DEF FrameInv, TypeOK
<1>7. ASSUME NEW x \in CtxOrNil, IsKnown(x) PROVE IsKnown(x)'
  BY <1>6, <1>7 DEF IsKnown, CtxOrNil
<1>8. ASSUME NEW e \in Exception, KnownException(e)
      PROVE  /\ e.type = "ContextSwitch" => IsKnown(e.to)'
             /\ e.type = "NonVirtualReturn" => IsKnown(e.current)'
  BY <1>7, <1>8, ExceptionFields DEF KnownException, CtxOrNil
<1>9. /\ loopSender \in CtxOrNil /\ unwind.at \in CtxOrNil /\ unwind.next \in CtxOrNil
      /\ exc \in Exception /\ sender \in [Ctx -> CtxOrNil] /\ suspended \subseteq CtxOrNil
      /\ \A i \in 1 .. Len(stack) : stack[i].pending \in Exception
  <2>1. stack \in Seq(Invocation)
    BY DEF FrameInv, TypeOK
  <2>2. ASSUME NEW i \in 1 .. Len(stack) PROVE stack[i].pending \in Exception
    <3>1. stack[i] \in Invocation
      BY <2>1
    <3> QED BY <3>1 DEF Invocation
  <2> QED BY <2>2 DEF FrameInv, TypeOK, UnwindState, CtxOrNil
<1>10. KnownException(exc)' /\ KnownFrames(stack)'
  BY <1>2, <1>8, <1>9 DEF FrameInv, Known, KnownException, KnownFrames, IsKnown
<1>11. /\ \A x \in Ctx : IsKnown(sender[x])'
       /\ IsKnown(loopSender)' /\ IsKnown(unwind.at)' /\ IsKnown(unwind.next)'
  BY <1>2, <1>7, <1>9 DEF FrameInv, Known, IsKnown
<1>12. \A x \in suspended' : IsKnown(x)'
  <2>1. kind'[n] = "process"
    BY <1>1 DEF FrameInv, TypeOK
  <2> QED BY <1>1, <1>7, <1>9, <2>1 DEF FrameInv, Known, IsKnown
<1>13. Known'
  BY <1>2, <1>6, <1>10, <1>11, <1>12 DEF FrameInv, Known
<1> QED BY <1>4, <1>5, <1>13 DEF FrameInv


LEMMA SwitchStep ==
    ASSUME FrameInv, NEW c \in Ctx, NEW d \in Ctx, Switch(c, d)
    PROVE  FrameInv'
<1>1. /\ Executes(c) /\ Raise(ProcessSwitch(d)) /\ d \in suspended \cup {c}
      /\ suspended' = (suspended \cup {c}) \ {d}
  BY DEF Switch
<1>2. kind[d] # "free" /\ kind[c] # "free"
  BY <1>1, ExecutesFacts
<1>3. ProcessSwitch(d) \in Exception /\ KnownException(ProcessSwitch(d))
  <2>1. /\ ProcessSwitch(d) \in Exception
        /\ ProcessSwitch(d).type = "ContextSwitch" /\ ProcessSwitch(d).to = d
    BY ExceptionsTyped
  <2> QED BY <1>2, <2>1 DEF KnownException, IsKnown
<1>4. suspended' \subseteq Ctx /\ \A x \in suspended' : kind[x] # "free"
  BY <1>1, <1>2, ExecutesFacts
<1> QED BY <1>1, <1>3, <1>4, RaiseStep

LEMMA TerminateStep ==
    ASSUME FrameInv, NEW c \in Ctx, Terminate(c)
    PROVE  FrameInv'
<1>1. PICK d \in suspended :
          Executes(c) /\ Raise(ProcessSwitch(d)) /\ suspended' = suspended \ {d}
  BY DEF Terminate
<1>2. d \in Ctx /\ kind[d] # "free"
  BY <1>1, ExecutesFacts
<1>3. ProcessSwitch(d) \in Exception /\ KnownException(ProcessSwitch(d))
  <2>1. /\ ProcessSwitch(d) \in Exception
        /\ ProcessSwitch(d).type = "ContextSwitch" /\ ProcessSwitch(d).to = d
    BY <1>2, ExceptionsTyped
  <2> QED BY <1>2, <2>1 DEF KnownException, IsKnown
<1>4. suspended' \subseteq Ctx /\ \A x \in suspended' : kind[x] # "free"
  BY <1>1, ExecutesFacts
<1> QED BY <1>1, <1>3, <1>4, RaiseStep

\* Storing a sender changes a state from Active to Dirty at most.
LEMMA StoreSenderStep ==
    ASSUME FrameInv, NEW x \in Ctx, NEW s \in CtxOrNil, StoreSender(x, s)
    PROVE  FrameInv'
<1>1. /\ IsKnown(s)
      /\ sender' = [sender EXCEPT ![x] = s]
      /\ state' \in {state, [state EXCEPT ![x] = IF @ = "Active" THEN "Dirty" ELSE @]}
      /\ UNCHANGED <<kind, outer, pc, complete, suspended, stack, exc, loopSender,
                     unwind, halted>>
  BY DEF StoreSender, IsKnown
<1>2. state \in [Ctx -> States] /\ sender \in [Ctx -> CtxOrNil]
  BY DEF FrameInv, TypeOK
<1>3. /\ state' \in [Ctx -> States] /\ sender' \in [Ctx -> CtxOrNil]
      /\ \A c \in Ctx : state'[c] = "Inactive" <=> state[c] = "Inactive"
      /\ \A c \in Ctx : IsKnown(sender'[c])
  BY <1>1, <1>2 DEF States, FrameInv, Known
<1>4. TypeOK'
  BY <1>1, <1>3 DEF FrameInv, TypeOK
<1>5. Matches(state', stack')
  BY <1>1, <1>3 DEF FrameInv, Matches, StatesMatch
<1>6. Known'
  BY <1>1, <1>3 DEF FrameInv, Known, IsKnown, KnownException, KnownFrames
<1> QED BY <1>4, <1>5, <1>6 DEF FrameInv

\* Unwinding marks a context as returned, or leaves it as it is.
LEMMA UnwindKeeps ==
    ASSUME FrameInv, NEW c \in Ctx, Unwind(c) \/ MarkReturned(c)
    PROVE  /\ pc' \in [Ctx -> -1 .. 2] /\ sender' \in [Ctx -> CtxOrNil]
           /\ \A x \in Ctx : IsKnown(sender'[x])
<1>1. /\ pc \in [Ctx -> -1 .. 2] /\ sender \in [Ctx -> CtxOrNil]
      /\ \A x \in Ctx : IsKnown(sender[x])
  BY DEF FrameInv, TypeOK, Known
<1>2. CASE UNCHANGED <<pc, sender>>
  BY <1>1, <1>2
<1>3. CASE MarkReturned(c)
  <2>1. pc' = [pc EXCEPT ![c] = -1] /\ sender' = [sender EXCEPT ![c] = Nil]
    BY <1>3 DEF MarkReturned
  <2>2. pc' \in [Ctx -> -1 .. 2] /\ sender' \in [Ctx -> CtxOrNil]
    BY <1>1, <2>1 DEF CtxOrNil
  <2>3. \A x \in Ctx : IsKnown(sender'[x])
    BY <1>1, <2>1 DEF IsKnown
  <2> QED BY <2>2, <2>3
<1> QED BY <1>2, <1>3 DEF Unwind

\* What a handler raises is typed, and continues in a known context.
LEMMA ReraisedKnown ==
    ASSUME FrameInv, stack # << >>, exc.type = "Return"
    PROVE  Reraised(Top, exc) \in Exception /\ KnownException(Reraised(Top, exc))
<1>1. exc \in Exception /\ sender \in [Ctx -> CtxOrNil] /\ Top.ctx \in Ctx
  BY TopFacts DEF FrameInv, TypeOK
<1>2. CASE state[Top.ctx] = "Dirty"
  <2> DEFINE t == IF exc.target = Nil THEN sender[Top.ctx] ELSE exc.target
             e == NonVirtualReturn(t, sender[Top.ctx], exc.goal)
  <2>1. t \in CtxOrNil /\ sender[Top.ctx] \in CtxOrNil /\ exc.goal \in CtxOrNil
    BY <1>1, ExceptionFields
  <2>2. Reraised(Top, exc) = e
    BY <1>2 DEF Reraised
  <2> HIDE DEF t
  <2>3. /\ e \in Exception /\ e.type = "NonVirtualReturn"
        /\ e.current = sender[Top.ctx]
    BY <2>1, ExceptionsTyped
  <2> HIDE DEF e
  <2>4. KnownException(e)
    BY <2>3, <1>1 DEF KnownException, FrameInv, Known
  <2> QED BY <2>2, <2>3, <2>4
<1>3. CASE state[Top.ctx] # "Dirty"
  <2> DEFINE b == exc.target = Nil \/ exc.target = Top.sender
             e == [exc EXCEPT !.arrived = b]
  <2>1. Reraised(Top, exc) = e
    BY <1>3 DEF Reraised
  <2>2. b \in BOOLEAN
    OBVIOUS
  <2> HIDE DEF b
  <2>3. e \in Exception /\ e.type = "Return"
    BY <1>1, <2>2, ExceptionFields
  <2> QED BY <2>1, <2>3 DEF KnownException
<1> QED BY <1>2, <1>3

LEMMA LeaveByReturnStep == FrameInv /\ LeaveByReturn => FrameInv'
<1> SUFFICES ASSUME FrameInv, LeaveByReturn PROVE FrameInv'
  OBVIOUS
<1>1. /\ stack # << >> /\ exc.type = "Return"
      /\ exc' = Reraised(Top, exc)
      /\ Unwind(Top.ctx) /\ PopFrame
      /\ UNCHANGED <<kind, outer, complete, suspended, loopSender, unwind, halted>>
  BY DEF LeaveByReturn, Travels
<1>2. exc' \in Exception /\ KnownException(exc')
  BY <1>1, ReraisedKnown
<1>3. Top.ctx \in Ctx
  BY <1>1, TopFacts
<1>4. /\ pc' \in [Ctx -> -1 .. 2] /\ sender' \in [Ctx -> CtxOrNil]
      /\ \A x \in Ctx : IsKnown(sender'[x])
  BY <1>1, <1>3, UnwindKeeps
<1> QED BY <1>1, <1>2, <1>4, PopStep

LEMMA LeaveAfterCleanupStep == FrameInv /\ LeaveAfterCleanup => FrameInv'
<1> SUFFICES ASSUME FrameInv, LeaveAfterCleanup PROVE FrameInv'
  OBVIOUS
<1>1. /\ stack # << >>
      /\ exc' \in {exc, Top.pending}
      /\ MarkReturned(Top.ctx) /\ PopFrame
      /\ UNCHANGED <<kind, outer, complete, suspended, loopSender, unwind, halted>>
  BY DEF LeaveAfterCleanup, Travels
<1>2. /\ Top.ctx \in Ctx
      /\ Top.pending \in Exception /\ KnownException(Top.pending)
  BY <1>1, TopFacts
<1>3. exc' \in Exception /\ KnownException(exc')
  BY <1>1, <1>2 DEF FrameInv, TypeOK, Known
<1>4. /\ pc' \in [Ctx -> -1 .. 2] /\ sender' \in [Ctx -> CtxOrNil]
      /\ \A x \in Ctx : IsKnown(sender'[x])
  BY <1>1, <1>2, UnwindKeeps
<1> QED BY <1>1, <1>3, <1>4, PopStep

LEMMA LeaveByOtherStep == FrameInv /\ LeaveByOther => FrameInv'
<1> SUFFICES ASSUME FrameInv, LeaveByOther PROVE FrameInv'
  OBVIOUS
<1>1. /\ stack # << >> /\ PopFrame
      /\ UNCHANGED <<kind, outer, sender, pc, complete, suspended, exc, loopSender,
                     unwind, halted>>
  BY DEF LeaveByOther, Travels
<1>2. /\ exc' \in Exception /\ KnownException(exc')
      /\ pc' \in [Ctx -> -1 .. 2] /\ sender' \in [Ctx -> CtxOrNil]
      /\ \A x \in Ctx : IsKnown(sender'[x])
  BY <1>1 DEF FrameInv, TypeOK, Known
<1> QED BY <1>1, <1>2, PopStep

LEMMA DeliverStep == FrameInv /\ Deliver => FrameInv'
<1> SUFFICES ASSUME FrameInv, Deliver PROVE FrameInv'
  OBVIOUS
<1>1. /\ exc' = NoException
      /\ UNCHANGED <<kind, outer, sender, pc, state, complete, suspended, stack,
                     loopSender, unwind, halted>>
  BY DEF Deliver
<1>2. TypeOK'
  BY <1>1, ExceptionsTyped DEF FrameInv, TypeOK
<1>3. Matches(state', stack')
  BY <1>1 DEF FrameInv
<1>4. KnownException(exc)'
  BY <1>1, ExceptionsTyped DEF KnownException
<1>5. Known'
  BY <1>1, <1>4 DEF FrameInv, Known, IsKnown, KnownException, KnownFrames
<1> QED BY <1>2, <1>3, <1>5 DEF FrameInv

\* The frame of an ensure: stays below that of its cleanup block, with the
\* exception to raise afterwards.
LEMMA LeaveByCleanupStep == FrameInv /\ LeaveByCleanup => FrameInv'
<1> SUFFICES ASSUME FrameInv, LeaveByCleanup PROVE FrameInv'
  OBVIOUS
<1> DEFINE c == Top.ctx
           r == Reraised(Top, exc)
           g == [Top EXCEPT !.pending = r]
           fs == Append(Front(stack), g)
<1>1. /\ stack # << >> /\ exc.type = "Return"
      /\ complete' = [complete EXCEPT ![c] = TRUE]
      /\ exc' = NoException
      /\ UNCHANGED <<pc, suspended, loopSender, unwind, halted>>
  BY DEF LeaveByCleanup, Travels
<1>2. PICK n \in Ctx : Enter(n, "block", outer[c], c, fs)
  BY DEF LeaveByCleanup
<1>3. r \in Exception /\ KnownException(r)
  BY <1>1, ReraisedKnown
<1>4. Top \in Invocation /\ c \in Ctx /\ kind[c] # "free" /\ c = Last(stack).ctx
  BY <1>1, TopFacts DEF Top
<1> HIDE DEF r, c
<1>5. g \in Invocation /\ g.ctx = Last(stack).ctx /\ g.pending = r
  BY <1>3, <1>4 DEF Invocation, c
<1> HIDE DEF g
<1>6. stack \in Seq(Invocation) /\ Matches(state, stack) /\ KnownFrames(stack)
  BY DEF FrameInv, TypeOK, Known
<1>7. /\ fs \in Seq(Invocation) /\ Matches(state, fs)
      /\ \A i \in 1 .. Len(fs) : fs[i] = g \/ \E j \in 1 .. Len(stack) : fs[i] = stack[j]
  BY <1>1, <1>5, <1>6, ReplaceMatches
<1> HIDE DEF fs
<1>8. KnownFrames(fs)
  BY <1>3, <1>5, <1>6, <1>7 DEF KnownFrames
<1>9. /\ outer[c] \in CtxOrNil /\ "block" \in Kinds \ {"free"}
      /\ pc' \in [Ctx -> -1 .. 2] /\ complete' \in [Ctx -> BOOLEAN]
  BY <1>1, <1>4 DEF FrameInv, TypeOK, Kinds
<1>10. /\ unwind' \in UnwindState /\ unwind'.at = unwind.at
       /\ IsKnown(unwind'.next) /\ (unwind' # NoUnwind => unwind'.target # Nil)
  BY <1>1 DEF FrameInv, TypeOK, UnwindState, Known
<1>11. UNCHANGED <<suspended, loopSender, halted>> /\ exc' = NoException
  BY <1>1
<1> QED BY <1>2, <1>4, <1>7, <1>8, <1>9, <1>10, <1>11, EnterStep

LEMMA LoopSwitchStep == FrameInv /\ LoopSwitch => FrameInv'
<1> SUFFICES ASSUME FrameInv, LoopSwitch PROVE FrameInv'
  OBVIOUS
<1>1. /\ stack = << >> /\ exc.type = "ContextSwitch" /\ Start(exc.to)
      /\ exc' = NoException
      /\ UNCHANGED <<kind, outer, sender, pc, complete, suspended, unwind, halted>>
  BY DEF LoopSwitch, InLoop
<1>2. exc.to \in Ctx
  BY <1>1, ExceptionFields DEF FrameInv, TypeOK
<1>3. kind[exc.to] # "free"
  BY <1>1, <1>2, NilIsNoContext DEF FrameInv, Known, KnownException, IsKnown
<1> QED BY <1>1, <1>2, <1>3, StartStep

LEMMA LoopReturnStep == FrameInv /\ LoopReturn => FrameInv'
<1> SUFFICES ASSUME FrameInv, LoopReturn PROVE FrameInv'
  OBVIOUS
<1>1. PICK start, target \in CtxOrNil :
          UnwindFrom(start, target) /\ IsKnown(start) /\ exc.goal \in CtxOrNil
  <2>1. exc \in Exception /\ loopSender \in CtxOrNil
    BY DEF FrameInv, TypeOK
  <2>2. CASE exc.type = "Return"
    BY <2>1, <2>2, ExceptionFields DEF LoopReturn, FrameInv, Known
  <2>3. CASE exc.type = "NonVirtualReturn"
    BY <2>1, <2>3, ExceptionFields DEF LoopReturn, FrameInv, Known, KnownException
  <2> QED BY <2>2, <2>3 DEF LoopReturn
<1>2. CASE \E reason \in {"ReturnFromTopLevel", "AssertionError"} : Halt(reason)
  BY <1>2, HaltStep DEF Outcomes
<1>3. CASE /\ start # Nil /\ target # Nil
           /\ unwind' = [at |-> start, target |-> target, next |-> Nil,
                         goal |-> exc.goal]
           /\ exc' = NoException
           /\ UNCHANGED <<kind, outer, sender, pc, state, complete, suspended, stack,
                          loopSender, halted>>
  <2>1. unwind' \in UnwindState /\ unwind'.at = start /\ unwind'.next = Nil
        /\ unwind'.target # Nil
    BY <1>1, <1>3 DEF UnwindState, CtxOrNil
  <2>2. TypeOK'
    BY <1>3, <2>1, ExceptionsTyped DEF FrameInv, TypeOK, UnwindState
  <2>3. Matches(state', stack')
    BY <1>3 DEF FrameInv
  <2>4. KnownException(exc)'
    BY <1>3, ExceptionsTyped DEF KnownException
  <2>5. Known'
    BY <1>1, <1>3, <2>1, <2>4 DEF FrameInv, Known, IsKnown, KnownException, KnownFrames
  <2> QED BY <2>2, <2>3, <2>5 DEF FrameInv
<1> QED BY <1>1, <1>2, <1>3 DEF UnwindFrom

LEMMA UnwindOneStep == FrameInv /\ UnwindOne => FrameInv'
<1> SUFFICES ASSUME FrameInv, UnwindOne PROVE FrameInv'
  OBVIOUS
<1>1. /\ stack = << >> /\ unwind # NoUnwind /\ exc = NoException
      /\ unwind \in UnwindState /\ unwind.target # Nil
      /\ IsKnown(unwind.at)
      /\ sender \in [Ctx -> CtxOrNil]
      /\ \A x \in Ctx : IsKnown(sender[x])
  BY DEF UnwindOne, InLoop, FrameInv, Known, TypeOK, UnwindState
<1>2. unwind.at # Nil => unwind.at \in Ctx /\ kind[unwind.at] # "free"
  BY <1>1 DEF UnwindState, CtxOrNil, IsKnown
<1>3. CASE /\ unwind.at = unwind.target /\ Start(unwind.at) /\ unwind' = NoUnwind
           /\ UNCHANGED <<kind, outer, sender, pc, complete, suspended, exc, halted>>
  BY <1>1, <1>2, <1>3, StartStep
<1>4. CASE Halt("FatalError")
  BY <1>4, HaltStep DEF Outcomes
<1>5. CASE /\ unwind.at # Nil
           /\ complete' = [complete EXCEPT ![unwind.at] = TRUE]
           /\ unwind' = [unwind EXCEPT !.next = sender[unwind.at]]
           /\ \E n \in Ctx : Enter(n, "block", outer[unwind.at], unwind.at, << >>)
           /\ UNCHANGED <<pc, suspended, exc, loopSender, halted>>
  <2>1. PICK n \in Ctx : Enter(n, "block", outer[unwind.at], unwind.at, << >>)
    BY <1>5
  <2>2. unwind.at \in Ctx /\ kind[unwind.at] # "free"
    BY <1>2, <1>5
  <2>3. /\ unwind' \in UnwindState /\ unwind'.at = unwind.at
        /\ unwind'.next = sender[unwind.at] /\ unwind'.target = unwind.target
    BY <1>1, <1>5, <2>2 DEF UnwindState
  <2>4. << >> \in Seq(Invocation) /\ Matches(state, << >>) /\ KnownFrames(<< >>)
    BY <1>1 DEF FrameInv, TypeOK, Known
  <2>5. /\ outer[unwind.at] \in CtxOrNil /\ "block" \in Kinds \ {"free"}
        /\ pc' \in [Ctx -> -1 .. 2] /\ complete' \in [Ctx -> BOOLEAN]
    BY <1>5, <2>2 DEF FrameInv, TypeOK, Kinds
  <2>6. /\ IsKnown(unwind'.next) /\ (unwind' # NoUnwind => unwind'.target # Nil)
        /\ UNCHANGED <<suspended, loopSender, halted>> /\ exc' = NoException
    BY <1>1, <1>5, <2>2, <2>3
  <2> QED BY <2>1, <2>2, <2>3, <2>4, <2>5, <2>6, EnterStep
<1>6. CASE /\ unwind.at # Nil /\ Unwind(unwind.at)
           /\ unwind' = [unwind EXCEPT !.at = sender[unwind.at]]
           /\ UNCHANGED <<kind, outer, state, complete, suspended, stack, exc,
                          loopSender, halted>>
  <2>1. unwind.at \in Ctx
    BY <1>2, <1>6
  <2>2. /\ pc' \in [Ctx -> -1 .. 2] /\ sender' \in [Ctx -> CtxOrNil]
        /\ \A x \in Ctx : IsKnown(sender'[x])
    BY <1>6, <2>1, UnwindKeeps
  <2>3. /\ unwind' \in UnwindState /\ unwind'.at = sender[unwind.at]
        /\ unwind'.next = unwind.next /\ unwind'.target = unwind.target
    BY <1>1, <1>6, <2>1 DEF UnwindState
  <2>4. TypeOK'
    BY <1>6, <2>2, <2>3 DEF FrameInv, TypeOK, UnwindState
  <2>5. Matches(state', stack')
    BY <1>6 DEF FrameInv
  <2>6. Known'
    BY <1>1, <1>6, <2>1, <2>2, <2>3
       DEF FrameInv, Known, IsKnown, KnownException, KnownFrames
  <2> QED BY <2>4, <2>5, <2>6 DEF FrameInv
<1> QED BY <1>3, <1>4, <1>5, <1>6 DEF UnwindOne

LEMMA UnwindAfterCleanupStep == FrameInv /\ UnwindAfterCleanup => FrameInv'
<1> SUFFICES ASSUME FrameInv, UnwindAfterCleanup PROVE FrameInv'
  OBVIOUS
<1>1. /\ stack = << >> /\ unwind # NoUnwind /\ MarkReturned(unwind.at)
      /\ UNCHANGED <<kind, outer, state, complete, suspended, stack, loopSender>>
      /\ \/ /\ unwind' = [unwind EXCEPT !.at = unwind.next, !.next = Nil]
            /\ exc' = NoException /\ halted' = halted
         \/ unwind' = unwind /\ exc' = exc /\ halted' = "uncaught"
  BY DEF UnwindAfterCleanup, InLoop
<1>2. /\ unwind \in UnwindState /\ unwind.target # Nil
      /\ IsKnown(unwind.next) /\ IsKnown(unwind.at)
      /\ exc \in Exception /\ KnownException(exc)
      /\ halted \in Outcomes
  BY <1>1 DEF FrameInv, TypeOK, Known, UnwindState, Outcomes
<1>3. /\ pc' \in [Ctx -> -1 .. 2] /\ sender' \in [Ctx -> CtxOrNil]
      /\ \A x \in Ctx : IsKnown(sender'[x])
  <2>1. pc' = [pc EXCEPT ![unwind.at] = -1] /\ sender' = [sender EXCEPT ![unwind.at] = Nil]
    BY <1>1 DEF MarkReturned
  <2>2. /\ pc \in [Ctx -> -1 .. 2] /\ sender \in [Ctx -> CtxOrNil]
        /\ \A x \in Ctx : IsKnown(sender[x])
    BY DEF FrameInv, TypeOK, Known
  <2>3. pc' \in [Ctx -> -1 .. 2]
    <3> DEFINE T == -1 .. 2
    <3>1. -1 \in T
      OBVIOUS
    <3>2. pc' = [pc EXCEPT ![unwind.at] = -1] /\ pc \in [Ctx -> T]
      BY <2>1, <2>2
    <3> HIDE DEF T
    <3>3. pc' \in [Ctx -> T]
      BY <3>1, <3>2
    <3> QED BY <3>3 DEF T
  <2>4. sender' \in [Ctx -> CtxOrNil]
    BY <2>1, <2>2 DEF CtxOrNil
  <2>5. \A x \in Ctx : IsKnown(sender'[x])
    BY <2>1, <2>2 DEF IsKnown
  <2> QED BY <2>3, <2>4, <2>5
<1>4. /\ unwind' \in UnwindState /\ unwind'.target # Nil
      /\ IsKnown(unwind'.at) /\ IsKnown(unwind'.next)
      /\ halted' \in Outcomes
  <2>1. CASE unwind' = [unwind EXCEPT !.at = unwind.next, !.next = Nil] /\ halted' = halted
    BY <1>2, <2>1 DEF UnwindState, CtxOrNil, IsKnown
  <2>2. CASE unwind' = unwind /\ halted' = "uncaught"
    BY <1>2, <2>2 DEF Outcomes
  <2> QED BY <1>1, <2>1, <2>2
<1>5. exc' \in Exception /\ KnownException(exc')
  BY <1>1, <1>2, ExceptionsTyped DEF KnownException
<1>6. TypeOK'
  BY <1>1, <1>3, <1>4, <1>5 DEF FrameInv, TypeOK, UnwindState, Outcomes
<1>7. Matches(state', stack')
  BY <1>1 DEF FrameInv
<1>8. Known'
  BY <1>1, <1>3, <1>4, <1>5 DEF FrameInv, Known, IsKnown, KnownException, KnownFrames
<1> QED BY <1>6, <1>7, <1>8 DEF FrameInv

-----------------------------------------------------------------------------
(* The theorem *)

LEMMA FrameInvStep == FrameInv /\ [Next]_vars => FrameInv'
<1> SUFFICES ASSUME FrameInv, [Next]_vars PROVE FrameInv'
  OBVIOUS
<1>1. CASE Image
  <2>1. CASE \E c \in Ctx : Call(c)
    BY <2>1, CallStep
  <2>2. CASE \E c \in Ctx : EnsureCalls(c)
    BY <2>2, EnsureCallsStep
  <2>3. CASE \E c \in Ctx : ProcessCalls(c)
    BY <2>3, ProcessCallsStep
  <2>4. CASE \E c \in Ctx : ReturnLocal(c)
    BY <2>4, ReturnLocalStep
  <2>5. CASE \E c \in Ctx : ReturnNonLocal(c)
    BY <2>5, ReturnNonLocalStep
  <2>6. CASE \E c \in Ctx : Fork(c)
    BY <2>6, ForkStep
  <2>7. CASE \E c \in Ctx : Terminate(c)
    BY <2>7, TerminateStep
  <2>8. CASE \E c, d \in Ctx : Switch(c, d)
    BY <2>8, SwitchStep
  <2>9. CASE \E x \in Ctx, s \in CtxOrNil : StoreSender(x, s)
    BY <2>9, StoreSenderStep
  <2> QED BY <1>1, <2>1, <2>2, <2>3, <2>4, <2>5, <2>6, <2>7, <2>8, <2>9 DEF Image
<1>2. CASE Interpreter
  <2>1. CASE ExecuteReturned
    BY <2>1, HaltStep DEF ExecuteReturned, Outcomes
  <2> QED
    BY <1>2, <2>1, LeaveByReturnStep, LeaveByCleanupStep, LeaveAfterCleanupStep,
       LeaveByOtherStep, DeliverStep, LoopSwitchStep, LoopReturnStep, UnwindOneStep,
       UnwindAfterCleanupStep
    DEF Interpreter
<1>3. CASE UNCHANGED vars
  <2>1. TypeOK'
    BY <1>3 DEF vars, FrameInv, TypeOK
  <2>2. Matches(state', stack')
    BY <1>3 DEF vars, FrameInv
  <2>3. Known'
    BY <1>3 DEF vars, FrameInv, Known, IsKnown, KnownException, KnownFrames
  <2> QED BY <2>1, <2>2, <2>3 DEF FrameInv
<1> QED BY <1>1, <1>2, <1>3 DEF Next

LEMMA FrameInvHolds == Spec => []FrameInv
  BY FrameInvInit, FrameInvStep, PTL DEF Spec

\* Whatever the image does, the state of the VM is well-formed.
THEOREM TypeCorrect == Spec => []TypeOK
<1>1. FrameInv => TypeOK
  BY DEF FrameInv
<1> QED BY <1>1, FrameInvHolds, PTL

\* Whatever the image does, stack_frame is never entered for a context that is
\* on the stack already, and what is on it is Active or Dirty: the assertion it
\* has as a comment may be switched on.
THEOREM FramesAndStates == Spec => []FramesMatchStates
<1>1. FrameInv => FramesMatchStates
  BY FrameInvImplies
<1> QED BY <1>1, FrameInvHolds, PTL

-----------------------------------------------------------------------------
(* Frames and senders *)

\* What has called frame i, and where a return of its context goes.
Caller(i) == IF i > 1 THEN stack[i - 1].ctx ELSE unwind.at
ReturnsTo(i) == IF i = 1 /\ unwind.at = Nil THEN loopSender ELSE Caller(i)

Linked ==
    \A i \in 1 .. Len(stack) :
        /\ stack[i].sender = Caller(i)
        /\ state[stack[i].ctx] = "Active" => sender[stack[i].ctx] = ReturnsTo(i)

\* Stacks with the same contexts in the same places.
SameFrames(fs) ==
    /\ Len(fs) = Len(stack)
    /\ \A i \in 1 .. Len(stack) : fs[i].ctx = stack[i].ctx /\ fs[i].sender = stack[i].sender

\* A frame for a context that has none yet, called by the top frame or by the
\* loop; the frames below keep their places.
Pushes(n, k, o, c, fs) ==
    /\ n \in Ctx /\ k \in {"method", "block", "ensure"} /\ o \in CtxOrNil
    /\ c \in Ctx /\ c = Caller(Len(stack) + 1)
    /\ fs \in Seq(Invocation) /\ SameFrames(fs)
    /\ Enter(n, k, o, c, fs)
    /\ UNCHANGED <<suspended, loopSender, halted>>
    /\ exc' = NoException /\ unwind'.at = unwind.at

\* The contexts of frames.
LEMMA FrameFacts ==
    ASSUME FrameInv
    PROVE  /\ stack \in Seq(Invocation) /\ Len(stack) \in Nat
           /\ stack = << >> <=> Len(stack) = 0
           /\ \A i \in 1 .. Len(stack) :
                  /\ stack[i] \in Invocation /\ stack[i].ctx \in Ctx
                  /\ stack[i].sender \in CtxOrNil /\ stack[i].pending \in Exception
                  /\ state[stack[i].ctx] # "Inactive" /\ kind[stack[i].ctx] # "free"
           /\ \A i, j \in 1 .. Len(stack) : stack[i].ctx = stack[j].ctx => i = j
           /\ stack # << >> => Top = stack[Len(stack)] /\ Len(stack) \in 1 .. Len(stack)
<1>1. stack \in Seq(Invocation) /\ Len(stack) \in Nat /\ (stack = << >> <=> Len(stack) = 0)
  BY DEF FrameInv, TypeOK
<1>2. ASSUME NEW i \in 1 .. Len(stack)
      PROVE  /\ stack[i] \in Invocation /\ stack[i].ctx \in Ctx
             /\ stack[i].sender \in CtxOrNil /\ stack[i].pending \in Exception
             /\ state[stack[i].ctx] # "Inactive" /\ kind[stack[i].ctx] # "free"
  <2>1. stack[i] \in Invocation
    BY <1>1
  <2>2. stack[i].ctx \in Ctx /\ stack[i].sender \in CtxOrNil /\ stack[i].pending \in Exception
    BY <2>1 DEF Invocation
  <2>3. IsOn(stack[i].ctx, stack)
    BY DEF IsOn
  <2> QED BY <2>1, <2>2, <2>3 DEF FrameInv, Known, Matches, StatesMatch
<1>3. \A i, j \in 1 .. Len(stack) : stack[i].ctx = stack[j].ctx => i = j
  BY DEF FrameInv, Matches, OneFrameEach
<1>4. stack # << >> => Top = stack[Len(stack)]
  BY TopFacts
<1> QED BY <1>1, <1>2, <1>3, <1>4

LEMMA LinkedPush ==
    ASSUME FrameInv, Linked, NEW n, NEW k, NEW o, NEW c, NEW fs, Pushes(n, k, o, c, fs)
    PROVE  /\ Linked'
           /\ Len(stack') = Len(stack) + 1 /\ stack'[Len(stack) + 1] = Frame(n, c)
           /\ \A i \in 1 .. Len(stack) : /\ stack'[i] = fs[i]
                                         /\ stack[i].ctx # n
<1>0. /\ n \in Ctx /\ kind[n] = "free" /\ c \in Ctx /\ c = Caller(Len(stack) + 1)
      /\ fs \in Seq(Invocation) /\ SameFrames(fs) /\ stack' = Append(fs, Frame(n, c))
      /\ state' = [state EXCEPT ![n] = "Active"] /\ sender' = [sender EXCEPT ![n] = c]
      /\ loopSender' = loopSender /\ unwind'.at = unwind.at
  BY DEF Pushes, Enter
<1> DEFINE m == Len(stack)
           f == Frame(n, c)
<1>1. f \in Invocation /\ f.ctx = n /\ f.sender = c
  BY <1>0, ExceptionsTyped DEF Frame, Invocation, CtxOrNil
<1>2. /\ Len(stack') = m + 1 /\ m \in Nat /\ stack'[m + 1] = f
      /\ \A i \in 1 .. m : stack'[i] = fs[i]
  BY <1>0, <1>1, PushedFrame DEF SameFrames
<1> HIDE DEF f
<1>3. ASSUME NEW i \in 1 .. m
      PROVE  /\ stack'[i].ctx = stack[i].ctx /\ stack'[i].sender = stack[i].sender
             /\ stack[i].ctx # n /\ stack[i].ctx \in Ctx
  BY <1>0, <1>2, FrameFacts DEF SameFrames
<1>4. ASSUME NEW i \in 1 .. m + 1 PROVE Caller(i)' = Caller(i)
  <2>1. CASE i = 1
    BY <1>0, <2>1 DEF Caller
  <2>2. CASE i > 1
    <3>1. i - 1 \in 1 .. m
      BY <2>2, <1>2
    <3> QED BY <2>2, <3>1, <1>3 DEF Caller
  <2> QED BY <2>1, <2>2, <1>2
<1>5. ASSUME NEW i \in 1 .. m + 1 PROVE ReturnsTo(i)' = ReturnsTo(i)
  BY <1>0, <1>4 DEF ReturnsTo
<1>6. sender \in [Ctx -> CtxOrNil] /\ state \in [Ctx -> States]
  BY DEF FrameInv, TypeOK
<1>7. ASSUME NEW i \in 1 .. m + 1
      PROVE  /\ stack'[i].sender = Caller(i)
             /\ state'[stack'[i].ctx] = "Active" => sender'[stack'[i].ctx] = ReturnsTo(i)
  <2>1. CASE i \in 1 .. m
    <3>1. state'[stack'[i].ctx] = state[stack[i].ctx] /\ sender'[stack'[i].ctx] = sender[stack[i].ctx]
      BY <1>0, <2>1, <1>3, <1>6
    <3> QED BY <2>1, <3>1, <1>3 DEF Linked
  <2>2. CASE i = m + 1
    <3>1. stack'[i].sender = c /\ sender'[stack'[i].ctx] = c
      BY <1>0, <2>2, <1>1, <1>2, <1>6
    <3>2. ReturnsTo(m + 1) = c
      <4>1. Nil \notin Ctx
        BY NilIsNoContext
      <4>2. CASE m = 0
        BY <1>0, <4>1, <4>2 DEF ReturnsTo, Caller
      <4>3. CASE m # 0
        BY <1>0, <4>3, <1>2 DEF ReturnsTo
      <4> QED BY <4>2, <4>3
    <3> QED BY <1>0, <2>2, <3>1, <3>2
  <2> QED BY <2>1, <2>2, <1>2
<1>8. Linked'
  BY <1>2, <1>4, <1>5, <1>7 DEF Linked
<1> QED BY <1>2, <1>3, <1>8 DEF f

\* The top frame is left, and its context may be marked as returned.
LEMMA LinkedPop ==
    ASSUME FrameInv, Linked, stack # << >>, PopFrame,
           UNCHANGED <<loopSender, unwind>>, sender' \in [Ctx -> CtxOrNil],
           \A x \in Ctx : x # Top.ctx => sender'[x] = sender[x]
    PROVE  /\ Linked'
           /\ Len(stack') = Len(stack) - 1
           /\ \A i \in 1 .. Len(stack) - 1 : /\ stack'[i] = stack[i]
                                             /\ state'[stack[i].ctx] = state[stack[i].ctx]
           /\ \A i \in 1 .. Len(stack) : Caller(i)' = Caller(i) /\ ReturnsTo(i)' = ReturnsTo(i)
<1> DEFINE m == Len(stack)
<1>1. /\ m \in Nat \ {0} /\ Len(stack') = m - 1 
      /\ \A i \in 1 .. m - 1 : stack'[i] = stack[i]
  BY PoppedFrame, FrameFacts DEF PopFrame
<1>2. ASSUME NEW i \in 1 .. m - 1
      PROVE  /\ stack[i].ctx \in Ctx /\ stack[i].ctx # Top.ctx
             /\ state'[stack[i].ctx] = state[stack[i].ctx]
             /\ sender'[stack[i].ctx] = sender[stack[i].ctx]
  <2>1. i \in 1 .. m /\ m \in 1 .. m /\ i # m
    BY <1>1
  <2>2. stack[i].ctx \in Ctx /\ stack[i].ctx # Top.ctx
    BY <2>1, FrameFacts
  <2>3. state' = [state EXCEPT ![Top.ctx] = "Inactive"] /\ state \in [Ctx -> States]
    BY DEF PopFrame, FrameInv, TypeOK
  <2> QED BY <2>2, <2>3
<1>3. ASSUME NEW i \in 1 .. m PROVE Caller(i)' = Caller(i)
  <2>1. CASE i = 1
    BY <2>1 DEF Caller
  <2>2. CASE i > 1
    <3>1. i - 1 \in 1 .. m - 1
      BY <2>2, <1>1
    <3> QED BY <2>2, <3>1, <1>1 DEF Caller
  <2> QED BY <2>1, <2>2, <1>1
<1>4. ASSUME NEW i \in 1 .. m PROVE ReturnsTo(i)' = ReturnsTo(i)
  BY <1>3 DEF ReturnsTo
<1>5. Linked'
  <2>1. ASSUME NEW i \in 1 .. m - 1
        PROVE  /\ stack'[i].sender = Caller(i)
               /\ state'[stack'[i].ctx] = "Active" => sender'[stack'[i].ctx] = ReturnsTo(i)
    <3>1. i \in 1 .. m
      BY <1>1
    <3> QED BY <3>1, <1>1, <1>2 DEF Linked
  <2>2. \A i \in 1 .. m - 1 : i \in 1 .. m
    BY <1>1
  <2> QED BY <1>1, <1>3, <1>4, <2>1, <2>2 DEF Linked
<1> QED BY <1>1, <1>2, <1>3, <1>4, <1>5

\* The loop starts a context.
LEMMA LinkedStart ==
    ASSUME FrameInv, NEW c \in Ctx, Start(c), UNCHANGED sender, unwind'.at = Nil
    PROVE  /\ Linked' /\ Len(stack') = 1 /\ stack'[1] = Frame(c, Nil)
<1>1. /\ stack' = <<Frame(c, Nil)>> /\ loopSender' = sender[c]
  BY DEF Start
<1>2. Frame(c, Nil).ctx = c /\ Frame(c, Nil).sender = Nil
  BY DEF Frame
<1>3. Len(stack') = 1 /\ stack'[1] = Frame(c, Nil)
  BY <1>1
<1>4. Caller(1)' = Nil /\ ReturnsTo(1)' = sender[c]
  BY <1>1 DEF Caller, ReturnsTo
<1>5. \A i \in 1 .. Len(stack') : i = 1
  BY <1>3
<1>6. Linked'
  BY <1>2, <1>3, <1>4, <1>5 DEF Linked
<1> QED BY <1>3, <1>6

\* Which actions enter a context: the running one calls, a return or an unwind
\* evaluates a cleanup block.
LEMMA CallPushes ==
    ASSUME FrameInv, NEW c \in Ctx, Call(c) \/ EnsureCalls(c) \/ ProcessCalls(c)
    PROVE  /\ Executes(c) /\ unwind' = unwind /\ c = Top.ctx /\ stack # << >>
           /\ \E n, k, o : Pushes(n, k, o, c, stack)
<1>1. /\ Executes(c) /\ UNCHANGED <<suspended, exc, loopSender, unwind, halted>>
      /\ \E n \in Ctx, k \in {"method", "block", "ensure"}, o \in Ctx \cup {Nil, outer[c]} :
            Enter(n, k, o, c, stack)
  <2>1. CASE Call(c)
    BY <2>1 DEF Call
  <2>2. CASE EnsureCalls(c)
    BY <2>2 DEF EnsureCalls
  <2>3. CASE ProcessCalls(c)
    BY <2>3 DEF ProcessCalls
  <2> QED BY <2>1, <2>2, <2>3
<1>2. /\ c = Top.ctx /\ exc = NoException /\ stack # << >>
      /\ stack[Len(stack)] = Top /\ Len(stack) \in Nat \ {0}
  BY <1>1, FrameFacts DEF Executes
<1>3. c = Caller(Len(stack) + 1)
  BY <1>2 DEF Caller
<1>4. stack \in Seq(Invocation) /\ SameFrames(stack) /\ outer[c] \in CtxOrNil
  BY FrameFacts DEF SameFrames, FrameInv, TypeOK
<1>5. \A o \in Ctx \cup {Nil, outer[c]} : o \in CtxOrNil
  BY <1>4 DEF CtxOrNil
<1> QED BY <1>1, <1>2, <1>3, <1>4, <1>5 DEF Pushes

\* What the handler puts in the place of the top frame.
Held == Append(Front(stack), [Top EXCEPT !.pending = Reraised(Top, exc)])

LEMMA CleanupPushes ==
    ASSUME FrameInv, LeaveByCleanup
    PROVE  /\ stack # << >> /\ unwind' = unwind
           /\ \E n : Pushes(n, "block", outer[Top.ctx], Top.ctx, Held)
           /\ Held[Len(stack)].pending = Reraised(Top, exc)
           /\ \A i \in 1 .. Len(stack) - 1 : Held[i] = stack[i]
<1> DEFINE r == Reraised(Top, exc)
           g == [Top EXCEPT !.pending = r]
           m == Len(stack)
<1>1. /\ stack # << >> /\ exc.type = "Return"
      /\ exc' = NoException
      /\ UNCHANGED <<pc, suspended, loopSender, unwind, halted>>
      /\ \E n \in Ctx : Enter(n, "block", outer[Top.ctx], Top.ctx, Append(Front(stack), g))
  BY DEF LeaveByCleanup, Travels
<1>2. r \in Exception
  BY <1>1, ReraisedKnown
<1>3. /\ Top \in Invocation /\ Top.ctx \in Ctx /\ outer[Top.ctx] \in CtxOrNil
      /\ Top = stack[m] /\ m \in Nat \ {0}
  BY <1>1, TopFacts DEF FrameInv, TypeOK
<1> HIDE DEF r
<1>4. /\ g \in Invocation /\ g.ctx = Top.ctx /\ g.sender = Top.sender /\ g.pending = r
  BY <1>2, <1>3 DEF Invocation
<1> HIDE DEF g
<1>5. /\ Front(stack) \in Seq(Invocation) /\ Len(Front(stack)) = m - 1
      /\ \A i \in 1 .. m - 1 : Front(stack)[i] = stack[i]
  BY <1>1, PoppedFrame, FrameFacts
<1>6. Held = Append(Front(stack), g)
  BY DEF Held, g, r
<1>7. /\ Held \in Seq(Invocation) /\ Len(Held) = m /\ Held[m] = g
      /\ \A i \in 1 .. m - 1 : Held[i] = stack[i]
  <2>1. m - 1 + 1 = m
    BY <1>3
  <2> QED BY <1>3, <1>4, <1>5, <1>6, <2>1, PushedFrame
<1>8. SameFrames(Held)
  <2>1. \A i \in 1 .. m : i \in 1 .. m - 1 \/ i = m
    BY <1>3
  <2> QED BY <1>3, <1>4, <1>7, <2>1 DEF SameFrames
<1>9. Top.ctx = Caller(m + 1)
  BY <1>3 DEF Caller
<1>10. /\ \E n : Pushes(n, "block", outer[Top.ctx], Top.ctx, Held)
  BY <1>1, <1>3, <1>6, <1>7, <1>8, <1>9 DEF Pushes
<1> QED BY <1>1, <1>4, <1>7, <1>10 DEF r

LEMMA UnwindPushes ==
    ASSUME FrameInv, stack = << >>, exc = NoException,
           unwind.at # Nil, unwind' = [unwind EXCEPT !.next = sender[unwind.at]],
           NEW n \in Ctx, Enter(n, "block", outer[unwind.at], unwind.at, << >>),
           UNCHANGED <<suspended, exc, loopSender, halted>>
    PROVE  Pushes(n, "block", outer[unwind.at], unwind.at, stack)
<1>1. unwind \in UnwindState
  BY DEF FrameInv, TypeOK, UnwindState
<1>2. unwind'.at = unwind.at /\ unwind.at \in Ctx
  BY <1>1 DEF UnwindState, CtxOrNil
<1>3. Len(stack) = 0 /\ Caller(Len(stack) + 1) = unwind.at
  BY FrameFacts DEF Caller
<1>4. SameFrames(stack) /\ stack \in Seq(Invocation) /\ outer[unwind.at] \in CtxOrNil
  BY <1>2, FrameFacts DEF SameFrames, FrameInv, TypeOK
<1> QED BY <1>2, <1>3, <1>4 DEF Pushes

\* The steps that leave the frames as they are, those in whose course the loop
\* has no frames, and those that change a sender.
LEMMA LinkedStays ==
    ASSUME Linked, UNCHANGED <<stack, state, sender, loopSender, unwind>>
    PROVE  Linked'
  BY DEF Linked, Caller, ReturnsTo

LEMMA LinkedEmpty ==
    ASSUME stack' = << >>
    PROVE  Linked'
<1>1. Len(stack') = 0
  OBVIOUS
<1> QED BY <1>1 DEF Linked

LEMMA LinkedStore ==
    ASSUME FrameInv, Linked, "sender_nil" \notin ImageDoes,
           NEW x \in Ctx, NEW s \in CtxOrNil, StoreSender(x, s)
    PROVE  Linked'
<1>1. /\ sender' = [sender EXCEPT ![x] = s] /\ UNCHANGED <<stack, loopSender, unwind>>
      /\ state' = [state EXCEPT ![x] = IF @ = "Active" THEN "Dirty" ELSE @]
  BY DEF StoreSender
<1>2. sender \in [Ctx -> CtxOrNil] /\ state \in [Ctx -> States]
  BY DEF FrameInv, TypeOK
<1>3. ASSUME NEW i \in 1 .. Len(stack), state'[stack[i].ctx] = "Active"
      PROVE  sender'[stack[i].ctx] = ReturnsTo(i)
  <2>1. stack[i].ctx \in Ctx
    BY FrameFacts
  <2>2. stack[i].ctx # x /\ state[stack[i].ctx] = "Active"
    BY <1>1, <1>2, <1>3, <2>1
  <2> QED BY <1>1, <1>2, <2>1, <2>2 DEF Linked
<1>4. \A i \in 1 .. Len(stack) : Caller(i)' = Caller(i) /\ ReturnsTo(i)' = ReturnsTo(i)
  BY <1>1 DEF Caller, ReturnsTo
<1> QED BY <1>1, <1>3, <1>4 DEF Linked

LEMMA MarksOnly ==
    ASSUME FrameInv, NEW c \in Ctx, Unwind(c) \/ MarkReturned(c)
    PROVE  /\ sender' \in [Ctx -> CtxOrNil]
           /\ \A x \in Ctx : x # c => sender'[x] = sender[x] /\ pc'[x] = pc[x]
<1>1. sender' \in [Ctx -> CtxOrNil]
  BY UnwindKeeps
<1>2. sender \in [Ctx -> CtxOrNil] /\ pc \in [Ctx -> -1 .. 2]
  BY DEF FrameInv, TypeOK
<1>3. CASE UNCHANGED <<pc, sender>>
  BY <1>1, <1>3
<1>4. CASE MarkReturned(c)
  <2>1. \A x \in Ctx : x # c => sender'[x] = sender[x]
    BY <1>2, <1>4 DEF MarkReturned
  <2>2. \A x \in Ctx : x # c => pc'[x] = pc[x]
    <3>1. PICK T : pc \in [Ctx -> T]
      BY <1>2
    <3> QED BY <3>1, <1>4 DEF MarkReturned
  <2> QED BY <1>1, <2>1, <2>2
<1> QED BY <1>3, <1>4 DEF Unwind

LEMMA LinkedStep ==
    ASSUME FrameInv, Linked, [Next]_vars, "sender_nil" \notin ImageDoes
    PROVE  Linked'
<1>1. ASSUME NEW c \in Ctx, Call(c) \/ EnsureCalls(c) \/ ProcessCalls(c) PROVE Linked'
  BY <1>1, CallPushes, LinkedPush
<1>2. ASSUME NEW c \in Ctx, ReturnLocal(c) \/ ReturnNonLocal(c) \/ Fork(c) \/ Terminate(c)
                            \/ \E d \in Ctx : Switch(c, d)
      PROVE  Linked'
  <2>1. UNCHANGED <<stack, state, sender, loopSender, unwind>>
    BY <1>2 DEF ReturnLocal, ReturnNonLocal, Fork, Terminate, Switch, Raise, Halt
  <2> QED BY <2>1, LinkedStays
<1>3. ASSUME NEW x \in Ctx, NEW s \in CtxOrNil, StoreSender(x, s) PROVE Linked'
  BY <1>3, LinkedStore
<1>4. CASE ExecuteReturned \/ Deliver
  <2>1. UNCHANGED <<stack, state, sender, loopSender, unwind>>
    BY <1>4 DEF ExecuteReturned, Deliver, Halt
  <2> QED BY <2>1, LinkedStays
<1>5. CASE LeaveByReturn \/ LeaveAfterCleanup
  <2>1. /\ stack # << >> /\ PopFrame /\ UNCHANGED <<loopSender, unwind>>
        /\ Unwind(Top.ctx) \/ MarkReturned(Top.ctx)
    BY <1>5 DEF LeaveByReturn, LeaveAfterCleanup, Travels
  <2>2. Top.ctx \in Ctx
    BY <2>1, TopFacts
  <2>3. sender' \in [Ctx -> CtxOrNil] /\ \A x \in Ctx : x # Top.ctx => sender'[x] = sender[x]
    BY <2>1, <2>2, MarksOnly
  <2> QED BY <2>1, <2>3, LinkedPop
<1>6. CASE LeaveByOther
  <2>1. /\ stack # << >> /\ PopFrame /\ UNCHANGED <<loopSender, unwind, sender>>
    BY <1>6 DEF LeaveByOther, Travels
  <2>2. sender' \in [Ctx -> CtxOrNil] /\ \A x \in Ctx : x # Top.ctx => sender'[x] = sender[x]
    BY <2>1 DEF FrameInv, TypeOK
  <2> QED BY <2>1, <2>2, LinkedPop
<1>7. CASE LeaveByCleanup
  BY <1>7, CleanupPushes, LinkedPush
<1>8. CASE LoopSwitch
  <2>1. /\ unwind = NoUnwind /\ UNCHANGED <<unwind, sender>> /\ Start(exc.to)
        /\ exc.type = "ContextSwitch"
    BY <1>8 DEF LoopSwitch
  <2>2. exc.to \in Ctx /\ NoUnwind.at = Nil
    BY <2>1, ExceptionFields DEF FrameInv, TypeOK, NoUnwind
  <2> QED BY <2>1, <2>2, LinkedStart
<1>9. CASE LoopReturn
  <2>1. stack' = << >>
    BY <1>9 DEF LoopReturn, InLoop, UnwindFrom, Halt
  <2> QED BY <2>1, LinkedEmpty
<1>10. CASE UnwindOne
  <2>1. stack = << >> /\ exc = NoException
    BY <1>10 DEF UnwindOne, InLoop
  <2>2. CASE unwind.at = unwind.target /\ Start(unwind.at) /\ unwind' = NoUnwind
             /\ UNCHANGED sender
    <3>1. unwind.at \in Ctx \/ unwind.at = Nil
      BY DEF FrameInv, TypeOK, CtxOrNil
    <3>2. unwind.target # Nil
      BY <1>10 DEF UnwindOne, FrameInv, Known
    <3>3. NoUnwind.at = Nil
      BY DEF NoUnwind
    <3> QED BY <2>2, <3>1, <3>2, <3>3, LinkedStart
  <2>3. CASE stack' = << >>
    BY <2>3, LinkedEmpty
  <2>4. CASE /\ unwind.at # Nil /\ unwind' = [unwind EXCEPT !.next = sender[unwind.at]]
             /\ \E n \in Ctx : Enter(n, "block", outer[unwind.at], unwind.at, << >>)
             /\ UNCHANGED <<suspended, exc, loopSender, halted>>
    <3>1. PICK n \in Ctx : Enter(n, "block", outer[unwind.at], unwind.at, << >>)
      BY <2>4
    <3>2. Pushes(n, "block", outer[unwind.at], unwind.at, stack)
      BY <2>1, <2>4, <3>1, UnwindPushes
    <3> QED BY <3>2, LinkedPush
  <2> QED BY <1>10, <2>1, <2>2, <2>3, <2>4 DEF UnwindOne, Halt
<1>11. CASE UnwindAfterCleanup
  <2>1. stack' = << >>
    BY <1>11 DEF UnwindAfterCleanup, InLoop
  <2> QED BY <2>1, LinkedEmpty
<1>12. CASE UNCHANGED vars
  BY <1>12, LinkedStays DEF vars
<1> QED BY <1>1, <1>2, <1>3, <1>4, <1>5, <1>6, <1>7, <1>8, <1>9, <1>10, <1>11, <1>12
        DEF Next, Image, Interpreter

LEMMA LinkedInit == Init => Linked
<1> SUFFICES ASSUME Init PROVE Linked
  OBVIOUS
<1>1. /\ stack = <<Frame(Toplevel, Nil)>> /\ sender[Toplevel] = Nil /\ loopSender = Nil
      /\ unwind.at = Nil
  BY NilIsNoContext DEF Init, NoUnwind
<1>2. Len(stack) = 1 /\ stack[1] = Frame(Toplevel, Nil)
  BY <1>1
<1>3. \A i \in 1 .. Len(stack) : i = 1
  BY <1>2
<1>4. Frame(Toplevel, Nil).ctx = Toplevel /\ Frame(Toplevel, Nil).sender = Nil
  BY DEF Frame
<1>5. Caller(1) = Nil /\ ReturnsTo(1) = Nil
  BY <1>1 DEF Caller, ReturnsTo
<1> QED BY <1>1, <1>2, <1>3, <1>4, <1>5 DEF Linked

\* If the image stores no nil as a sender, the caller of every frame is the frame
\* below it and the sender of its context, unless the context is Dirty: _return may
\* use stack_frame's local instead of the sender.
THEOREM SendersAndFrames ==
    ASSUME "sender_nil" \notin ImageDoes
    PROVE  Spec => []SendersMatchFrames
<1>1. FrameInv /\ Linked => SendersMatchFrames
  <2> SUFFICES ASSUME FrameInv, Linked, NEW i \in 1 .. Len(stack)
               PROVE  /\ IF i > 1 THEN stack[i].sender = stack[i - 1].ctx
                         ELSE stack[i].sender \in {Nil, unwind.at}
                      /\ state[stack[i].ctx] = "Active" =>
                            sender[stack[i].ctx] = IF i = 1 /\ stack[i].sender = Nil
                                                   THEN loopSender ELSE stack[i].sender
    BY DEF SendersMatchFrames
  <2>1. i \in Nat /\ (i = 1 \/ i > 1)
    BY FrameFacts
  <2>2. CASE i = 1
    BY <2>2 DEF Linked, Caller, ReturnsTo
  <2>3. CASE i > 1
    BY <2>3 DEF Linked, Caller, ReturnsTo
  <2> QED BY <2>1, <2>2, <2>3
<1>2. Init => FrameInv /\ Linked
  BY FrameInvInit, LinkedInit
<1>3. FrameInv /\ Linked /\ [Next]_vars => FrameInv' /\ Linked'
  BY FrameInvStep, LinkedStep
<1> QED BY <1>1, <1>2, <1>3, PTL DEF Spec

-----------------------------------------------------------------------------
(* Chains of senders *)

\* The chain of x, for senders s: x, its sender, the sender of that, and so on.
Walks(f, s) == f = [x \in CtxOrNil |-> IF x = Nil THEN {} ELSE {x} \cup f[s[x]]]
ChainOf(s, x) == (CHOOSE f : Walks(f, s))[x]

NoCycles(s) == \A S \in SUBSET Ctx : S # {} => \E c \in S : s[c] \notin S

\* Sets that contain the senders of their elements.
Closed(s, S) == \A z \in S : s[z] = Nil \/ s[z] \in S

LEMMA SendersChain ==
    ASSUME NEW c
    PROVE  /\ Senders(c) = ChainOf(sender, sender[c])
           /\ Senders(c)' = ChainOf(sender', (sender')[c'])
<1>1. Senders(c) = ChainOf(sender, sender[c])
  BY DEF Senders, ChainOf, Walks
<1>2. Senders(c)' = ChainOf(sender', (sender')[c'])
  BY DEF Senders, ChainOf, Walks
<1> QED BY <1>1, <1>2

\* What can be reached from x is in every set that contains x and the senders of
\* its elements.
Reach(s, x) ==
    {y \in Ctx : \A S \in SUBSET CtxOrNil :
                     x \in S /\ (\A z \in S : z # Nil => s[z] \in S) => y \in S}

LEMMA ReachNil == ASSUME NEW s PROVE Reach(s, Nil) = {}
<1> SUFFICES ASSUME NEW y \in Reach(s, Nil) PROVE FALSE
  OBVIOUS
<1>1. {Nil} \in SUBSET CtxOrNil /\ Nil \notin Ctx
  BY NilIsNoContext DEF CtxOrNil
<1>2. y \in {Nil} /\ y \in Ctx
  BY <1>1 DEF Reach
<1> QED BY <1>1, <1>2

LEMMA ReachNext ==
    ASSUME NEW s \in [Ctx -> CtxOrNil], NEW x \in Ctx
    PROVE  Reach(s, x) = {x} \cup Reach(s, s[x])
<1>1. x # Nil /\ x \in CtxOrNil /\ s[x] \in CtxOrNil
  BY NilIsNoContext DEF CtxOrNil
<1>2. ASSUME NEW y \in Reach(s, x), y # x PROVE y \in Reach(s, s[x])
  <2> SUFFICES ASSUME NEW S \in SUBSET CtxOrNil, s[x] \in S,
                      \A z \in S : z # Nil => s[z] \in S
               PROVE  y \in S
    BY <1>2 DEF Reach
  <2>1. S \cup {x} \in SUBSET CtxOrNil /\ x \in S \cup {x}
    BY <1>1
  <2>2. \A z \in S \cup {x} : z # Nil => s[z] \in S \cup {x}
    OBVIOUS
  <2>3. y \in S \cup {x}
    BY <2>1, <2>2 DEF Reach
  <2> QED BY <2>3, <1>2
<1>3. x \in Reach(s, x)
  BY DEF Reach
<1>4. ASSUME NEW y \in Reach(s, s[x]) PROVE y \in Reach(s, x)
  <2> SUFFICES ASSUME NEW S \in SUBSET CtxOrNil, x \in S,
                      \A z \in S : z # Nil => s[z] \in S
               PROVE  y \in S
    BY <1>4 DEF Reach
  <2>1. s[x] \in S
    BY <1>1
  <2> QED BY <2>1 DEF Reach
<1> QED BY <1>2, <1>3, <1>4

LEMMA ChainExists == ASSUME NEW s \in [Ctx -> CtxOrNil] PROVE \E f : Walks(f, s)
<1> DEFINE f == [x \in CtxOrNil |-> Reach(s, x)]
<1>1. ASSUME NEW x \in CtxOrNil
      PROVE  Reach(s, x) = IF x = Nil THEN {} ELSE {x} \cup f[s[x]]
  <2>1. CASE x = Nil
    BY <2>1, ReachNil
  <2>2. CASE x # Nil
    <3>1. x \in Ctx /\ s[x] \in CtxOrNil
      BY <2>2 DEF CtxOrNil
    <3>2. f[s[x]] = Reach(s, s[x])
      BY <3>1
    <3> QED BY <2>2, <3>1, <3>2, ReachNext
  <2> QED BY <2>1, <2>2
<1>2. f = [x \in CtxOrNil |-> IF x = Nil THEN {} ELSE {x} \cup f[s[x]]]
  BY <1>1
<1> QED BY <1>2 DEF Walks

LEMMA ChainNext ==
    ASSUME NEW s \in [Ctx -> CtxOrNil]
    PROVE  /\ ChainOf(s, Nil) = {}
           /\ \A x \in Ctx : ChainOf(s, x) = {x} \cup ChainOf(s, s[x])
<1> DEFINE f == CHOOSE f : Walks(f, s)
<1>1. Walks(f, s)
  BY ChainExists
<1>2. \A x : ChainOf(s, x) = f[x]
  BY DEF ChainOf
<1> HIDE DEF f
<1>3. \A x \in CtxOrNil : f[x] = IF x = Nil THEN {} ELSE {x} \cup f[s[x]]
  BY <1>1 DEF Walks
<1>4. Nil \in CtxOrNil /\ \A x \in Ctx : x \in CtxOrNil /\ x # Nil
  BY NilIsNoContext DEF CtxOrNil
<1> QED BY <1>2, <1>3, <1>4

LEMMA ChainLeast ==
    ASSUME NEW s \in [Ctx -> CtxOrNil], NoCycles(s), NEW S \in SUBSET Ctx, Closed(s, S),
           NEW x \in CtxOrNil, x # Nil => x \in S
    PROVE  ChainOf(s, x) \subseteq S
<1> SUFFICES ASSUME NEW y \in ChainOf(s, x), y \notin S PROVE FALSE
  OBVIOUS
<1> DEFINE T == {z \in S : y \in ChainOf(s, z)}
<1>1. x # Nil
  BY ChainNext
<1>2. T \in SUBSET Ctx /\ T # {}
  BY <1>1
<1>3. PICK z \in T : s[z] \notin T
  BY <1>2 DEF NoCycles
<1>4. z \in S /\ z \in Ctx /\ y \in ChainOf(s, z) /\ y # z
  OBVIOUS
<1>5. y \in ChainOf(s, s[z])
  BY <1>4, ChainNext
<1>6. s[z] \in S
  BY <1>4, <1>5, ChainNext DEF Closed
<1> QED BY <1>3, <1>5, <1>6

\* A chain consists of contexts and contains the chains of its elements.
LEMMA ChainClosed ==
    ASSUME NEW s \in [Ctx -> CtxOrNil], NoCycles(s), NEW x \in CtxOrNil
    PROVE  /\ ChainOf(s, x) \subseteq Ctx /\ Closed(s, ChainOf(s, x))
           /\ x # Nil => x \in ChainOf(s, x)
           /\ \A y \in ChainOf(s, x) : ChainOf(s, y) \subseteq ChainOf(s, x)
<1> DEFINE S == {z \in Ctx : z \in ChainOf(s, x) /\ ChainOf(s, z) \subseteq ChainOf(s, x)}
<1>1. x # Nil => x \in ChainOf(s, x) /\ x \in S
  BY ChainNext DEF CtxOrNil
<1>2. ASSUME NEW z \in S, s[z] # Nil PROVE s[z] \in S
  <2>1. z \in Ctx /\ ChainOf(s, z) \subseteq ChainOf(s, x)
    OBVIOUS
  <2>2. s[z] \in Ctx
    BY <1>2, <2>1 DEF CtxOrNil
  <2>3. ChainOf(s, s[z]) \subseteq ChainOf(s, z) /\ s[z] \in ChainOf(s, s[z])
    BY <2>1, <2>2, ChainNext
  <2> QED BY <2>1, <2>2, <2>3
<1>3. Closed(s, S)
  BY <1>2 DEF Closed
<1>4. ChainOf(s, x) \subseteq S
  <2>1. S \in SUBSET Ctx
    OBVIOUS
  <2> HIDE DEF S
  <2> QED BY <1>1, <1>3, <2>1, ChainLeast
<1>5. \A z \in ChainOf(s, x) : s[z] = Nil \/ s[z] \in ChainOf(s, x)
  BY <1>2, <1>4
<1> QED BY <1>1, <1>4, <1>5 DEF Closed

LEMMA ChainIrreflexive ==
    ASSUME NEW s \in [Ctx -> CtxOrNil], NoCycles(s), NEW x \in Ctx
    PROVE  x \notin ChainOf(s, s[x])
<1> SUFFICES ASSUME x \in ChainOf(s, s[x]) PROVE FALSE
  OBVIOUS
<1> DEFINE T == {z \in Ctx : x \in ChainOf(s, s[z])}
<1>1. PICK z \in T : s[z] \notin T
  BY DEF NoCycles
<1>2. z \in Ctx /\ s[z] \in CtxOrNil /\ x \in ChainOf(s, s[z])
  OBVIOUS
<1>3. s[z] \in Ctx
  BY <1>2, ChainNext DEF CtxOrNil
<1>4. x = s[z] \/ x \in ChainOf(s, s[s[z]])
  BY <1>2, <1>3, ChainNext
<1> QED BY <1>1, <1>3, <1>4

LEMMA ChainLinear ==
    ASSUME NEW s \in [Ctx -> CtxOrNil], NoCycles(s), NEW c \in CtxOrNil,
           NEW x \in ChainOf(s, c), NEW y \in ChainOf(s, c)
    PROVE  x \in ChainOf(s, y) \/ y \in ChainOf(s, x)
<1> DEFINE S == {z \in Ctx : z \in ChainOf(s, y) \/ y \in ChainOf(s, z)}
<1>1. x \in Ctx /\ y \in Ctx /\ y \in CtxOrNil
  BY ChainClosed DEF CtxOrNil
<1>2. c # Nil => c \in S
  BY DEF CtxOrNil
<1>3. ASSUME NEW z \in S, s[z] # Nil PROVE s[z] \in S
  <2>1. z \in Ctx /\ s[z] \in Ctx
    BY <1>3 DEF CtxOrNil
  <2>2. CASE z \in ChainOf(s, y)
    BY <1>1, <1>3, <2>1, <2>2, ChainClosed DEF Closed
  <2>3. CASE y \in ChainOf(s, z) /\ y = z
    BY <1>1, <2>1, <2>3, ChainNext
  <2>4. CASE y \in ChainOf(s, z) /\ y # z
    BY <2>1, <2>4, ChainNext
  <2> QED BY <2>2, <2>3, <2>4
<1>4. S \in SUBSET Ctx /\ Closed(s, S)
  BY <1>3 DEF Closed
<1> HIDE DEF S
<1>5. x \in S
  BY <1>2, <1>4, ChainLeast
<1> QED BY <1>5 DEF S

\* Two contexts of a chain with the same sender are the same.
LEMMA ChainInjective ==
    ASSUME NEW s \in [Ctx -> CtxOrNil], NoCycles(s), NEW c \in CtxOrNil,
           NEW x \in ChainOf(s, c), NEW y \in ChainOf(s, c), s[x] = s[y]
    PROVE  x = y
<1>1. x \in Ctx /\ y \in Ctx
  BY ChainClosed
<1>2. x \notin ChainOf(s, s[x]) /\ y \notin ChainOf(s, s[y])
  BY <1>1, ChainIrreflexive
<1>3. x \in ChainOf(s, y) \/ y \in ChainOf(s, x)
  BY ChainLinear
<1> QED BY <1>1, <1>2, <1>3, ChainNext

\* A chain depends on the senders of its elements only.
LEMMA ChainSame ==
    ASSUME NEW s \in [Ctx -> CtxOrNil], NoCycles(s), NEW t \in [Ctx -> CtxOrNil], NoCycles(t),
           NEW x \in CtxOrNil, \A y \in ChainOf(s, x) : t[y] = s[y]
    PROVE  ChainOf(t, x) = ChainOf(s, x)
<1>1. /\ ChainOf(s, x) \in SUBSET Ctx /\ Closed(s, ChainOf(s, x))
      /\ x # Nil => x \in ChainOf(s, x)
  BY ChainClosed
<1>2. /\ ChainOf(t, x) \in SUBSET Ctx /\ Closed(t, ChainOf(t, x))
      /\ x # Nil => x \in ChainOf(t, x)
  BY ChainClosed
<1>3. Closed(t, ChainOf(s, x))
  BY <1>1 DEF Closed
<1>4. ChainOf(t, x) \subseteq ChainOf(s, x)
  BY <1>1, <1>3, ChainLeast
<1>5. Closed(s, ChainOf(t, x))
  BY <1>2, <1>4 DEF Closed
<1>6. ChainOf(s, x) \subseteq ChainOf(t, x)
  BY <1>2, <1>5, ChainLeast
<1> QED BY <1>4, <1>6

\* A new context, which nothing refers to, and one that gets no sender.
LEMMA NoCyclesPush ==
    ASSUME NEW s \in [Ctx -> CtxOrNil], NoCycles(s), NEW n \in Ctx, NEW c \in Ctx, c # n,
           \A x \in Ctx : s[x] # n
    PROVE  NoCycles([s EXCEPT ![n] = c])
<1> DEFINE t == [s EXCEPT ![n] = c]
<1> SUFFICES ASSUME NEW S \in SUBSET Ctx, S # {} PROVE \E x \in S : t[x] \notin S
  BY DEF NoCycles
<1>1. CASE S \ {n} = {}
  BY <1>1
<1>2. CASE S \ {n} # {}
  <2>1. PICK x \in S \ {n} : s[x] \notin S \ {n}
    BY <1>2 DEF NoCycles
  <2>2. t[x] = s[x] /\ s[x] # n
    BY <2>1
  <2> QED BY <2>1, <2>2
<1> QED BY <1>1, <1>2

LEMMA NoCyclesMark ==
    ASSUME NEW s \in [Ctx -> CtxOrNil], NoCycles(s), NEW c \in Ctx
    PROVE  NoCycles([s EXCEPT ![c] = Nil])
<1> DEFINE t == [s EXCEPT ![c] = Nil]
<1> SUFFICES ASSUME NEW S \in SUBSET Ctx, S # {} PROVE \E x \in S : t[x] \notin S
  BY DEF NoCycles
<1>1. PICK x \in S : s[x] \notin S
  BY DEF NoCycles
<1>2. t[x] = s[x] \/ t[x] = Nil
  OBVIOUS
<1> QED BY <1>1, <1>2, NilIsNoContext

-----------------------------------------------------------------------------
(* Where values arrive *)

LEMMA LeastOf ==
    ASSUME NEW T \in SUBSET Nat, T # {}
    PROVE  \E i \in T : \A j \in T : i <= j
<1>1. PICK i \in T : \A j \in T : ~ (<<j, i>> \in OpToRel(<, Nat))
  BY NatLessThanWellFounded, WFMin
<1>2. \A j \in T : ~ (j < i)
  BY <1>1 DEF OpToRel
<1> QED BY <1>2

\* Frames i to m are those of Active contexts.
ActiveFrames(i, m) == \A j \in i .. m : state[stack[j].ctx] = "Active"

\* What calls Active frames is among the senders of the context above them.
LEMMA CallersAreSenders ==
    ASSUME FrameInv, Linked, stack # << >>, NEW i \in 1 .. Len(stack),
           ActiveFrames(i, Len(stack)), ReturnsTo(i) # Nil
    PROVE  ReturnsTo(i) \in Senders(Top.ctx)
<1> PICK m \in Nat : m = Len(stack) /\ i \in 1 .. m /\ m \in 1 .. m /\ Top = stack[m]
  BY FrameFacts
<1> PICK s \in [Ctx -> CtxOrNil] : s = sender
  BY DEF FrameInv, TypeOK
<1> DEFINE below == ChainOf(s, s[Top.ctx])
           T == {d \in Nat : d <= m - i /\ ~ (ChainOf(s, ReturnsTo(m - d)) \subseteq below)}
<1>1. Senders(Top.ctx) = below
  BY SendersChain
<1>2. \A k \in i .. m : k \in 1 .. m /\ stack[k].ctx \in Ctx /\ s[stack[k].ctx] = ReturnsTo(k)
  BY FrameFacts DEF ActiveFrames, Linked
<1>3. T = {}
  <2> SUFFICES ASSUME T # {} PROVE FALSE
    OBVIOUS
  <2>1. PICK d \in T : \A e \in T : d <= e
    BY LeastOf
  <2>2. d \in Nat /\ d <= m - i /\ ~ (ChainOf(s, ReturnsTo(m - d)) \subseteq below)
    OBVIOUS
  <2>3. d # 0
    <3> SUFFICES ASSUME d = 0 PROVE FALSE
      OBVIOUS
    <3>1. m - d = m /\ m \in i .. m
      OBVIOUS
    <3>2. s[Top.ctx] = ReturnsTo(m - d)
      BY <1>2, <3>1
    <3> QED BY <2>2, <3>2
  <2> PICK k \in Nat : k = m - d
    BY <2>2
  <2>4. k \in i .. m /\ k + 1 \in i .. m /\ k + 1 = m - (d - 1) /\ d - 1 \in Nat /\ d - 1 <= m - i
        /\ k + 1 > 1 /\ (k + 1) - 1 = k /\ ~ (d <= d - 1)
    BY <2>2, <2>3
  <2>5. d - 1 \notin T
    <3> HIDE DEF T
    <3> QED BY <2>1, <2>4
  <2>6. ChainOf(s, ReturnsTo(k + 1)) \subseteq below
    BY <2>4, <2>5
  <2>7. ReturnsTo(k + 1) = stack[k].ctx
    BY <2>4 DEF ReturnsTo, Caller
  <2>8. ChainOf(s, stack[k].ctx) = {stack[k].ctx} \cup ChainOf(s, ReturnsTo(k))
    BY <1>2, <2>4, ChainNext
  <2> QED BY <2>2, <2>6, <2>7, <2>8
<1>4. ChainOf(s, ReturnsTo(i)) \subseteq below
  <2>1. PICK d \in Nat : d <= m - i /\ m - d = i
    <3>1. m - i \in Nat /\ m - i <= m - i /\ m - (m - i) = i
      OBVIOUS
    <3> HIDE DEF T, below
    <3> QED BY <3>1
  <2>2. d \notin T
    BY <1>3
  <2>3. ChainOf(s, ReturnsTo(m - d)) \subseteq below
    <3> HIDE DEF below
    <3> QED BY <2>1, <2>2
  <2> QED BY <2>1, <2>3
<1>5. ReturnsTo(i) \in Ctx
  <2>1. i \in i .. m
    OBVIOUS
  <2> QED BY <1>2, <2>1 DEF CtxOrNil
<1>6. ReturnsTo(i) \in ChainOf(s, ReturnsTo(i))
  BY <1>5, ChainNext
<1> QED BY <1>1, <1>4, <1>6

\* No frame up to m is held back by a cleanup block, if cleanup blocks do not
\* return non-locally.
Clear(m) ==
    "return_cleanup" \notin ImageDoes =>
        \A i \in 1 .. m : stack[i].pending = NoException

\* A Return that goes to another frame than those from m down does not meet one
\* that has called an Active frame.
Missed(r, m) ==
    r.goal = Nil =>
        \A i \in 1 .. m : ActiveFrames(i, m) => stack[i].sender # r.target

\* A Return passes the frames from m down.
Passes(r, m) ==
    /\ r.target # Nil /\ r.goal \in {r.target, Nil}
    /\ "stray" \notin ImageDoes => r.goal # Nil
    /\ Missed(r, m) /\ Clear(m)

\* It has arrived at frame m, or at the loop.
Comes(r, m) ==
    /\ m > 0 => stack[m].ctx = r.goal
    /\ m = 0 /\ unwind = NoUnwind => r.goal \in {loopSender, Nil}

Means(e, m) ==
    /\ e.type = "Return" => IF e.arrived THEN Comes(e, m) ELSE Passes(e, m)
    /\ e.type = "NonVirtualReturn" => e.goal \in {e.target, Nil}

\* A local Return has just been raised.
RaisedHere ==
    /\ exc.type = "Return" /\ ~ exc.arrived /\ exc.target = Nil
    /\ stack # << >> /\ Top.pending = NoException /\ exc.goal = sender[Top.ctx]

Meant == \A e, m : e = exc /\ m = Len(stack) => Means(e, m)

PendingMeant ==
    \A i \in 1 .. Len(stack) : \A e, m : e = stack[i].pending /\ m = i - 1 => Means(e, m)

MeantInv ==
    /\ RaisedHere \/ Meant
    /\ PendingMeant
    /\ unwind # NoUnwind => unwind.goal \in {unwind.target, Nil}
    /\ stack # << >> /\ exc = NoException => Top.pending = NoException
    /\ "sender" \notin ImageDoes => \A c \in Ctx : state[c] # "Dirty"

\* The return of a block from cleanup code to a context below which senders have
\* changed is left out.
NoCrossing ==
    /\ "sender_nil" \notin ImageDoes
    /\ ~ ({"sender", "stray", "return_cleanup"} \subseteq ImageDoes)

LEMMA MeansNothing ==
    ASSUME NEW e, NEW m, e.type \notin {"Return", "NonVirtualReturn"}
    PROVE  Means(e, m) /\ Means(e, m)'
  BY DEF Means

LEMMA NoExceptionMeans ==
    ASSUME NEW m PROVE Means(NoException, m) /\ Means(NoException, m)'
<1>1. NoException.type = "none"
  BY DEF NoException
<1> QED BY <1>1 DEF Means

\* The frames up to m are the same after the step.
Stay(m) ==
    /\ m <= Len(stack) /\ m <= Len(stack')
    /\ \A i \in 1 .. m :
          /\ stack'[i].ctx = stack[i].ctx /\ stack'[i].sender = stack[i].sender
          /\ stack'[i].pending = stack[i].pending
          /\ state'[stack[i].ctx] = state[stack[i].ctx]
    /\ loopSender' = loopSender /\ unwind' = unwind

LEMMA MeansKept ==
    ASSUME NEW e, NEW m \in Nat, Stay(m), Means(e, m)
    PROVE  Means(e, m)'
<1>1. \A i \in 1 .. m : /\ stack'[i].ctx = stack[i].ctx /\ stack'[i].sender = stack[i].sender
                        /\ stack'[i].pending = stack[i].pending
                        /\ state'[stack[i].ctx] = state[stack[i].ctx]
  BY DEF Stay
<1>2. Comes(e, m) => Comes(e, m)'
  <2>1. m > 0 => m \in 1 .. m
    OBVIOUS
  <2> QED BY <1>1, <2>1 DEF Comes, Stay
<1>3. \A i \in 1 .. m : ActiveFrames(i, m)' = ActiveFrames(i, m)
  <2>1. \A i \in 1 .. m : \A j \in i .. m : j \in 1 .. m
    OBVIOUS
  <2> QED BY <1>1, <2>1 DEF ActiveFrames
<1>4. Missed(e, m) => Missed(e, m)'
  BY <1>1, <1>3 DEF Missed
<1>5. Clear(m) => Clear(m)'
  BY <1>1 DEF Clear
<1>6. Passes(e, m) => Passes(e, m)'
  BY <1>4, <1>5 DEF Passes
<1> QED BY <1>2, <1>6 DEF Means

LEMMA ReturnFields ==
    ASSUME NEW e \in Exception, e.type = "Return", NEW b \in BOOLEAN
    PROVE  /\ [e EXCEPT !.arrived = b].type = "Return"
           /\ [e EXCEPT !.arrived = b].arrived = b
           /\ [e EXCEPT !.arrived = b].target = e.target
           /\ [e EXCEPT !.arrived = b].goal = e.goal
<1>1. e \in [type : {"Return"}, target : CtxOrNil, arrived : BOOLEAN, goal : CtxOrNil]
  BY DEF Exception, NoException
<1> QED BY <1>1

\* What the handler raises for the Return that leaves the top frame.
LEMMA ReraisedMeans ==
    ASSUME FrameInv, Linked, MeantInv, stack # << >>, exc.type = "Return", ~ exc.arrived
    PROVE  Means(Reraised(Top, exc), Len(stack) - 1)
<1> PICK m \in Nat : m = Len(stack) /\ m \in 1 .. m /\ Top = stack[m]
  BY FrameFacts
<1> PICK k \in Nat : k = m - 1
  OBVIOUS
<1> PICK r : r = Reraised(Top, exc)
  OBVIOUS
<1>1. exc \in Exception /\ Nil \notin Ctx
  BY NilIsNoContext DEF FrameInv, TypeOK
<1>2. RaisedHere \/ Passes(exc, m)
  BY DEF MeantInv, Meant, Means
<1>3. Top.sender = Caller(m) /\ (state[Top.ctx] = "Active" => sender[Top.ctx] = ReturnsTo(m))
  BY DEF Linked
<1>4. CASE state[Top.ctx] = "Dirty"
  <2> PICK t : t = IF exc.target = Nil THEN sender[Top.ctx] ELSE exc.target
    OBVIOUS
  <2>1. r = NonVirtualReturn(t, sender[Top.ctx], exc.goal)
    BY <1>4 DEF Reraised
  <2>2. r.type = "NonVirtualReturn" /\ r.target = t /\ r.goal = exc.goal
    BY <2>1 DEF NonVirtualReturn
  <2>3. exc.goal \in {t, Nil}
    BY <1>2 DEF RaisedHere, Passes
  <2> QED BY <2>2, <2>3 DEF Means
<1>5. CASE state[Top.ctx] # "Dirty"
  <2>1. state[Top.ctx] = "Active"
    BY <1>5, TopFacts DEF FrameInv, TypeOK, States
  <2> PICK b \in BOOLEAN : b = (exc.target = Nil \/ exc.target = Top.sender)
    OBVIOUS
  <2>2. r = [exc EXCEPT !.arrived = b]
    BY <1>5 DEF Reraised
  <2>3. r.type = "Return" /\ r.arrived = b /\ r.target = exc.target /\ r.goal = exc.goal
    BY <1>1, <2>2, ReturnFields
  <2>4. /\ k > 0 => ReturnsTo(m) = stack[k].ctx /\ Caller(m) = stack[k].ctx
        /\ k = 0 /\ unwind = NoUnwind => ReturnsTo(m) = loopSender /\ Caller(m) = Nil
    BY DEF ReturnsTo, Caller, NoUnwind
  <2>5. CASE RaisedHere
    <3>1. b /\ r.goal = ReturnsTo(m)
      BY <1>3, <2>1, <2>3, <2>5 DEF RaisedHere
    <3>2. Comes(r, k)
      BY <2>4, <3>1 DEF Comes
    <3> QED BY <2>3, <3>1, <3>2 DEF Means
  <2>6. CASE Passes(exc, m) /\ b
    <3>1. ActiveFrames(m, m)
      BY <2>1 DEF ActiveFrames
    <3>2. exc.target = Top.sender /\ exc.target # Nil /\ exc.goal # Nil
      BY <2>6, <3>1 DEF Passes, Missed
    <3>3. exc.goal = Caller(m) /\ Caller(m) # Nil
      BY <1>3, <2>6, <3>2 DEF Passes
    <3>4. Comes(r, k)
      BY <2>3, <2>4, <3>3 DEF Comes
    <3> QED BY <2>3, <2>6, <3>4 DEF Means
  <2>7. CASE Passes(exc, m) /\ ~ b
    <3>1. ASSUME NEW i \in 1 .. k, ActiveFrames(i, k) PROVE ActiveFrames(i, m) /\ i \in 1 .. m
      <4>1. \A j \in i .. m : j \in i .. k \/ j = m
        OBVIOUS
      <4> QED BY <2>1, <3>1, <4>1 DEF ActiveFrames
    <3>2. Missed(r, k)
      BY <2>3, <2>7, <3>1 DEF Passes, Missed
    <3>3. Clear(k)
      BY <2>7 DEF Passes, Clear
    <3>4. Passes(r, k)
      BY <2>3, <2>7, <3>2, <3>3 DEF Passes
    <3> QED BY <2>3, <2>7, <3>4 DEF Means
  <2> QED BY <1>2, <2>5, <2>6, <2>7
<1> QED BY <1>4, <1>5

\* An exception that comes out of a cleanup block instead of its return passes the
\* frame that has evaluated the block.
LEMMA PassesHolder ==
    ASSUME FrameInv, MeantInv, NoCrossing, stack # << >>, Top.pending # NoException,
           exc # NoException, ~ (exc.type = "Return" /\ exc.arrived)
    PROVE  Means(exc, Len(stack) - 1)
<1> PICK m \in Nat : m = Len(stack) /\ m \in 1 .. m /\ Top = stack[m]
  BY FrameFacts
<1> PICK k \in Nat : k = m - 1
  OBVIOUS
<1>1. Means(exc, m)
  BY DEF MeantInv, Meant, RaisedHere
<1>2. CASE exc.type # "Return"
  BY <1>1, <1>2 DEF Means
<1>3. CASE exc.type = "Return"
  <2>1. Passes(exc, m)
    BY <1>1, <1>3 DEF Means
  <2>2. "return_cleanup" \in ImageDoes
    BY <2>1 DEF Passes, Clear
  <2>3. CASE "stray" \notin ImageDoes
    BY <1>3, <2>1, <2>2, <2>3 DEF Passes, Missed, Clear, Means
  <2>4. CASE "sender" \notin ImageDoes
    <3>1. state[Top.ctx] = "Active"
      BY <2>4, TopFacts DEF MeantInv, FrameInv, TypeOK, States
    <3>2. ASSUME NEW i \in 1 .. k, ActiveFrames(i, k) PROVE ActiveFrames(i, m) /\ i \in 1 .. m
      <4>1. \A j \in i .. m : j \in i .. k \/ j = m
        OBVIOUS
      <4> QED BY <3>1, <3>2, <4>1 DEF ActiveFrames
    <3>3. Missed(exc, k)
      BY <2>1, <3>2 DEF Passes, Missed
    <3> QED BY <1>3, <2>1, <2>2, <3>3 DEF Passes, Clear, Means
  <2> QED BY <2>2, <2>3, <2>4 DEF NoCrossing
<1> QED BY <1>2, <1>3

\* A context is entered.
LEMMA MeantPush ==
    ASSUME FrameInv, Linked, MeantInv, NEW n, NEW k, NEW o, NEW c, NEW fs,
           Pushes(n, k, o, c, fs), stack = << >> \/ unwind' = unwind,
           unwind' # NoUnwind => unwind'.goal \in {unwind'.target, Nil},
           \A i \in 1 .. Len(stack) : \A e, j : e = fs[i].pending /\ j = i - 1 => Means(e, j),
           \A i \in 1 .. Len(stack) - 1 : fs[i] = stack[i]
    PROVE  MeantInv'
<1> PICK m \in Nat : m = Len(stack)
  BY FrameFacts
<1>1. /\ n \in Ctx /\ kind[n] = "free" /\ state' = [state EXCEPT ![n] = "Active"]
      /\ loopSender' = loopSender /\ exc' = NoException /\ SameFrames(fs)
  BY DEF Pushes, Enter
<1>2. /\ Len(stack') = m + 1 /\ stack'[m + 1] = Frame(n, c)
      /\ \A i \in 1 .. m : stack'[i] = fs[i] /\ stack[i].ctx # n
  BY LinkedPush
<1>3. Frame(n, c).pending = NoException /\ NoException.type = "none"
  BY DEF Frame, NoException
<1>4. Top' = stack'[m + 1]
  BY <1>2 DEF Top, Last
<1>5. \A i \in 1 .. m : state'[stack[i].ctx] = state[stack[i].ctx]
  BY <1>1, <1>2, FrameFacts DEF FrameInv, TypeOK
<1>6. ASSUME NEW j \in Nat, j < m, unwind' = unwind PROVE Stay(j)
  <2>1. j <= Len(stack) /\ j <= Len(stack')
    BY <1>2, <1>6
  <2>2. \A i \in 1 .. j : i \in 1 .. m - 1 /\ i \in 1 .. m
    BY <1>6
  <2>3. \A i \in 1 .. j : stack'[i] = stack[i]
    BY <2>2, <1>2
  <2> QED BY <1>1, <1>5, <1>6, <2>1, <2>2, <2>3 DEF Stay
<1>7. Meant'
  <2> SUFFICES ASSUME NEW j PROVE Means(NoException, j)'
    BY <1>1 DEF Meant
  <2> QED BY NoExceptionMeans
<1>8. ASSUME NEW i \in 1 .. m + 1, NEW e, NEW j, e = stack'[i].pending, j = i - 1
      PROVE  Means(e, j)'
  <2>1. CASE i = m + 1
    <3>1. e.type = "none"
      BY <1>2, <1>3, <1>8, <2>1
    <3> QED BY <3>1, MeansNothing
  <2>2. CASE i \in 1 .. m
    <3>1. e = fs[i].pending
      BY <1>2, <1>8, <2>2
    <3>2. Means(e, j)
      BY <1>8, <2>2, <3>1
    <3>3. j \in Nat /\ j < m /\ unwind' = unwind
      BY <1>8, <2>2, FrameFacts
    <3>4. Stay(j)
      BY <1>6, <3>3
    <3> QED BY <3>2, <3>3, <3>4, MeansKept
  <2> QED BY <2>1, <2>2
<1>9. PendingMeant'
  BY <1>2, <1>8 DEF PendingMeant
<1>10. "sender" \notin ImageDoes => \A x \in Ctx : state'[x] # "Dirty"
  BY <1>1 DEF MeantInv, FrameInv, TypeOK
<1> QED BY <1>1, <1>2, <1>3, <1>4, <1>7, <1>9, <1>10 DEF MeantInv

\* A frame is left.
LEMMA MeantPop ==
    ASSUME FrameInv, Linked, MeantInv, stack # << >>, PopFrame,
           UNCHANGED <<loopSender, unwind>>, sender' \in [Ctx -> CtxOrNil],
           \A x \in Ctx : x # Top.ctx => sender'[x] = sender[x],
           exc' # NoException, \A e, j : e = exc' /\ j = Len(stack) - 1 => Means(e, j)
    PROVE  MeantInv'
<1> PICK m \in Nat \ {0} : m = Len(stack)
  BY FrameFacts
<1>1. /\ Len(stack') = m - 1
      /\ \A i \in 1 .. m - 1 : /\ stack'[i] = stack[i]
                               /\ state'[stack[i].ctx] = state[stack[i].ctx]
  BY LinkedPop
<1>2. ASSUME NEW j \in Nat, j <= m - 1 PROVE Stay(j)
  <2>1. j <= Len(stack) /\ j <= Len(stack') /\ \A i \in 1 .. j : i \in 1 .. m - 1
    BY <1>1, <1>2
  <2> QED BY <1>1, <2>1 DEF Stay
<1>3. Meant'
  <2> SUFFICES ASSUME NEW e, NEW j, e = exc', j = Len(stack') PROVE Means(e, j)'
    BY DEF Meant
  <2>1. j = m - 1 /\ j \in Nat /\ Means(e, j)
    BY <1>1
  <2> QED BY <1>2, <2>1, MeansKept
<1>4. PendingMeant'
  <2> SUFFICES ASSUME NEW i \in 1 .. m - 1, NEW e, NEW j, e = stack'[i].pending, j = i - 1
               PROVE  Means(e, j)'
    BY <1>1 DEF PendingMeant
  <2>1. e = stack[i].pending /\ i \in 1 .. m /\ j \in Nat /\ j <= m - 1
    BY <1>1
  <2>2. Means(e, j)
    BY <2>1 DEF MeantInv, PendingMeant
  <2> QED BY <1>2, <2>1, <2>2, MeansKept
<1>5. "sender" \notin ImageDoes => \A x \in Ctx : state'[x] # "Dirty"
  <2>1. state' = [state EXCEPT ![Top.ctx] = "Inactive"]
    BY DEF PopFrame
  <2> QED BY <2>1 DEF MeantInv, FrameInv, TypeOK
<1> QED BY <1>3, <1>4, <1>5 DEF MeantInv

\* The frames stay as they are.
LEMMA MeantRaise ==
    ASSUME FrameInv, MeantInv, UNCHANGED <<stack, state, loopSender, unwind>>,
           exc' = NoException /\ stack # << >> => Top.pending = NoException,
           RaisedHere' \/ \A e, j : e = exc' /\ j = Len(stack) => Means(e, j)
    PROVE  MeantInv'
<1>1. \A j \in Nat : j <= Len(stack) => Stay(j)
  BY DEF Stay
<1>2. Len(stack) \in Nat
  BY FrameFacts
<1>3. RaisedHere' \/ Meant'
  <2> SUFFICES ASSUME NEW e, NEW j, e = exc', j = Len(stack), Means(e, j) PROVE Means(e, j)'
    BY DEF Meant
  <2> QED BY <1>1, <1>2, MeansKept
<1>4. PendingMeant'
  <2> SUFFICES ASSUME NEW i \in 1 .. Len(stack), NEW e, NEW j, e = stack[i].pending, j = i - 1
               PROVE  Means(e, j)'
    BY DEF PendingMeant
  <2>1. Means(e, j)
    BY DEF MeantInv, PendingMeant
  <2>2. j \in Nat /\ j <= Len(stack)
    BY <1>2
  <2> QED BY <1>1, <2>1, <2>2, MeansKept
<1>5. Top' = Top
  BY DEF Top, Last
<1> QED BY <1>3, <1>4, <1>5 DEF MeantInv

\* The loop runs without frames, or starts one.
LEMMA MeantLoop ==
    ASSUME FrameInv, MeantInv, stack = << >>, exc' = NoException,
           unwind' # NoUnwind => unwind'.goal \in {unwind'.target, Nil},
           \/ UNCHANGED <<stack, state>>
           \/ \E c \in Ctx : Start(c)
    PROVE  MeantInv'
<1>1. Meant'
  <2> SUFFICES ASSUME NEW j PROVE Means(NoException, j)'
    BY DEF Meant
  <2> QED BY NoExceptionMeans
<1>2. CASE UNCHANGED <<stack, state>>
  <2>1. Len(stack') = 0 /\ stack' = << >>
    BY <1>2
  <2>2. PendingMeant'
    BY <2>1 DEF PendingMeant
  <2> QED BY <1>1, <1>2, <2>1, <2>2 DEF MeantInv
<1>3. ASSUME NEW c \in Ctx, Start(c) PROVE MeantInv'
  <2>1. stack' = <<Frame(c, Nil)>> /\ state' = [state EXCEPT ![c] = "Active"]
    BY <1>3 DEF Start
  <2>2. Len(stack') = 1 /\ stack'[1] = Frame(c, Nil)
    BY <2>1
  <2>3. Frame(c, Nil).pending = NoException /\ NoException.type = "none"
    BY DEF Frame, NoException
  <2>4. Top' = stack'[1]
    BY <2>2 DEF Top, Last
  <2>5. PendingMeant'
    <3> SUFFICES ASSUME NEW i \in 1 .. 1, NEW e, NEW j, e = stack'[i].pending
                 PROVE  Means(e, j)'
      BY <2>2 DEF PendingMeant
    <3>1. e.type = "none"
      BY <2>2, <2>3
    <3> QED BY <3>1, MeansNothing
  <2>6. "sender" \notin ImageDoes => \A x \in Ctx : state'[x] # "Dirty"
    BY <2>1 DEF MeantInv, FrameInv, TypeOK
  <2> QED BY <1>1, <2>2, <2>3, <2>4, <2>5, <2>6 DEF MeantInv
<1> QED BY <1>2, <1>3

\* The running context raises an exception.
LEMMA MeantRaised ==
    ASSUME FrameInv, Linked, MeantInv, NEW c \in Ctx,
           ReturnLocal(c) \/ ReturnNonLocal(c) \/ Fork(c) \/ Terminate(c)
           \/ \E d \in Ctx : Switch(c, d)
    PROVE  MeantInv'
<1> PICK m \in Nat : m = Len(stack)
  BY FrameFacts
<1>1. /\ UNCHANGED <<stack, state, sender, loopSender, unwind>> /\ Executes(c)
  BY DEF ReturnLocal, ReturnNonLocal, Fork, Terminate, Switch, Raise, Halt
<1>2. /\ stack # << >> /\ exc = NoException /\ c = Top.ctx /\ Top.pending = NoException
      /\ Top' = Top
  BY <1>1 DEF Executes, MeantInv, Top, Last
<1>3. CASE exc' = exc
  <2>1. \A e, j : e = exc' => Means(e, j)
    BY <1>2, <1>3, NoExceptionMeans
  <2> QED BY <1>1, <1>2, <2>1, MeantRaise
<1>4. CASE exc' = Return(Nil, sender[c])
  <2>1. exc'.type = "Return" /\ ~ exc'.arrived /\ exc'.target = Nil /\ exc'.goal = sender[c]
    BY <1>4 DEF Return
  <2>2. RaisedHere'
    BY <1>1, <1>2, <2>1 DEF RaisedHere
  <2> QED BY <1>1, <1>2, <2>2, MeantRaise
<1>5. ASSUME NEW d, exc' = ProcessSwitch(d) PROVE MeantInv'
  <2>1. exc'.type = "ContextSwitch"
    BY <1>5 DEF ProcessSwitch
  <2>2. \A e, j : e = exc' => Means(e, j)
    BY <2>1, MeansNothing
  <2> QED BY <1>1, <1>2, <2>2, MeantRaise
<1>6. ASSUME NEW t, t # Nil, ReturnNonLocal(c), t \in Senders(c) \/ "stray" \in ImageDoes,
             exc' = Return(t, IF t \in Senders(c) THEN t ELSE Nil)
      PROVE  MeantInv'
  <2> PICK r : r = Return(t, IF t \in Senders(c) THEN t ELSE Nil)
    OBVIOUS
  <2>1. /\ r.type = "Return" /\ ~ r.arrived /\ r.target = t
        /\ r.goal = IF t \in Senders(c) THEN t ELSE Nil
    BY DEF Return
  <2>2. Missed(r, m)
    <3> SUFFICES ASSUME t \notin Senders(c), NEW i \in 1 .. m, ActiveFrames(i, m),
                        stack[i].sender = t
                 PROVE  FALSE
      BY <1>6, <2>1 DEF Missed
    <3>1. t = Caller(i)
      BY DEF Linked
    <3>2. ReturnsTo(i) = t
      BY <3>1, <1>6 DEF ReturnsTo, Caller
    <3>3. t \in Senders(Top.ctx)
      BY <1>2, <1>6, <3>2, CallersAreSenders
    <3> QED BY <1>2, <3>3
  <2>3. Clear(m)
    BY <1>6 DEF ReturnNonLocal, PendingReturn, Clear
  <2>4. Passes(r, m)
    BY <1>6, <2>1, <2>2, <2>3 DEF Passes
  <2>5. Means(r, m)
    BY <2>1, <2>4 DEF Means
  <2>6. exc' # NoException /\ exc' = r
    BY <1>6, <2>1 DEF NoException
  <2> QED BY <1>1, <2>5, <2>6, MeantRaise
<1>7. CASE ReturnLocal(c)
  BY <1>4, <1>7 DEF ReturnLocal, Raise
<1>8. CASE ReturnNonLocal(c)
  <2>1. CASE exc' = exc
    BY <1>3, <2>1
  <2>2. CASE exc' # exc
    <3>1. PICK h \in Ctx :
              /\ sender[h] # Nil
              /\ sender[h] \in Senders(c) \/ "stray" \in ImageDoes
              /\ Raise(Return(sender[h], IF sender[h] \in Senders(c) THEN sender[h] ELSE Nil))
      BY <1>8, <2>2 DEF ReturnNonLocal, Halt
    <3> PICK t : t = sender[h]
      OBVIOUS
    <3>2. /\ t # Nil /\ (t \in Senders(c) \/ "stray" \in ImageDoes)
          /\ exc' = Return(t, IF t \in Senders(c) THEN t ELSE Nil)
      BY <3>1 DEF Raise
    <3>3. t # Nil
      BY <3>1
    <3> QED BY <1>6, <1>8, <3>1, <3>2, <3>3
  <2> QED BY <2>1, <2>2
<1>9. CASE Fork(c)
  BY <1>3, <1>9 DEF Fork
<1>10. CASE Terminate(c) \/ \E d \in Ctx : Switch(c, d)
  BY <1>5, <1>10 DEF Terminate, Switch, Raise
<1> QED BY <1>7, <1>8, <1>9, <1>10

LEMMA MeantStore ==
    ASSUME FrameInv, MeantInv, NoCrossing, NEW x \in Ctx, NEW s \in CtxOrNil, StoreSender(x, s)
    PROVE  MeantInv'
<1>1. /\ unwind = NoUnwind /\ exc = NoException /\ ~ PendingReturn
      /\ UNCHANGED <<stack, exc, loopSender, unwind>>
      /\ "sender" \in ImageDoes
  BY DEF StoreSender, InCleanup, Executes, NoCrossing
<1>2. Meant'
  <2> SUFFICES ASSUME NEW j PROVE Means(NoException, j)'
    BY <1>1 DEF Meant
  <2> QED BY NoExceptionMeans
<1>3. PendingMeant'
  <2> SUFFICES ASSUME NEW i \in 1 .. Len(stack), NEW j PROVE Means(NoException, j)'
    BY <1>1 DEF PendingMeant, PendingReturn
  <2> QED BY NoExceptionMeans
<1>4. Top' = Top
  BY <1>1 DEF Top, Last
<1> QED BY <1>1, <1>2, <1>3, <1>4 DEF MeantInv

LEMMA MeantLeave ==
    ASSUME FrameInv, Linked, MeantInv, NoCrossing,
           LeaveByReturn \/ LeaveAfterCleanup \/ LeaveByOther
    PROVE  MeantInv'
<1>1. /\ stack # << >> /\ exc # NoException /\ PopFrame /\ UNCHANGED <<loopSender, unwind>>
      /\ Unwind(Top.ctx) \/ MarkReturned(Top.ctx) \/ UNCHANGED sender
  BY DEF LeaveByReturn, LeaveAfterCleanup, LeaveByOther, Travels
<1>2. Top.ctx \in Ctx /\ Top.pending \in Exception /\ Top = stack[Len(stack)]
      /\ Len(stack) \in 1 .. Len(stack)
  BY <1>1, TopFacts, FrameFacts
<1>3. sender' \in [Ctx -> CtxOrNil] /\ \A x \in Ctx : x # Top.ctx => sender'[x] = sender[x]
  <2>1. CASE Unwind(Top.ctx) \/ MarkReturned(Top.ctx)
    BY <1>2, <2>1, MarksOnly
  <2>2. CASE UNCHANGED sender
    BY <2>2 DEF FrameInv, TypeOK
  <2> QED BY <1>1, <2>1, <2>2
<1>4. exc' # NoException /\ \A e, j : e = exc' /\ j = Len(stack) - 1 => Means(e, j)
  <2>1. CASE LeaveByReturn
    <3>1. exc.type = "Return" /\ ~ exc.arrived /\ exc' = Reraised(Top, exc)
      BY <2>1 DEF LeaveByReturn
    <3>2. exc'.type \in {"Return", "NonVirtualReturn"}
      <4>1. exc \in Exception
        BY DEF FrameInv, TypeOK
      <4>2. CASE state[Top.ctx] = "Dirty"
        BY <3>1, <4>2 DEF Reraised, NonVirtualReturn
      <4>3. CASE state[Top.ctx] # "Dirty"
        BY <3>1, <4>1, <4>3, ReturnFields DEF Reraised
      <4> QED BY <4>2, <4>3
    <3>3. exc' # NoException
      BY <3>2 DEF NoException
    <3>4. \A e, j : e = Reraised(Top, exc) /\ j = Len(stack) - 1 => Means(e, j)
      <4>1. Means(Reraised(Top, exc), Len(stack) - 1)
        BY <1>1, <3>1, ReraisedMeans
      <4> QED BY <4>1
    <3> QED BY <3>1, <3>3, <3>4
  <2>2. CASE LeaveAfterCleanup /\ exc.type = "Return" /\ exc.arrived
    <3>1. exc' = Top.pending /\ Top.pending # NoException
      BY <2>2 DEF LeaveAfterCleanup
    <3> QED BY <1>2, <3>1 DEF MeantInv, PendingMeant
  <2>3. CASE LeaveAfterCleanup /\ ~ (exc.type = "Return" /\ exc.arrived)
    <3>1. exc' = exc /\ Top.pending # NoException
      BY <2>3 DEF LeaveAfterCleanup
    <3>2. \A e, j : e = exc /\ j = Len(stack) - 1 => Means(e, j)
      <4>1. Means(exc, Len(stack) - 1)
        BY <1>1, <2>3, <3>1, PassesHolder
      <4> QED BY <4>1
    <3> QED BY <1>1, <3>1, <3>2
  <2>4. CASE LeaveByOther
    <3>1. exc' = exc /\ exc.type # "Return" /\ Meant
      BY <2>4 DEF LeaveByOther, MeantInv, RaisedHere
    <3>2. \A e, j : e = exc => Means(e, j)
      BY <3>1 DEF Meant, Means
    <3> QED BY <1>1, <3>1, <3>2
  <2> QED BY <2>1, <2>2, <2>3, <2>4
<1> QED BY <1>1, <1>3, <1>4, MeantPop

LEMMA MeantStep ==
    ASSUME FrameInv, Linked, MeantInv, NoCrossing, [Next]_vars
    PROVE  MeantInv'
<1>1. ASSUME NEW c \in Ctx, Call(c) \/ EnsureCalls(c) \/ ProcessCalls(c) PROVE MeantInv'
  <2>1. /\ unwind' = unwind /\ \E n, k, o : Pushes(n, k, o, c, stack)
    BY <1>1, CallPushes
  <2>2. \A i \in 1 .. Len(stack) : \A e, j : e = stack[i].pending /\ j = i - 1 => Means(e, j)
    BY DEF MeantInv, PendingMeant
  <2> QED BY <2>1, <2>2, MeantPush DEF MeantInv
<1>2. ASSUME NEW c \in Ctx, ReturnLocal(c) \/ ReturnNonLocal(c) \/ Fork(c) \/ Terminate(c)
                            \/ \E d \in Ctx : Switch(c, d)
      PROVE  MeantInv'
  BY <1>2, MeantRaised
<1>3. ASSUME NEW x \in Ctx, NEW s \in CtxOrNil, StoreSender(x, s) PROVE MeantInv'
  BY <1>3, MeantStore
<1>4. CASE ExecuteReturned
  <2>1. /\ exc = NoException /\ stack # << >>
        /\ UNCHANGED <<stack, state, loopSender, unwind, exc>>
    BY <1>4 DEF ExecuteReturned, Halt
  <2>2. \A e, j : e = exc' => Means(e, j)
    BY <2>1, NoExceptionMeans
  <2> QED BY <2>1, <2>2, MeantRaise DEF MeantInv
<1>5. CASE Deliver
  <2>1. /\ exc' = NoException /\ Top.pending = NoException
        /\ UNCHANGED <<stack, state, loopSender, unwind>>
    BY <1>5 DEF Deliver
  <2>2. \A e, j : e = exc' => Means(e, j)
    BY <2>1, NoExceptionMeans
  <2> QED BY <2>1, <2>2, MeantRaise
<1>6. CASE LeaveByReturn \/ LeaveAfterCleanup \/ LeaveByOther
  BY <1>6, MeantLeave
<1>7. CASE LeaveByCleanup
  <2>1. /\ stack # << >> /\ exc.type = "Return" /\ ~ exc.arrived
    BY <1>7 DEF LeaveByCleanup, Travels
  <2>2. /\ unwind' = unwind
        /\ \E n : Pushes(n, "block", outer[Top.ctx], Top.ctx, Held)
        /\ Held[Len(stack)].pending = Reraised(Top, exc)
        /\ \A i \in 1 .. Len(stack) - 1 : Held[i] = stack[i]
    BY <1>7, CleanupPushes
  <2>3. Means(Reraised(Top, exc), Len(stack) - 1)
    BY <2>1, ReraisedMeans
  <2>4. \A e, j : e = Held[Len(stack)].pending /\ j = Len(stack) - 1 => Means(e, j)
    BY <2>2, <2>3
  <2>5. \A i \in 1 .. Len(stack) : i = Len(stack) \/ i \in 1 .. Len(stack) - 1
    BY FrameFacts
  <2>6. \A i \in 1 .. Len(stack) : \A e, j : e = Held[i].pending /\ j = i - 1 => Means(e, j)
    BY <2>2, <2>4, <2>5 DEF MeantInv, PendingMeant
  <2> QED BY <2>2, <2>6, MeantPush DEF MeantInv
<1>8. CASE LoopSwitch
  <2>1. exc.type = "ContextSwitch" /\ exc.to \in Ctx
    BY <1>8, ExceptionFields DEF LoopSwitch, FrameInv, TypeOK
  <2> QED BY <1>8, <2>1, MeantLoop DEF LoopSwitch, InLoop
<1>9. CASE LoopReturn
  <2>1. stack = << >> /\ unwind = NoUnwind /\ Len(stack) = 0
    BY <1>9, FrameFacts DEF LoopReturn, InLoop
  <2>2. Means(exc, 0)
    BY <2>1 DEF MeantInv, RaisedHere, Meant
  <2>3. ASSUME NEW start, NEW t, UnwindFrom(start, t), exc.goal \in {t, Nil}
        PROVE  MeantInv'
    <3>1. CASE /\ unwind' = [at |-> start, target |-> t, next |-> Nil, goal |-> exc.goal]
               /\ exc' = NoException /\ UNCHANGED <<stack, state>>
      <4>1. unwind'.goal = exc.goal /\ unwind'.target = t
        BY <3>1
      <4> QED BY <2>1, <2>3, <3>1, <4>1, MeantLoop
    <3>2. CASE UNCHANGED <<stack, state, loopSender, unwind, exc>>
      <4>1. \A e, j : e = exc' /\ j = Len(stack) => Means(e, j)
        BY <2>1, <2>2, <3>2
      <4> QED BY <2>1, <3>2, <4>1, MeantRaise
    <3> QED BY <2>3, <3>1, <3>2 DEF UnwindFrom, Halt
  <2>4. CASE /\ exc.type = "Return"
             /\ UnwindFrom(loopSender, IF exc.arrived THEN loopSender ELSE exc.target)
    BY <2>1, <2>2, <2>3, <2>4 DEF Means, Comes, Passes
  <2>5. CASE exc.type = "NonVirtualReturn" /\ UnwindFrom(exc.current, exc.target)
    BY <2>2, <2>3, <2>5 DEF Means
  <2> QED BY <1>9, <2>4, <2>5 DEF LoopReturn
<1>10. CASE UnwindOne
  <2>1. stack = << >> /\ exc = NoException /\ Len(stack) = 0 /\ unwind \in UnwindState
        /\ unwind # NoUnwind
    BY <1>10, FrameFacts DEF UnwindOne, InLoop, FrameInv, TypeOK, UnwindState
  <2>2. CASE unwind.at = unwind.target /\ Start(unwind.at) /\ unwind' = NoUnwind
             /\ UNCHANGED exc
    <3>1. unwind.at \in Ctx
      BY <2>1, <2>2 DEF UnwindState, CtxOrNil, FrameInv, Known
    <3> QED BY <2>1, <2>2, <3>1, MeantLoop
  <2>3. CASE Halt("FatalError")
    <3>1. \A e, j : e = exc' => Means(e, j)
      BY <2>1, <2>3, NoExceptionMeans DEF Halt
    <3> QED BY <2>1, <2>3, <3>1, MeantRaise DEF Halt
  <2>4. CASE /\ unwind.at # Nil /\ unwind' = [unwind EXCEPT !.next = sender[unwind.at]]
             /\ \E n \in Ctx : Enter(n, "block", outer[unwind.at], unwind.at, << >>)
             /\ UNCHANGED <<suspended, exc, loopSender, halted>>
    <3>1. PICK n \in Ctx : Enter(n, "block", outer[unwind.at], unwind.at, << >>)
      BY <2>4
    <3>2. Pushes(n, "block", outer[unwind.at], unwind.at, stack)
      BY <2>1, <2>4, <3>1, UnwindPushes
    <3>3. unwind'.goal = unwind.goal /\ unwind'.target = unwind.target
      BY <2>1, <2>4 DEF UnwindState
    <3>4. unwind'.goal \in {unwind'.target, Nil}
      BY <2>1, <3>3 DEF MeantInv
    <3>5. /\ \A i \in 1 .. Len(stack) : \A e, j : e = stack[i].pending /\ j = i - 1 => Means(e, j)
          /\ \A i \in 1 .. Len(stack) - 1 : stack[i] = stack[i]
      BY <2>1
    <3> QED BY <2>1, <3>2, <3>4, <3>5, MeantPush
  <2>5. CASE /\ unwind' = [unwind EXCEPT !.at = sender[unwind.at]]
             /\ UNCHANGED <<kind, outer, state, complete, suspended, stack, exc, loopSender, halted>>
    <3>1. unwind'.goal = unwind.goal /\ unwind'.target = unwind.target
      BY <2>1, <2>5 DEF UnwindState
    <3> QED BY <2>1, <2>5, <3>1, MeantLoop DEF MeantInv
  <2> QED BY <1>10, <2>2, <2>3, <2>4, <2>5 DEF UnwindOne
<1>11. CASE UnwindAfterCleanup
  <2>1. stack = << >> /\ Len(stack) = 0 /\ unwind \in UnwindState /\ unwind # NoUnwind
        /\ UNCHANGED <<stack, state, loopSender>>
    BY <1>11, FrameFacts DEF UnwindAfterCleanup, InLoop, FrameInv, TypeOK, UnwindState
  <2>2. CASE /\ unwind' = [unwind EXCEPT !.at = unwind.next, !.next = Nil]
             /\ exc' = NoException
    <3>1. unwind'.goal = unwind.goal /\ unwind'.target = unwind.target
      BY <2>1, <2>2 DEF UnwindState
    <3> QED BY <2>1, <2>2, <3>1, MeantLoop DEF MeantInv
  <2>3. CASE UNCHANGED <<unwind, exc>>
    <3>1. \A e, j : e = exc' /\ j = Len(stack) => Means(e, j)
      BY <2>1, <2>3 DEF MeantInv, RaisedHere, Meant
    <3> QED BY <2>1, <2>3, <3>1, MeantRaise
  <2> QED BY <1>11, <2>2, <2>3 DEF UnwindAfterCleanup
<1>12. CASE UNCHANGED vars
  <2>1. RaisedHere' = RaisedHere
    BY <1>12 DEF vars, RaisedHere, Top, Last
  <2>2. UNCHANGED <<stack, state, loopSender, unwind, exc>>
    BY <1>12 DEF vars
  <2>3. exc' = NoException /\ stack # << >> => Top.pending = NoException
    BY <2>2 DEF MeantInv
  <2>4. RaisedHere' \/ \A e, j : e = exc' /\ j = Len(stack) => Means(e, j)
    BY <2>1, <2>2 DEF MeantInv, Meant
  <2> QED BY <2>2, <2>3, <2>4, MeantRaise
<1> QED BY <1>1, <1>2, <1>3, <1>4, <1>5, <1>6, <1>7, <1>8, <1>9, <1>10, <1>11, <1>12
        DEF Next, Image, Interpreter

LEMMA MeantInit == Init => MeantInv
<1> SUFFICES ASSUME Init PROVE MeantInv
  OBVIOUS
<1>1. /\ stack = <<Frame(Toplevel, Nil)>> /\ exc = NoException /\ unwind = NoUnwind
      /\ \A c \in Ctx : state[c] # "Dirty"
  BY DEF Init
<1>2. Len(stack) = 1 /\ stack[1] = Frame(Toplevel, Nil)
  BY <1>1
<1>3. Frame(Toplevel, Nil).pending = NoException
  BY DEF Frame
<1>4. Top = stack[1]
  BY <1>2 DEF Top, Last
<1>5. \A i \in 1 .. Len(stack) : i = 1
  BY <1>2
<1>6. Meant /\ PendingMeant
  BY <1>1, <1>2, <1>3, <1>5, NoExceptionMeans DEF Meant, PendingMeant
<1> QED BY <1>1, <1>2, <1>3, <1>4, <1>6 DEF MeantInv

\* A returned value is pushed in the context it is returned to and in no other,
\* unless senders are set to nil, or a cleanup block returns to where its method's
\* caller is no longer called from because a sender has been changed.
THEOREM ReturnsComeHome ==
    ASSUME NoCrossing
    PROVE  Spec => []ReturnsArrive
<1>1. FrameInv /\ MeantInv => ReturnsArrive
  <2> SUFFICES ASSUME FrameInv, MeantInv, exc.type = "Return", exc.arrived, stack # << >>
               PROVE  Top.ctx = exc.goal
    BY DEF ReturnsArrive, MeantInv
  <2>1. Top = stack[Len(stack)] /\ Len(stack) \in Nat \ {0}
    BY TopFacts
  <2>2. Comes(exc, Len(stack))
    BY DEF MeantInv, Meant, Means, RaisedHere
  <2> QED BY <2>1, <2>2 DEF Comes
<1>2. Init => FrameInv /\ Linked /\ MeantInv
  BY FrameInvInit, LinkedInit, MeantInit
<1>3. "sender_nil" \notin ImageDoes
  BY DEF NoCrossing
<1>4. FrameInv /\ Linked /\ MeantInv /\ [Next]_vars => FrameInv' /\ Linked' /\ MeantInv'
  BY <1>3, FrameInvStep, LinkedStep, MeantStep
<1> QED BY <1>1, <1>2, <1>4, PTL DEF Spec

-----------------------------------------------------------------------------
(* Processes as chains *)

\* The chains of the contexts R are disjoint.
Forest(s, R) == \A d, e \in R : d # e => ChainOf(s, d) \cap ChainOf(s, e) = {}

On(s, R, c) == \E d \in R : c \in ChainOf(s, d)

\* Context n, which nothing refers to, is entered above h.
Grows(s, R, n, h, t, Q) ==
    /\ \A x \in Ctx : s[x] # n
    /\ n \notin R /\ h \in R
    /\ t = [s EXCEPT ![n] = h]
    /\ Q = (R \ {h}) \cup {n}

LEMMA ForestPush ==
    ASSUME NEW s \in [Ctx -> CtxOrNil], NoCycles(s), NEW R \in SUBSET CtxOrNil, Forest(s, R),
           NEW n \in Ctx, NEW h \in Ctx, NEW t, NEW Q, Grows(s, R, n, h, t, Q)
    PROVE  /\ t \in [Ctx -> CtxOrNil] /\ NoCycles(t) /\ Forest(t, Q)
           /\ \A c : On(t, Q, c) <=> c = n \/ On(s, R, c)
           /\ \A x \in CtxOrNil : x # n => n \notin ChainOf(s, x) /\ ChainOf(t, x) = ChainOf(s, x)
<1>0. (\A x \in Ctx : s[x] # n) /\ n \notin R /\ h \in R /\ t = [s EXCEPT ![n] = h] /\ Q = (R \ {h}) \cup {n}
  BY DEF Grows
<1> USE <1>0
<1>1. t \in [Ctx -> CtxOrNil] /\ t[n] = h /\ h # n /\ \A x \in Ctx : x # n => t[x] = s[x]
  BY DEF CtxOrNil
<1>2. NoCycles(t)
  BY <1>1, NoCyclesPush
<1>3. ASSUME NEW x \in CtxOrNil, x # n
      PROVE  n \notin ChainOf(s, x) /\ ChainOf(t, x) = ChainOf(s, x)
  <2>1. Ctx \ {n} \in SUBSET Ctx /\ Closed(s, Ctx \ {n})
    BY DEF Closed, CtxOrNil
  <2>2. x # Nil => x \in Ctx \ {n}
    BY <1>3 DEF CtxOrNil
  <2>3. ChainOf(s, x) \subseteq Ctx \ {n}
    BY <2>1, <2>2, ChainLeast
  <2>4. \A y \in ChainOf(s, x) : t[y] = s[y]
    BY <1>1, <2>3
  <2>5. ChainOf(t, x) = ChainOf(s, x)
    BY <1>1, <1>2, <2>4, ChainSame
  <2> QED BY <2>3, <2>5
<1>4. ChainOf(t, n) = {n} \cup ChainOf(s, h)
  <2>1. h \in CtxOrNil
    BY DEF CtxOrNil
  <2> QED BY <1>1, <1>3, <2>1, ChainNext
<1>5. ASSUME NEW d \in R, d # h PROVE ChainOf(t, d) = ChainOf(s, d) /\ n \notin ChainOf(s, d) /\ d # n
  BY <1>3, <1>5
<1>6. Forest(t, Q)
  <2> SUFFICES ASSUME NEW d \in Q, NEW e \in Q, d # e
               PROVE  ChainOf(t, d) \cap ChainOf(t, e) = {}
    BY DEF Forest
  <2>1. CASE d # n /\ e # n
    BY <1>5, <2>1 DEF Forest
  <2>2. ASSUME NEW x \in Q, x # n PROVE ChainOf(t, n) \cap ChainOf(t, x) = {}
    <3>1. x \in R /\ x # h
      BY <2>2
    <3>2. ChainOf(s, x) \cap ChainOf(s, h) = {}
      BY <3>1 DEF Forest
    <3> QED BY <1>4, <1>5, <3>1, <3>2
  <2> QED BY <2>1, <2>2
<1>7. ASSUME NEW c PROVE On(t, Q, c) <=> c = n \/ On(s, R, c)
  <2>1. On(t, Q, c) <=> c \in ChainOf(t, n) \/ \E d \in R \ {h} : c \in ChainOf(t, d)
    BY DEF On
  <2>2. On(s, R, c) <=> c \in ChainOf(s, h) \/ \E d \in R \ {h} : c \in ChainOf(s, d)
    BY DEF On
  <2> QED BY <1>4, <1>5, <2>1, <2>2
<1> QED BY <1>1, <1>2, <1>3, <1>6, <1>7

\* Context h of R is replaced by its sender, and may lose it.
LEMMA ForestPop ==
    ASSUME NEW s \in [Ctx -> CtxOrNil], NoCycles(s), NEW R \in SUBSET CtxOrNil, Forest(s, R),
           NEW h \in Ctx, h \in R, NEW t, t = s \/ t = [s EXCEPT ![h] = Nil],
           NEW Q, Q = (R \ {h}) \cup {s[h]}
    PROVE  /\ t \in [Ctx -> CtxOrNil] /\ NoCycles(t) /\ Forest(t, Q)
           /\ \A c : On(t, Q, c) <=> c # h /\ On(s, R, c)
           /\ h \notin ChainOf(s, s[h])
           /\ \A x \in CtxOrNil : h \notin ChainOf(s, x) => ChainOf(t, x) = ChainOf(s, x)
<1>1. t \in [Ctx -> CtxOrNil] /\ \A x \in Ctx : x # h => t[x] = s[x]
  BY DEF CtxOrNil
<1>2. NoCycles(t)
  BY NoCyclesMark
<1>3. ASSUME NEW x \in CtxOrNil, h \notin ChainOf(s, x) PROVE ChainOf(t, x) = ChainOf(s, x)
  <2>1. \A y \in ChainOf(s, x) : t[y] = s[y]
    BY <1>1, <1>3, ChainClosed
  <2> QED BY <1>1, <1>2, <2>1, ChainSame
<1>4. /\ h \notin ChainOf(s, s[h]) /\ s[h] \in CtxOrNil
      /\ ChainOf(s, h) = {h} \cup ChainOf(s, s[h])
  BY ChainIrreflexive, ChainNext
<1>5. ASSUME NEW d \in R, d # h
      PROVE  /\ ChainOf(t, d) = ChainOf(s, d) /\ h \notin ChainOf(s, d)
             /\ ChainOf(s, d) \cap ChainOf(s, s[h]) = {}
  <2>1. ChainOf(s, d) \cap ChainOf(s, h) = {}
    BY <1>5 DEF Forest
  <2> QED BY <1>3, <1>4, <2>1
<1>6. ChainOf(t, s[h]) = ChainOf(s, s[h])
  BY <1>3, <1>4
<1>7. Forest(t, Q)
  <2> SUFFICES ASSUME NEW d \in Q, NEW e \in Q, d # e
               PROVE  ChainOf(t, d) \cap ChainOf(t, e) = {}
    BY DEF Forest
  <2>1. CASE d # s[h] /\ e # s[h]
    BY <1>5, <2>1 DEF Forest
  <2>2. ASSUME NEW x \in Q, x # s[h] PROVE ChainOf(t, s[h]) \cap ChainOf(t, x) = {}
    BY <1>5, <1>6, <2>2
  <2> QED BY <2>1, <2>2
<1>8. ASSUME NEW c PROVE On(t, Q, c) <=> c # h /\ On(s, R, c)
  <2>1. On(t, Q, c) <=> c \in ChainOf(t, s[h]) \/ \E d \in R \ {h} : c \in ChainOf(t, d)
    BY DEF On
  <2>2. On(s, R, c) <=> c \in ChainOf(s, h) \/ \E d \in R \ {h} : c \in ChainOf(s, d)
    BY DEF On
  <2> QED BY <1>4, <1>5, <1>6, <2>1, <2>2
<1> QED BY <1>1, <1>2, <1>3, <1>4, <1>7, <1>8

-----------------------------------------------------------------------------
(* The contexts of processes *)

\* Contexts are made one after the other, the outer ones first.
Made ==
    /\ \A m, n \in Ctx : m < n /\ kind[n] # "free" => kind[m] # "free"
    /\ \A c \in Ctx : kind[c] \in {"block", "ensure", "process"} =>
          outer[c] \in Ctx /\ outer[c] < c /\ kind[outer[c]] \in {"method", "block"}
    /\ \A c \in Ctx : kind[c] \in {"free", "process", "toplevel"} => sender[c] = Nil
    /\ \A c \in Ctx : kind[c] = "toplevel" <=> c = Toplevel
    /\ \A c \in Ctx : kind[c] = "free" => pc[c] = 0

\* The active process continues in h.
Alive(h, c) == On(sender, suspended \cup {h}, c)

Called == {"method", "block", "ensure"}

Tree(h) ==
    /\ NoCycles(sender) /\ h \in CtxOrNil \ suspended
    /\ Forest(sender, suspended \cup {h})
    /\ \A c \in Ctx : Alive(h, c) => pc[c] >= 0 /\ (kind[c] \in Called => sender[c] # Nil)
    /\ \A c \in Ctx : ~ Alive(h, c) =>
          /\ kind[c] \in {"method", "block"} => sender[c] = Nil
          /\ kind[c] = "ensure" => complete[c]

\* Bytecodes may move the pc and start cleanups.
Proceeds ==
    /\ \A x \in Ctx : kind[x] # "free" => pc'[x] >= 0 \/ pc'[x] = pc[x]
    /\ \A x \in Ctx : kind[x] = "free" => pc'[x] = pc[x]
    /\ \A x \in Ctx : complete[x] => complete'[x]

LEMMA TreeTyped ==
    ASSUME FrameInv
    PROVE  /\ sender \in [Ctx -> CtxOrNil] /\ kind \in [Ctx -> Kinds] /\ outer \in [Ctx -> CtxOrNil]
           /\ suspended \subseteq Ctx /\ Nil \notin Ctx /\ Nil \notin suspended
           /\ state \in [Ctx -> States] /\ complete \in [Ctx -> BOOLEAN]
  BY NilIsNoContext DEF FrameInv, TypeOK

\* What is not made yet is in no chain.
LEMMA FreeIsApart ==
    ASSUME FrameInv, NEW n \in Ctx, kind[n] = "free"
    PROVE  n \notin suspended /\ \A x \in Ctx : sender[x] # n
  BY TreeTyped DEF FrameInv, Known, IsKnown

LEMMA TreeSame ==
    ASSUME FrameInv, NEW h, Tree(h), Made, UNCHANGED <<sender, kind, suspended>>, Proceeds
    PROVE  Tree(h)'
<1>1. \A c : Alive(h, c)' = Alive(h, c)
  BY DEF Alive
<1>2. \A c \in Ctx : Alive(h, c) => pc'[c] >= 0
  BY DEF Tree, Proceeds
<1> QED BY <1>1, <1>2 DEF Tree, Proceeds

LEMMA TreePush ==
    ASSUME FrameInv, NEW h \in Ctx, Tree(h), Made, NEW n \in Ctx, kind[n] = "free",
           kind[h] # "free", NEW k \in Called, kind' = [kind EXCEPT ![n] = k],
           sender' = [sender EXCEPT ![n] = h], UNCHANGED suspended, Proceeds
    PROVE  /\ Tree(n)'
           /\ \A x \in CtxOrNil : x # n => n \notin ChainOf(sender, x)
                                           /\ ChainOf(sender', x) = ChainOf(sender, x)
<1> PICK s \in [Ctx -> CtxOrNil] : s = sender
  BY TreeTyped
<1> PICK t : t = sender'
  OBVIOUS
<1> PICK R \in SUBSET CtxOrNil : R = suspended \cup {h}
  BY TreeTyped DEF Tree, CtxOrNil
<1> PICK Q : Q = suspended \cup {n}
  OBVIOUS
<1>1. /\ n \notin suspended /\ n # h /\ \A x \in Ctx : s[x] # n
  BY FreeIsApart
<1>2. NoCycles(s) /\ Forest(s, R) /\ h \in R /\ n \notin R /\ Q = (R \ {h}) \cup {n}
      /\ h \notin suspended
  BY <1>1 DEF Tree
<1>3. /\ t \in [Ctx -> CtxOrNil] /\ NoCycles(t) /\ Forest(t, Q)
      /\ \A c : On(t, Q, c) <=> c = n \/ On(s, R, c)
      /\ \A x \in CtxOrNil : x # n => n \notin ChainOf(s, x) /\ ChainOf(t, x) = ChainOf(s, x)
  <2>1. Grows(s, R, n, h, t, Q)
    BY <1>1, <1>2 DEF Grows
  <2>2. s \in [Ctx -> CtxOrNil] /\ n \in Ctx /\ h \in Ctx /\ R \in SUBSET CtxOrNil
    OBVIOUS
  <2>3. t \in [Ctx -> CtxOrNil] /\ NoCycles(t)
    BY <1>2, <2>1, ForestPush
  <2>4. Forest(t, Q)
    BY <1>2, <2>1, ForestPush
  <2>5. \A c : On(t, Q, c) <=> c = n \/ On(s, R, c)
    BY <1>2, <2>1, ForestPush
  <2>6. \A x \in CtxOrNil : x # n => n \notin ChainOf(s, x)
    BY <1>2, <2>1, ForestPush
  <2>7. \A x \in CtxOrNil : x # n => ChainOf(t, x) = ChainOf(s, x)
    BY <1>2, <2>1, ForestPush
  <2> QED BY <2>3, <2>4, <2>5, <2>6, <2>7
<1>4. \A c : /\ Alive(h, c) <=> On(s, R, c)
             /\ Alive(n, c)' <=> c = n \/ Alive(h, c)
  BY <1>3 DEF Alive
<1>5. /\ kind'[n] = k /\ sender'[n] = h /\ pc'[n] = 0 /\ h # Nil
      /\ \A c \in Ctx : c # n => kind'[c] = kind[c] /\ sender'[c] = sender[c]
  BY TreeTyped DEF Made, Proceeds
<1>6. \A c \in Ctx : Alive(h, c) => pc'[c] >= 0
  BY DEF Tree, Proceeds
<1>7. \A c \in Ctx : Alive(n, c)' => pc'[c] >= 0 /\ (kind'[c] \in Called => sender'[c] # Nil)
  BY <1>4, <1>5, <1>6 DEF Tree
<1>8. \A c \in Ctx : ~ Alive(n, c)' =>
          /\ kind'[c] \in {"method", "block"} => sender'[c] = Nil
          /\ kind'[c] = "ensure" => complete'[c]
  BY <1>4, <1>5 DEF Tree, Proceeds
<1>9. n \in CtxOrNil \ suspended'
  BY <1>1 DEF CtxOrNil
<1>10. NoCycles(sender') /\ Forest(sender', suspended' \cup {n})
  BY <1>3
<1> QED BY <1>3, <1>7, <1>8, <1>9, <1>10 DEF Tree

LEMMA TreePop ==
    ASSUME FrameInv, NEW h \in Ctx, Tree(h), NEW g, g = sender[h],
           Unwind(h) \/ MarkReturned(h), kind[h] = "ensure" => complete[h],
           UNCHANGED <<kind, complete, suspended>>
    PROVE  /\ Tree(g)'
           /\ h \notin ChainOf(sender, g)
           /\ \A x \in CtxOrNil : h \notin ChainOf(sender, x) =>
                                      ChainOf(sender', x) = ChainOf(sender, x)
<1> PICK s \in [Ctx -> CtxOrNil] : s = sender
  BY TreeTyped
<1> PICK t : t = sender'
  OBVIOUS
<1> PICK R \in SUBSET CtxOrNil : R = suspended \cup {h}
  BY TreeTyped DEF Tree, CtxOrNil
<1> PICK Q : Q = suspended \cup {g}
  OBVIOUS
<1>1. NoCycles(s) /\ Forest(s, R) /\ h \in R /\ Q = (R \ {h}) \cup {g} /\ h \notin suspended
  BY DEF Tree
<1>2. /\ t = s \/ t = [s EXCEPT ![h] = Nil]
      /\ kind[h] \in {"method", "block"} => t[h] = Nil
  BY TreeTyped DEF Unwind, MarkReturned
<1>3. /\ t \in [Ctx -> CtxOrNil] /\ NoCycles(t) /\ Forest(t, Q)
      /\ \A c : On(t, Q, c) <=> c # h /\ On(s, R, c)
      /\ h \notin ChainOf(s, s[h])
      /\ \A x \in CtxOrNil : h \notin ChainOf(s, x) => ChainOf(t, x) = ChainOf(s, x)
  BY <1>1, <1>2, ForestPop
<1>4. \A c : /\ Alive(h, c) <=> On(s, R, c)
             /\ Alive(g, c)' <=> c # h /\ Alive(h, c)
  BY <1>3 DEF Alive
<1>5. \A c \in Ctx : c # h => sender'[c] = sender[c] /\ pc'[c] = pc[c]
  BY MarksOnly
<1>6. g \in CtxOrNil \ suspended'
  <2>1. g \in CtxOrNil
    OBVIOUS
  <2>2. ASSUME g \in suspended PROVE FALSE
    <3>1. g \in Ctx /\ g \in R /\ g # h
      BY <1>1, <2>2, TreeTyped
    <3>2. g \in ChainOf(s, g) /\ g \in ChainOf(s, h)
      BY <3>1, ChainNext
    <3> QED BY <1>1, <3>1, <3>2 DEF Forest
  <2> QED BY <2>1, <2>2
<1>7. \A c \in Ctx : Alive(g, c)' => pc'[c] >= 0 /\ (kind'[c] \in Called => sender'[c] # Nil)
  BY <1>4, <1>5 DEF Tree
<1>8. \A c \in Ctx : ~ Alive(g, c)' =>
          /\ kind'[c] \in {"method", "block"} => sender'[c] = Nil
          /\ kind'[c] = "ensure" => complete'[c]
  BY <1>2, <1>4, <1>5 DEF Tree
<1>9. NoCycles(sender') /\ Forest(sender', suspended' \cup {g})
  BY <1>3
<1> QED BY <1>3, <1>6, <1>7, <1>8, <1>9 DEF Tree

LEMMA TreeSwitch ==
    ASSUME FrameInv, NEW h \in Ctx, Tree(h), NEW d \in suspended \cup {h},
           suspended' = (suspended \cup {h}) \ {d}, UNCHANGED <<sender, kind, pc, complete>>
    PROVE  Tree(d)'
<1>1. suspended' \cup {d} = suspended \cup {h} /\ d \in CtxOrNil \ suspended'
  BY TreeTyped DEF CtxOrNil
<1>2. \A c : Alive(d, c)' = Alive(h, c)
  BY <1>1 DEF Alive
<1> QED BY <1>1, <1>2 DEF Tree

\* A process has ended: its base context has no sender.
LEMMA TreeTerminate ==
    ASSUME FrameInv, NEW h \in Ctx, Tree(h), kind[h] = "process", sender[h] = Nil,
           NEW d \in suspended, suspended' = suspended \ {d},
           UNCHANGED <<sender, kind, pc, complete>>
    PROVE  Tree(d)'
<1>1. suspended' \cup {d} = suspended /\ d \in CtxOrNil \ suspended'
  BY TreeTyped DEF CtxOrNil
<1>2. ChainOf(sender, h) = {h}
  <2> PICK s \in [Ctx -> CtxOrNil] : s = sender
    BY TreeTyped
  <2>1. ChainOf(s, h) = {h}
    BY ChainNext
  <2> QED BY <2>1
<1>3. \A c : Alive(d, c)' => Alive(h, c)
  BY <1>1 DEF Alive, On
<1>4. \A c : Alive(h, c) => c = h \/ Alive(d, c)'
  BY <1>1, <1>2 DEF Alive, On
<1>5. Forest(sender', suspended' \cup {d})
  BY <1>1 DEF Tree, Forest
<1>6. \A c \in Ctx : Alive(d, c)' => pc'[c] >= 0 /\ (kind'[c] \in Called => sender'[c] # Nil)
  BY <1>3 DEF Tree
<1>7. \A c \in Ctx : ~ Alive(d, c)' =>
          /\ kind'[c] \in {"method", "block"} => sender'[c] = Nil
          /\ kind'[c] = "ensure" => complete'[c]
  BY <1>4 DEF Tree
<1> QED BY <1>1, <1>5, <1>6, <1>7 DEF Tree

LEMMA TreeFork ==
    ASSUME FrameInv, NEW h \in Ctx, Tree(h), Made, NEW n \in Ctx, kind[n] = "free",
           kind[h] # "free", kind' = [kind EXCEPT ![n] = "process"],
           suspended' = suspended \cup {n}, UNCHANGED <<sender, pc, complete>>
    PROVE  Tree(h)'
<1> PICK s \in [Ctx -> CtxOrNil] : s = sender
  BY TreeTyped
<1>1. n \notin suspended /\ n # h /\ s[n] = Nil /\ pc[n] = 0 /\ NoCycles(s)
      /\ \A x \in Ctx : s[x] # n
  BY FreeIsApart DEF Made, Tree
<1>2. ChainOf(s, n) = {n}
  BY <1>1, ChainNext
<1>3. \A x \in CtxOrNil : x # n => n \notin ChainOf(s, x)
  <2>1. Ctx \ {n} \in SUBSET Ctx /\ Closed(s, Ctx \ {n})
    BY <1>1 DEF Closed, CtxOrNil
  <2>2. \A x \in CtxOrNil : x # n => (x # Nil => x \in Ctx \ {n})
    BY DEF CtxOrNil
  <2> QED BY <1>1, <2>1, <2>2, ChainLeast
<1>4. \A x \in suspended \cup {h} : x \in CtxOrNil /\ x # n
  BY <1>1, TreeTyped DEF CtxOrNil
<1>5. \A c : Alive(h, c)' <=> c = n \/ Alive(h, c)
  BY <1>2 DEF Alive, On
<1>6. Forest(s, suspended' \cup {h})
  <2> SUFFICES ASSUME NEW d \in suspended' \cup {h}, NEW e \in suspended' \cup {h}, d # e
               PROVE  ChainOf(s, d) \cap ChainOf(s, e) = {}
    BY DEF Forest
  <2>1. CASE d # n /\ e # n
    BY <2>1 DEF Tree, Forest
  <2>2. CASE d = n \/ e = n
    BY <1>2, <1>3, <1>4, <2>2
  <2> QED BY <2>1, <2>2
<1>7. kind'[n] = "process" /\ \A c \in Ctx : c # n => kind'[c] = kind[c]
  BY TreeTyped
<1>8. \A c \in Ctx : Alive(h, c)' => pc'[c] >= 0 /\ (kind'[c] \in Called => sender'[c] # Nil)
  BY <1>1, <1>5, <1>7 DEF Tree, Called
<1>9. \A c \in Ctx : ~ Alive(h, c)' =>
          /\ kind'[c] \in {"method", "block"} => sender'[c] = Nil
          /\ kind'[c] = "ensure" => complete'[c]
  BY <1>5, <1>7 DEF Tree
<1>10. h \in CtxOrNil \ suspended'
  BY <1>1 DEF Tree
<1> QED BY <1>6, <1>8, <1>9, <1>10 DEF Tree

LEMMA CtxOrder ==
    /\ \A c \in Ctx : c \in Nat
    /\ \A c, d \in Ctx : c < d \/ d < c \/ c = d
    /\ \A c, d \in Ctx : ~ (c < d /\ d < c) /\ ~ (c < c)
<1>1. \A c \in Ctx : c \in Nat
  BY ContextsAssumption DEF Ctx
<1> QED BY <1>1

\* The first context that is free is made, of kind k and with outer context o.
LEMMA MadeNew ==
    ASSUME FrameInv, Made, NEW n \in Ctx, kind[n] = "free", \A m \in Ctx : m < n => kind[m] # "free",
           NEW k \in {"method", "block", "ensure", "process"}, NEW o \in CtxOrNil,
           k # "method" => o \in Ctx /\ kind[o] \in {"method", "block"},
           kind' = [kind EXCEPT ![n] = k], outer' = [outer EXCEPT ![n] = o],
           \A x \in Ctx : x # n => sender'[x] = sender[x], k = "process" => sender'[n] = sender[n],
           \A x \in Ctx : kind[x] = "free" => pc'[x] = pc[x]
    PROVE  Made'
<1>1. /\ kind'[n] = k /\ outer'[n] = o
      /\ \A x \in Ctx : x # n => kind'[x] = kind[x] /\ outer'[x] = outer[x]
  BY TreeTyped
<1>2. \A x \in Ctx : kind[x] # "free" => x < n
  BY CtxOrder DEF Made
<1>3. \A m, x \in Ctx : m < x /\ kind'[x] # "free" => kind'[m] # "free"
  BY <1>1, <1>2, CtxOrder DEF Made
<1>4. ASSUME NEW c \in Ctx, kind'[c] \in {"block", "ensure", "process"}
      PROVE  outer'[c] \in Ctx /\ outer'[c] < c /\ kind'[outer'[c]] \in {"method", "block"}
  <2>1. CASE c = n
    <3>1. o \in Ctx /\ kind[o] \in {"method", "block"}
      BY <1>1, <1>4, <2>1
    <3>2. o < n /\ o # n
      BY <1>2, <3>1
    <3> QED BY <1>1, <2>1, <3>1, <3>2
  <2>2. CASE c # n
    <3>1. outer[c] \in Ctx /\ outer[c] < c /\ kind[outer[c]] \in {"method", "block"}
      BY <1>1, <1>4, <2>2 DEF Made
    <3>2. outer[c] # n
      BY <3>1
    <3> QED BY <1>1, <2>2, <3>1, <3>2
  <2> QED BY <2>1, <2>2
<1>5. \A c \in Ctx : kind'[c] \in {"free", "process", "toplevel"} => sender'[c] = Nil
  BY <1>1 DEF Made
<1>6. \A c \in Ctx : kind'[c] = "toplevel" <=> c = Toplevel
  BY <1>1 DEF Made
<1>7. \A c \in Ctx : kind'[c] = "free" => pc'[c] = 0
  BY <1>1 DEF Made
<1> QED BY <1>3, <1>4, <1>5, <1>6, <1>7 DEF Made

LEMMA MadeSame ==
    ASSUME FrameInv, Made, UNCHANGED <<kind, outer>>,
           \A x \in Ctx : sender'[x] = sender[x] \/ sender'[x] = Nil,
           \A x \in Ctx : kind[x] = "free" => pc'[x] = pc[x]
    PROVE  Made'
  BY DEF Made

-----------------------------------------------------------------------------
(* Homes *)

\* The outer contexts of blocks, as a chain.
Outers == [c \in Ctx |-> IF kind[c] = "block" THEN outer[c] ELSE Nil]

IsHome(f) == f = [c \in Ctx |-> IF kind[c] = "block" THEN f[outer[c]] ELSE c]

LEMMA OutersEnd ==
    ASSUME FrameInv, Made
    PROVE  Outers \in [Ctx -> CtxOrNil] /\ NoCycles(Outers)
<1>1. Outers \in [Ctx -> CtxOrNil]
  BY TreeTyped DEF Outers, CtxOrNil
<1>2. ASSUME NEW S \in SUBSET Ctx, S # {} PROVE \E c \in S : Outers[c] \notin S
  <2>1. S \in SUBSET Nat
    BY CtxOrder
  <2>2. PICK c \in S : \A d \in S : c <= d
    BY <1>2, <2>1, LeastOf
  <2>3. c \in Ctx /\ c \in Nat /\ \A d \in S : ~ (d < c)
    BY <2>1, <2>2
  <2>4. Outers[c] \notin S
    BY <2>3, TreeTyped DEF Outers, Made
  <2> QED BY <2>4
<1> QED BY <1>1, <1>2 DEF NoCycles

LEMMA HomeExists == ASSUME FrameInv, Made PROVE \E f : IsHome(f)
<1> PICK s \in [Ctx -> CtxOrNil] : s = Outers /\ NoCycles(s)
  BY OutersEnd
<1> DEFINE Ends(c) == {h \in ChainOf(s, c) : kind[h] # "block"}
           f == [c \in Ctx |-> CHOOSE h : h \in Ends(c)]
<1>1. ASSUME NEW c \in Ctx PROVE f[c] = IF kind[c] = "block" THEN f[outer[c]] ELSE c
  <2>1. CASE kind[c] = "block"
    <3>1. outer[c] \in Ctx /\ s[c] = outer[c]
      BY <2>1 DEF Made, Outers
    <3>2. ChainOf(s, c) = {c} \cup ChainOf(s, outer[c])
      BY <3>1, ChainNext
    <3>3. Ends(c) = Ends(outer[c])
      BY <2>1, <3>2
    <3> QED BY <2>1, <3>1, <3>3
  <2>2. CASE kind[c] # "block"
    <3>1. s[c] = Nil
      BY <2>2 DEF Outers
    <3>2. ChainOf(s, c) = {c}
      BY <3>1, ChainNext
    <3>3. Ends(c) = {c}
      BY <2>2, <3>2
    <3> QED BY <2>2, <3>3
  <2> QED BY <2>1, <2>2
<1>2. f = [c \in Ctx |-> IF kind[c] = "block" THEN f[outer[c]] ELSE c]
  BY <1>1
<1> QED BY <1>2 DEF IsHome

\* The home of a block is the activation of a method.
LEMMA HomeIsMethod ==
    ASSUME FrameInv, Made, NEW c \in Ctx, kind[c] \in {"block", "method"}
    PROVE  Home[c] \in Ctx /\ kind[Home[c]] = "method"
<1> DEFINE f == CHOOSE f : IsHome(f)
<1>1. Home = f
  BY DEF Home, IsHome
<1>2. IsHome(f)
  BY HomeExists
<1> HIDE DEF f
<1>3. \A x \in Ctx : Home[x] = IF kind[x] = "block" THEN Home[outer[x]] ELSE x
  BY <1>1, <1>2 DEF IsHome
<1> DEFINE S == {x \in Ctx : /\ kind[x] \in {"block", "method"}
                             /\ ~ (Home[x] \in Ctx /\ kind[Home[x]] = "method")}
<1> SUFFICES ASSUME S # {} PROVE FALSE
  OBVIOUS
<1>4. PICK x \in S : Outers[x] \notin S
  BY OutersEnd DEF NoCycles
<1>5. kind[x] = "block" /\ Home[x] = Home[outer[x]] /\ Outers[x] = outer[x]
  BY <1>3 DEF Outers
<1>6. outer[x] \in Ctx /\ kind[outer[x]] \in {"block", "method"}
  BY <1>5 DEF Made
<1> QED BY <1>4, <1>5, <1>6

-----------------------------------------------------------------------------
(* Returns and unwinds on their way *)

\* An image that switches processes only when no cleanup block is being evaluated, that
\* changes no sender, and whose blocks return from methods that are below them, but not
\* out of a cleanup block that unwind_context_chain evaluates.
Calm == ImageDoes \subseteq {"switch", "return_cleanup", "orphan"}

\* Where the active process continues.
Current ==
    IF exc.type = "ContextSwitch" THEN exc.to
    ELSE IF stack # << >> THEN Top.ctx
    ELSE IF unwind # NoUnwind THEN unwind.at ELSE loopSender

\* On the chain of x is a method that is called by v.
OwedIn(s, k, v, x) == \E h \in ChainOf(s, x) : k[h] = "method" /\ s[h] = v

\* A return to a caller of a method has that method before it.
Under ==
    IF exc.target = Nil
    THEN stack # << >> /\ Top.pending = NoException /\ kind[Top.ctx] # "process"
    ELSE /\ unwind = NoUnwind
         /\ IF stack # << >> THEN OwedIn(sender, kind, exc.target, Top.ctx)
            ELSE exc.target \in ChainOf(sender, loopSender)

Control ==
    /\ exc.type \in {"none", "Return", "ContextSwitch"}
    /\ exc.type = "ContextSwitch" => unwind = NoUnwind /\ ~ PendingReturn
    /\ stack = << >> /\ unwind = NoUnwind => exc # NoException
    /\ exc.type = "Return" /\ ~ exc.arrived => Under
    /\ exc.type = "Return" /\ stack = << >> /\ unwind = NoUnwind /\ loopSender = Nil
          => exc.arrived /\ IsReturned(Toplevel)

\* Between the context that is unwound and the one below it runs a cleanup block.
Unwinding ==
    unwind # NoUnwind =>
        /\ unwind.target \in ChainOf(sender, unwind.at)
        /\ IF stack = << >> /\ exc = NoException THEN unwind.next = Nil
           ELSE /\ unwind.next = sender[unwind.at] /\ unwind.at # unwind.target
                /\ kind[unwind.at] = "ensure" /\ complete[unwind.at]

\* A Return e that is held back in a frame of c.
HeldBack(s, k, co, u, e, c) ==
    /\ k[c] = "ensure" /\ co[c] /\ e.type = "Return"
    /\ ~ e.arrived => e.target # Nil /\ u = NoUnwind /\ OwedIn(s, k, e.target, s[c])

Pendings ==
    \A i \in 1 .. Len(stack) : stack[i].pending # NoException =>
        HeldBack(sender, kind, complete, unwind, stack[i].pending, stack[i].ctx)

Ended ==
    /\ halted \notin {"FatalError", "uncaught"}
    /\ halted = "ReturnFromTopLevel" => IsReturned(Toplevel)

BaseInv == FrameInv /\ Linked /\ MeantInv

TreeInv == \A h : h = Current => Tree(h)

CalmInv == Made /\ TreeInv /\ Control /\ Unwinding /\ Pendings

LEMMA OwedKept ==
    ASSUME NEW s, NEW t, NEW k, NEW l, NEW x, ChainOf(t, x) = ChainOf(s, x),
           \A y \in ChainOf(s, x) : t[y] = s[y] /\ l[y] = k[y]
    PROVE  \A v : OwedIn(s, k, v, x) => OwedIn(t, l, v, x)
  BY DEF OwedIn

LEMMA NothingStored ==
    ASSUME Calm
    PROVE  /\ NoCrossing /\ "sender_nil" \notin ImageDoes /\ "sender" \notin ImageDoes
           /\ "stray" \notin ImageDoes /\ "switch_cleanup" \notin ImageDoes
           /\ "return_unwind" \notin ImageDoes
<1>1. \A f \in ImageDoes : f \in {"switch", "return_cleanup", "orphan"}
  BY DEF Calm
<1>2. /\ "sender_nil" \notin ImageDoes /\ "sender" \notin ImageDoes
      /\ "stray" \notin ImageDoes /\ "switch_cleanup" \notin ImageDoes
      /\ "return_unwind" \notin ImageDoes
  BY <1>1
<1> QED BY <1>2 DEF NoCrossing

\* The contexts of frames are on the chain of the running one.
LEMMA FramesInChain ==
    ASSUME Calm, BaseInv, stack # << >>, NEW i \in 1 .. Len(stack)
    PROVE  /\ sender[stack[i].ctx] = ReturnsTo(i)
           /\ ReturnsTo(i) # Nil => ReturnsTo(i) \in ChainOf(sender, sender[Top.ctx])
<1>1. FrameInv /\ Linked /\ MeantInv
  BY DEF BaseInv
<1>2. ASSUME NEW j \in 1 .. Len(stack) PROVE state[stack[j].ctx] = "Active"
  <2>1. stack[j].ctx \in Ctx /\ state[stack[j].ctx] # "Inactive"
    BY <1>1, FrameFacts
  <2>2. state[stack[j].ctx] # "Dirty"
    BY <1>1, <2>1, NothingStored DEF MeantInv
  <2> QED BY <1>1, <2>1, <2>2, TreeTyped DEF States
<1>3. ActiveFrames(i, Len(stack))
  <2>1. \A j \in i .. Len(stack) : j \in 1 .. Len(stack)
    BY <1>1, FrameFacts
  <2> QED BY <1>2, <2>1 DEF ActiveFrames
<1>4. ReturnsTo(i) # Nil => ReturnsTo(i) \in Senders(Top.ctx)
  BY <1>1, <1>3, CallersAreSenders
<1>5. Senders(Top.ctx) = ChainOf(sender, sender[Top.ctx])
  BY SendersChain
<1> QED BY <1>1, <1>2, <1>4, <1>5 DEF Linked

\* A context is entered above the one where the process continued.
LEMMA CalmPush ==
    ASSUME BaseInv, CalmInv, NEW n, NEW k \in Called, NEW o, NEW c, NEW fs, Pushes(n, k, o, c, fs),
           c = Current, kind[c] # "free", Proceeds,
           k # "method" => o \in Ctx /\ kind[o] \in {"method", "block"},
           unwind' # NoUnwind =>
               /\ unwind # NoUnwind /\ unwind'.target = unwind.target
               /\ unwind'.next = sender[unwind.at] /\ unwind.at # unwind.target
               /\ kind[unwind.at] = "ensure" /\ complete'[unwind.at],
           \A i \in 1 .. Len(stack) : fs[i].pending # NoException =>
               HeldBack(sender, kind, complete', unwind', fs[i].pending, stack[i].ctx)
    PROVE  CalmInv'
<1>1. FrameInv /\ Linked /\ MeantInv /\ Made /\ Tree(c) /\ Unwinding
  BY DEF BaseInv, CalmInv, TreeInv
<1>2. /\ n \in Ctx /\ kind[n] = "free" /\ (\A m \in Ctx : m < n => kind[m] # "free")
      /\ k \in {"method", "block", "ensure"} /\ o \in CtxOrNil /\ c \in Ctx
      /\ kind' = [kind EXCEPT ![n] = k] /\ outer' = [outer EXCEPT ![n] = o]
      /\ sender' = [sender EXCEPT ![n] = c] /\ UNCHANGED <<suspended, loopSender>>
      /\ exc' = NoException /\ unwind'.at = unwind.at
  BY DEF Pushes, Enter
<1>3. /\ Len(stack') = Len(stack) + 1 /\ stack'[Len(stack) + 1] = Frame(n, c)
      /\ \A i \in 1 .. Len(stack) : stack'[i] = fs[i] /\ stack[i].ctx # n
      /\ stack' # << >> /\ Top' = Frame(n, c) /\ Len(stack) \in Nat
  <2>1. /\ Len(stack') = Len(stack) + 1 /\ stack'[Len(stack) + 1] = Frame(n, c)
        /\ \A i \in 1 .. Len(stack) : stack'[i] = fs[i] /\ stack[i].ctx # n
    BY <1>1, LinkedPush
  <2>2. Len(stack) \in Nat
    BY <1>1, FrameFacts
  <2>3. stack' # << >> /\ Top' = stack'[Len(stack) + 1]
    BY <2>1, <2>2 DEF Top, Last
  <2> QED BY <2>1, <2>2, <2>3
<1>4. /\ Tree(n)'
      /\ \A x \in CtxOrNil : x # n => n \notin ChainOf(sender, x)
                                      /\ ChainOf(sender', x) = ChainOf(sender, x)
  BY <1>1, <1>2, TreePush
<1>5. Made'
  <2>1. \A x \in Ctx : x # n => sender'[x] = sender[x]
    BY <1>1, <1>2, TreeTyped
  <2>2. \A x \in Ctx : kind[x] = "free" => pc'[x] = pc[x]
    BY DEF Proceeds
  <2>3. k \in {"method", "block", "ensure", "process"} /\ k # "process"
    BY <1>2
  <2> QED BY <1>1, <1>2, <2>1, <2>2, <2>3, MadeNew
<1>6. NoException.type = "none" /\ Frame(n, c).ctx = n /\ Frame(n, c).pending = NoException
  BY DEF NoException, Frame
<1>7. TreeInv'
  <2>1. Current' = n
    BY <1>2, <1>3, <1>6 DEF Current
  <2> QED BY <1>4, <2>1 DEF TreeInv
<1>8. Control'
  BY <1>2, <1>3, <1>6 DEF Control
<1>9. ASSUME NEW x \in Ctx, x # n PROVE sender'[x] = sender[x] /\ kind'[x] = kind[x]
  BY <1>1, <1>2, <1>9, TreeTyped
<1>10. Unwinding'
  <2> SUFFICES ASSUME unwind' # NoUnwind
               PROVE  /\ unwind'.target \in ChainOf(sender', unwind'.at)
                      /\ unwind'.next = sender'[unwind'.at] /\ unwind'.at # unwind'.target
                      /\ kind'[unwind'.at] = "ensure" /\ complete'[unwind'.at]
    BY <1>3 DEF Unwinding
  <2>1. unwind.at \in CtxOrNil /\ unwind.target \in ChainOf(sender, unwind.at)
    BY <1>1 DEF Unwinding, FrameInv, TypeOK
  <2>2. unwind.at # Nil
    <3> PICK s \in [Ctx -> CtxOrNil] : s = sender
      BY <1>1, TreeTyped
    <3>1. ChainOf(s, Nil) = {}
      BY ChainNext
    <3> QED BY <2>1, <3>1
  <2>3. unwind.at \in Ctx /\ unwind.at # n
    BY <1>2, <2>1, <2>2 DEF CtxOrNil
  <2> QED BY <1>2, <1>4, <1>9, <2>1, <2>3
<1>11. Pendings'
  <2> SUFFICES ASSUME NEW i \in 1 .. Len(stack) + 1, stack'[i].pending # NoException
               PROVE  HeldBack(sender', kind', complete', unwind', stack'[i].pending, stack'[i].ctx)
    BY <1>3 DEF Pendings
  <2>1. i \in 1 .. Len(stack)
    BY <1>3, <1>6
  <2>2. stack'[i] = fs[i] /\ fs[i].ctx = stack[i].ctx /\ stack[i].ctx # n
    BY <1>3, <2>1 DEF Pushes, SameFrames
  <2> PICK e, x : e = fs[i].pending /\ x = stack[i].ctx
    OBVIOUS
  <2>3. x \in Ctx /\ x # n
    BY <1>1, <2>1, <2>2, FrameFacts
  <2>4. HeldBack(sender, kind, complete', unwind', e, x)
    BY <2>1, <2>2
  <2> PICK y : y = sender[x]
    OBVIOUS
  <2>5. y \in CtxOrNil /\ y # n
    BY <1>1, <1>2, <2>3, TreeTyped, FreeIsApart
  <2>6. \A z \in ChainOf(sender, y) : z \in Ctx /\ z # n
    <3> PICK s \in [Ctx -> CtxOrNil] : s = sender /\ NoCycles(s)
      BY <1>1, TreeTyped DEF Tree
    <3>1. ChainOf(s, y) \subseteq Ctx
      BY <2>5, ChainClosed
    <3> QED BY <1>4, <2>5, <3>1
  <2>7. \A v : OwedIn(sender, kind, v, y) => OwedIn(sender', kind', v, y)
    BY <1>4, <1>9, <2>5, <2>6, OwedKept
  <2>8. HeldBack(sender', kind', complete', unwind', e, x)
    BY <1>9, <2>3, <2>4, <2>7 DEF HeldBack
  <2> QED BY <2>2, <2>8
<1> QED BY <1>5, <1>7, <1>8, <1>10, <1>11 DEF CalmInv

LEMMA UnwindAt ==
    ASSUME BaseInv, CalmInv, unwind # NoUnwind
    PROVE  unwind.at \in Ctx /\ unwind.at # Nil /\ unwind.target # Nil
<1> PICK s \in [Ctx -> CtxOrNil] : s = sender
  BY TreeTyped DEF BaseInv
<1>1. /\ unwind.at \in CtxOrNil /\ unwind.target \in ChainOf(s, unwind.at)
      /\ unwind.target # Nil
  BY DEF BaseInv, FrameInv, TypeOK, Known, CalmInv, Unwinding
<1>2. ChainOf(s, Nil) = {}
  BY ChainNext
<1> QED BY <1>1, <1>2, NilIsNoContext DEF CtxOrNil

\* The running context is alive, and called by another one unless it is the first of
\* its process.
LEMMA TopIsAlive ==
    ASSUME BaseInv, CalmInv, stack # << >>, exc.type # "ContextSwitch"
    PROVE  /\ Current = Top.ctx /\ Tree(Top.ctx) /\ Top.ctx \in Ctx
           /\ Alive(Top.ctx, Top.ctx) /\ pc[Top.ctx] >= 0
           /\ sender[Top.ctx] = Nil => kind[Top.ctx] \in {"process", "toplevel"}
<1>1. Current = Top.ctx
  BY DEF Current
<1>2. FrameInv /\ Tree(Top.ctx) /\ Top.ctx \in Ctx /\ kind[Top.ctx] # "free"
  BY <1>1, TopFacts DEF BaseInv, CalmInv, TreeInv
<1> PICK s \in [Ctx -> CtxOrNil] : s = sender
  BY <1>2, TreeTyped
<1>3. Top.ctx \in ChainOf(s, Top.ctx)
  BY <1>2, ChainNext
<1>4. Alive(Top.ctx, Top.ctx)
  BY <1>3 DEF Alive, On
<1>5. kind[Top.ctx] \in Kinds
  BY <1>2, TreeTyped
<1> QED BY <1>1, <1>2, <1>4, <1>5 DEF Tree, Kinds, Called

\* A Return leaves the top frame.
LEMMA CalmPop ==
    ASSUME Calm, BaseInv, CalmInv, stack # << >>, exc.type = "Return", PopFrame,
           Unwind(Top.ctx) \/ MarkReturned(Top.ctx),
           kind[Top.ctx] = "ensure" => complete[Top.ctx], kind[Top.ctx] # "process",
           UNCHANGED <<kind, outer, complete, suspended, loopSender, unwind>>,
           exc'.type = "Return", kind[Top.ctx] = "toplevel" => exc'.arrived,
           ~ exc'.arrived =>
               /\ exc'.target # Nil /\ unwind = NoUnwind
               /\ \/ OwedIn(sender, kind, exc'.target, sender[Top.ctx])
                  \/ Len(stack) = 1 /\ exc'.target = sender[Top.ctx]
    PROVE  CalmInv'
<1>1. FrameInv /\ Linked /\ MeantInv /\ Made
  BY DEF BaseInv, CalmInv
<1> PICK c \in Ctx : c = Top.ctx
  BY <1>1, TopFacts
<1> PICK m \in Nat \ {0} : m = Len(stack) /\ m \in 1 .. m /\ Top = stack[m]
  BY <1>1, FrameFacts
<1> PICK s \in [Ctx -> CtxOrNil] : s = sender /\ NoCycles(s) /\ Tree(c)
  BY <1>1, TreeTyped, TopIsAlive DEF Tree
<1> PICK t : t = sender'
  OBVIOUS
<1> PICK g \in CtxOrNil : g = s[c]
  OBVIOUS
<1>2. /\ Tree(g)' /\ c \notin ChainOf(s, g)
      /\ \A x \in CtxOrNil : c \notin ChainOf(s, x) => ChainOf(t, x) = ChainOf(s, x)
  BY <1>1, TreePop
<1>3. \A x \in Ctx : x # c => t[x] = s[x] /\ pc'[x] = pc[x]
  BY <1>1, MarksOnly
<1>4. /\ Len(stack') = m - 1 /\ \A i \in 1 .. m - 1 : stack'[i] = stack[i]
  BY <1>1, PoppedFrame, FrameFacts DEF PopFrame
<1>5. g = ReturnsTo(m)
  BY FramesInChain
<1>6. ASSUME NEW y \in CtxOrNil, y = Nil \/ y \in ChainOf(s, g)
      PROVE  /\ ChainOf(t, y) = ChainOf(s, y) /\ c \notin ChainOf(s, y)
             /\ \A z \in ChainOf(s, y) : z \in Ctx /\ t[z] = s[z]
  <2>1. ChainOf(s, y) \subseteq ChainOf(s, g) /\ ChainOf(s, g) \subseteq Ctx
    BY <1>6, ChainNext, ChainClosed
  <2>2. c \notin ChainOf(s, y)
    BY <1>2, <2>1
  <2> QED BY <1>2, <1>3, <2>1, <2>2
<1>7. g # Nil => g \in ChainOf(s, g)
  BY ChainClosed
<1>8. \A v, y : y \in CtxOrNil /\ (y = Nil \/ y \in ChainOf(s, g)) /\ OwedIn(s, kind, v, y)
                => OwedIn(t, kind', v, y)
  BY <1>6 DEF OwedIn
<1>9. exc' # NoException
  BY DEF NoException
<1>10. ASSUME m > 1 PROVE TreeInv' /\ Control'
  <2>1. m - 1 \in 1 .. m - 1 /\ m - 1 \in Nat \ {0}
    BY <1>10
  <2>2. stack' # << >> /\ Top' = stack[m - 1]
    BY <1>4, <2>1 DEF Top, Last
  <2>3. g = stack[m - 1].ctx
    BY <1>5, <1>10 DEF ReturnsTo, Caller
  <2>4. Current' = g
    BY <2>2, <2>3 DEF Current
  <2>5. \A v : OwedIn(s, kind, v, g) => OwedIn(t, kind', v, g)
    BY <1>7, <1>8, ChainNext
  <2>6. Control'
    BY <1>10, <2>2, <2>3, <2>5 DEF Control, Under
  <2> QED BY <1>2, <2>4, <2>6 DEF TreeInv
<1>11. ASSUME m = 1 PROVE TreeInv' /\ Control'
  <2>1. stack' = << >>
    BY <1>1, <1>4, <1>11, PoppedFrame, FrameFacts DEF PopFrame
  <2>2. IF unwind # NoUnwind THEN g = unwind.at ELSE g = loopSender
    <3>1. NoUnwind.at = Nil
      BY DEF NoUnwind
    <3> QED BY <1>5, <1>11, <3>1, UnwindAt DEF ReturnsTo, Caller
  <2>3. Current' = g
    BY <2>1, <2>2 DEF Current
  <2>4. ASSUME unwind = NoUnwind, loopSender = Nil
        PROVE  exc'.arrived /\ pc'[Toplevel] = -1 /\ sender'[Toplevel] = Nil
    <3>1. kind[c] = "toplevel" /\ c = Toplevel
      BY <1>1, <2>2, <2>4, TopIsAlive DEF Made
    <3>2. MarkReturned(c)
      BY <3>1 DEF Unwind
    <3>3. pc'[c] = -1 /\ sender'[c] = Nil
      <4>1. PICK P : pc \in [Ctx -> P]
        BY <1>1 DEF FrameInv, TypeOK
      <4> QED BY <1>1, <3>2, <4>1, TreeTyped DEF MarkReturned
    <3> QED BY <3>1, <3>3
  <2>5. ASSUME ~ exc'.arrived
        PROVE  exc'.target # Nil /\ unwind = NoUnwind /\ exc'.target \in ChainOf(t, loopSender)
    <3>1. exc'.target # Nil /\ g = loopSender /\ unwind = NoUnwind
      BY <2>2, <2>5
    <3>2. exc'.target \in ChainOf(s, g)
      <4>1. CASE OwedIn(s, kind, exc'.target, g)
        BY <3>1, <4>1, ChainClosed DEF OwedIn, Closed
      <4>2. CASE exc'.target = g
        BY <1>7, <3>1, <4>2
      <4> QED BY <2>5, <4>1, <4>2
    <3>3. ChainOf(t, g) = ChainOf(s, g)
      BY <1>6, <1>7
    <3> QED BY <3>1, <3>2, <3>3
  <2>6. Control'
    BY <1>9, <2>1, <2>4, <2>5 DEF Control, Under, IsReturned
  <2> QED BY <1>2, <2>3, <2>6 DEF TreeInv
<1>12. Made'
  <2>1. \A x \in Ctx : sender'[x] = sender[x] \/ sender'[x] = Nil
    BY <1>1, <1>3, TreeTyped DEF Unwind, MarkReturned
  <2>2. \A x \in Ctx : kind[x] = "free" => pc'[x] = pc[x]
    BY <1>1, <1>3, TopFacts
  <2> QED BY <1>1, <2>1, <2>2, MadeSame
<1>13. Unwinding'
  <2> SUFFICES ASSUME unwind # NoUnwind
               PROVE  /\ unwind.target \in ChainOf(t, unwind.at)
                      /\ unwind.next = t[unwind.at] /\ unwind.at # unwind.target
                      /\ kind[unwind.at] = "ensure" /\ complete[unwind.at]
    BY <1>9 DEF Unwinding
  <2>1. unwind.at \in Ctx /\ unwind.at # Nil
    BY UnwindAt
  <2>2. ReturnsTo(1) = unwind.at /\ 1 \in 1 .. m
    BY <2>1 DEF ReturnsTo, Caller
  <2>3. unwind.at \in ChainOf(s, g)
    BY <2>1, <2>2, FramesInChain
  <2>4. ChainOf(t, unwind.at) = ChainOf(s, unwind.at) /\ unwind.at # c
    BY <1>2, <1>6, <2>1, <2>3 DEF CtxOrNil
  <2> QED BY <1>3, <2>1, <2>4 DEF CalmInv, Unwinding
<1>14. Pendings'
  <2> SUFFICES ASSUME NEW i \in 1 .. m - 1, stack[i].pending # NoException
               PROVE  HeldBack(t, kind, complete, unwind, stack[i].pending, stack[i].ctx)
    BY <1>4 DEF Pendings
  <2> PICK e, x : e = stack[i].pending /\ x = stack[i].ctx
    OBVIOUS
  <2>1. i \in 1 .. m /\ i + 1 \in 1 .. m /\ (i + 1) - 1 = i /\ i + 1 > 1
    OBVIOUS
  <2>2. x \in Ctx /\ x # Nil
    BY <1>1, <2>1, FrameFacts, NilIsNoContext
  <2>3. ReturnsTo(i + 1) = x
    BY <2>1 DEF ReturnsTo, Caller
  <2>4. x \in ChainOf(s, g)
    BY <2>1, <2>2, <2>3, FramesInChain
  <2>5. s[x] \in CtxOrNil /\ (s[x] = Nil \/ s[x] \in ChainOf(s, g)) /\ x # c
    BY <1>2, <2>2, <2>4, ChainClosed DEF Closed
  <2>6. HeldBack(s, kind, complete, unwind, e, x)
    BY <2>1 DEF CalmInv, Pendings
  <2>7. HeldBack(t, kind, complete, unwind, e, x)
    BY <1>3, <1>8, <2>2, <2>5, <2>6 DEF HeldBack
  <2> QED BY <2>7
<1> QED BY <1>10, <1>11, <1>12, <1>13, <1>14 DEF CalmInv

\* A call of the running context.
LEMMA CalmCalls ==
    ASSUME BaseInv, CalmInv, NEW c \in Ctx, Call(c) \/ EnsureCalls(c) \/ ProcessCalls(c)
    PROVE  CalmInv'
<1>1. /\ FrameInv /\ Made /\ c = Top.ctx /\ exc = NoException /\ stack # << >> /\ unwind' = unwind
      /\ UNCHANGED <<suspended, exc, loopSender, unwind, halted>> /\ pc[c] >= 0
  BY CallPushes DEF BaseInv, CalmInv, Call, EnsureCalls, ProcessCalls, Executes
<1>2. NoException.type = "none"
  BY DEF NoException
<1>3. c = Current /\ kind[c] # "free"
  BY <1>1, <1>2, TopFacts DEF Current
<1>4. c = Caller(Len(stack) + 1)
  <2>1. Len(stack) \in Nat \ {0} /\ Top = stack[Len(stack)]
    BY <1>1, TopFacts
  <2>2. Len(stack) + 1 > 1 /\ (Len(stack) + 1) - 1 = Len(stack)
    BY <2>1
  <2> QED BY <1>1, <2>1, <2>2 DEF Caller
<1>5. stack \in Seq(Invocation) /\ SameFrames(stack)
  BY <1>1, FrameFacts DEF SameFrames
<1>6. PICK n \in Ctx, k \in Called, o \in CtxOrNil :
          Enter(n, k, o, c, stack)
          /\ (k # "method" => o \in Ctx /\ kind[o] \in {"method", "block"})
  <2>1. CASE Call(c)
    <3>1. CASE \E n \in Ctx : Enter(n, "method", Nil, c, stack)
      BY <3>1 DEF Called, CtxOrNil
    <3>2. CASE \E n, o \in Ctx : kind[o] \in {"method", "block"} /\ Enter(n, "block", o, c, stack)
      BY <3>2 DEF Called, CtxOrNil
    <3>3. CASE kind[c] # "toplevel" /\ \E n \in Ctx : Enter(n, "ensure", c, c, stack)
      <4>1. kind[c] \in {"method", "block"} /\ c \in CtxOrNil
        BY <2>1, <3>3 DEF Call, CtxOrNil
      <4> QED BY <3>3, <4>1 DEF Called
    <3> QED BY <2>1, <3>1, <3>2, <3>3 DEF Call
  <2>2. CASE EnsureCalls(c) \/ ProcessCalls(c)
    <3>1. kind[c] \in {"ensure", "process"} /\ \E n \in Ctx : Enter(n, "block", outer[c], c, stack)
      BY <2>2 DEF EnsureCalls, ProcessCalls
    <3>2. outer[c] \in Ctx /\ kind[outer[c]] \in {"method", "block"}
      BY <1>1, <3>1 DEF Made
    <3> QED BY <3>1, <3>2 DEF Called, CtxOrNil
  <2> QED BY <2>1, <2>2
<1>7. Pushes(n, k, o, c, stack)
  BY <1>1, <1>4, <1>5, <1>6 DEF Pushes, Called
<1>8. \A x \in Ctx : complete[x] => complete'[x]
  BY <1>1, TreeTyped DEF Call, EnsureCalls, ProcessCalls
<1>9. Proceeds
  <2>1. PICK P : pc \in [Ctx -> P]
    BY <1>1 DEF FrameInv, TypeOK
  <2>2. pc' = pc \/ \E v \in {1, pc[c] + 1} : pc' = [pc EXCEPT ![c] = v]
    BY DEF Call, EnsureCalls, ProcessCalls
  <2>3. pc[c] \in -1 .. 2
    BY <1>1 DEF FrameInv, TypeOK
  <2>4. \A v \in {1, pc[c] + 1} : v >= 0
    BY <1>1, <2>3
  <2>5. \A x \in Ctx : pc'[x] = pc[x] \/ (x = c /\ pc'[x] >= 0)
    BY <2>1, <2>2, <2>4
  <2> QED BY <1>3, <1>8, <2>5 DEF Proceeds
<1>10. unwind' # NoUnwind =>
          /\ unwind # NoUnwind /\ unwind'.target = unwind.target
          /\ unwind'.next = sender[unwind.at] /\ unwind.at # unwind.target
          /\ kind[unwind.at] = "ensure" /\ complete'[unwind.at]
  BY <1>1, <1>8, UnwindAt DEF CalmInv, Unwinding
<1>11. \A i \in 1 .. Len(stack) : stack[i].pending # NoException =>
          HeldBack(sender, kind, complete', unwind', stack[i].pending, stack[i].ctx)
  <2> SUFFICES ASSUME NEW i \in 1 .. Len(stack), stack[i].pending # NoException
               PROVE  HeldBack(sender, kind, complete', unwind, stack[i].pending, stack[i].ctx)
    BY <1>1
  <2>1. HeldBack(sender, kind, complete, unwind, stack[i].pending, stack[i].ctx)
    BY DEF CalmInv, Pendings
  <2>2. stack[i].ctx \in Ctx
    BY <1>1, FrameFacts
  <2> QED BY <1>8, <2>1, <2>2 DEF HeldBack
<1> QED BY <1>3, <1>6, <1>7, <1>9, <1>10, <1>11, CalmPush

\* The running context raises an exception, or makes a process.
LEMMA CalmRaise ==
    ASSUME BaseInv, CalmInv, stack # << >>, exc = NoException,
           UNCHANGED <<kind, outer, sender, pc, complete, suspended, stack, loopSender, unwind>>,
           exc' = NoException \/ exc'.type = "Return",
           exc' # NoException /\ ~ exc'.arrived => Under'
    PROVE  CalmInv'
<1>1. NoException.type = "none" /\ Top' = Top
  BY DEF NoException, Top, Last
<1>2. Current' = Current /\ Current = Top.ctx
  BY <1>1 DEF Current
<1>3. TreeInv'
  <2> SUFFICES ASSUME NEW h, h = Current' PROVE Tree(h)'
    BY DEF TreeInv
  <2>1. Tree(h)
    BY <1>2 DEF CalmInv, TreeInv
  <2>2. Proceeds
    BY DEF Proceeds
  <2> QED BY <2>1, <2>2, TreeSame DEF BaseInv, CalmInv
<1>4. Made'
  BY DEF CalmInv, Made
<1>5. Control'
  BY <1>1 DEF Control
<1>6. Unwinding' /\ Pendings'
  BY DEF CalmInv, Unwinding, Pendings
<1> QED BY <1>3, <1>4, <1>5, <1>6 DEF CalmInv

\* The home of the running block is on the chain of the block, or nothing of it is.
LEMMA HomeIsBelow ==
    ASSUME BaseInv, CalmInv, stack # << >>, exc = NoException, kind[Top.ctx] = "block",
           NEW h, h = Home[Top.ctx], sender[h] # Nil, sender[h] \in Senders(Top.ctx)
    PROVE  OwedIn(sender, kind, sender[h], Top.ctx)
<1> PICK c \in Ctx : c = Top.ctx
  BY TopFacts DEF BaseInv
<1> PICK s \in [Ctx -> CtxOrNil] : s = sender
  BY TreeTyped DEF BaseInv
<1>1. FrameInv /\ Made /\ Tree(c) /\ NoCycles(s) /\ exc.type # "ContextSwitch"
  BY TopIsAlive DEF BaseInv, CalmInv, Tree, NoException
<1>2. h \in Ctx /\ kind[h] = "method"
  BY <1>1, HomeIsMethod
<1>3. s[h] \in ChainOf(s, s[c])
  BY SendersChain
<1>4. s[h] \in Ctx /\ s[h] \in ChainOf(s, c)
  BY <1>1, <1>3, ChainNext, ChainClosed
<1>5. Alive(c, h)
  BY <1>1, <1>2 DEF Tree
<1>6. PICK d \in suspended \cup {c} : h \in ChainOf(s, d)
  BY <1>5 DEF Alive, On
<1>7. s[h] \in ChainOf(s, d)
  <2>1. d \in CtxOrNil
    BY <1>1, TreeTyped DEF CtxOrNil
  <2> QED BY <1>1, <1>4, <1>6, <2>1, NilIsNoContext, ChainClosed DEF Closed
<1>8. d = c
  BY <1>1, <1>4, <1>7 DEF Tree, Forest
<1> QED BY <1>2, <1>6, <1>8 DEF OwedIn

LEMMA CalmReturns ==
    ASSUME Calm, BaseInv, CalmInv, NEW c \in Ctx, ReturnLocal(c) \/ ReturnNonLocal(c)
    PROVE  CalmInv'
<1>1. /\ stack # << >> /\ exc = NoException /\ c = Top.ctx
      /\ UNCHANGED <<kind, outer, sender, pc, complete, suspended, stack, loopSender, unwind>>
  BY DEF ReturnLocal, ReturnNonLocal, Executes, Raise, Halt
<1>2. Top' = Top /\ Top.pending = NoException
  BY <1>1 DEF Top, Last, BaseInv, MeantInv
<1>3. CASE exc' = exc
  BY <1>1, <1>3, CalmRaise
<1>4. CASE ReturnLocal(c)
  <2>1. exc' = Return(Nil, sender[c]) /\ kind[c] # "process"
    BY <1>4 DEF ReturnLocal, Raise
  <2>2. exc'.type = "Return" /\ exc'.target = Nil
    BY <2>1 DEF Return
  <2>3. Under'
    BY <1>1, <1>2, <2>1, <2>2 DEF Under
  <2> QED BY <1>1, <2>2, <2>3, CalmRaise
<1>5. CASE ReturnNonLocal(c) /\ exc' # exc
  <2>1. PICK h \in Ctx :
            /\ kind[c] = "block" /\ h = Home[c]
            /\ unwind # NoUnwind => "return_unwind" \in ImageDoes
            /\ sender[h] # Nil /\ (sender[h] \in Senders(c) \/ "stray" \in ImageDoes)
            /\ Raise(Return(sender[h], IF sender[h] \in Senders(c) THEN sender[h] ELSE Nil))
    BY <1>5 DEF ReturnNonLocal, Halt
  <2>2. /\ unwind = NoUnwind /\ sender[h] # Nil /\ sender[h] \in Senders(c)
        /\ exc' = Return(sender[h], sender[h])
    BY <2>1, NothingStored DEF Raise
  <2>3. exc'.type = "Return" /\ exc'.target = sender[h]
    BY <2>2 DEF Return
  <2>4. OwedIn(sender, kind, sender[h], Top.ctx)
    BY <1>1, <2>1, <2>2, HomeIsBelow
  <2>5. Under'
    BY <1>1, <1>2, <2>2, <2>3, <2>4 DEF Under
  <2> QED BY <1>1, <2>3, <2>5, CalmRaise
<1> QED BY <1>3, <1>4, <1>5

LEMMA CalmFork ==
    ASSUME BaseInv, CalmInv, NEW c \in Ctx, Fork(c)
    PROVE  CalmInv'
<1>1. /\ stack # << >> /\ exc = NoException /\ c = Top.ctx /\ kind[c] = "method"
      /\ UNCHANGED <<sender, pc, state, complete, stack, exc, loopSender, unwind, halted>>
  BY DEF Fork, Executes
<1>2. PICK n \in Ctx :
          /\ kind[n] = "free" /\ \A m \in Ctx : m < n => kind[m] # "free"
          /\ kind' = [kind EXCEPT ![n] = "process"]
          /\ outer' = [outer EXCEPT ![n] = c]
          /\ suspended' = suspended \cup {n}
  BY DEF Fork
<1>3. FrameInv /\ Made /\ NoException.type = "none" /\ Top' = Top
  BY <1>1 DEF BaseInv, CalmInv, NoException, Top, Last
<1>4. Current = c /\ Current' = c
  BY <1>1, <1>3 DEF Current
<1>5. TreeInv'
  <2>1. Tree(c)
    BY <1>4 DEF CalmInv, TreeInv
  <2>2. \A m \in Ctx : m < n => kind[m] # "free"
    BY <1>2
  <2>3. Tree(c)'
    BY <1>1, <1>2, <1>3, <2>1, TreeFork
  <2> QED BY <1>4, <2>3 DEF TreeInv
<1>6. Made'
  <2>1. /\ kind[n] = "free" /\ (\A m \in Ctx : m < n => kind[m] # "free")
        /\ "process" \in {"method", "block", "ensure", "process"} /\ c \in CtxOrNil
        /\ kind[c] \in {"method", "block"}
    BY <1>1, <1>2 DEF CtxOrNil
  <2> QED BY <1>1, <1>2, <1>3, <2>1, MadeNew
<1>7. Control'
  BY <1>1, <1>3 DEF Control
<1>8. \A x \in Ctx : kind[x] # "free" => kind'[x] = kind[x]
  BY <1>2, <1>3, TreeTyped
<1>9. Unwinding'
  <2>1. unwind # NoUnwind => kind'[unwind.at] = kind[unwind.at]
    BY <1>1, <1>8, UnwindAt DEF CalmInv, Unwinding
  <2> QED BY <1>1, <2>1 DEF CalmInv, Unwinding
<1>10. Pendings'
  <2> SUFFICES ASSUME NEW i \in 1 .. Len(stack), stack[i].pending # NoException
               PROVE  HeldBack(sender, kind', complete, unwind, stack[i].pending, stack[i].ctx)
    BY <1>1 DEF Pendings
  <2> PICK e, x : e = stack[i].pending /\ x = stack[i].ctx
    OBVIOUS
  <2>1. HeldBack(sender, kind, complete, unwind, e, x) /\ x \in Ctx
    BY <1>3, FrameFacts DEF CalmInv, Pendings
  <2>2. \A v : OwedIn(sender, kind, v, sender[x]) => OwedIn(sender, kind', v, sender[x])
    <3> PICK s \in [Ctx -> CtxOrNil] : s = sender /\ NoCycles(s)
      BY <1>3, <1>4, TreeTyped DEF CalmInv, TreeInv, Tree
    <3>1. ChainOf(s, s[x]) \subseteq Ctx
      BY <2>1, ChainClosed
    <3> QED BY <1>8, <3>1 DEF OwedIn
  <2>3. kind'[x] = kind[x]
    BY <1>8, <2>1 DEF HeldBack
  <2> QED BY <2>1, <2>2, <2>3 DEF HeldBack
<1> QED BY <1>5, <1>6, <1>7, <1>9, <1>10 DEF CalmInv

\* The running context gives way to that of another process, when no return is on
\* its way.
LEMMA CalmSwitch ==
    ASSUME Calm, BaseInv, CalmInv, NEW c \in Ctx, NEW d \in Ctx, Switch(c, d) \/ Terminate(c)
    PROVE  CalmInv'
<1>1. /\ stack # << >> /\ exc = NoException /\ c = Top.ctx
      /\ UNCHANGED <<kind, outer, sender, pc, state, complete, stack, loopSender, unwind, halted>>
  BY DEF Switch, Terminate, Executes, Raise
<1>2. /\ FrameInv /\ Made /\ exc.type # "ContextSwitch" /\ Tree(c)
      /\ Current = c /\ Top.pending = NoException
  BY <1>1, TopIsAlive DEF BaseInv, CalmInv, NoException, MeantInv
<1>3. PICK x \in Ctx : exc' = ProcessSwitch(x) /\ Tree(x)'
  <2>1. CASE Switch(c, d)
    <3>1. /\ exc' = ProcessSwitch(d) /\ d \in suspended \cup {c}
          /\ suspended' = (suspended \cup {c}) \ {d}
      BY <2>1 DEF Switch, Raise
    <3> QED BY <1>1, <1>2, <3>1, TreeSwitch
  <2>2. CASE Terminate(c)
    <3>1. kind[c] = "process" /\ sender[c] = Nil
      BY <1>2, <2>2 DEF Terminate, Made
    <3>2. PICK x \in suspended : exc' = ProcessSwitch(x) /\ suspended' = suspended \ {x}
      BY <2>2 DEF Terminate, Raise
    <3>3. x \in Ctx /\ Tree(x)'
      BY <1>1, <1>2, <3>1, <3>2, TreeTerminate, TreeTyped
    <3> QED BY <3>2, <3>3
  <2> QED BY <2>1, <2>2
<1>4. unwind = NoUnwind /\ ~ PendingReturn
  <2>1. CASE Switch(c, d)
    BY <2>1, NothingStored DEF Switch, InCleanup
  <2>2. CASE Terminate(c)
    <3>1. sender[c] = Nil
      BY <1>2, <2>2 DEF Terminate, Made
    <3> PICK m \in Nat \ {0} : m = Len(stack) /\ m \in 1 .. m /\ Top = stack[m]
      BY <1>1, <1>2, FrameFacts
    <3>2. ReturnsTo(m) = Nil
      BY <1>1, <3>1, FramesInChain
    <3>3. m = 1
      <4> SUFFICES ASSUME m > 1 PROVE FALSE
        OBVIOUS
      <4>1. m - 1 \in 1 .. m /\ stack[m - 1].ctx \in Ctx
        BY <1>2, FrameFacts
      <4> QED BY <3>2, <4>1, NilIsNoContext DEF ReturnsTo, Caller
    <3>4. unwind.at = Nil
      BY <3>2, <3>3 DEF ReturnsTo, Caller
    <3>5. unwind = NoUnwind
      BY <3>4, UnwindAt
    <3>6. \A i \in 1 .. m : i = m
      BY <3>3
    <3> QED BY <1>2, <3>5, <3>6 DEF PendingReturn
  <2> QED BY <2>1, <2>2
<1>5. exc'.type = "ContextSwitch" /\ exc'.to = x
  BY <1>3 DEF ProcessSwitch
<1>6. TreeInv'
  <2>1. Current' = x
    BY <1>5 DEF Current
  <2> QED BY <1>3, <2>1 DEF TreeInv
<1>7. Control'
  BY <1>1, <1>4, <1>5 DEF Control, PendingReturn
<1>8. Made' /\ Unwinding' /\ Pendings'
  BY <1>1, <1>4 DEF CalmInv, Made, Unwinding, Pendings, PendingReturn
<1> QED BY <1>6, <1>7, <1>8 DEF CalmInv

\* A return passes a context: its method is that, or below.
LEMMA OwedBelow ==
    ASSUME BaseInv, CalmInv, stack # << >>, exc.type # "ContextSwitch", NEW v,
           OwedIn(sender, kind, v, Top.ctx)
    PROVE  /\ \/ OwedIn(sender, kind, v, sender[Top.ctx])
              \/ kind[Top.ctx] = "method" /\ sender[Top.ctx] = v
           /\ kind[Top.ctx] \notin {"process", "toplevel"}
<1> PICK c \in Ctx : c = Top.ctx
  BY TopFacts DEF BaseInv
<1> PICK s \in [Ctx -> CtxOrNil] : s = sender
  BY TreeTyped DEF BaseInv
<1>1. ChainOf(s, c) = {c} \cup ChainOf(s, s[c]) /\ ChainOf(s, Nil) = {}
  BY ChainNext
<1>2. kind[c] \in {"process", "toplevel"} => s[c] = Nil
  BY DEF CalmInv, Made
<1> QED BY <1>1, <1>2 DEF OwedIn

LEMMA CalmReraised ==
    ASSUME Calm, BaseInv, CalmInv, stack # << >>, exc.type = "Return", ~ exc.arrived,
           NEW r, r = Reraised(Top, exc)
    PROVE  /\ r.type = "Return" /\ kind[Top.ctx] # "process"
           /\ kind[Top.ctx] = "toplevel" => r.arrived
           /\ ~ r.arrived =>
                 /\ r.target # Nil /\ unwind = NoUnwind
                 /\ \/ OwedIn(sender, kind, r.target, sender[Top.ctx])
                    \/ Len(stack) = 1 /\ r.target = sender[Top.ctx] /\ kind[Top.ctx] = "method"
<1>1. FrameInv /\ Linked /\ MeantInv /\ exc \in Exception /\ Under
  BY DEF BaseInv, FrameInv, TypeOK, CalmInv, Control
<1>2. Top.ctx \in Ctx /\ state[Top.ctx] # "Dirty"
  BY <1>1, TopFacts, NothingStored DEF MeantInv
<1> PICK b \in BOOLEAN : b = (exc.target = Nil \/ exc.target = Top.sender)
  OBVIOUS
<1>3. r = [exc EXCEPT !.arrived = b]
  BY <1>2 DEF Reraised
<1>4. r.type = "Return" /\ r.arrived = b /\ r.target = exc.target
  BY <1>1, <1>3, ReturnFields
<1>5. exc.target # Nil => unwind = NoUnwind /\ OwedIn(sender, kind, exc.target, Top.ctx)
  BY <1>1 DEF Under
<1>6. exc.target = Nil => kind[Top.ctx] # "process"
  BY <1>1 DEF Under
<1>7. exc.target # Nil =>
          /\ \/ OwedIn(sender, kind, exc.target, sender[Top.ctx])
             \/ kind[Top.ctx] = "method" /\ sender[Top.ctx] = exc.target
          /\ kind[Top.ctx] \notin {"process", "toplevel"}
  BY <1>5, OwedBelow
<1>8. ASSUME ~ b, sender[Top.ctx] = exc.target PROVE Len(stack) = 1
  <2> PICK m \in Nat \ {0} : m = Len(stack) /\ m \in 1 .. m /\ Top = stack[m]
    BY <1>1, FrameFacts
  <2>1. ReturnsTo(m) = exc.target /\ Top.sender = Caller(m)
    BY <1>1, <1>8, FramesInChain DEF Linked
  <2> QED BY <1>8, <2>1 DEF ReturnsTo
<1> QED BY <1>4, <1>5, <1>6, <1>7, <1>8

LEMMA CalmReturn ==
    ASSUME Calm, BaseInv, CalmInv, LeaveByReturn
    PROVE  CalmInv'
<1>1. /\ stack # << >> /\ exc.type = "Return" /\ ~ exc.arrived /\ ~ HasCleanup(Top.ctx)
      /\ exc' = Reraised(Top, exc) /\ Unwind(Top.ctx) /\ PopFrame
      /\ UNCHANGED <<kind, outer, complete, suspended, loopSender, unwind>>
  BY DEF LeaveByReturn, Travels
<1>2. kind[Top.ctx] = "ensure" => complete[Top.ctx]
  BY <1>1 DEF HasCleanup
<1>3. /\ exc'.type = "Return" /\ kind[Top.ctx] # "process"
      /\ kind[Top.ctx] = "toplevel" => exc'.arrived
      /\ ~ exc'.arrived =>
            /\ exc'.target # Nil /\ unwind = NoUnwind
            /\ \/ OwedIn(sender, kind, exc'.target, sender[Top.ctx])
               \/ Len(stack) = 1 /\ exc'.target = sender[Top.ctx]
  BY <1>1, CalmReraised
<1> QED BY <1>1, <1>2, <1>3, CalmPop

LEMMA CalmAfterCleanup ==
    ASSUME Calm, BaseInv, CalmInv, LeaveAfterCleanup
    PROVE  CalmInv'
<1>1. /\ stack # << >> /\ exc # NoException /\ Top.pending # NoException
      /\ exc' = IF exc.type = "Return" /\ exc.arrived THEN Top.pending ELSE exc
      /\ MarkReturned(Top.ctx) /\ PopFrame
      /\ UNCHANGED <<kind, outer, complete, suspended, loopSender, unwind>>
  BY DEF LeaveAfterCleanup, Travels
<1>2. Top = stack[Len(stack)] /\ Len(stack) \in 1 .. Len(stack) /\ exc \in Exception
  BY <1>1, FrameFacts DEF BaseInv, FrameInv, TypeOK
<1>3. HeldBack(sender, kind, complete, unwind, Top.pending, Top.ctx)
  BY <1>1, <1>2 DEF CalmInv, Pendings
<1>4. exc.type = "Return"
  <2>1. PendingReturn
    BY <1>1, <1>2 DEF PendingReturn
  <2>2. exc.type # "none"
    BY <1>1, <1>2 DEF Exception, NoException
  <2> QED BY <2>1, <2>2 DEF CalmInv, Control
<1>5. CASE exc.arrived
  <2>1. /\ exc'.type = "Return"
        /\ ~ exc'.arrived =>
              /\ exc'.target # Nil /\ unwind = NoUnwind
              /\ OwedIn(sender, kind, exc'.target, sender[Top.ctx])
    BY <1>1, <1>3, <1>4, <1>5 DEF HeldBack
  <2>2. kind[Top.ctx] = "ensure" /\ complete[Top.ctx]
    BY <1>3 DEF HeldBack
  <2> QED BY <1>1, <1>4, <2>1, <2>2, CalmPop
<1>6. CASE ~ exc.arrived
  <2>1. exc' = exc /\ Under
    BY <1>1, <1>4, <1>6 DEF CalmInv, Control
  <2>2. exc.target # Nil /\ unwind = NoUnwind /\ OwedIn(sender, kind, exc.target, Top.ctx)
    BY <1>1, <2>1 DEF Under
  <2>3. kind[Top.ctx] = "ensure" /\ complete[Top.ctx]
    BY <1>3 DEF HeldBack
  <2>4. OwedIn(sender, kind, exc.target, sender[Top.ctx])
    BY <1>1, <1>4, <2>2, <2>3, OwedBelow
  <2> QED BY <1>1, <1>4, <2>1, <2>2, <2>3, <2>4, CalmPop
<1> QED BY <1>5, <1>6

\* The frames go without the contexts they were of.
LEMMA CalmOther ==
    ASSUME BaseInv, CalmInv, LeaveByOther
    PROVE  CalmInv'
<1>1. /\ stack # << >> /\ exc # NoException /\ exc.type # "Return" /\ PopFrame
      /\ UNCHANGED <<kind, outer, sender, pc, complete, suspended, exc, loopSender, unwind, halted>>
  BY DEF LeaveByOther, Travels
<1>2. exc.type = "ContextSwitch" /\ unwind = NoUnwind /\ ~ PendingReturn
  <2>1. exc.type # "none"
    BY <1>1 DEF BaseInv, FrameInv, TypeOK, Exception, NoException
  <2> QED BY <1>1, <2>1 DEF CalmInv, Control
<1>3. /\ Len(stack') = Len(stack) - 1 /\ \A i \in 1 .. Len(stack) - 1 : stack'[i] = stack[i]
      /\ Len(stack) \in Nat
  BY <1>1, PoppedFrame, FrameFacts DEF PopFrame, BaseInv
<1>4. \A i \in 1 .. Len(stack') : stack'[i].pending = NoException
  <2>1. \A i \in 1 .. Len(stack') : i \in 1 .. Len(stack) /\ stack'[i] = stack[i]
    BY <1>3
  <2> QED BY <1>2, <2>1 DEF PendingReturn
<1>5. TreeInv'
  <2> SUFFICES ASSUME NEW h, h = Current' PROVE Tree(h)'
    BY DEF TreeInv
  <2>1. Tree(h)
    BY <1>1, <1>2 DEF Current, CalmInv, TreeInv
  <2>2. Proceeds
    BY <1>1 DEF Proceeds
  <2> QED BY <1>1, <2>1, <2>2, TreeSame DEF BaseInv, CalmInv
<1>6. Control' /\ Pendings'
  BY <1>1, <1>2, <1>4 DEF Control, Pendings, PendingReturn
<1>7. Made' /\ Unwinding'
  BY <1>1, <1>2 DEF CalmInv, Made, Unwinding
<1> QED BY <1>5, <1>6, <1>7 DEF CalmInv

LEMMA CalmDeliver ==
    ASSUME BaseInv, CalmInv, Deliver
    PROVE  CalmInv'
<1>1. /\ stack # << >> /\ exc.type = "Return" /\ exc' = NoException
      /\ UNCHANGED <<kind, outer, sender, pc, state, complete, suspended, stack, loopSender, unwind>>
  BY DEF Deliver, Travels
<1>2. Current' = Current /\ NoException.type = "none" /\ exc # NoException
  BY <1>1 DEF Current, Top, Last, NoException
<1>3. TreeInv'
  <2> SUFFICES ASSUME NEW h, h = Current' PROVE Tree(h)'
    BY DEF TreeInv
  <2>1. Tree(h)
    BY <1>2 DEF CalmInv, TreeInv
  <2>2. Proceeds
    BY <1>1 DEF Proceeds
  <2> QED BY <1>1, <2>1, <2>2, TreeSame DEF BaseInv, CalmInv
<1>4. Control'
  BY <1>1, <1>2 DEF Control
<1>5. Made' /\ Unwinding' /\ Pendings'
  BY <1>1, <1>2 DEF CalmInv, Made, Unwinding, Pendings
<1> QED BY <1>3, <1>4, <1>5 DEF CalmInv

\* A return waits for a cleanup block.
LEMMA CalmCleanup ==
    ASSUME Calm, BaseInv, CalmInv, LeaveByCleanup
    PROVE  CalmInv'
<1>1. /\ stack # << >> /\ exc.type = "Return" /\ ~ exc.arrived
      /\ kind[Top.ctx] = "ensure" /\ ~ complete[Top.ctx]
      /\ complete' = [complete EXCEPT ![Top.ctx] = TRUE]
      /\ UNCHANGED <<pc, suspended, loopSender, unwind, halted>>
  BY DEF LeaveByCleanup, Travels, HasCleanup
<1>2. FrameInv /\ Made /\ Top.ctx \in Ctx
  BY <1>1, TopFacts DEF BaseInv, CalmInv
<1> PICK c \in Ctx : c = Top.ctx
  BY <1>2
<1>3. PICK n : Pushes(n, "block", outer[Top.ctx], Top.ctx, Held)
  BY <1>2, CleanupPushes
<1>4. /\ Held[Len(stack)].pending = Reraised(Top, exc)
      /\ \A i \in 1 .. Len(stack) - 1 : Held[i] = stack[i]
  BY <1>2, CleanupPushes
<1>5. c = Current
  BY <1>1 DEF Current
<1>6. complete'[c] /\ \A x \in Ctx : complete[x] => complete'[x]
  BY <1>1, <1>2, TreeTyped
<1>7. Proceeds
  BY <1>1, <1>6 DEF Proceeds
<1>8. outer[c] \in Ctx /\ kind[outer[c]] \in {"method", "block"}
  BY <1>1, <1>2 DEF Made
<1>9. unwind' # NoUnwind =>
          /\ unwind # NoUnwind /\ unwind'.target = unwind.target
          /\ unwind'.next = sender[unwind.at] /\ unwind.at # unwind.target
          /\ kind[unwind.at] = "ensure" /\ complete'[unwind.at]
  BY <1>1, <1>6, UnwindAt DEF CalmInv, Unwinding
<1>10. HeldBack(sender, kind, complete', unwind', Held[Len(stack)].pending, c)
  <2> PICK r : r = Reraised(Top, exc)
    OBVIOUS
  <2>1. /\ r.type = "Return"
        /\ ~ r.arrived =>
              r.target # Nil /\ unwind = NoUnwind /\ OwedIn(sender, kind, r.target, sender[c])
    BY <1>1, CalmReraised
  <2> QED BY <1>1, <1>4, <1>6, <2>1 DEF HeldBack
<1>11. ASSUME NEW i \in 1 .. Len(stack), Held[i].pending # NoException
       PROVE  HeldBack(sender, kind, complete', unwind', Held[i].pending, stack[i].ctx)
  <2>1. CASE i = Len(stack)
    <3>1. stack[i] = Top
      BY <1>1, <1>2, <2>1, FrameFacts
    <3> QED BY <1>10, <2>1, <3>1
  <2>2. CASE i # Len(stack)
    <3>1. i \in 1 .. Len(stack) - 1
      BY <1>2, <2>2, FrameFacts
    <3>2. Held[i] = stack[i] /\ stack[i].ctx \in Ctx
      BY <1>2, <1>4, <3>1, FrameFacts
    <3>3. HeldBack(sender, kind, complete, unwind, stack[i].pending, stack[i].ctx)
      BY <1>11, <3>2 DEF CalmInv, Pendings
    <3> QED BY <1>1, <1>6, <3>2, <3>3 DEF HeldBack
  <2> QED BY <2>1, <2>2
<1>12. "block" \in Called /\ kind[c] # "free"
  BY <1>1 DEF Called
<1>13. Pushes(n, "block", outer[c], c, Held)
  BY <1>3
<1> QED BY <1>5, <1>7, <1>8, <1>9, <1>11, <1>12, <1>13, CalmPush

\* The loop starts a context.
LEMMA CalmStart ==
    ASSUME BaseInv, CalmInv, NEW c \in Ctx, c = Current, Start(c), exc' = NoException,
           unwind' = NoUnwind, UNCHANGED <<kind, outer, sender, pc, complete, suspended>>
    PROVE  CalmInv'
<1>1. stack' = <<Frame(c, Nil)>> /\ loopSender' = sender[c]
  BY DEF Start
<1>2. Len(stack') = 1 /\ stack'[1] = Frame(c, Nil) /\ Top' = Frame(c, Nil) /\ stack' # << >>
  BY <1>1 DEF Top, Last
<1>3. /\ Frame(c, Nil).ctx = c /\ Frame(c, Nil).pending = NoException
      /\ NoException.type = "none"
  BY DEF Frame, NoException
<1>4. TreeInv'
  <2>1. Current' = c
    BY <1>2, <1>3 DEF Current
  <2>2. Tree(c) /\ Proceeds
    BY DEF CalmInv, TreeInv, Proceeds
  <2> QED BY <2>1, <2>2, TreeSame DEF BaseInv, CalmInv, TreeInv
<1>5. Control' /\ Unwinding'
  BY <1>2, <1>3 DEF Control, Unwinding
<1>6. Pendings'
  <2>1. \A i \in 1 .. Len(stack') : i = 1
    BY <1>2
  <2> QED BY <1>2, <1>3, <2>1 DEF Pendings
<1>7. Made'
  BY DEF CalmInv, Made
<1> QED BY <1>4, <1>5, <1>6, <1>7 DEF CalmInv

\* Nothing but halted changes.
LEMMA CalmStays ==
    ASSUME CalmInv, UNCHANGED <<kind, outer, sender, pc, complete, suspended, stack, exc,
                                loopSender, unwind>>
    PROVE  CalmInv'
<1>1. Top' = Top /\ Current' = Current
  BY DEF Top, Last, Current
<1>2. TreeInv'
  BY <1>1 DEF CalmInv, TreeInv, Tree, Alive
<1>3. Control'
  BY <1>1 DEF CalmInv, Control, Under, PendingReturn, IsReturned
<1>4. Made' /\ Unwinding' /\ Pendings'
  BY DEF CalmInv, Made, Unwinding, Pendings
<1> QED BY <1>2, <1>3, <1>4 DEF CalmInv

LEMMA CalmLoop ==
    ASSUME BaseInv, CalmInv, LoopSwitch \/ LoopReturn
    PROVE  CalmInv'
<1>1. CASE LoopSwitch
  <2>1. /\ stack = << >> /\ exc.type = "ContextSwitch" /\ Start(exc.to)
        /\ exc' = NoException /\ unwind = NoUnwind /\ exc \in Exception
        /\ UNCHANGED <<kind, outer, sender, pc, complete, suspended, unwind>>
    BY <1>1 DEF LoopSwitch, InLoop, BaseInv, FrameInv, TypeOK
  <2> PICK c \in Ctx : c = exc.to
    BY <2>1, ExceptionFields
  <2>2. c = Current
    BY <2>1 DEF Current
  <2> QED BY <2>1, <2>2, CalmStart
<1>2. CASE LoopReturn
  <2>1. /\ stack = << >> /\ unwind = NoUnwind /\ exc.type = "Return" /\ exc # NoException
        /\ UnwindFrom(loopSender, IF exc.arrived THEN loopSender ELSE exc.target)
    BY <1>2 DEF LoopReturn, InLoop, CalmInv, Control, NoException
  <2> PICK v : v = IF exc.arrived THEN loopSender ELSE exc.target
    OBVIOUS
  <2>2. CASE UNCHANGED <<kind, outer, sender, pc, complete, suspended, stack, exc, loopSender, unwind>>
    BY <2>2, CalmStays
  <2>3. CASE /\ loopSender # Nil /\ v # Nil
             /\ unwind' = [at |-> loopSender, target |-> v, next |-> Nil, goal |-> exc.goal]
             /\ exc' = NoException
             /\ UNCHANGED <<kind, outer, sender, pc, state, complete, suspended, stack,
                            loopSender, halted>>
    <3>1. /\ unwind'.at = loopSender /\ unwind'.target = v /\ unwind'.next = Nil
          /\ unwind' # NoUnwind
      BY <2>3 DEF NoUnwind
    <3>2. v \in ChainOf(sender, loopSender)
      <4>1. CASE exc.arrived
        <5> PICK s \in [Ctx -> CtxOrNil] : s = sender
          BY TreeTyped DEF BaseInv
        <5>1. loopSender \in Ctx
          BY <2>3 DEF BaseInv, FrameInv, TypeOK, CtxOrNil
        <5>2. loopSender \in ChainOf(s, loopSender)
          BY <5>1, ChainNext
        <5> QED BY <4>1, <5>2
      <4>2. CASE ~ exc.arrived
        BY <2>1, <2>3, <4>2 DEF CalmInv, Control, Under
      <4> QED BY <4>1, <4>2
    <3>3. NoException.type = "none" /\ Current = loopSender
      BY <2>1 DEF NoException, Current
    <3>4. Current' = loopSender
      BY <2>1, <2>3, <3>1, <3>3 DEF Current
    <3>5. TreeInv'
      <4>1. Tree(loopSender) /\ Proceeds
        BY <2>3, <3>3 DEF CalmInv, TreeInv, Proceeds
      <4> SUFFICES ASSUME NEW h, h = loopSender PROVE Tree(h)'
        BY <3>4 DEF TreeInv
      <4> QED BY <2>3, <4>1, TreeSame DEF BaseInv, CalmInv
    <3>6. Control'
      BY <2>1, <2>3, <3>1, <3>3 DEF Control
    <3>7. Unwinding' /\ Pendings' /\ Made'
      BY <2>1, <2>3, <3>1, <3>2 DEF CalmInv, Unwinding, Pendings, Made
    <3> QED BY <3>5, <3>6, <3>7 DEF CalmInv
  <2> QED BY <2>1, <2>2, <2>3 DEF UnwindFrom, Halt
<1> QED BY <1>1, <1>2

\* An unwind goes on with the sender of the context it has come to.
LEMMA CalmPass ==
    ASSUME BaseInv, CalmInv, stack = << >>, unwind # NoUnwind, exc.type # "ContextSwitch",
           unwind.at # unwind.target, kind[unwind.at] = "ensure" => complete[unwind.at],
           Unwind(unwind.at) \/ MarkReturned(unwind.at), exc' = NoException,
           unwind'.at = sender[unwind.at], unwind'.target = unwind.target, unwind'.next = Nil,
           UNCHANGED <<kind, outer, complete, suspended, stack, loopSender>>
    PROVE  CalmInv'
<1>1. FrameInv /\ Made
  BY DEF BaseInv, CalmInv
<1> PICK c \in Ctx : c = unwind.at /\ c # Nil /\ unwind.target # Nil
  BY UnwindAt
<1>2. Current = c /\ Tree(c)
  BY DEF Current, CalmInv, TreeInv
<1> PICK s \in [Ctx -> CtxOrNil] : s = sender /\ NoCycles(s)
  BY <1>1, <1>2, TreeTyped DEF Tree
<1> PICK t : t = sender'
  OBVIOUS
<1> PICK g \in CtxOrNil : g = s[c]
  OBVIOUS
<1>3. /\ Tree(g)' /\ c \notin ChainOf(s, g)
      /\ \A x \in CtxOrNil : c \notin ChainOf(s, x) => ChainOf(t, x) = ChainOf(s, x)
  BY <1>1, <1>2, TreePop
<1>4. \A x \in Ctx : x # c => t[x] = s[x] /\ pc'[x] = pc[x]
  BY <1>1, MarksOnly
<1>5. unwind' # NoUnwind /\ NoException.type = "none"
  BY DEF NoUnwind, NoException
<1>6. TreeInv'
  <2>1. Current' = g
    BY <1>5 DEF Current
  <2> QED BY <1>3, <2>1 DEF TreeInv
<1>7. Unwinding'
  <2>1. unwind.target \in ChainOf(s, c)
    BY DEF CalmInv, Unwinding
  <2>2. ChainOf(s, c) = {c} \cup ChainOf(s, g)
    BY ChainNext
  <2>3. unwind.target \in ChainOf(t, g)
    BY <1>3, <2>1, <2>2
  <2> QED BY <2>3 DEF Unwinding
<1>8. Control'
  BY <1>5 DEF Control
<1>9. Pendings'
  <2>1. Len(stack') = 0
    OBVIOUS
  <2> QED BY <2>1 DEF Pendings
<1>10. Made'
  <2>1. \A x \in Ctx : sender'[x] = sender[x] \/ sender'[x] = Nil
    BY <1>1, <1>4, TreeTyped DEF Unwind, MarkReturned
  <2>2. kind[c] # "free"
    BY <1>1 DEF FrameInv, Known, IsKnown
  <2>3. \A x \in Ctx : kind[x] = "free" => pc'[x] = pc[x]
    BY <1>4, <2>2
  <2> QED BY <1>1, <2>1, <2>3, MadeSame
<1> QED BY <1>6, <1>7, <1>8, <1>9, <1>10 DEF CalmInv

LEMMA CalmUnwindOne ==
    ASSUME Calm, BaseInv, CalmInv, UnwindOne
    PROVE  CalmInv'
<1>1. /\ stack = << >> /\ unwind # NoUnwind /\ exc = NoException
      /\ exc.type # "ContextSwitch" /\ FrameInv /\ Made
  BY DEF UnwindOne, InLoop, NoException, BaseInv, CalmInv
<1> PICK c \in Ctx : c = unwind.at /\ c # Nil
  BY <1>1, UnwindAt
<1>2. c = Current /\ kind[c] # "free"
  BY <1>1 DEF Current, FrameInv, Known, IsKnown
<1>3. ASSUME Start(c), unwind' = NoUnwind,
             UNCHANGED <<kind, outer, sender, pc, complete, suspended, exc, halted>>
      PROVE  CalmInv'
  BY <1>1, <1>2, <1>3, CalmStart
<1>4. ASSUME c # unwind.target, HasCleanup(c), complete' = [complete EXCEPT ![c] = TRUE],
             unwind' = [unwind EXCEPT !.next = sender[unwind.at]],
             NEW n \in Ctx, Enter(n, "block", outer[unwind.at], unwind.at, << >>),
             UNCHANGED <<pc, suspended, exc, loopSender, halted>>
      PROVE  CalmInv'
  <2>1. Pushes(n, "block", outer[c], c, stack)
    BY <1>1, <1>4, UnwindPushes
  <2>2. kind[c] = "ensure" /\ complete'[c] /\ \A x \in Ctx : complete[x] => complete'[x]
    BY <1>1, <1>4, TreeTyped DEF HasCleanup
  <2>3. Proceeds
    BY <1>4, <2>2 DEF Proceeds
  <2>4. outer[c] \in Ctx /\ kind[outer[c]] \in {"method", "block"} /\ "block" \in Called
    BY <1>1, <2>2 DEF Made, Called
  <2>5. unwind \in UnwindState
    BY <1>1 DEF FrameInv, TypeOK, UnwindState
  <2>6. unwind'.target = unwind.target /\ unwind'.next = sender[unwind.at]
    BY <1>4, <2>5 DEF UnwindState
  <2>7. \A i \in 1 .. Len(stack) : FALSE
    BY <1>1
  <2>8. unwind' # NoUnwind =>
          /\ unwind # NoUnwind /\ unwind'.target = unwind.target
          /\ unwind'.next = sender[unwind.at] /\ unwind.at # unwind.target
          /\ kind[unwind.at] = "ensure" /\ complete'[unwind.at]
    BY <1>1, <1>4, <2>2, <2>6
  <2> QED BY <1>2, <2>1, <2>3, <2>4, <2>7, <2>8, CalmPush
<1>5. ASSUME c # unwind.target, ~ HasCleanup(c), Unwind(c),
             unwind' = [unwind EXCEPT !.at = sender[unwind.at]],
             UNCHANGED <<kind, outer, state, complete, suspended, stack, exc, loopSender, halted>>
      PROVE  CalmInv'
  <2>1. unwind \in UnwindState /\ unwind.next = Nil
    BY <1>1 DEF FrameInv, TypeOK, UnwindState, CalmInv, Unwinding
  <2>2. unwind'.at = sender[unwind.at] /\ unwind'.target = unwind.target /\ unwind'.next = Nil
    BY <1>5, <2>1 DEF UnwindState
  <2>3. kind[c] = "ensure" => complete[c]
    BY <1>5 DEF HasCleanup
  <2> QED BY <1>1, <1>5, <2>2, <2>3, CalmPass
<1> QED BY <1>3, <1>4, <1>5 DEF UnwindOne

\* What comes out of a cleanup block that an unwind runs.
LEMMA OnlyItsReturn ==
    ASSUME BaseInv, CalmInv, stack = << >>, unwind # NoUnwind, exc # NoException
    PROVE  exc.type = "Return" /\ exc.arrived
<1>1. exc \in Exception
  BY DEF BaseInv, FrameInv, TypeOK
<1>2. exc.type # "none"
  BY <1>1 DEF Exception, NoException
<1>3. exc.type = "Return"
  BY <1>2 DEF CalmInv, Control
<1> QED BY <1>3 DEF CalmInv, Control, Under

LEMMA CalmUnwindAfterCleanup ==
    ASSUME BaseInv, CalmInv, UnwindAfterCleanup
    PROVE  CalmInv'
<1>1. /\ stack = << >> /\ unwind # NoUnwind /\ exc # NoException
      /\ MarkReturned(unwind.at)
      /\ UNCHANGED <<kind, outer, state, complete, suspended, stack, loopSender>>
  BY DEF UnwindAfterCleanup, InLoop
<1>2. exc.type = "Return" /\ exc.arrived
  BY <1>1, OnlyItsReturn
<1>3. unwind' = [unwind EXCEPT !.at = unwind.next, !.next = Nil] /\ exc' = NoException
  BY <1>2 DEF UnwindAfterCleanup
<1>4. unwind \in UnwindState
  BY DEF BaseInv, FrameInv, TypeOK, UnwindState
<1>5. unwind'.at = unwind.next /\ unwind'.target = unwind.target /\ unwind'.next = Nil
  BY <1>3, <1>4 DEF UnwindState
<1>6. /\ unwind.next = sender[unwind.at] /\ unwind.at # unwind.target
      /\ kind[unwind.at] = "ensure" /\ complete[unwind.at]
  BY <1>1 DEF CalmInv, Unwinding
<1> QED BY <1>1, <1>2, <1>3, <1>5, <1>6, CalmPass

LEMMA CalmStep ==
    ASSUME Calm, BaseInv, CalmInv, [Next]_vars
    PROVE  CalmInv'
<1>1. ASSUME NEW c \in Ctx, Call(c) \/ EnsureCalls(c) \/ ProcessCalls(c) PROVE CalmInv'
  BY <1>1, CalmCalls
<1>2. ASSUME NEW c \in Ctx, ReturnLocal(c) \/ ReturnNonLocal(c) PROVE CalmInv'
  BY <1>2, CalmReturns
<1>3. ASSUME NEW c \in Ctx, Fork(c) PROVE CalmInv'
  BY <1>3, CalmFork
<1>4. ASSUME NEW c \in Ctx, NEW d \in Ctx, Switch(c, d) PROVE CalmInv'
  BY <1>4, CalmSwitch
<1>5. ASSUME NEW c \in Ctx, Terminate(c) PROVE CalmInv'
  BY <1>5, CalmSwitch
<1>6. ASSUME NEW x \in Ctx, NEW s \in CtxOrNil, StoreSender(x, s) PROVE CalmInv'
  BY <1>6, NothingStored DEF StoreSender
<1>7. CASE ExecuteReturned
  BY <1>7, CalmStays DEF ExecuteReturned, Halt
<1>8. CASE LeaveByReturn
  BY <1>8, CalmReturn
<1>9. CASE LeaveByCleanup
  BY <1>9, CalmCleanup
<1>10. CASE LeaveAfterCleanup
  BY <1>10, CalmAfterCleanup
<1>11. CASE LeaveByOther
  BY <1>11, CalmOther
<1>12. CASE Deliver
  BY <1>12, CalmDeliver
<1>13. CASE LoopSwitch \/ LoopReturn
  BY <1>13, CalmLoop
<1>14. CASE UnwindOne
  BY <1>14, CalmUnwindOne
<1>15. CASE UnwindAfterCleanup
  BY <1>15, CalmUnwindAfterCleanup
<1>16. CASE UNCHANGED vars
  BY <1>16, CalmStays DEF vars
<1>17. CASE Image
  BY <1>17, <1>1, <1>2, <1>3, <1>4, <1>5, <1>6 DEF Image
<1>18. CASE Interpreter
  BY <1>18, <1>7, <1>8, <1>9, <1>10, <1>11, <1>12, <1>13, <1>14, <1>15 DEF Interpreter
<1> QED BY <1>16, <1>17, <1>18 DEF Next

LEMMA CalmInit == Init => CalmInv
<1> SUFFICES ASSUME Init PROVE CalmInv
  OBVIOUS
<1>1. /\ kind = [c \in Ctx |-> IF c = Toplevel THEN "toplevel" ELSE "free"]
      /\ sender = [c \in Ctx |-> Nil] /\ pc = [c \in Ctx |-> 0]
      /\ suspended = {} /\ stack = <<Frame(Toplevel, Nil)>> /\ exc = NoException
      /\ unwind = NoUnwind /\ FrameInv
  BY FrameInvInit DEF Init
<1>2. Toplevel \in Ctx /\ Toplevel = 1
  BY NilIsNoContext DEF Toplevel
<1>3. /\ Len(stack) = 1 /\ stack[1] = Frame(Toplevel, Nil) /\ Top = stack[1] /\ stack # << >>
      /\ Frame(Toplevel, Nil).ctx = Toplevel /\ Frame(Toplevel, Nil).pending = NoException
      /\ NoException.type = "none"
  BY <1>1 DEF Top, Last, Frame, NoException
<1>4. Made
  <2>1. \A m, n \in Ctx : m < n => n # Toplevel
    BY <1>2, ContextsAssumption DEF Ctx
  <2> QED BY <1>1, <2>1 DEF Made
<1>5. Tree(Toplevel)
  <2> PICK s \in [Ctx -> CtxOrNil] : s = sender
    BY <1>1, TreeTyped
  <2>1. \A c \in Ctx : s[c] = Nil
    BY <1>1
  <2>2. NoCycles(s)
    BY <2>1, NilIsNoContext DEF NoCycles
  <2>3. ChainOf(s, Toplevel) = {Toplevel}
    BY <1>2, <2>1, <2>2, ChainNext
  <2>4. suspended \cup {Toplevel} = {Toplevel}
    BY <1>1
  <2>5. \A c : Alive(Toplevel, c) <=> c = Toplevel
    BY <2>3, <2>4 DEF Alive, On
  <2>6. Forest(s, {Toplevel})
    BY DEF Forest
  <2>7. \A c \in Ctx : kind[c] \in {"toplevel", "free"} /\ pc[c] = 0
    BY <1>1
  <2>8. kind[Toplevel] = "toplevel"
    BY <1>1, <1>2
  <2>9. Toplevel \in CtxOrNil \ suspended
    BY <1>1, <1>2 DEF CtxOrNil
  <2>10. \A c \in Ctx : Alive(Toplevel, c) => pc[c] >= 0 /\ (kind[c] \in Called => sender[c] # Nil)
    BY <2>5, <2>7, <2>8 DEF Called
  <2>11. \A c \in Ctx : ~ Alive(Toplevel, c) =>
            /\ kind[c] \in {"method", "block"} => sender[c] = Nil
            /\ kind[c] = "ensure" => complete[c]
    BY <2>7
  <2> QED BY <2>2, <2>4, <2>6, <2>9, <2>10, <2>11 DEF Tree
<1>6. TreeInv
  <2>1. Current = Toplevel
    BY <1>1, <1>3 DEF Current
  <2> QED BY <1>5, <2>1 DEF TreeInv
<1>7. Pendings
  <2>1. \A i \in 1 .. Len(stack) : i = 1
    BY <1>3
  <2> QED BY <1>3, <2>1 DEF Pendings
<1>8. Control
  <2>1. exc.type = "none" /\ stack # << >>
    BY <1>1, <1>3
  <2> QED BY <2>1 DEF Control
<1>9. Unwinding
  BY <1>1 DEF Unwinding
<1> QED BY <1>4, <1>6, <1>7, <1>8, <1>9 DEF CalmInv

\* The VM ends where the loop finds no sender, and nowhere else but on assertions.
LEMMA EndedStep ==
    ASSUME BaseInv, CalmInv, Ended, [Next]_vars
    PROVE  Ended'
<1>1. CASE UNCHANGED vars
  BY <1>1 DEF vars, Ended, IsReturned
<1>2. ASSUME halted' \in {"no", "AssertionError", "BlockCannotReturnError"} PROVE Ended'
  BY <1>2 DEF Ended
<1>3. CASE Image
  <2>1. ASSUME NEW c \in Ctx, Call(c) \/ EnsureCalls(c) \/ ProcessCalls(c) \/ Fork(c)
        PROVE  halted' = "no"
    BY <2>1 DEF Call, EnsureCalls, ProcessCalls, Fork, Executes
  <2>2. ASSUME NEW c \in Ctx, ReturnLocal(c) \/ ReturnNonLocal(c) \/ Terminate(c)
                              \/ \E d \in Ctx : Switch(c, d)
        PROVE  halted' \in {"no", "AssertionError", "BlockCannotReturnError"}
    BY <2>2 DEF ReturnLocal, ReturnNonLocal, Terminate, Switch, Executes, Raise, Halt
  <2>3. ASSUME NEW x \in Ctx, NEW s \in CtxOrNil, StoreSender(x, s) PROVE halted' = "no"
    BY <2>3 DEF StoreSender, Executes
  <2> QED BY <1>2, <1>3, <2>1, <2>2, <2>3 DEF Image
<1>4. CASE ExecuteReturned \/ LeaveByReturn \/ LeaveByCleanup \/ LeaveAfterCleanup \/ LeaveByOther
           \/ Deliver \/ LoopSwitch
  BY <1>2, <1>4 DEF ExecuteReturned, LeaveByReturn, LeaveByCleanup, LeaveAfterCleanup,
                    LeaveByOther, Deliver, LoopSwitch, Travels, InLoop, Halt
<1>5. CASE LoopReturn
  <2>1. /\ stack = << >> /\ unwind = NoUnwind /\ exc.type = "Return" /\ halted = "no"
        /\ UnwindFrom(loopSender, IF exc.arrived THEN loopSender ELSE exc.target)
    BY <1>5 DEF LoopReturn, InLoop, CalmInv, Control
  <2>2. CASE loopSender # Nil
    BY <1>2, <2>1, <2>2 DEF UnwindFrom, Halt
  <2>3. CASE loopSender = Nil
    <3>1. IsReturned(Toplevel)
      BY <2>1, <2>3 DEF CalmInv, Control
    <3>2. halted' = "ReturnFromTopLevel" /\ UNCHANGED <<sender, pc>>
      BY <2>1, <2>3 DEF UnwindFrom, Halt
    <3> QED BY <3>1, <3>2 DEF Ended, IsReturned
  <2> QED BY <2>2, <2>3
<1>6. CASE UnwindOne
  <2>1. unwind.at # Nil /\ halted = "no"
    BY <1>6, UnwindAt DEF UnwindOne, InLoop
  <2>2. halted' = halted
    BY <1>6, <2>1 DEF UnwindOne
  <2> QED BY <1>2, <2>1, <2>2
<1>7. CASE UnwindAfterCleanup
  <2>1. exc.type = "Return" /\ exc.arrived
    BY <1>7, OnlyItsReturn DEF UnwindAfterCleanup, InLoop
  <2>2. halted' = "no"
    BY <1>7, <2>1 DEF UnwindAfterCleanup, InLoop
  <2> QED BY <1>2, <2>2
<1> QED BY <1>1, <1>3, <1>4, <1>5, <1>6, <1>7 DEF Next, Interpreter

LEMMA CalmHolds == ASSUME Calm PROVE Spec => [](BaseInv /\ CalmInv /\ Ended)
<1>1. Init => BaseInv /\ CalmInv /\ Ended
  <2>1. Init => halted = "no"
    BY DEF Init
  <2> QED BY <2>1, FrameInvInit, LinkedInit, MeantInit, CalmInit DEF BaseInv, Ended
<1>2. BaseInv /\ [Next]_vars => BaseInv'
  BY NothingStored, FrameInvStep, LinkedStep, MeantStep DEF BaseInv
<1>3. BaseInv /\ CalmInv /\ Ended /\ [Next]_vars => BaseInv' /\ CalmInv' /\ Ended'
  BY <1>2, CalmStep, EndedStep
<1> QED BY <1>1, <1>3, PTL DEF Spec

\* If the image is calm, loop finds the target of every return below the context it
\* unwinds from ("Context chain ended" is not raised), ends the VM only when the toplevel
\* context has returned, and meets no exception that it does not handle.
THEOREM EndsAsMeant ==
    ASSUME Calm
    PROVE  Spec => []EndsForAReason
<1>1. Ended => EndsForAReason
  BY DEF Ended, EndsForAReason
<1> QED BY <1>1, CalmHolds, PTL

-----------------------------------------------------------------------------
(* What the VM may come back to *)

Jumps == exc.type \in {"ContextSwitch", "NonVirtualReturn"}

Roots ==
    suspended \cup {unwind.at, unwind.next}
    \cup (IF Jumps \/ stack = << >> THEN {} ELSE {Top.ctx})
    \cup (IF exc.type = "ContextSwitch" THEN {exc.to} ELSE {})
    \cup (IF exc.type = "NonVirtualReturn" THEN {exc.current} ELSE {})
    \cup (IF exc.type = "Return" /\ unwind = NoUnwind /\ stack = << >> THEN {loopSender} ELSE {})

LEMMA RootsTyped ==
    ASSUME FrameInv
    PROVE  Roots \subseteq CtxOrNil
<1>1. /\ suspended \subseteq Ctx /\ loopSender \in CtxOrNil /\ unwind \in UnwindState
      /\ exc \in Exception
  BY DEF FrameInv, TypeOK, UnwindState
<1>2. unwind.at \in CtxOrNil /\ unwind.next \in CtxOrNil
  BY <1>1 DEF UnwindState
<1>3. stack # << >> => Top.ctx \in Ctx
  BY TopFacts
<1>4. /\ exc.type = "ContextSwitch" => exc.to \in Ctx
      /\ exc.type = "NonVirtualReturn" => exc.current \in CtxOrNil
  BY <1>1, ExceptionFields
<1> QED BY <1>1, <1>2, <1>3, <1>4 DEF Roots, CtxOrNil

LEMMA LiveFromRoots ==
    ASSUME FrameInv
    PROVE  \A x : x \in Live <=> \E c \in Roots \ {Nil} : x \in ChainOf(sender, c)
<1>1. Live = UNION {{c} \cup Senders(c) : c \in Roots \ {Nil}}
  BY DEF Live, Roots, Jumps
<1> PICK s \in [Ctx -> CtxOrNil] : s = sender
  BY TreeTyped
<1>2. ASSUME NEW c \in Roots \ {Nil} PROVE {c} \cup Senders(c) = ChainOf(s, c)
  <2>1. c \in Ctx
    BY RootsTyped DEF CtxOrNil
  <2>2. Senders(c) = ChainOf(s, s[c])
    BY SendersChain
  <2> QED BY <2>1, <2>2, ChainNext
<1> QED BY <1>1, <1>2

\* These are the contexts of the running process and of those that wait.
LEMMA LiveIsAlive ==
    ASSUME Calm, BaseInv, CalmInv
    PROVE  /\ Tree(Current)
           /\ \A x : x \in Live <=> Alive(Current, x)
<1>1. FrameInv /\ Tree(Current) /\ exc \in Exception
  BY DEF BaseInv, CalmInv, TreeInv, FrameInv, TypeOK
<1> PICK s \in [Ctx -> CtxOrNil] : s = sender /\ NoCycles(s)
  BY <1>1, TreeTyped DEF Tree
<1> PICK g \in CtxOrNil : g = Current
  BY <1>1 DEF Tree
<1> PICK R : R = Roots
  OBVIOUS
<1>2. R \subseteq CtxOrNil /\ \A x : x \in Live <=> \E c \in R \ {Nil} : x \in ChainOf(s, c)
  BY <1>1, RootsTyped, LiveFromRoots
<1>3. \A x : Alive(Current, x) <=> \E d \in suspended \cup {g} : x \in ChainOf(s, d)
  BY DEF Alive, On
<1>4. exc.type # "NonVirtualReturn" /\ (exc.type # "none" => exc # NoException)
      /\ (exc.type = "ContextSwitch" => unwind = NoUnwind)
  BY DEF CalmInv, Control, NoException
<1>5. NoUnwind.at = Nil /\ NoUnwind.next = Nil
  BY DEF NoUnwind
<1>6. g \in R
  <2>1. CASE exc.type = "ContextSwitch"
    BY <2>1 DEF Current, Roots
  <2>2. CASE exc.type # "ContextSwitch" /\ stack # << >>
    BY <1>4, <2>2 DEF Current, Roots, Jumps
  <2>3. CASE exc.type # "ContextSwitch" /\ stack = << >> /\ unwind # NoUnwind
    BY <2>3 DEF Current, Roots
  <2>4. CASE exc.type # "ContextSwitch" /\ stack = << >> /\ unwind = NoUnwind
    <3>1. exc # NoException
      BY <2>4 DEF CalmInv, Control
    <3>2. exc.type # "none"
      BY <1>1, <3>1 DEF Exception, NoException
    <3>3. exc.type = "Return"
      BY <2>4, <3>2 DEF CalmInv, Control
    <3> QED BY <2>4, <3>3 DEF Current, Roots
  <2> QED BY <2>1, <2>2, <2>3, <2>4
<1>7. suspended \subseteq R /\ suspended \subseteq Ctx /\ Nil \notin Ctx
  BY <1>1, TreeTyped DEF Roots
<1>8. ASSUME unwind.at # Nil PROVE unwind.at \in ChainOf(s, g)
  <2>1. unwind # NoUnwind /\ exc.type # "ContextSwitch"
    BY <1>4, <1>5, <1>8
  <2>2. CASE stack = << >>
    <3>1. g = unwind.at
      BY <2>1, <2>2 DEF Current
    <3> QED BY <1>8, <3>1, ChainClosed
  <2>3. CASE stack # << >>
    <3>1. g = Top.ctx /\ g \in Ctx /\ 1 \in 1 .. Len(stack)
      BY <1>1, <2>1, <2>3, TopFacts, FrameFacts DEF Current
    <3>2. ReturnsTo(1) = unwind.at
      BY <1>8 DEF ReturnsTo, Caller
    <3>3. unwind.at \in ChainOf(s, s[g])
      BY <1>8, <2>3, <3>1, <3>2, FramesInChain
    <3> QED BY <3>1, <3>3, ChainNext
  <2> QED BY <2>2, <2>3
<1>9. ASSUME unwind.next # Nil PROVE unwind.next \in ChainOf(s, g)
  <2>1. unwind # NoUnwind
    BY <1>5, <1>9
  <2>2. unwind.next = s[unwind.at] /\ unwind.at \in ChainOf(s, g)
    BY <1>8, <1>9, <2>1, UnwindAt DEF CalmInv, Unwinding
  <2> QED BY <1>9, <2>2, ChainClosed DEF Closed
<1>10. ASSUME NEW c \in R, c # Nil PROVE \E d \in suspended \cup {g} : c \in ChainOf(s, d)
  <2>1. CASE c \in suspended
    <3>1. c \in ChainOf(s, c)
      BY <1>2, <1>10, ChainClosed
    <3> QED BY <2>1, <3>1
  <2>2. CASE c = g
    BY <1>2, <1>10, <2>2, ChainClosed
  <2>3. c \in suspended \/ c = unwind.at \/ c = unwind.next \/ c = g
    <3>1. ~ Jumps /\ stack # << >> => Top.ctx = g
      BY DEF Current, Jumps
    <3>2. exc.type = "ContextSwitch" => exc.to = g
      BY DEF Current
    <3>3. exc.type = "Return" /\ unwind = NoUnwind /\ stack = << >> => loopSender = g
      BY DEF Current
    <3> QED BY <1>4, <1>10, <3>1, <3>2, <3>3 DEF Roots
  <2> QED BY <1>8, <1>9, <1>10, <2>1, <2>2, <2>3
<1>11. ASSUME NEW x, x \in Live PROVE Alive(Current, x)
  <2>1. PICK c \in R \ {Nil} : x \in ChainOf(s, c)
    BY <1>2, <1>11
  <2>2. PICK d \in suspended \cup {g} : c \in ChainOf(s, d)
    BY <1>10
  <2>3. d \in CtxOrNil
    BY <1>7 DEF CtxOrNil
  <2>4. x \in ChainOf(s, d)
    BY <2>1, <2>2, <2>3, ChainClosed
  <2> QED BY <1>3, <2>4
<1>12. ASSUME NEW x, Alive(Current, x) PROVE x \in Live
  <2>1. PICK d \in suspended \cup {g} : x \in ChainOf(s, d)
    BY <1>3, <1>12
  <2>2. d # Nil
    BY <2>1, ChainNext
  <2> QED BY <1>2, <1>6, <1>7, <2>1, <2>2
<1> QED BY <1>1, <1>11, <1>12

\* If the image is calm, no context that the VM may come back to has been marked as
\* returned by _activate_unwind_context or unwind_context_chain: the assertion of
\* fetch_next_bytecode, "pc >= 0", does not fail.
THEOREM ReturnedContextsRest ==
    ASSUME Calm
    PROVE  Spec => []NoReturnedContextRuns
<1>1. BaseInv /\ CalmInv => NoReturnedContextRuns
  <2> SUFFICES ASSUME BaseInv, CalmInv, NEW c \in Live PROVE pc[c] >= 0
    BY DEF NoReturnedContextRuns
  <2>1. Tree(Current) /\ Alive(Current, c)
    BY LiveIsAlive
  <2>2. c \in Ctx
    <3>1. PICK d \in Roots \ {Nil} : c \in ChainOf(sender, d)
      BY LiveFromRoots DEF BaseInv
    <3> PICK s \in [Ctx -> CtxOrNil] : s = sender /\ NoCycles(s)
      BY <2>1, TreeTyped DEF BaseInv, Tree
    <3>2. d \in CtxOrNil
      BY RootsTyped DEF BaseInv
    <3> QED BY <3>1, <3>2, ChainClosed
  <2> QED BY <2>1, <2>2 DEF Tree
<1> QED BY <1>1, CalmHolds, PTL

\* If the image is calm, the cleanup block of an ensure: is started, by the context itself, by the
\* handler of stack_frame or by unwind_context_chain, before the VM has left the
\* context for good.
THEOREM CleanupsStart ==
    ASSUME Calm
    PROVE  Spec => []CleanupRuns
<1>1. BaseInv /\ CalmInv => CleanupRuns
  <2> SUFFICES ASSUME BaseInv, CalmInv, NEW c \in Ctx, kind[c] = "ensure", c \notin Live
               PROVE  complete[c]
    BY DEF CleanupRuns
  <2>1. Tree(Current) /\ ~ Alive(Current, c)
    BY LiveIsAlive
  <2> QED BY <2>1 DEF Tree
<1> QED BY <1>1, CalmHolds, PTL
=============================================================================

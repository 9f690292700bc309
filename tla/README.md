# A TLA+ verification of the RSqueak virtual machine

RSqueak is a virtual machine for Squeak Smalltalk images, written in RPython. This
directory holds TLA+ models of its core, the TLC configurations that check them on
small instances, and theorems about them that TLAPS checks for every value of the
constants. Paths below are relative to the repository; `wrapper.py`, `interpreter.py`
and so on are in `spyvm/`.

## 1. The system

One image runs in one operating-system thread. All concurrency is Smalltalk's own: green
processes that the VM switches between at four primitives and at interrupt checks. A
switch is a Python exception that unwinds the interpreter's own stack, so the hard part
of this program is not parallelism but *state kept in several places at once* (in
pointers written one by one, in Python frames, in caches, in objects that change their
storage while they are used) that must agree whenever an exception leaves in the middle.

| component | state | operations | interacts with | hard behaviour |
|---|---|---|---|---|
| **Process scheduler** (`wrapper.py`, primitives 85-88) | ready lists, semaphore lists (`first_link`, `last_link`, `next_link`), `my_list`, `suspended_context`, `excess_signals`, the active process | `signal`, `wait`, `resume`, `suspend` | raises `ProcessSwitch` to the interpreter loop; called by the interrupt check | every order of calls by several processes; a link in two lists; `my_list` out of step with the lists; suppression of switches; exceptions between two stores |
| **Interrupt check and timer** (`interpreter.py` 153-258, primitives 136, 230) | `interrupt_check_counter`, `next_wakeup_tick`, timer semaphore, clock | frame entry, loop jumps, idling, setting the timer | signals through the scheduler | a late check, a tick that passes while idling, a switch in the middle of the check |
| **VM startup** (`targetimageloadingsmalltalk.py`) | `suppress_process_switch`, the process made for the code | compile code, make a symbol of the selector, create process, start | runs code of the image under the name of its active process, with switching suppressed and then without | waits that do not block, resumes that do nothing; a switch before the image's own context has been taken |
| **Contexts and returns** (`storage_contexts.py`, `interpreter.py` 102-198, `interpreter_bytecodes.py`) | sender chain, pc, `ActiveContext`/`InactiveContext`/`DirtyContext` | send, local and non-local return, sender manipulation, unwinding with ensure blocks, process switch | the Python stack of `stack_frame` calls mirrors (a part of) the sender chain | chain and Python stack out of step; a switch or an overflow in an ensure block; return to a context that has returned |
| **Bytecode handlers** (`interpreter_bytecodes.py`, the stacks of `storage_contexts.py`, primitives 80-84, 186-204) | receiver, temps, operand stack and stack pointer of every context | push, store, pop, jump, send, perform, blocks and closures, return | contexts, primitives, class lookup | the order of pop, primitive, failure and fallback; a context edited by others while it waits; slots above the stack pointer |
| **Storage strategies** (`rstrategies.py`, `storage.py`, part of `model.py`) | every pointers object's storage: all-nil, small-integer, float, list, weak list | fetch, store, insert, generalise, become | all object access | a value that collides with the tag of a strategy; generalising in the middle of a bulk store |
| **Class shadows and method caches** (`storage_classes.py`, `util/version.py`) | per class: superclass, subclasses, method dictionary, version; per dictionary: copied method cache, `invalid` flag | store to class or dictionary or its values, lookup, flush | observer on the values array; compiled code assumes versions | stale lookup after an update, cyclic hierarchies, become of dictionaries |
| **Object model, become** (`model.py`) | object headers, raw words and bytes, hashes | at, at:put:, clone, become, collection of weakly held objects | everything | two objects exchanging class, hash and storage in several stores; undoing half of it |
| **Image reader** (`squeakimage.py`, the `fillin`s of `model.py`) | chunks by address, objects by chunk, the VM's own objects | decode, match, build, fill in two passes | strategies, class shadows | objects used before they are filled in; an order that a dictionary decides; a damaged file |
| **BitBlt** (`plugins/bitblt.py`) | a rectangle's clipped bounds, masks, skew, indexes | clip, compute masks and directions, four copy loops | the display's words | pixels beside the rectangle in shared words; a form copied onto itself; reading past a line |
| **Display and events** (`display.py`, `model_display.py`) | the screen's pixels next to the form's words; deferred events, key and buttons, interrupt key flag | become the display, store, draw, flip, poll, deliver | primitives 90-102, 106, 107, 126, 133, 135; BitBlt | two copies of one picture; events dropped, doubled or reordered between a queue and a slot |
| **Integer and other primitives** (`primitives.py`) | none of their own | arithmetic, comparisons, files, clock | fall back to Smalltalk code on failure | boundaries of the tagged range |
| **Object space, plugins for files and sockets, interpreter proxy, debugging, utilities, benchmarks** | little or none | constructors, wrappers of OS calls, output | | |

### What makes each component correct

* Scheduler: no process, signal or context is lost or duplicated; queues are first-in
  first-out; the processor is with the highest ready priority; the VM gives up only when
  nothing can run; its assertions hold.
* Interrupts: a set timer is seen, once, and its waiter runs at once if it outranks the
  active process; the counter stays in its range.
* Startup: compilation neither loses the processor nor the image's own context; what runs
  between it and the start leaves every process a context.
* Contexts: a return reaches its target exactly once with every frame between
  deactivated and every ensure block between run once; no context that has returned is
  executed; the Python stack and the sender chain agree.
* Stacks: a send takes its receiver and arguments and nothing else, whatever the method's
  primitive does and whichever way it is called; a context keeps no references above its
  stack pointer.
* Strategies: `fetch` answers what `store` stored, for every strategy and across every
  generalisation; an object has one storage and it refers back to it; a `become:` that
  fails half-way leaves nothing exchanged.
* Class shadows: lookup answers what the Smalltalk dictionaries say, once flushed; no
  cached lookup survives a change of version.
* Image reader: the objects in memory are those in the file, each filled once, whatever the
  order; a damaged file is refused.
* BitBlt: the pixels of the rectangle become what the rule says of the source and of what
  they were, no other pixel changes, and no word outside of the forms is touched.
* Display: the screen shows the form's pixels; events come in the order in which they
  happened, with the buttons as they were held, and no key comes twice.

## 2. Modules

| module | models | extends |
|---|---|---|
| `LinkedLists` | `LinkedListWrapper`: the link pointers and the three list operations, over pointers only | |
| `ProcessScheduler` | `ProcessWrapper`, `SchedulerWrapper`, `SemaphoreWrapper`, primitives 85-88 | `LinkedLists` |
| `AbstractScheduler` | what the scheduler promises: sequences instead of pointers | |
| `TimerInterrupts` | interrupt checks, clock, timer primitives, idling | `ProcessScheduler` |
| `Startup` | compiling code with switches suppressed, `asSymbol` without, starting the code | `ProcessScheduler` |
| `Contexts` | `loop`, `stack_frame`, `unwind_context_chain`, the exceptions that travel through them, `_return`, ensure: blocks, senders | |
| `OperandStacks` | the slots of contexts and every bytecode and primitive that calls, with its pushes and pops | |
| `Evaluation` | what `OperandStacks` promises: activations with operands | |
| `MethodCaches` | `ClassShadow`, `MethodDictionaryShadow`, `ObserveeShadow`: copies of method dictionaries, versions, become of dictionaries | |
| `Storage` | the strategies, their lattice, bulk stores, clone, become and its undoing, weak storages | |
| `ObjectMemory` | what `Storage` promises: arrays of values | |
| `ImageFormat` | image files, as a Squeak VM writes them | |
| `ImageReader` | `ImageReader`, `ImageChunk`, `SqueakImage`, the `fillin`s | `ImageFormat` |
| `BitBlt` | `primitiveCopyBits`: clipping, masks, overlap, skew, copy loops, colour maps | |
| `PixelCopy` | what `BitBlt` promises: pixels | |
| `InputEvents` | `SDLDisplay`'s events, polls and interrupt key | |
| `Display` | display bitmaps of each depth, `BE_DISPLAY`, drawing, deferral | `InputEvents` |
| `ProcessSchedulerProofs`, `InterruptAndStartupProofs`, `ContextsProofs`, `OperandStacksProofs`, `MethodCachesProofs`, `MethodSendsProofs`, `StorageProofs`, `DisplayProofs` | the theorems of section 5 | the modules they are named for (`TimerInterrupts` and `Startup`; `MethodCaches` twice) and `TLAPS` |
| `MC...` | instances for TLC | |

What composes what: the timer and the startup are the scheduler with more actions, sharing
all of its variables. The display is the input events with the screen beside them. The
others meet only at interfaces that each module states for itself: `Contexts` has of the
scheduler the set of contexts in which processes wait, `OperandStacks` of `Contexts` the
stack of activations, `ImageReader` of `Storage` the strategy that a collection of values
gets. Their product would be out of TLC's reach and would not add an interaction: between
two bytecodes nothing but these interfaces is shared.

### How state and actions correspond

`heap` is the record of the three pointer fields: `heap.first[l]`, `heap.last[l]` for a
list or semaphore `l`, and `heap.next[p]` for a process `p`; a list is named by its index
in the scheduler's array, a semaphore by itself. `AddLastLink`, `RemoveFirstLink` and
`RemoveLink` are the functions on heaps that `add_last_link`, `remove_first_link_of_list`
and `remove` compute, with the stores in the order of the code (`RemoveLink` reads the
tail after the link's `next_link` has been cleared, as the code does). Nothing in the
model says that a list is a sequence; that is what the invariants claim.

One action is one primitive call, from entry to return or to the `ProcessSwitch` it
raises: no other Smalltalk code runs in between, so calls are atomic with respect to one
another; what interleaves is calls of different processes. `SwitchTo` is `deactivate`
followed by `activate` and the loop's assignment of `s_context`. `frame` is the context
the interpreter runs; `Execute` stands for the bytecodes that move from one context of
the active process to another. Exceptions that end the VM set `halted`, after exactly the
stores that precede them. `AssertionError` is one of them: a translated build drops
`assert`, so there it means that the VM goes on in a state its code excludes.

The image is the client. It resumes only a process that it has created or suspended and
not resumed since (`stopped`); which processes it suspends, by their place in the lists,
is the constant `SuspendScope`, and `ResumeQueued` says whether it resumes a process that
is still in a semaphore's list. The runs below vary both.

In `TimerInterrupts`, `EnterFrame(1)` is the check at the entry of a frame,
`EnterFrame(dec)` the check when compiled code jumps back, `IdleFor`/`WakeFromSleep` the
two halves of primitive 230 around its `time.sleep`, `Tick` the wall clock. In `Startup`,
`PrimitiveStep` is what the image does, in three phases. In "compile" its compiler runs with
switches suppressed; `CompileDone` is the end of `compile_code`, which lifts that. In "symbol"
`create_toplevel_context` has the image make a symbol of the selector (`asSymbol`), with
switches and interrupt checks as usual (with `-m` there is nothing to compile and the image
starts there). `SymbolDone` is the return from that context, `RunHeadless`/`RunProcess` the
return together with the way the code is then started; `headless` is the option that chooses
between them, either value from the start. `left` is not the code's: it records that the
processor has been given to another process before the start. The compiler's `Wait` is limited
to semaphores that have a signal: a wait that blocks would queue the process that goes on
running (see section 4).

In `Contexts` the variable `stack` is Python's: one element per invocation of
`stack_frame`, with the invocation's local `s_sender` and, while its handler evaluates a
cleanup block, the exception it is going to raise afterwards (`pending`). `sender`, `pc`,
`state` and `complete` are fields of the contexts in the image's memory. `exc` is the
exception on its way down; each step of the way (`LeaveBy...`, `Deliver`) is one frame's
handler. When the stack is empty the exception has reached `loop` (`Loop...`), and
`unwind` holds the locals of `unwind_context_chain` while that is active; its cleanup
blocks run on a stack of their own. The actions of `Image` are what bytecodes do, reduced
to what changes frames and senders; the pc keeps only how far a toplevel, ensure: or
process context has come, and -1. The field `goal` of an exception is not the code's: it
records, when the return is made, which context the value is owed to. The rest of the
scheduler is one set, the contexts in which other processes wait.

`BlockClosure>>ensure:`, `fork` and the toplevel method are outside `spyvm`; the first two
are modelled from what `_activate_unwind_context` and the scheduler expect of them. The
constant `ImageDoes` names what an image does rarely, so that each run can say how far it
goes: a run without "switch_cleanup" says nothing of switches inside an unwind. A block is
made by a context that exists when it is called, not only by one that is still running.

In `MethodCaches` the variable `heap` is everything the VM's objects hold: which storage an
object has (`shadow`) and what is in it (`storage`), the arrays of methods and who watches
them, the shadows of the classes, and `compiled`, the results of lookups in compiled code
that the present versions of the classes still vouch for. `store`, `update`, `changed` and
`become` call one another, so each is an operator from heap to heap, and an action is the
bytecode or primitive that starts such a call. A slot of a dictionary is named by its
selector; hashing and resizing move slots, which nothing here depends on.
`pending` is what the image still has to do of a change: the order of its stores and flushes
is that of `MethodDictionary` and `Behavior` in the sources of the 4.5 image that `images/`
holds, which are outside `spyvm`. Between two of them any send may be compiled. Version objects are
not kept: a new version of a class empties `compiled` for it and everything below.

In `OperandStacks` a context is a record of its slots, temps first, and the stack pointer
`sp`; `tempsize`, the receiver, the home of a block. A primitive is chosen by what it does to
the stack: `CallPrimitive` one that answers, and the sends one that fails, which, as in the
code, has popped nothing. The values are few (`Object`) and what is made of them (arrays,
messages, closures), of which only so many exist at once (`MaxArrays`, `MaxBoxes`). `due` is
not the code's: it records, when a context calls, the stack pointer that it ought to have
when the call is over. `Evaluation` has no slots and no stack pointer: an activation has
temps and a sequence of operands, and a call takes a receiver and arguments off the end.

In `Storage` the heap is two functions: `shadow` gives an object its storage, a record of
the strategy (`kind`), the object the storage refers back to (`self`) and its data, which
for the tagging strategies are the unwrapped values. Bulk stores (`fillin`, `clone`,
`replaceFrom`, `become:` of arrays) are several steps, `task` is what is left of one: each
store of it may change the strategy of the object that is being read from. `Collect` is the
garbage collector: it clears what only weak storages hold. `ObjectMemory` has the same
objects as functions from fields to values.

`ImageFormat` is external: a description of an image, `File(im)` its bytes, as Squeak
writes it. `ImageReader` is the reader with one action per loop body of
`squeakimage.py`: version, header, one chunk, the compact classes, the `g_object`s, the
prebuilt objects, the instances, and then filling in, where `filling` is the Python stack
of `fillin_pointers` calls: an object's references are filled before itself
(`FillReference`), cycles are cut at objects already begun. The dictionary that decides the
order is a choice. What is in memory at the end is compared with the description.

In `BitBlt` a word is the set of its bits and `WordSize` a constant; `phase` goes through
`LoadBitBlt`, `ClipRange`, the masks, the overlap check, and the loop that the code takes
(`fill`, `copy`, `map`), one word per step. `PixelCopy` knows pixels only: `Picture` decodes
the destination's words, and `Goal` is computed once, from the picture before drawing and
the rectangle the call asks for, cut to the clip, the destination and the source as the code
documents it, by the rules' definitions on single pixels.

In `InputEvents` `happened` is all that SDL has queued so far and `polled` how much of it
the VM has taken out; `key`, `button`, `mouse_position` and `_deferred_event` are the
display's fields; `taken` is what the image got. In `Display` a bitmap is a record of its
words and, for a display bitmap, of the fields `pixelbuffer_words` and `depth`; `memory` maps
byte positions of the screen to pixels, so that each depth's mapping (`MappedPosition`,
`CellsOf`) is computed as the code does; `shown` is `memory` as of the last flip; `shadow` is
what `FormShadow` has read of a form.

## 3. What the runs show

All runs pass: what they state holds of the code, in the circumstances they name. What they
leave out because it does not hold is in section 4.

| run | question |
|---|---|
| `scheduler` | With processes suspended at the ends of the lists or while blocked: do the pointers implement first-in first-out queues, is no process or context lost, does the VM give up only when nothing can run? |
| `suspend_anywhere` | With suspension in the middle of a list as well, where `remove` truncates it: what survives? Lists stay disjoint chains, suspended processes stay out. |
| `timer` | Does each expired tick become one signal, promptly and always? |
| `startup` | Does the compiler keep the processor, what becomes of the context the image was saved with when `asSymbol` may switch before it is taken, and has every other process a context from then on, whichever way the code is started? |
| `contexts` | Whatever the image does (switches in cleanup blocks, stored senders, stray returns): do the frames agree with the contexts' states and senders, and does a return arrive where it was meant to? |
| `contexts_switch` | Are all cleanup blocks run, is nothing executed that has returned, and does the VM end only for a reason: with process switches and stack overflows, which drop all frames and leave the rest of a return to the loop, and with non-local returns out of cleanup blocks? |
| `operand_stacks` | Does every bytecode and primitive that calls take its operands and nothing else, however the call ends, also in contexts that the image edits while they wait? |
| `method_caches` | Do the VM's copies of method dictionaries follow the image's changes, compiled code follow the copies, and is nothing copied half-way through a change? |
| `storage` | Do storages that change their strategy at every store implement plain arrays: through bulk stores, clones, exchanges, failed exchanges and collections? |
| `image_reader` | Are images of each version and byte order read as written, in whatever order objects are filled in; are damaged ones refused; does reading end? |
| `bitblt` | Is each pixel of a rectangle drawn once and as its rule says, and none beside it: shifted, clipped, masked, mapped, onto the same form? |
| `display` | Two forms become the display in turn, with other extents and depths, while a user acts: is the screen the form's picture, and do events and keys arrive in order? |

### Bounds

`scheduler`: four processes at three priorities of which one is shared are enough for a
queue of two behind an active process, a preemption, an idle process and a top priority
without a list; two semaphores for a process to move between lists; two contexts per process
for a switch to save another context than the one it loaded. `suspend_anywhere` uses six
processes because the truncation needs three processes in one list. `MaxExcess = 1` bounds
`excess_signals`, which the code never compares with anything but zero. The timer runs with
a counter of two and a clock of two ticks: a check that is early, on time and late all
happen. The clock stops at its bound; its wrap after 2^30 ms or so is not modelled.

`Contexts` is bounded by the number of contexts ever made (`MaxContexts`). Five are a
toplevel, a method, an ensure:, its block and a cleanup block, the least in which an unwind
matters; `contexts_switch` has six, which adds a forked process or a second method between.
`contexts` has four, because its stores of senders multiply the chains: a method, its block
and a process between them are there. (It passes with five as well, with three million
states.) A cleanup block that returns is only in the other run: together with changed senders
and stray returns it is what `ReturnsArrive` does not hold of (section 4), so that `contexts`
has the other two and is an instance of the theorem `ReturnsComeHome`. At the bound a context
that would call another one waits, so that some behaviours end early; safety does not depend
on it. The image makes no cycles of senders and does not reuse contexts that have returned.
`contexts` does not ask for `CleanupRuns`: an image that stores senders may skip an ensure: on
purpose.

`operand_stacks`: two contexts of three slots are a caller and what it calls, with a
receiver, two arguments and nothing below, or one argument and an operand that must stay.
`MaxArrays` and `MaxBoxes` keep one array and one closure, message or context held at a
time. `PerformOutcome` leaves out the two outcomes of section 4.

`method_caches` is bounded by the objects and storages made (`MaxMade`): three are a growth,
which makes a copy and a shadow, and a removal or an exchange of a dictionary, in either
order. Two classes are a superclass and a subclass that can change places, two selectors a
dictionary in which one key changes and another stays. Only one process changes
dictionaries: the image has no lock, but it is what the VM relies on (section 4).
`SendsFindCurrentMethods` leaves out classes with a dictionary that has grown, since of those
it does not hold (section 4); the other properties hold for them too.

`storage`: two objects of up to two fields, a class of strong arrays and one of weak arrays
with a named field. The integers are an ordinary one and the one that stands for nil, the
same for floats, so that every strategy meets a value that it must refuse. `Spans` are
three ways of replacing, `BecomeArrays` one pair that is exchanged, and one before a pair
that is not, since a small integer becomes nothing.

`image_reader`: thirteen objects that every image has (special objects, classes, metaclass,
two symbols), and two to six more: numbers with both tags, a cycle through a weak array, a
method with bytes. The special objects array has nine places instead of 50 and
`HeaderSize` 40 instead of 64, which nothing depends on. Headers of one, two and three words,
positive and negative words, three versions and four byte orders occur; the damaged
files are cut at twenty places or have one thing wrong.

`bitblt`: forms of three lines of up to three words of four bits. Three words are a first, a
middle and a last one, which are different code; with four bits there are one, two or four
pixels in a word, and all skews occur. The words' contents are fixed and have no symmetry:
pixels do not decide where pixels go. Every `dx`, `sx` and many widths are enumerated for
copies between two forms and within one.

`display`: screens of four words whose lines end within a word; both orders of two forms;
`MaxSteps` and `MaxInputs` bound what image and user do, and `MaxMixed` their product, since
the screen and the events share only the deferred repaint: four steps of the image are two
displays with a store or a drawing between, three inputs are a press, another and a release.

Deadlock checking is off where the program ends by itself (an exception ends the VM, a
drawing or a file ends, image and user may stop); `FailuresJustified`, `EndsForAReason`,
`NoClassShadowError`, `DrawnInside` and `ImagesLoad` say that these ends are the only ones.

### Fairness

Two modules assume any. In `TimerInterrupts` time passes, a sleep ends, and the active
process keeps entering frames or idling. The first two are the operating system's; the third
is the interpreter loop itself, which executes bytecodes without end, and every
`loop_bytecodes` call starts with a check. A process that jumps in a loop of interpreted
code without sending anything is not checked (interpreter.py 161 checks jumps in compiled
code only); the JIT compiles such a loop, and the fairness includes that assumption. In
`ImageReader` the one thread goes on reading: weak fairness of `Next`.

## 4. Where code and intent part

Each of these can be seen in the models by changing a value of a configuration (named in
parentheses), or is excluded by a condition that a comment of the module names.

Scheduler (`wrapper.py`):

* `remove` (153-155) clears the `next_link` of the link it removes before it reads the tail
  from it, so suspending a process in the middle of a ready list drops every process behind
  it. (`MCProcessScheduler` with `SixProcesses`, `SharedAndTwoTop` and "inner" in
  `SuspendScope` violates `FailuresJustified`: the VM ends with "could not find a runnable
  process" although some were ready. `RemoveInnerLinkTruncates` proves it for lists of any
  length.)
* A process that waits at a semaphore has no `my_list` (`wait` uses `add_last_link`, not
  `add_process`), so `suspend` (113) leaves it in the semaphore's list; resumed, it runs while
  queued. ("blocked" in `SuspendScope` and `ResumeQueued` violate `ListsSound`.)
* A compiler that waits for a semaphore without a signal (the first conjunct of `Wait` in
  `Startup!Primitive` dropped) violates `AssertionsHold`: with switches suppressed the
  active process is queued (107) and goes on running, and the next signal queues it again.
  A resumed process of a higher priority is then neither queued nor activated (96).

Startup (`targetimageloadingsmalltalk.py`):

* Suppression is lifted (221) before `create_context` sends `asSymbol` (179), which runs code
  of the image under the name of its active process. If a signal, an interrupt or a wait gives
  the processor away meanwhile, `deactivate` stores the context of `asSymbol` over the one the
  image was saved with, and when the processor comes back the slot is set to nil. With `-P`,
  "the last active Process in the image will be started" (24) does not hold then: `active_context`
  finds nil and the VM ends with a `ValueError`. `ImageContextKept` states both cases (`left`).
  The code is started only after the context of `asSymbol` has returned; that a process of the
  image returns from its first context meanwhile, which would end `asSymbol` as well, is not
  modelled.

Contexts:

* A process switch or a stack overflow inside a cleanup block that a travelling return has
  started (`_activate_unwind_context`, `interpreter_bytecodes.py` 498-505) replaces that
  return, which is lost, and the ensure: context is marked as returned although the cleanup
  block will return to it: the next bytecode fetched there has pc -1. ("switch_cleanup" in
  `ImageDoes` violates `NoReturnedContextRuns`.)
* `loop` calls `unwind_context_chain` inside its except clauses (`interpreter.py` 116, 120).
  What a cleanup block raises there is not handled by the clauses beside it: a non-local
  return, the case of `test_ensure` after the frames have been dropped by a switch, ends the
  VM. ("return_unwind", and also a switch there, violate `EndsForAReason`.)
* Setting a sender to nil does not make a running context dirty, because the code takes it
  for the mark of a returned context (`storage_contexts.py` 195-196); it then returns to its
  old caller. ("sender_nil" violates `SendersMatchFrames` and `ReturnsArrive`.)
* A non-local return that comes out of a cleanup block which `_activate_unwind_context` runs
  leaves `stack_frame` from inside its except clause (`interpreter.py` 137-147): nobody looks
  whether that ensure: context has become dirty. If its sender has been changed, and the
  block returns to a context that is not below it, the value is pushed in the frame that
  happens to be there. (With six contexts and {"switch", "return_cleanup", "sender",
  "stray"}, `ReturnsArrive` is violated; `contexts` is without "return_cleanup".)
* `s_home` refuses a return if any outer context on the way has returned, not only the
  method's (`storage_contexts.py` 708), so `[[^1]] value value` in a running method cannot
  return. ("orphan" has such returns; they become CannotReturn.)
* A block evaluated in a forked process that returns from a method of another process reaches
  the end of its own chain, which `unwind_context_chain` takes for the end of the toplevel
  frame. ({"switch", "stray"} violates `EndsForAReason`.)
* A stack overflow at the call of `stack_frame` itself comes after the arguments have been
  popped (`interpreter_bytecodes.py` 326); an ensure: context whose cleanup the image has
  started by itself is left without a mark (494). Neither is modelled.

Stacks (`interpreter_bytecodes.py`, `primitives.py`):

* `perform:` of a method whose primitive fails pops an argument where its comment says
  "receiver" (320), and a `perform:` that is not understood pops operands that it has not
  pushed (353). ("failure" in `PerformOutcome`, and "doesNotUnderstand" with `FrameSize = 4`,
  violate `ReceiverAndArgumentsPopped` and `ImplementsEvaluation`. No run states the former,
  since it is these two cases that it is about; that all others keep it is the theorem
  `ExactlyArgumentsPopped`.)
* Not in the model: `BE_CURSOR` pushes its result without popping; `VALUE_WITH_ARGS` does not
  reset a block's stack, and `VALUE` does not check that a block is not running already;
  `BITBLT_COPY_BITS` catches every `Return`, also a non-local one; lowering a `stackp` below
  the temps and raising it again overwrites temps with nil.

Class shadows (`storage_classes.py`):

* `become` of a method dictionary with a plain object (276) makes the new
  `MethodDictionaryShadow` while the plain storage still refers back to its old object, and so
  stores it there; the class keeps using that shadow although its own dictionary now has a
  plain storage that tells nobody of changes. Dictionaries become larger copies of themselves
  when they fill up; a method removed from one afterwards is still found, and after a second
  growth new methods are not. (`SendsFindCurrentMethods` without its condition `Linked`.)
* A flush by one process copies the dictionary to which another has added the key but not yet
  the method, and raises the exception of 339, which ends the VM. (`Updaters = {p, q}`
  violates `NoClassShadowError`.)
* Primitive 116 flushes the class for which the method was last copied, so that a removal
  from another class's dictionary leaves that one invalid, and sends miss all of its methods.
  ("share" violates `SendsFindCurrentMethods`.)

Storages and primitives:

* Pairs of a `become:` of arrays that overlap are undone in the order in which they were done
  (`primitives.py` 1013-1016), which does not bring back what was there. (The arrays of
  `MCStorage` do not overlap.) The arrays hold no nil and no floats (`Exchangeable`): nil is a
  pointers object to the VM, which exchanges it with any other (`model.py` 293-304), and of
  two floats it exchanges the values of the boxes. `replaceFrom:` within one object copies
  upwards and may read what it has written; `ReplacedAsBefore` is about two objects. A float
  that is changed by `at:put:` is a copy where a float storage holds it.
* Arithmetic is not modelled. Read beside it: `QUO` of an exact negative quotient is one too
  large (242-251); `next_instance` starts again when the object is not found (589-604).

Image reader (`squeakimage.py`):

* An image with something in front of it cannot be read although `POSSIBLE_IMAGE_OFFSET` (19)
  is for it: the position is not that of the header then (`ReadHeader`; `ImagesLoad` asks for
  `prefix = 0`). Methods lose their identity hash in `fillin`. A `find_symbol` that finds
  nothing answers the last object. A host of 32 bits refuses 64-bit images (34-36); another
  reads them, which the model does not follow beyond the version (`ReadVersion`). Two special
  objects that are the same are matched in the order of a dictionary (`SpecialsDiffer`).

BitBlt and display:

* `clipRange` compares with `>=` and drops the source's last column and line; without it the
  word that `copyLoop` reads ahead would lie beyond the form. `Drawn` states it as the code
  does.
* `copyLoopPixMap` masks the last word only if there are two words: with three or more it is
  drawn unmasked. (`Calls <- WideMaps` violates `DrawnInside`.)
* A `FormShadow` is filled once and not refreshed when the form gets new bits ("redraws"
  violates `ScreenSound`).
* `BE_DISPLAY` asks of the form instead of its bits whether it is a display bitmap, so that a
  former display keeps writing to the screen ("former" violates `ScreenSound`).
* Depths 2 and 4 are laid out with the words per line of depth 1 (`Extents <- DeeperExtents`
  violates `ScreenSound`).
* The type of an event is compared with `WindowEventMetricChange`, which is 1 like the
  mouse's: the window size is refreshed at the wrong events. A released key delivers the
  character of the key pressed last. Modifiers are those of the time of the poll. A mouse
  event's are shifted by three before they are tried (`display.py` 155-162): ctrl does not
  make the red button the blue one, and shift, instead of command, makes it the yellow one
  (`ButtonsAsHeld` says so). The wheel's buttons act as red and yellow. `pump_events` swallows
  releases, resizes and exposures ("polls" in `ImageDoes` is for images that mix both styles).
  The interrupt key ends the VM.

## 5. What is proved

All proofs hold for every value of the constants: any number of processes, semaphores,
lists, priorities, contexts, objects and fields. Assumptions are the named `ASSUME`s of the
modules, which TLC evaluates in every run, and what a theorem's statement says.

`ProcessSchedulerProofs` begins with the linked lists and relates pointers and sequences:
`Stores(h, Q)` says that the pointers of heap `h` hold the sequence `Q[l]` in every list `l`,
injective and disjoint, with `last` at its end and `next` nil there and outside all lists.
Each list operation is shown to compute the corresponding operation on one sequence and to
leave all others alone (`AddLastLinkStores`, `RemoveFirstLinkStores`, `RemoveLastLinkStores`),
and the defect of `remove` is stated exactly (`RemoveInnerLinkTruncates`: what remains is the
prefix before the link). `WalkVisitsSequence` shows that the walk along `next_link` ends and
visits exactly that sequence.

Its theorems about the scheduler have two layers.

* Unconditional: `TypeCorrect` and `ContextsAlwaysOwned` hold whatever the image does,
  including suspension in the middle of a list.
* Under the client rule `ClientRules` (no suspension in the middle of a list, no resume of
  a process that is still queued): `QueuesInvariant`, the inductive invariant
  `IInv == TypeOK /\ ContextsOwned /\ \E Q : QueueInv(Q)`. The safety invariants of the
  runs are not inductive by themselves: that no process is lost depends on the lists
  being chains, that depends on their being disjoint, and that on nobody being added who
  is in a list already, which in turn needs to know where every process is. `QueueInv(Q)`
  says all of it at once for a sequence-valued witness `Q`. From it follow
  `ListsStaySound`, `NoProcessIsLost`, `PriorityIsRespected`, `NoSignalIsWasted`,
  `AssertionsAlwaysHold` and `FatalErrorIsJustified`. `FailuresAreJustified` needs in
  addition that at most one process has the top priority (`SingleTop`), and
  `SuspendedStayOut` that blocked processes are not suspended.

Its last part is `PointersImplementQueues`, the refinement `ImplementsQueues` under
`ClientRules` and `SingleTop`. The refinement mapping reads each queue off the pointers
(`LinkSeq`), the invariant only says that some sequences fit them. `OneSequence` shows that
the pointers of a list determine its sequence, since the places at which two candidates
agree are closed under `next_link`; so the mapping yields the invariant's witness
(`QueuesAre`). Then `Appends`, `TakesHead` and `TakesEnd` say what each list operation does
to that one queue, and there is a lemma for each primitive. `SingleTop` excludes a second
process of the top priority, for which there is no list: the VM ends in the middle of
queueing it, and the queues have no such step.

`InterruptAndStartupProofs` has the theorems about the two parts that drive the scheduler.
About interrupts: `TimerTypeCorrect` (the counter and the clock stay in their ranges,
for every interval) and `InterruptsConsumeTheirTick` (a step that turns a tick into a signal
has cleared the tick, whatever switch the signal leads to).

About the start of an image: while the image's own compiler runs with switches suppressed, the
process of the image stays active (`CompilerKeepsTheProcessor`), whatever the compiler
signals, resumes and suspends. `ImageContextIsKept`: with `-P` that process is started in the
context it was saved with if no other had the processor before, and the VM ends if one had. It
needs the invariant `StartupInv`: the processor and the frame stay as they are while
compiling, the process that is not made yet is in no list (`Apart`), every other one that is
not active has a context of its own (`OthersOwn`), and where the saved context is follows from
`left` (`LeftInv`). `RunnableAlwaysHaveContext` follows from it, also of an image whose
processes change places while `asSymbol` runs.

`ContextsProofs` is for any number of contexts, in four parts.

* `TypeCorrect` and `FramesAndStates` hold for every value of `ImageDoes`, including the
  behaviours of section 4: `stack_frame` is never entered for a context that has a frame,
  and the states mirror the stack. The latter is not inductive alone, since an exception
  may name any context to go on with. The invariant `FrameInv` adds `Known`: contexts not
  yet made are Inactive, nothing refers to them (no sender, waiting process, exception on
  its way or pending in a frame, or local of the loop), and an unwind has a target. Then a
  context is entered only when it is new, or when the stack is empty; five lemmas
  (`EnterStep`, `RaiseStep`, `HaltStep`, `PopStep`, `StartStep`) carry the invariant through
  the five ways a step changes the stack.
* `SendersAndFrames`: if no sender is set to nil, `SendersMatchFrames` (`Linked` in the
  proof). Only stores of senders disturb it, and they make the context Dirty.
* `ReturnsComeHome`: `ReturnsArrive`, unless the image sets senders to nil or does all three
  of changing senders, returning out of cleanup blocks and returning to contexts that are
  not below (`NoCrossing`; section 4 has what happens then). The invariant `MeantInv` says
  of each Return, also of one that a frame holds back, that it has arrived at its goal, or
  that its target is its goal or, for a target that is not below, that no frame it will
  pass has been called by that target as long as the frames above are Active.
* `ReturnedContextsRest`, `CleanupsStart` and `EndsAsMeant`: `NoReturnedContextRuns`,
  `CleanupRuns` and `EndsForAReason`, if the image is `Calm`: it switches processes, overflows
  the stack and returns out of cleanup blocks as in the run `contexts_switch`, and has blocks
  whose outer context has returned, but does none of what section 4 says breaks them. The
  three are one invariant. `Tree`: the contexts of the running process and of each waiting
  one are disjoint chains of senders; what is on one has not returned and has a sender,
  unless it is the first of its process; a method or block on none has no sender, an ensure:
  on none has started its cleanup. To keep it, a step must know what a return will pass:
  `Control` says that a return that has not arrived has, between the top frame and its
  target, the method it returns from; `Pendings` says so of the returns that frames hold
  back, and `Unwinding` that the target of an unwind is below the context it has come to.
  `HomeIsMethod` (the walk of `s_home` ends at a method, because outer contexts are older
  than their blocks) makes the return of a block start that way; `LiveIsAlive` shows that
  what the VM may come back to is exactly what is on the chains.

Chains of senders are recursive functions on contexts, and induction along them is out of
the provers' reach as such. `NoCycles` replaces it: in every set of contexts some sender
leads out of the set. From it follow the facts that are needed (`ChainLeast`, `ChainClosed`,
`ChainLinear`, `ForestPush`, `ForestPop`), each by naming the set that would have to be
empty.

`OperandStacksProofs`, for contexts of any size and any numbers of arguments and temporaries:

* `SlotsStaySound`, whatever the bytecodes, the primitives and the image's stores into
  waiting contexts do. The invariant `OpInv` is `StackOK` (no context is on the stack twice)
  and `FramesOK`: every frame has its shape, a block that does not run has no operands, and
  every context that waits has room for its answer. The last two are why a returned value
  can be pushed and a block be evaluated again.
* `ExactlyArgumentsPopped`, if the message sent by `perform:withArguments:` neither fails nor is
  not understood; both of these break it (section 4). `DueInv` adds to the invariant that a
  context that waits has exactly the depth at which its answer is due.
* `ContextsEvaluate`: the refinement of `Evaluation`, action by action under the same condition,
  with an image's store into a waiting context as a step of `Evaluation` too.

`MethodCachesProofs`, for any number of classes, selectors, methods and processes that change
dictionaries, whatever `ImageDoes`: `ChangesStayNoticed` and `CompiledSendsStayCurrent`.
Neither property is inductive. The invariant `Inv` (`Holds` of heap and steps left) has

* `Sound`: what is made refers to what is made (`Shape`); the storage of a class, and it
  alone, knows the class (`Owned`); the dictionary in a class's field, if it is that
  storage, is the object the storage refers back to and its array is watched (`Watched`); and
  `Apart`: the array of a copy that a process has made and not yet stored (`Copies`) is
  nobody else's, and no dictionary that somebody may still change (`Targets`) has the copy's
  storage. Without `Apart` the store of that array could watch it for two dictionaries. It in
  turn needs `PendingOK`, that two processes never hold the same copy.
* `CompiledCurrent`, the second property as it is. It is kept because every operation is
  `Noticed`: a class has no compiled code afterwards, or its chain is the same and each table
  on it is unchanged or invalid. `Noticed` is transitive (`NoticedTwice`), so the nested calls
  of `become` and `store_w_methoddict` are followed one at a time.

There is one lemma for each operation that says it keeps all of these (`...Keeps`); `grow` is
the long one, since its `become` exchanges a storage that a class uses with the storage of a
fresh copy, and may make that storage on the way. `AboveBelow` and `NotBelow` relate the two
walks: `changed` goes down along `subclass_s`, a lookup up along `s_superclass`, and a class
not reached by the first has none of the changed classes on its chain. Both are recursive
functions, and induction over their arguments is done in the form of `UpTo`: the set of the
steps at which a fact holds has 0 in it and is closed under the next step.

`MethodSendsProofs`: `OneUpdaterNoError` and `OneUpdaterSendsCurrent`, for any classes, selectors
and methods and also for dictionaries that grow, state `NoClassShadowError` and
`SendsFindCurrentMethods`. Their hypotheses are those of the run `method_caches`: one process
changes dictionaries (`Updaters = {p}`) and no dictionary takes the methods of another
(`"share"` is not in `ImageDoes`). Both are needed: section 4 has what two processes, and what a
shared method, lead to. Neither property is inductive, since in the middle of a change the image's
dictionary and the VM's copy do differ.

* `View(h, c)` is what there is to know about one class: the object in its field, that object's
  storage, keys and array, and the storage the VM knows for the class with its table. `Base`
  says that the views are apart (no object, storage, array or method is in two of them,
  `OwnOf`), that the VM's storage of a dictionary that has not grown is the object's own, refers
  back to it and watches its array (`Linking`), and that its methods are found under the class by
  the flush (`Learnt`).
* `Phase` says how far the change has come, by the calls the updater has left: `Resting`
  (every table is up to date and every key has its method), `Naming`, `Valuing` and `Replacing`
  of an addition, `CopyingValues`, `CopyingNames` and `Updating` of a removal. In each of them at
  most one class is not `Settled`, and the phase says which key may lack a method, or that the
  flush to come is for a method whose class is that one.
* `Now` is both. Each operation has a lemma about views (`...Views`: one class's view changes
  as told, all others stay, `Else`), on which the lemma about its phases rests
  (`...Step`, `...Now`). `OneUpdaterNoError` needs it because `sync_method_cache` raises its error
  just for a key without a method: the store of a new key makes the table invalid and does not
  copy it, and the store of the method copies it when the dictionary is `Whole` again.
* `FirstFoundSame` then takes the tables of the classes to the lookup along a chain.

`StorageProofs`: `StoragesStaySound`, `BulkStoresAlwaysArrive` and the refinement
`StoragesImplementArrays`, for any number of objects, classes, sizes and arguments. The
invariant is `Inv == ObjectsInv /\ TaskInv`. `ObjectsInv` says that each storage is of the
shape its strategy has, knows its object and has the named fields; `TaskInv` what each kind
of bulk store has done so far and that its indexes are within both objects. Neither follows
without the other: a step of a bulk store keeps the objects sound because its indexes fit,
and the indexes fit because no other step changes sizes meanwhile. The lemmas
`WrapUnwraps` (what a strategy can hold comes back as it was: where the tags matter) and
`StoresOneField` (a store, with all changes of strategy it causes, changes one field) carry
both the invariants and the refinement.

`FailedBecomesLeaveNothing`, in the same module: a `become:` of arrays that fails leaves every
object as it was, provided that no object is in two of the pairs (`Apart`). The invariant
`UndoInv` says of every moment which pairs are exchanged (`Exchanged`: those before `next`
while the primitive goes on, those from `next` on while it takes them back), that their
objects hold what their partners held, and that all other objects hold what they held. The
hypothesis is needed: the pairs are taken back first one first, and after `{a. a. 3}
become: {b. c. a}` three objects hold something else (TLC finds this with these arrays; a
run of `UndoInv` itself on four objects and pairs that are apart finds nothing).

`DisplayProofs` is about events, for any keys, buttons and lengths of input, and about the
screen, for any forms and contents.

* `KeysComeInOrder`, whatever else polls: the invariant `KeysInv` names, for every key taken,
  the event it came from, in increasing order, and for the key that is held the last one
  polled.
* `ButtonsStayAsHeld`, also of the buttons in each event that the image is given (`GivenInv`:
  a deferred event is never the mouse's), if no two buttons share a bit (`OwnBits`): the
  numbers of the wheel are bits of the first buttons, so that a turn of the wheel would
  release them.
* `EventsComeInOrder`: what was delivered and what is still deferred is what the polled events
  stand for (`OrderInv`), and the key last pressed is the code a release delivers. Only that
  `None` is no event is asked of it.
* `ScreenStaysSound` and `DrawnIsShown`, for every width and height. `ScreensFit` asks for
  depths of 1, 8, 16 or 32, since the others are laid out wrongly (section 4), and for a word
  of pixels at least, since `pixelbuffer_words` of a smaller screen is zero and nothing would
  be stored on it. `Orderly` excludes what `ImageDoes` may add: stores into a former display
  (section 4), and drawing on a form that got new bits since its shadow was filled. The
  invariant is `ScreenInv`. `FormsInv`: each form has bits of its own, as many words as its
  extent asks for, and only display bitmaps are attached. `DisplayInv`: while the display
  keeps its bits they are laid out on the screen (`LaidOut`), and `beyond` is false. That a
  store leaves the other words alone is arithmetic: a byte of the screen is reached by one
  word only (`WordAt`, `CellIn`), and the byte in which SDL looks for a pixel is the one its
  word has put it in (`PixelIn`), with lines that end within a word or within a pitch.

Only checked by TLC: liveness (`TimerFires`, `ImagesLoad`) and what needs ENABLED, which the
prover does not reach, and the modules `ImageReader` and `BitBlt`. These two use sums over
sets and sequences of bytes whose values for every input are facts about folds, out of the
prover's reach.

## 6. Not modelled, and the plan

Left out of what is modelled:

* Contexts: BlockContexts of images without closures in `Contexts` (their home is a field,
  not a walk; `OperandStacks` has them), `ifCurtailed:`, the stack check at the call of
  `stack_frame`.
* Class shadows: dictionaries that the image keeps after its class has another one (their
  shadow has no class, 344), become of classes, which leaves the subclasses' pointers to the
  old superclass, the format word, the lazy making of class shadows while an image loads.
* Objects: bytes and words objects, which have one representation, numbers' layouts.
* Images of 64 bits beyond their version: a host of 64 bits goes on to read them with words of
  8 bytes (`squeakimage.py` 32-39); their objects of format 7 are refused (407).
* BitBlt: rules 18, 19, 24 and 37, rules 20 and 21 in depths 16 and 32 (which take the
  components of a colour apart, `plugins/bitblt.py` 635-667), forms of mixed bit orders,
  `as_string`.
* Display: the headless display, which ends the VM; colour tables; that SDL keeps a surface's
  memory until the next video mode is assumed.

Not modelled at all:

* Integer, float and character primitives: functions without state, which tests reach.
* The object space: constructors and tables.
* The interpreter proxy: nothing in `src/` calls it, since external calls are dispatched to
  the plugins written in Python only.
* File and socket plugins: thin wrappers around calls of the operating system.
* Debugging, logging, utilities, benchmarks.

Next: dictionaries without a class in `MethodCaches`.

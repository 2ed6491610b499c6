# A verification project for IronNet

IronNet is a small .NET runtime. Its implementation is the C program in
`src/DotNetAnywhere`: it reads CLI assemblies, translates their CIL to an
internal code, interprets that code on green threads of one operating-system
thread, and manages memory with a conservative mark-and-sweep collector.
This directory holds TLA+ modules of the parts in which one step depends on
the history of many others, the TLC configurations that check them, and proofs
for TLAPS.

File names below are relative to `src/DotNetAnywhere`.

## 1. The system

### Parts, state and operations

| Part | State | Operations | Hard because |
|---|---|---|---|
| Sync blocks (`Heap.c` 44-53, 544-623, `System.Threading.Monitor.c`) | the block an object points to: owner, count, weak-reference list | TryEnter, Exit, link and unlink a weak reference, free when useless | two users share one block with one lifetime; unsigned count |
| Weak references (`System.WeakReference.c`) | the target, the list in the block of the target | get, set, `TargetGone`, finalizer | either side may die first, or both together |
| Collector (`Heap.c` 263-403, `System.GC.c`) | heap entries with mark byte, finalizer state and sync block | allocate, mark, sweep, undeletable objects, SuppressFinalize | the mark byte has two meanings; objects outlive a sweep for their finalizer |
| Heap tree (`Heap.c` 128-261) | an AA tree in the entries themselves | insert, remove, search, walk with a fixed stack | in-place rotations on a shared nil node |
| Finalizers (`Finalizer.c`, `JIT_Execute.c` 177-195, `MethodState.c` 243-275) | the queue, the running finalizers | add, take the last, end | an object can come back to life |
| Scheduler (`Thread.c`, `System.Threading.Thread.c`) | circular list of threads, the thread that runs, the call each waits for | create, start, slice, scan, sleep, end, return | the list changes while it is walked; waiting is polling |
| Thread stack (`Thread.c` 100-130, `MethodState.c`) | one chunk of memory with the method states of a thread | push, tail call, pop, place a finalizer | method states are taken over by others of another size |
| Interpreter (`JIT_Execute.c`, `MethodState.c`, `Delegate.c`) | method states, instruction pointer, exception state of the thread | call, tail call, return, delegates, static constructors, exceptions | the slice may end between any two instructions; handlers nest |
| Type system, generics (`Type.c`, `MetaData_Fill.c`, `Generics.c`) | types filled on demand, caches | fill, array types, instances, assignability | recursive construction through caches |
| Metadata (`MetaData*.c`, `RVA.c`, `CLIFile.c`) | tables read once | parse, find, compare signatures | encodings |
| Translator (`JIT.c`) | code under construction, stack of the types of the values on the evaluation stack | translate a method | every operation is chosen by the types, which must be right on every path |
| Sockets, console, files | a polled call with its progress; one character of look-ahead | accept, connect, receive, send, read a key, host calls | partial progress between polls |
| Debugger (`System.Diagnostics.Debugger.c`) | breakpoints, whether it waits | break, continue, step | re-enters `Thread_Execute` |
| Library (`System.String.c`, `System.Array.c`, `System.Char.c`, ...) | none | sequential functions | index arithmetic |

How they interact:

- The scheduler calls the interpreter for one slice (`JIT_Execute`) and gets
  back why it stopped. A native call of the interpreter either finishes at once
  or returns a `tAsyncCall`, which the scheduler polls from then on. Since
  native calls are never interrupted, each is one atomic action in the models.
- `Monitor` turns into operations on the sync block of an object, made in the
  name of `pCurrentThread`, which the scheduler sets before it polls.
- Weak references live in the same sync block as the lock, and `TargetGone` is
  called from the sweep.
- The first call of a method translates it, the first use of a type fills it;
  the operations the translator chooses, and the sizes and offsets a filled type
  records, are all that tells the interpreter how many words to move.
- The collector finds roots in the frames of all threads, static fields and
  undeletable objects; it finds entries by their address in the tree; it fills
  the finalizer queue that the interpreter empties, one finalizer per
  allocation.

### What makes each part correct

- Sync blocks: what threads see is one re-entrant lock per object; no block is
  leaked or freed while it is used; the weak list is exact.
- Collector: nothing the program can reach is freed, everything else is; each
  finalizer runs at most once.
- Heap tree: the search is exact; the tree stays balanced, which the fixed
  stack of the sweep relies on.
- Scheduler: no thread is lost, only runnable threads run, each gets its turn,
  and the loop returns only when nothing can run.
- Polled calls: to the program each is one blocking step, and it ends.
- Thread stack: each invocation has memory of its own, inside the chunk.
- Interpreter: a program does what its language says, whatever the slices.
- Type system: tables do not depend on the order in which types are touched,
  and calls, casts and layouts are those of the declarations.
- Translator: on words without types a verifiable program does what it does on
  typed values.

## 2. Modules

| Module | Models | Kind |
|---|---|---|
| `MonitorSpec` | one re-entrant lock per object | abstract specification |
| `SyncBlock` | sync blocks, weak lists | implements `MonitorSpec` |
| `SyncBlockProofs` | | TLAPS proofs |
| `Scheduler` | threads, scan, Monitor and Sleep calls | composes `SyncBlock` by `INSTANCE` |
| `SchedulerProofs` | | TLAPS proofs, some by those of `SyncBlockProofs` |
| `Collector` | collector, finalizers, weak references | |
| `CollectorProofs` | | TLAPS proofs |
| `HeapTree` | the AA tree and the walk of the sweep | |
| `HeapTreeFacts` | | TLAPS proofs about rotations and rebalancing |
| `HeapTreeProofs` | | TLAPS proofs about insertion, removal, search, walk, and of the invariants |
| `Interpreter` | control flow of `JIT_Execute`; which programs are laid out as compilers do it | |
| `InterpreterProofs` | | TLAPS proofs for all such programs |
| `Language` | structured programs: how they are laid out, what they mean | reference definition for `Interpreter` (recursive, TLC only) |
| `ClassModel` | what type declarations mean | reference definition for `TypeSystem` (recursive, TLC only) |
| `TypeSystem` | filling of types, arrays and generic instances, casts, dispatch | (recursive, TLC only) |
| `BlockingCalls` | socket and console calls as single steps | abstract specification |
| `AsyncCalls` | the same as calls that are tried, then polled | implements `BlockingCalls` |
| `AsyncCallsProofs` | | TLAPS proofs, also that it implements `BlockingCalls` |
| `CallFrames` | a stack of invocations, each with memory of its own | abstract specification |
| `ThreadStack` | method states in one chunk of words | implements `CallFrames` |
| `ThreadStackProofs` | | TLAPS proofs of its invariants, and that it implements `CallFrames` |
| `Cil` | the instructions, their types, which programs verify | the language |
| `CilMachine` | what verifiable programs do, on typed values | abstract specification |
| `Jit` | the translator and the interpreter of what it emits | implements `CilMachine` |
| `MC...` | instances for TLC | |

`Cil`, `CilMachine`, `ClassModel`, `Language`, `CallFrames`, `BlockingCalls` and
`MonitorSpec` say what is promised; they translate no code.

### Correspondence to the code

**SyncBlock.** `sync[o]` is `tHeapEntry.pSync`, `NULL` before `EnsureSync`.
`target[w]` is the target of a `WeakReference`. `entered` is what the managed
code believes and is not in the program. `SyncTryEnter`, `SyncExit` and
`SetTarget` are the internal calls; the helpers carry the names of the C
functions. The count is taken modulo `CountMod` (2^32 in the code).

**Scheduler.** `vm` says where `Thread_Execute` is: it executes the thread
`cur`, scans (`cur` is the thread looked at, `prev` the one that ran last), or
has returned or crashed. `pCurrentThread` is a variable of its own: `Heap.c` asks
for it when a lock is tried or left. A managed thread is the sequence of its
native calls; a try with a timeout says where the thread goes on without the lock.
A slice is a number of calls. Each `Scan...` action is one iteration of the scan
loop, one per way through its body. `pAsync[t]` is kept after a finished sleep, as
in the code. `Tick` is the clock. `Locks` is the instance of `SyncBlock` with the
same variables: the scheduler has its blocks, and lock calls of its own that take
the name a thread goes by as a parameter. `Exit` always calls `Heap_SyncExit`,
also for a lock the thread does not have. A sleep for a negative time is polled
through a function nobody has set, which is `ScanWildCall`.

**Collector.** An entry carries the mark byte, `needToFinalize`, what its sync
block pointer is worth and the weak list. `Collect` starts a collection: `roots`
is `heapRoots`, the list of pieces of memory that `GC_Mark` has yet to scan, of
which each `MarkPiece` scans the last. A piece that led to others stays beneath
them, emptied, and is taken away when it is met again. `Sweep` is `GC_Sweep`: the
walk over all entries with the calls of `AddFinalizer` and `TargetGone`. While
`gc = "mark"` nothing else happens, as in the code, which has one host thread. Slots
are words the collector scans as roots. An
object holds one reference. `SuppressFinalize` looks at nothing but that it is
given an object, like the code; the constant `Suppressed` says what types of
objects the program gives it. `EndFinalizer` is what `MethodState_Delete` does
for the frame of a finalizer. `set_Target` on a weak reference that its target
does not list is `Crash` or a use of freed memory, where the model stops
(`IsListed`). A finalizer that brings its object back, or what
that refers to, is `FinalizerStores`.

**HeapTree.** Every rotation, insertion and removal is the C function on an
explicit memory, nil included, because the code writes to nodes in place.
`Collect` removes any set of entries, in the order of the list that the sweep
builds. `TreeInsert` and `TreeRemove` call themselves, the searches and the walk
loop: each is a recursive function of the calls or turns that are left, which is
begun with `Depth`, one more than there are entries, and its body (`InsertStep`,
`RemoveStep`, `SearchTurn`, ...) is that of the C function or loop. The proofs
show that none of them runs out: no branch and no walk is as long as `Depth`.

**Interpreter.** `stack` is the chain of method states; `pc` is `pCurOp`,
which the code copies to `ipOffset` only at calls, throws and the ends of
slices: the model keeps both, because exception clauses are searched by
`ipOffset`. `GoNextCheck` is the macro that may end the slice. `status = "wild"`
stands for a `pCurOp` that points where no program put it; the model stops
there.

**TypeSystem.** `S` is a record of the tables: `td` the `tMD_TypeDef`s by
number, the caches of array types and of generic instances, the slots of
virtual methods. Each function of the code is an operator from one such record
to the next, with its result; recursion and the order of its calls are those of
the code, so that types reached on the way are used half built; `nullRead` says
that a virtual table was read before there was one, which ends the program. An
action of the program touches one type it has not touched; the invariants compare what is
then built with `ClassModel`, which knows the declarations only.

**AsyncCalls.** `pAsync[t]` is the call object with its check function and
progress. `Begin` is the internal call, which tries once; `Check` is the poll.
A poll that finds nothing changes nothing and is no action. `GiveUp` is the
return of `Thread_Execute` when each thread was blocked at its poll of the last
round (`Thread.c:300`): it may happen whenever all threads have call objects,
also when what one of them waits for has just come, and nothing is polled after it.
To "spin" is to loop without a call until the other threads have ended; it is
what keeps `Thread_Execute` in its loop. A connect that fails returns the error of
the host, which throws: the program catches that, counts it in `errors` and
connects again. The host is
external: connections take their time and are refused at most `MaxRefusals` times
per thread, bytes wait in a buffer of `SendBuffer`
and are delivered in pieces of any size. The position a piece is stored at is
part of the model: a poll asks for the whole size again at the position reached,
and what lies behind the array has positions too.

**ThreadStack.** Memory is counted in words of the evaluation stack; `frames`
are the method states with their addresses. What methods do is any sequence of
instructions within the sizes that their translation declares. A tail call
takes the method state over when the results have the same size and the caller
has no handlers, and moves the arguments within it. `NewObject` puts the method
state of the constructor, and on top of it that of a finalizer if one is queued.

**Jit.** `Write` is one turn of the loop of `JITit`: an instruction any
verifier would accept next, the operation it is translated to, the type stack
after it, the copies of the type stack for branches forward. `Start` patches
branches and clauses, as `JITit` does after its loop, and calls the method.
Each operation pops and pushes words (`Effect`), and aborts as `PUSH` and `POP`
do when it leaves the evaluation stack. An operation is named by the first of
its row in `JIT_OpCodes.h` and the distance from it, since the code computes
both from other tables. A reference is an object number, a pointer adds a word;
values C leaves undefined end the run as "unspecified", as in `CilMachine`.

The variables `prog`, `jit`, `fn`, `frame`, `ip`, `eval` and `ofs` are the method
state that runs, loaded into locals of `JIT_Execute`; `callers` holds those it
came from. Where they lie in memory is the matter of `ThreadStack`. `CallOp` and
`NewObjectOp` save the state, move the arguments and enter the method, after the
search in the virtual table for `callvirt` (the boxed integer under a method of
a structure becomes a pointer to its value). `Return` moves the result to the
caller. `ThrowOp` and `ThrowNew` remove method states up to the first with a
clause that catches; `ThrowNew` is for the exceptions the interpreter makes
itself. `JIT_Prepare` has translated the called methods, by the same operators
as the instructions of the method under construction: the order in which methods
are translated changes nothing, since a translation reads no state but types.

## 3. Runs

| Run | Question | Bounds |
|---|---|---|
| `sync_block` | Are locks exclusive, blocks neither leaked nor freed early, weak lists exact; is `MonitorSpec` implemented? | 2 threads, 2 objects, 2 weak references, nesting 3 with a count that wraps just above it |
| `scheduler` | Is the list kept, is everyone blocked when the loop gives up, does the name of a lock follow the thread that has it? | 3 threads, 2 locks, 1 weak reference, slices of 2 calls, programs of up to 7 calls |
| `scheduler_loops` | Does each ready thread run; does a waiting thread get a lock that others enter and leave for ever? | 3 threads that loop, slices of 3 calls |
| `collector` | Does the work list mark exactly what can be reached, is exactly the garbage freed, are queue and weak lists consistent, does a finalizer run once? | 3 addresses, 2 slots, all object types |
| `heap_tree` | Is the search exact, the tree balanced, the walk complete within its stack? | 9 entries: levels 1 to 3 |
| `interpreter` | Does every program end, having done what the language says? | 192 programs of three nested methods |
| `types` | Do tables, layouts, dispatch and casts agree with the declarations, whatever is touched first? | 4 programs of 10 to 12 types, every order of first use |
| `async_calls` | Is every call one blocking step, and does every call return while a thread keeps the loop going? | 4 programs of up to 5 threads; a buffer and arrays of 4 bytes, 3 keys, 1 refusal for each thread |
| `thread_stack` | Do method states stay apart; is `CallFrames` implemented? | 5 methods, a header of 1 word, a chunk of 13 |
| `jit` | Do translated programs do what the language says? | every program of up to 5 to 10 instructions over each of 19 menus, which call 11 methods |
| `finally_unwind` | violated: see below | one program |
| `large_send` | violated | a send of 3 bytes into a buffer of 2 |

Why the bounds are enough: two threads show every conflict over a lock, two
objects that blocks do not mix, two weak references a list that is neither
empty nor single; three threads are the least in which the removal from the
circular list has a thread before and one behind it, and in which one thread
waits while two others alternate; three addresses allow a chain, a cycle and a
reuse; nine entries reach trees of level three with both kinds of rotation on
the way back from a removal; exceptions cross up to two frames with handlers in
each. The four programs of `types` cover overriding with hiding, interfaces
(inherited, implemented again, explicitly), generic classes over generic bases,
and structures within structures; the types every program starts with stand for
those `Type_Init` presets. Of the five threads two accept, two
connect and one spins; one program has none that spins; buffers of four bytes are more than one call sends and less than two do. A
chunk of 13 words holds up to three method states, with a finalizer on top of a
constructor; the wide method takes over the smaller first one at the bottom of the
chunk, where there is room for it. In `jit` each menu belongs to one part of the language: arithmetic
of 32 and 64 bits, shifts and conversions, comparisons, variables on both sides
of the eighth word (where the encoding changes), branches that meet with values
on the stack, conditions, references, arrays of elements below and above a word,
fields, pointers, boxes, casts, catch clauses, calls, new objects with virtual
calls, and exceptions that leave a call. The methods called have arguments and
results of no word, one and several, write through pointers, are overridden by a
class and by a structure, call others, and throw out of one or two frames. A byte has 2 bits, so that
an Int32 has 8 and an Int64 16: the widths keep their proportions, and the values
are those at which signs, carries and overflows differ. The evaluation stack is
full of `Junk` at first, so that a word read before it was written shows.

What the runs leave out, because the code is wrong there and the observations
below say how: in `collector` no undeletable object holds references
(`HoldRefs`), no object with a finalizer is weakly referenced (`Targets`), no weak
reference is suppressed (`Suppressed`), and, by the constraint `NoOrphans`, what an
unreachable object that awaits its finalizer refers to is reachable in another
way; the programs of `interpreter` have no clause that an observation names;
those of `async_calls` send no more than the host takes and have no more bytes
on their way than a call in progress asks for; `types` has no class that is laid
out through a cycle and no casts of arrays of arrays.

### Disagreements found

- `finally_unwind`: on the way to a finally clause of another method the
  instruction pointer is loaded before it is set (`JIT_Execute.c:3318`).
- `large_send`: a send that the host does not take at once is polled as a
  receive (`System.Net.Sockets.Socket.c:353`); the rest is never sent.

### Observations

Made while modelling, without a run of their own; the programs of the passing
runs leave these cases out.

Locks, threads, collector:

- A block kept by a weak reference names its last owner for ever
  (`Heap.c:593`), so that no other thread can enter the object again.
- An `Exit` of a lock that is not held, while a weak reference keeps its block,
  makes the unsigned count wrap (`Heap.c:592`). The proofs assume
  `ExitOnlyHeld \/ WeakRefs = {}` for this reason.
- `Thread_Execute` returns when all threads sleep or wait (`Thread.c:306`), and
  the process ends with the sleep time as its exit code.
- `Debugger_Continue` enters `Thread_Execute` a second time, which runs the
  head of the list even if that waits (`Thread.c:158`).
- A last thread that becomes a background thread while it runs keeps the
  application alive (`Thread.c:188`); starting a thread twice runs it again
  (`System.Threading.Thread.c:53`).
- `Thread.Sleep` of a negative time leaves the check function of the call unset,
  and the loop calls it (`System.Threading.Thread.c:77`, `Thread.c:281`).
- 2^31 ms after a finished sleep the elapsed time turns negative and the
  thread sleeps again (`Thread.c:240`).
- `GC_Mark` does not scan objects whose mark byte is 0xff, so what only an
  undeletable object refers to is freed (`Heap.c:296`).
- What an object refers to is freed in the sweep that queues it for its
  finalizer (`Heap.c:359`); finalizers run last queued first. That sweep frees
  the sync block of the object but leaves the pointer (`Heap.c:366`).
- `SuppressFinalize` of an object that waits in the finalizer queue lets the
  next sweep free it while it is there (`System.GC.c:51`).
- `SuppressFinalize` of a `WeakReference`: the sweep frees it like any object
  without a finalizer, and the list of its target still names it
  (`System.GC.c:51`, `Heap.c:371`).

Control flow and thread stack:

- `LEAVE` ignores its target: leaving a block nested in a try block with a
  finally clause runs that clause, and it runs again at the end of the outer
  block (`JIT_Execute.c:3354`). It also looks at `ipOffset`, which is stale
  unless the block made a call.
- A finally clause around the throw in the catching method itself is skipped,
  as the unwinding stops at that frame (`JIT_Execute.c:3306`); one around a
  throw that is not the last instruction before it is not entered at once.
- `pNextDelegate` survives an exception that a multicast call raised
  (`JIT_Execute.c:1199`); a rethrow after another exception was caught
  throws that one (`JIT_Execute.c:3271`).
- The parameters a multicast call keeps are in memory the collector does not
  scan, and are leaked when it is entered again (`JIT_Execute.c:1203`).
- A store to a static field does not run the static constructor
  (`JIT_Execute.c:2999`).
- A tail call into a larger method state is not checked against the chunk
  (`MethodState.c:153`); a tail call out of a finalizer forgets that it is one
  (`MethodState.c:174`). Locals are not cleared.

Types and calls of the host:

- The fields of a class are filled before its virtual table exists: when one of
  them is of a class derived from it, and the base is used first, the derived
  class reads that table through NULL (`MetaData_Search.c:160`,
  `MetaData_Fill.c:330`). `nullRead` records it; `TypeOK` of `types` says that
  the programs of the run never get there.
- Types whose fields form a cycle through their bases get virtual slots that
  collide (`MetaData_Fill.c:150`), and sizes of parameters recorded while a
  type is unfinished are those of then (`MetaData_Fill.c:130`).
- All array types share one `pTypeDef`, so that casts between arrays of
  different arrays succeed (`Type.c:501`); arrays made while `System.Array` is
  being filled keep a partial copy of its tables (`Type.c:109`).
- Explicit implementations are matched by their table index alone
  (`MetaData_Search.c:149`).
- After a partial receive the poll asks for the whole size again
  (`System.Net.Sockets.Socket.c:249`), and may write behind the array.

Translation and values:

- A method whose only value is the exception object of a handler gets an
  evaluation stack of size zero, and the handler aborts (`JIT_Execute.c:59`): the
  size of a restored stack is not counted, against the comment at `JIT.c:197`.
  The programs of `jit` push a word before a handler.
- A `br` to the next instruction with values on the stack empties the type
  stack. A handler that ends the method reads one offset beyond the table.
- `conv.i8` of a slot typed as Byte, UInt16 or UInt32 extends without sign, also
  when the slot is the result of arithmetic whose first operand had such a type.
- `conv.i8` of an Int64 and `conv.u8` of a UInt64, the result of another
  `conv.u8` among them, select operations that have no code
  (`JIT_Execute.c:601-610`), and translating the method crashes. The model
  crashes too (`NoCode`); the programs of `jit` contain neither.
- `conv.r.un` of an Int32 keeps the sign; `conv.ovf` never overflows.
- 64-bit arithmetic with overflow checks, `ldind.i` and `box` of an `IntPtr`
  have no code. Division by zero, null references and array bounds are not
  checked. `ldelem` of a signed byte or short extends without sign.
- `unbox.any` checks no type and pushes what the object's own type takes.
- Loads and stores through pointers to small types are four bytes wide, and
  stores to small locals do not narrow.
- Mixing float and double crashes, comparisons that are unordered count as
  ordered, and the subtraction of floats subtracts doubles.

## 4. Fairness

`scheduler_loops` assumes weak fairness of the steps of `Thread_Execute` (the
process runs) and of the clock. Nothing is assumed of a single thread: that
each one gets its turn is the property. `interpreter` assumes weak fairness of
the next step, which is what `scheduler_loops` shows the scheduler to give.
`async_calls` assumes that the host delivers, connects or refuses, that keys
are typed, and that each thread is run and its call polled again and again
(`Step`) until `Thread_Execute` returns: it visits every thread each round, as
`scheduler_loops` shows. That it does not return is not assumed: `GiveUp` is
enabled whenever all threads that have not ended have call objects, and disables
every `Step`. `AllReturn` therefore speaks of the programs with a thread that
spins, which has no call object; the fourth program has none, and its calls
indeed need not return. All other runs check safety only.

`CHECK_DEADLOCK FALSE` is said where the system stops: when `Thread_Execute`
has returned, when programs have ended, when all types have been touched, and
when a thread has left its first method or its chunk.

## 5. Proofs

`SyncBlockProofs` proves about `SyncBlock`, for any sets of threads, objects and
weak references, any nesting depth below any count width:

| Theorem | Says |
|---|---|
| `TypeCorrect` | assuming `SafePrograms`, `Spec => []TypeOK` |
| `Exclusion` | `... => []MutualExclusion` |
| `HeldBlocksStay` | `... => []HeldBlockAgrees` |
| `WeakListsConsistent` | `... => []WeakListsMatchTargets` |
| `BlocksFreed` | `... => []NoUselessBlock` |
| `Refinement` | `... => ImplementsMonitor` |

`SafePrograms == ExitOnlyHeld \/ WeakRefs = {}`: programs exit only what they
entered, or no locked object is weakly referenced. It cannot be dropped: see
the second observation above. Other assumptions are `SyncBlockAssumption` (the
depth bound lies below the count width) and that the null pointer is none of
the other values.

The argument rests on the inductive invariant `IInv`: types, weak lists,
useless blocks, and `LockInv`. Mutual exclusion is not inductive: a step of one
thread preserves it only if the block names the thread inside. `LockInv` says
so, and also that a block with an owner counts the depth of that owner even
when this is zero: the owner recorded in a block that a weak reference keeps is
not inside, but is the only one who can come in. Each action has a lemma
(`TryEnterStep`, `ExitStep`, `SetTargetStep`) with one step per conjunct; block
operations have lemmas of their own (`EnteredSyncFacts`, `ExitedSyncFacts`,
`DeleteSyncFacts`, `UnlinkFacts`, `LinkFacts`). The refinement maps a block with
a positive count to a held lock; a failed attempt, a weak reference step and
the creation of a block are stutters.

`ThreadStackProofs` proves about `ThreadStack`, for any methods, sizes, code and
chunk that satisfy its two assumptions:

| Theorem | Says |
|---|---|
| `Types` | `Spec => []TypeOK`: also that every word moved comes from the chunk |
| `MethodStatesAdjoin` | `Spec => []FramesAdjoin` |
| `OnlyTailCallsOverrun` | `Spec => [][WithinChunk => WithinChunk' \/ GrowingTailCall]_vars` |

Its `IInv` says of the list of method states that they adjoin and that none lies
in another (`Adjoins`), and that only the tail call that leaves the chunk ends
beyond it. That neighbours adjoin is not enough to remove several method states
at once, as an exception does: `Adjoins` orders every pair. Lemmas say what
appending, cutting and replacing the last method state does to `Adjoins`, and
that moving words keeps memory within its values; then there is one lemma per
action. `OnlyTailCallsOverrun` says that every way to enter a method but one stops
the program before a method state lies beyond the chunk; the exception is a tail
call that gives the method state of its caller to a larger method, which asks for no
room (`MethodState.c:146-153`). Nothing in the code keeps a program from that call at
the end of a chunk, so that no theorem and no run says that a stack stays within it.

Its second half proves, under the same two assumptions, that to methods
the chunk is a stack of invocations with memory of their own:

| Theorem | Says |
|---|---|
| `Refinement` | `Spec /\ []WithinChunk => ImplementsCallFrames` |

What methods see, `Seen`, is a function of memory and method states: of each
method state its parameters, locals and the words on its evaluation stack. The
lemmas `EvalReplaced`, `CurrentReplaced`, `SeenAppend`, `EntersOne` and
`EntersTwo` say what that is after words were moved into the topmost method
state, after it was replaced, and after one or two were put on top; each needs
from `Adjoins` that no other method state has words where those were written.
Then there is one lemma per action. A crash, and the return of the first method,
map to the end of the abstract program. The hypothesis is needed: a tail call
that leaves the chunk reads and writes words that are not the thread's. It is a
hypothesis about a run, which `OnlyTailCallsOverrun` reduces to its tail calls.

`SchedulerProofs` proves about `Scheduler`, for any programs over the
instructions, any threads, objects, weak references and slice, and any width of
the clock above 5:

| Theorem | Says |
|---|---|
| `Invariance` | `Spec => []IInv` |
| `GivesUpWhenBlocked` | `Spec => []AllBlockedOnReturn` |
| `TypeCorrect` | `Spec => []TypeOK` |
| `LocksInOwnName` | `Spec /\ []NoExtraExit => []LocksHeldInOwnName` |
| `Exclusion` | `... => []Locks!MutualExclusion` |
| `LocksAreMonitors` | `... => LockProofs!ImplementsMonitor` |
| `NoThreadIsLost` | `Spec /\ []StartsOnlyNew => []NoThreadLost` |

`AllBlockedOnReturn` is not inductive: `Thread_Execute` polls each thread at a
time of its own, and the list grows and shrinks in between. `RoundInv`
strengthens it to the scan under way: the threads it has passed, which are those
at the places behind the one that ran last, round to the one looked at, are
blocked. That stays true because during a scan nothing happens but polls and the
clock. `ListInv` says that the list holds each thread once, the ones the scan
stands on, and those not yet started: so the places of a round are well defined.

A lock is entered and left in the name of `pCurrentThread`, by the thread that runs
or by the loop on behalf of another. `ListInv` has that a thread runs in its own
name, so that a step of the scheduler is one of `SyncBlock` (`LockActions`), except
for exits of what the thread did not enter. Most of those do nothing, as the block
has another owner or is gone. `NoExtraExit` excludes the others: a block that weak
references keep names its last owner for ever, and an extra exit of that thread makes
the count wrap (`Heap.c:592`). Under it, what `SyncBlockProofs` proves holds of the
scheduler's locks, and the scheduler as a whole implements `MonitorSpec`. The
programs of `scheduler` satisfy `NoExtraExit`, those that exit what they did not get
included. `TypeCorrect` needs no hypothesis: `EnteredBlock`, `ExitedBlock` and
`LinkedBlocks` keep blocks typed whoever exits what.

`StartsOnlyNew` says that a thread is started only when it is new. The code does
not check it (`System.Threading.Thread.c:46`): a thread started after its end
runs without being in the list.

`CollectorProofs` proves about `Collector`, for any finite set of addresses and
any slots:

| Theorem | Says |
|---|---|
| `TypeCorrect` | `Spec => []TypeOK` |
| `CollectionsArePrecise` | `Spec => CollectsGarbage`, given `PinnedHoldNothing` |
| `QueueIsRight` | `Spec /\ [][NoQueuedSuppressed]_vars => []QueueAgrees` |
| `FinalizedOnce` | `Spec /\ [][NoQueuedSuppressed]_vars => []FinalizedAtMostOnce` |
| `NothingDangles` | `Spec /\ []NoOrphans => []NoDanglingReference`, given `Orderly` |
| `WeakReferencesAgree` | `Spec /\ []NoOrphans => []WeakRefsAgree`, given `Orderly` |

Each hypothesis is what keeps out a fault of the code that the observations name,
and each theorem has those it needs and no other:

- `PinnedHoldNothing`: no undeletable object holds references (`Heap.c:296`).
- `NoQueuedSuppressed`: no step suppresses the finalizer of an object that is in
  the queue (`System.GC.c:51`). Anything else may be suppressed, weak references
  included, and references may go anywhere.
- `Orderly`: `PinnedHoldNothing`, and no weakly referenced object has a finalizer
  (`Heap.c:366`), and no weak reference is suppressed.
- `NoOrphans`, as in the run: nothing is referred to only by an unreachable object
  with a finalizer (`Heap.c:357`). With it and `Orderly` no object in the queue can be
  known to the program, so that `NoQueuedSuppressed` follows.

There are three invariants, each inductive relative to the ones before it.

`MarkInv` (types and marks): the heart is `MarksOK` while `gc = "mark"`: every root,
and what a marked object refers to, is marked or in a piece that is pending; and what
is marked or pending is reachable. A step of the work list keeps both, whatever
the order of the pieces, as `Worklist` drops only what was scanned. When nothing is
pending the first half makes the marks a set that is closed under references, and the
second makes it the least (`MarksAreRight`).

`QueueInv` (queue): besides the two properties it says that the finalizer of an object
that is queued, or whose `needToFinalize` is 1, has not run.

`RefsInv` (references): without the part `UnknownOutOfReach` nothing is inductive: an
object that waits for its finalizer, and a weak reference whose finalizer has run or
waits, is in no slot and no field, so that the sweep that frees it leaves nothing
pointing to it, and no program sets the target of a weak reference whose finalizer
has run.

The parts are stated of a heap, a queue, the running finalizers and the slots as
arguments, not of the variables: an allocation is the new entry and then the start of
a finalizer, `set_Target` an unlinking and a linking, and lemmas
(`AllocatedRefs`, `WeakFreed`, `WeakLinked`, ...) speak of the values in between.

`AsyncCallsProofs` proves about `AsyncCalls`, for any threads, keys, sizes and
programs that satisfy its assumptions (the bytes of a call lie in its array, a
receive asks for at least one, and data is moved on sockets that were connected):

| Theorem | Says |
|---|---|
| `Invariance` | `Spec /\ []Regular => []IInv` |
| `TypeCorrect` | `Spec /\ []Regular => []TypeOK` |
| `Refinement` | `Spec /\ []Regular => ImplementsBlocking` |

`Regular` has two parts. `NoPartialSend`: the host takes each send at once; the run
`large_send` shows what happens otherwise. `NoSurplus`: a receive that has got a
part never finds more than it lacks, since each poll asks for the whole size
again, at the advanced position (`System.Net.Sockets.Socket.c:247`). Both hold
in every state of the run `async_calls`. They are hypotheses about a run and not
about programs: how the host cuts the bytes up is not the program's choice.

The bytes of a receive in progress belong to the stream although they lie in the
array already, so `IInv` has to say that each side of a connection has at most one
socket (`OneSocketPerSide`): otherwise two receives could each hold a part of one
stream. `CallObjectsFit` says that a call object is polled with the function of
its own call: it makes every step with another call leave the streams as they
are. `RunTypes` types what no call changes, the loop of the scheduler and the counts of
errors. `TakenKept`, `TakenWhenBlocked` and `TakenWhenReturned` say what a step does to
the part that is taken, `SliceGrows` that a poll lengthens it by what it received,
and `StreamChanged` that other streams stay the same; then there is one lemma per
action. The host's steps are stutters but two: a connection that is established
is `LinkUp`, and a typed key is `Typing`.

`HeapTreeFacts` and `HeapTreeProofs` prove about `HeapTree`, for any finite set of
entries and any distance and size of them (`HeapTreeAssumption`: entries do not
overlap, and there are finitely many):

| Theorem | Says |
|---|---|
| `TreeInvariant` | `Spec => []TreeInv` |
| `TypeCorrect` | `Spec => []TypeOK` |
| `BalancedAlways` | `Spec => []Balanced` |
| `SearchExact` | `Spec => []SearchIsExact` |
| `SweepVisits` | `Spec => []SweepVisitsAll` |

None of the four invariants is inductive: `Balanced` speaks of levels and not of
where the links lead. `TreeInv` says that the links make up an AA tree of
exactly the live entries (`AATree`): there is a function `B` that gives each node
the entries of its subtree, such that `B` of a live entry is the entry with what its
children have, smaller ones on the left and larger ones on the right, and the
levels are those of an AA tree. `B` is a witness in the proofs and no variable, and
TLC does not evaluate `TreeInv`: it would have to try all functions from nodes to
sets of entries. What it has instead is each consequence of it, as the invariants of
the run.

The argument is local. `Unfold` and `Fold` take a tree apart at its root and put two
trees together below an entry; `Frame` says that a tree does not notice what is
written to other nodes. With these, `Piece` names a tree with the two levels that
decide about rotations, that of the root and that of its right child, and `Outcome`
is a piece in a later memory that differs in the nodes of the piece only. Then:

- `BalanceOK`: when one subtree has lost a level, `TreeBalance` makes a piece again,
  on the level it had or one below. `LeftLow`, `LeftLowRed` and `RightLow` are the three
  shapes with their up to five rotations. In the last two the order of the rotations
  matters: between them the tree is no AA tree.
- `TreeInsertOK`: an insertion raises the level by at most one, and then leaves
  room on it (`InsertResult`), which is what the caller needs for its own skew and
  split.
- `RightmostOK`, `SwappedFacts`: the heir is the last entry of the left subtree, and
  after the exchange the left subtree has the removed entry in the heir's place.
  That entry is larger than all of the left subtree, which so is a tree of its own
  right, though out of order below the heir until the entry is removed from it
  (`RemoveBoth`).
- `TreeRemoveOK`: a removal lowers the level by at most one (`RemoveResult`). The code
  calls `TreeBalance` at the end of every call, at nil too; `BalanceRests` says
  that this does nothing to a tree.
- `TreeSearchOK`: a turn of the search drops only entries that do not hold the word
  (`Searched`); this uses that entries do not overlap and that the end of one is
  below the next.
- `WalkOK`: the stack of the sweep holds disjoint subtrees, each on a level that is
  below the root's by at least the places under it (`Stack`); so it is no longer
  than the level of the root. What is visited and what is below the stack are
  all the live entries, without repetition.
  `SizeOfLevel`: a root on level `l` has `2^l - 1` entries or more. With 32-bit
  addresses and entries of more than one byte `l` stays below 32: `pUp` with its
  80 places (`Heap.c:335`) and the unsigned byte that holds a level are enough.

All of them are inductions on the size of a tree or on the turns of a loop. The
induction theorems of the library cannot be applied to a predicate here, but to a set
they can: `Induction` proves from the well-foundedness of the numbers that a set with
0 that is closed under successor has all numbers, and each proof collects the numbers
it holds for in such a set. `Recursion` proves in the same way that a start and a step
define a sequence. From it `InsertionIs`, `RemovalIs`, `SearchingIs`, `WalkingIs` and the like
show that the recursive functions satisfy their equations.

`InterpreterProofs` proves about `Interpreter`, for any programs that are laid out
as `Structured` says, any first method, relation of types and length of the log:

| Theorem | Says |
|---|---|
| `Invariance` | assuming `StructuredPrograms`, `Spec => []IInv` |
| `TypeCorrect` | `... => []TypeOK` |
| `StaysOnCourse` | `... => []NeverWild` |

`Structured` is about code and not about runs. Control stays in the code of its
method; the code of finally blocks is entered at the start of a block only and
left by `endfinally`; and behind a throw in a try block with a finally block there
are only writes to the log up to an `endfinally`, as there are in the block itself. The last part is what
the code needs: it enters a finally block at the place saved last
(`JIT_Execute.c:3318`), which is behind the throw, and one `nextFinallyUnwindStack`
per thread serves for all unwinding (`JIT_Execute.c:3306`), so a finally block that
an exception runs may neither call nor throw. TLC finds all programs of both runs
to be structured (`ProgramsAssumption` of `MCInterpreter`, with `FinalPlaces` as the
code of finally blocks); so the hypothesis covers nested handlers, and the program
that shows the finding.

`TypeOK` is not inductive. That the next instruction exists needs to be known of
every method state on the stack, not of the current one: `IInv` says of each
that waits that it goes on at an instruction, and that it knows where to go after
a finally block if it goes on in one (`Waits`, `GoesOn`); and of an exception on
its way, that the handler was found in a method state further down that may go
on there, and that the current method state was saved where only writes are left
before the end of a finally block, and behind a throw or at the start of one
(`Caught`, `Unwinding`, `Running`). The last is what the next turn of the unwinding
relies on when it enters the next block at the place saved last. `UnwindOK` proves
it for one turn; then there is one lemma per action (`CallGood`, ...).

`NeverWild` says that `pCurOp` never points where no program put it, in programs
that are `Plain` besides: no call lies in a try block with a finally block, and no
call of delegates in one with a catch block. 126 of the 192 programs of the run
are. That excludes two states the code gets wrong: a finally block in a method that
waits (`JIT_Execute.c:3306`) and a catching method state with delegates left
(`JIT_Execute.c:1199`). `OnCourse` is the invariant for it: a
method state that waits stands behind a call or at an access to a static field, only
behind a call of delegates has any left, and the current one and the
catching one have none. Hence `WaitsWithout`: no exception finds a
finally block or delegates in a method state that waits; one lemma per action again.
The other 66 programs call a method from such a try block that throws nothing; for
them TLC checks the same as part of `AsSpecified`.

Only model-checked so far: what programs do (`AsSpecified` of `Interpreter`, which
compares with the recursive `Language`), `TypeSystem` and `Jit`.
Out of the prover's reach are the liveness properties (`ReadyThreadRuns`, `WaiterEnters`, `Ends`, `AllReturn`),
and what `RECURSIVE` operators compute: the filling of types in `TypeSystem`, the
reference definitions in `Language` and `ClassModel`.
`Cil` uses the bit operators of `Bitwise`, which provers do not know: about `Jit`
and `CilMachine` nothing can be proved as they stand.

## 6. Plan

Done: the locks, the scheduler composed with them, the collector, the heap tree, the
thread stack, the polled calls and the interpreter's control flow, each with its proofs; the type system, the translator with the operations on values and
calls.

To come, most important first:

1. Delegates, interface calls and constructors of structures in `Jit`; its
   composition with the memory of `ThreadStack` and the classes of `TypeSystem`.
2. The composition of `Scheduler` and `Interpreter`: static constructors and
   slices of several threads (`JIT_Execute.c:3067`).
3. Allocation of several objects in one internal call (`System.Type.c:264`).
4. The debugger's second entry into `Thread_Execute`.
5. Compressed numbers, coded indexes and RVA lookup of the metadata as
   operators against reference definitions; arrays and strings likewise.

## 7. Not modelled, and why

Of `Jit`: floating point (its range and rounding are not those of small
integers); delegates, static constructors, finally clauses, rethrow and tail
calls, whose control flow is in `Interpreter` and whose memory is in
`ThreadStack`; interface and constrained calls; constructors of structures, which
build their value in the evaluation stack of the caller; locals of called methods
(they are not cleared); `call` of an instance method on null, which only that
method notices; strings and tokens; `Nullable`; 64-bit arithmetic with checks and
`conv.ovf`; small locals and fields and pointers to them; what the observations
above say has no code or goes wrong. It is the 32-bit build, in which a pointer
is one word.

Of `TypeSystem`: the runtime type objects, literal and RVA fields, generic
methods, generic types of more than one parameter. Of `AsyncCalls`: creating and
binding sockets and the errors of the host other than a refused connection. Of
`ThreadStack`: delegates, `MethodBase.Invoke`, constructors of value types,
finally clauses.

Whole parts: the metadata reader and the search by reference (sequential
parsing; planned), arrays, strings and characters (sequential library functions;
planned), reflection and the table of internal calls (data and allocation),
platform invoke (generated cases), interlocked operations (one internal call
each, atomic since slices end between instructions), the debugger (planned),
files, DNS, environment and clock (one host call each), startup.

More than two thirds of the lines of the repository are not part of the runtime:
`src/test_tools` (half of all lines, most of them a table of Unicode data) is a
separate tool that prints assemblies; `src/source_old` is an abandoned assembly
reader used by nothing; `src/source` is a stub. Of the runtime,
`PInvoke_CaseCode.h`, the Unicode tables and much of the headers are data. So
the share of all lines that is mapped stays small: about one tenth of the
repository is modelled, which is more than a third of the C code of the
runtime, and every part of it with state that outlives a call, except for those
named above. The managed library (`corlib`) is not in the repository in source
form: what of it matters is marked external. The profile-guided recompilation of
`GEN_COMBINED_OPCODES` is switched off in the build.

---------------------------- MODULE ThreadStack ----------------------------
(***************************************************************************)
(* The stack of one thread: method states one after the other in a single  *)
(* chunk of memory, each with its evaluation stack and its parameters and  *)
(* locals behind a header.  Arguments and results are moved from one       *)
(* method state to the next, and a tail call takes over the method state   *)
(* of its caller.                                                          *)
(*                                                                         *)
(* Memory is counted in words of the evaluation stack.  What methods do is *)
(* any sequence of instructions that keeps to the sizes their compiled     *)
(* form declares.                                                          *)
(***************************************************************************)
EXTENDS Integers, Sequences

CONSTANTS Methods, Main,
          MaxStack, Params, Locals,
          ReturnType,  \* pReturnType
          Returns,     \* the size of a result of it
          Literals, Calls, TailCalls,
          Constructors, Finalizers,
          Allocating,  \* the methods that create arrays
          Catching,    \* the methods with exception handlers
          Objects, Values,
          HeaderSize,  \* sizeof(tMethodState)
          ChunkSize    \* THREADSTACK_CHUNK_SIZE

FrameSize(m) == HeaderSize + MaxStack[m] + Params[m] + Locals[m]

ASSUME SizesAssumption ==
  /\ Main \in Methods
  /\ MaxStack \in [Methods -> Nat]
  /\ Params \in [Methods -> Nat]
  /\ Locals \in [Methods -> Nat]
  /\ Returns \in [Methods -> Nat]
  /\ \A m, n \in Methods : ReturnType[m] = ReturnType[n] => Returns[m] = Returns[n]
  /\ HeaderSize \in Nat \ {0}
  /\ ChunkSize \in Nat
  /\ FrameSize(Main) <= ChunkSize

ASSUME CodeAssumption ==
  /\ Literals \in [Methods -> SUBSET Values]
  /\ Calls \in [Methods -> SUBSET Methods]
  /\ TailCalls \in [Methods -> SUBSET Methods]
  /\ Constructors \subseteq Methods
  /\ \A m \in Constructors : Params[m] > 0
  /\ Finalizers \subseteq Methods
  /\ \A m \in Finalizers : Params[m] = 1
  /\ Allocating \subseteq Methods
  /\ Catching \subseteq Methods
  /\ \A m \in Catching : MaxStack[m] > 0
  /\ Objects \subseteq Values

VARIABLES memory,  \* of the chunk
          ofs,     \* where its free part begins
          frames,  \* the method states, from the first to the current one
          status   \* "run", "exit", "crash", or "overrun": beyond the chunk

vars == <<memory, ofs, frames, status>>

Depth == Len(frames)
Top == frames[Depth]
Running == status = "run"

MethodState(addr, m) == [addr |-> addr, method |-> m, stackOfs |-> 0]

(* EVAL_STACK_PTR, PARAMETERS_PTR, the top of the evaluation stack and the *)
(* end of a method state.                                                  *)
EvalStack(f) == f.addr + HeaderSize
Parameters(f) == EvalStack(f) + MaxStack[f.method]
CurEvalStack(f) == EvalStack(f) + f.stackOfs
End(f) == f.addr + FrameSize(f.method)

(* Mutant: counted from the parameters. *)
StackOfsFromParameters(n) ==
  [frames EXCEPT ![Depth].stackOfs = n - MaxStack[Top.method]]

(* The current method goes on with n words on its evaluation stack. *)
StackOfs(n) == [frames EXCEPT ![Depth].stackOfs = n]

Write(mem, addr, v) == [mem EXCEPT ![addr] = v]

(* memmove *)
Move(mem, to, from, n) ==
  [a \in DOMAIN mem |-> IF a \in to .. to + n - 1 THEN mem[from + a - to] ELSE mem[a]]

Init ==
  /\ \E v \in Values : memory = [a \in 0 .. ChunkSize - 1 |-> v]
  /\ frames = <<MethodState(0, Main)>>
  /\ ofs = FrameSize(Main)
  /\ status = "run"

-----------------------------------------------------------------------------
(* Within a method *)

Push(v) ==
  /\ Running /\ v \in Literals[Top.method] /\ Top.stackOfs < MaxStack[Top.method]
  /\ memory' = Write(memory, CurEvalStack(Top), v)
  /\ frames' = StackOfs(Top.stackOfs + 1)
  /\ UNCHANGED <<ofs, status>>

LoadParamLocal(i) ==
  /\ Running /\ i \in 0 .. Params[Top.method] + Locals[Top.method] - 1
  /\ Top.stackOfs < MaxStack[Top.method]
  /\ memory' = Write(memory, CurEvalStack(Top), memory[Parameters(Top) + i])
  /\ frames' = StackOfs(Top.stackOfs + 1)
  /\ UNCHANGED <<ofs, status>>

StoreParamLocal(i) ==
  /\ Running /\ i \in 0 .. Params[Top.method] + Locals[Top.method] - 1
  /\ Top.stackOfs > 0
  /\ memory' = Write(memory, Parameters(Top) + i, memory[CurEvalStack(Top) - 1])
  /\ frames' = StackOfs(Top.stackOfs - 1)
  /\ UNCHANGED <<ofs, status>>

-----------------------------------------------------------------------------
(* Calls *)

(* The allocation of method states up to "end" does not crash. *)
StackAlloc(end) == end <= ChunkSize

Crash(end) ==
  /\ ~StackAlloc(end)
  /\ status' = "crash"
  /\ UNCHANGED <<memory, ofs, frames>>

(* Mutant: arguments are taken from the bottom of the stack. *)
CopyParametersFirst(mem, f, n, below) == Move(mem, Parameters(f) + below, EvalStack(Top), n)

(* The last n words of the evaluation stack of the current method become   *)
(* parameters of f, behind those "below".                                  *)
CopyParameters(mem, f, n, below) ==
  Move(mem, Parameters(f) + below, CurEvalStack(Top) - n, n)

PlainCall(m) ==
  LET f == MethodState(ofs, m)
  IN \/ Crash(End(f))
     \/ /\ StackAlloc(End(f))
        /\ memory' = CopyParameters(memory, f, Params[m], 0)
        /\ frames' = Append(StackOfs(Top.stackOfs - Params[m]), f)
        /\ ofs' = End(f)
        /\ UNCHANGED status

Call(m) ==
  /\ Running /\ m \in Calls[Top.method] /\ Top.stackOfs >= Params[m]
  /\ PlainCall(m)

(* The method state of the caller can be taken over: it runs the same      *)
(* method or one without handlers and with the same type of result.  (No   *)
(* delegate is called here: pNextDelegate is NULL.)                        *)
ReusesFrame(m) ==
  \/ m = Top.method
  \/ ReturnType[m] = ReturnType[Top.method] /\ Top.method \notin Catching

(* Nothing asks whether the chunk is large enough. *)
TailCall(m) ==
  LET f == MethodState(Top.addr, m)
  IN /\ Running /\ m \in TailCalls[Top.method] /\ Top.stackOfs = Params[m]
     /\ IF ReusesFrame(m)
        THEN /\ memory' = CopyParameters(memory, f, Params[m], 0)
             /\ frames' = [frames EXCEPT ![Depth] = f]
             /\ ofs' = End(f)
             /\ status' = IF End(f) > ChunkSize THEN "overrun" ELSE "run"
        ELSE PlainCall(m)

(* After an allocation a finalizer runs first, if one is due: its method   *)
(* state lies on top of the others, with the object to finalize in it.     *)
RunFinalizer(mem, fs, end, pending) ==
  \/ /\ memory' = mem /\ frames' = fs /\ ofs' = end
     /\ UNCHANGED status
  \/ \E m \in Finalizers :
       LET f == MethodState(end, m)
       IN \/ Crash(End(f))
          \/ /\ StackAlloc(End(f))
             /\ memory' = Write(mem, Parameters(f), pending)
             /\ frames' = Append(fs, f)
             /\ ofs' = End(f)
             /\ UNCHANGED status

(* The constructor gets the object as its first parameter, and its caller  *)
(* has it on the evaluation stack.                                         *)
NewObject(m, obj, pending) ==
  LET c == MethodState(ofs, m)
      n == Params[m] - 1
      passed == CopyParameters(Write(memory, Parameters(c), obj), c, n, 1)
  IN /\ Running /\ m \in Calls[Top.method] \cap Constructors
     /\ Top.stackOfs >= n /\ Top.stackOfs - n < MaxStack[Top.method]
     /\ \/ Crash(End(c))
        \/ /\ StackAlloc(End(c))
           /\ RunFinalizer(Write(passed, CurEvalStack(Top) - n, obj),
                           Append(StackOfs(Top.stackOfs - n + 1), c), End(c), pending)

(* An array takes the place of its length on the evaluation stack. *)
NewVector(obj, pending) ==
  /\ Running /\ Top.method \in Allocating /\ Top.stackOfs > 0
  /\ RunFinalizer(Write(memory, CurEvalStack(Top) - 1, obj), frames, ofs, pending)

(* The result moves to the evaluation stack of the caller. *)
Return ==
  LET n == Returns[Top.method]
      caller == frames[Depth - 1]
  IN /\ Running /\ Top.stackOfs >= n
     /\ IF Depth = 1
        THEN /\ status' = "exit"
             /\ UNCHANGED <<memory, ofs, frames>>
        ELSE /\ caller.stackOfs + n <= MaxStack[caller.method]
             /\ memory' = Move(memory, CurEvalStack(caller), CurEvalStack(Top) - n, n)
             /\ frames' = [SubSeq(frames, 1, Depth - 1) EXCEPT ![Depth - 1].stackOfs = @ + n]
             /\ ofs' = Top.addr
             /\ UNCHANGED status

(* Mutant: the method states left stay allocated. *)
StackFreeNot(n) == ofs

(* The method states above the n-th are deleted. *)
StackFree(n) == IF n = Depth THEN ofs ELSE frames[n + 1].addr

Throw(n) ==
  /\ Running /\ Top.stackOfs > 0 /\ n \in 1 .. Depth /\ frames[n].method \in Catching
  /\ memory' = Write(memory, EvalStack(frames[n]), memory[CurEvalStack(Top) - 1])
  /\ frames' = [SubSeq(frames, 1, n) EXCEPT ![n].stackOfs = 1]
  /\ ofs' = StackFree(n)
  /\ UNCHANGED status

Next ==
  \/ Return
  \/ \E v \in Values : Push(v)
  \/ \E m \in Methods :
       \/ Call(m) \/ TailCall(m)
       \/ \E obj, pending \in Objects : NewObject(m, obj, pending)
  \/ \E obj, pending \in Objects : NewVector(obj, pending)
  \/ \E i \in 0 .. Params[Top.method] + Locals[Top.method] - 1 :
       LoadParamLocal(i) \/ StoreParamLocal(i)
  \/ \E n \in 1 .. Depth : Throw(n)

Spec == Init /\ [][Next]_vars

-----------------------------------------------------------------------------
(* Properties *)

TypeOK ==
  /\ memory \in [0 .. ChunkSize - 1 -> Values]
  /\ ofs \in Nat
  /\ frames \in Seq([addr : Nat, method : Methods, stackOfs : Nat])
  /\ frames # <<>>
  /\ \A i \in 1 .. Len(frames) : frames[i].stackOfs <= MaxStack[frames[i].method]
  /\ status \in {"run", "exit", "crash", "overrun"}

(* Method states lie in the chunk one after the other, and the next one    *)
(* will lie behind the last: whatever is called, taken over by a tail      *)
(* call, returned from or left by an exception, none lies in another.      *)
FramesAdjoin ==
  /\ frames[1].addr = 0
  /\ \A i \in 1 .. Len(frames) - 1 : frames[i + 1].addr = End(frames[i])
  /\ ofs = End(frames[Len(frames)])

(* No method state lies outside of the chunk.  The code does not see to    *)
(* it: a tail call that takes over a smaller method state asks nobody      *)
(* (MethodState.c:153).  What happens to memory beyond the chunk is        *)
(* undefined, so that this is a hypothesis of what follows.                *)
WithinChunk == ofs <= ChunkSize

(* Methods see invocations with memory of their own. *)
Words(addr, n) == [k \in 1 .. n |-> memory[addr + k - 1]]

Frame(f) ==
  [method |-> f.method,
   vars |-> Words(Parameters(f), Params[f.method] + Locals[f.method]),
   eval |-> Words(EvalStack(f), f.stackOfs)]

Abstract == INSTANCE CallFrames WITH
  frames <- [i \in 1 .. Len(frames) |-> Frame(frames[i])]

ImplementsCallFrames == Abstract!Spec
=============================================================================

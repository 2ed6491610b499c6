----------------------------- MODULE CallFrames -----------------------------
(***************************************************************************)
(* What the stack of a thread promises to the methods that run on it: each *)
(* invocation has parameters, locals and an evaluation stack of its own,   *)
(* which nobody else changes, except that a method that returns leaves its *)
(* result on the evaluation stack of its caller.                           *)
(***************************************************************************)
EXTENDS Integers, Sequences

CONSTANTS Methods, Main,
          MaxStack, Params, Locals, Returns,  \* sizes, functions of the method
          Literals,             \* Literals[m]: the constants in the code of m
          Calls, TailCalls,     \* the methods called, and called as a tail call
          Constructors, Finalizers, Allocating, Catching, Objects

VARIABLES frames,  \* from the first method to the current one
          status

vars == <<frames, status>>

Depth == Len(frames)
Top == frames[Depth]
Running == status = "run"

(* A new invocation: what its locals hold is anything. *)
IsFrame(f, m, args) ==
  /\ f.method = m
  /\ f.eval = <<>>
  /\ Len(f.vars) = Params[m] + Locals[m]
  /\ SubSeq(f.vars, 1, Params[m]) = args

Init ==
  /\ Len(frames) = 1
  /\ IsFrame(frames[1], Main, SubSeq(frames[1].vars, 1, Params[Main]))
  /\ status = "run"

(* The current method goes on with evaluation stack e. *)
Eval(e) == [frames EXCEPT ![Depth].eval = e]

(* The last n values of the evaluation stack, and the others. *)
Args(n) == SubSeq(Top.eval, Len(Top.eval) - n + 1, Len(Top.eval))
Rest(n) == SubSeq(Top.eval, 1, Len(Top.eval) - n)

Push(v) ==
  /\ Running /\ v \in Literals[Top.method]
  /\ frames' = Eval(Append(Top.eval, v))
  /\ UNCHANGED status

Load(i) ==
  /\ Running /\ i \in DOMAIN Top.vars
  /\ frames' = Eval(Append(Top.eval, Top.vars[i]))
  /\ UNCHANGED status

Store(i) ==
  /\ Running /\ i \in DOMAIN Top.vars /\ Top.eval # <<>>
  /\ frames' = [frames EXCEPT ![Depth].vars[i] = Args(1)[1], ![Depth].eval = Rest(1)]
  /\ UNCHANGED status

(* New invocations on top of "below": called is a sequence of methods with *)
(* their arguments.                                                        *)
Enters(below, called) ==
  /\ Len(frames') = Len(below) + Len(called)
  /\ SubSeq(frames', 1, Len(below)) = below
  /\ \A i \in DOMAIN called :
       IsFrame(frames'[Len(below) + i], called[i].method, called[i].args)

Invocation(m, args) == [method |-> m, args |-> args]

Call(m) ==
  /\ Running /\ m \in Calls[Top.method] /\ Len(Top.eval) >= Params[m]
  /\ Enters(Eval(Rest(Params[m])), <<Invocation(m, Args(Params[m]))>>)
  /\ UNCHANGED status

(* The caller has nothing left to do but to return: it may be gone. *)
TailCall(m) ==
  /\ Running /\ m \in TailCalls[Top.method] /\ Len(Top.eval) = Params[m]
  /\ \/ Enters(SubSeq(frames, 1, Depth - 1), <<Invocation(m, Top.eval)>>)
     \/ Enters(Eval(<<>>), <<Invocation(m, Top.eval)>>)
  /\ UNCHANGED status

(* What follows an allocation: a finalizer may run first. *)
AndFinalizer(below, called, pending) ==
  \/ Enters(below, called)
  \/ \E f \in Finalizers : Enters(below, Append(called, Invocation(f, <<pending>>)))

(* The constructor gets the new object as its first argument, its caller   *)
(* finds it on the evaluation stack.                                       *)
NewObject(m, obj, pending) ==
  LET n == Params[m] - 1
  IN /\ Running /\ m \in Calls[Top.method] \cap Constructors /\ Len(Top.eval) >= n
     /\ AndFinalizer(Eval(Append(Rest(n), obj)),
                     <<Invocation(m, <<obj>> \o Args(n))>>, pending)
     /\ UNCHANGED status

NewVector(obj, pending) ==
  /\ Running /\ Top.method \in Allocating /\ Top.eval # <<>>
  /\ AndFinalizer(Eval(Append(Rest(1), obj)), <<>>, pending)
  /\ UNCHANGED status

Return ==
  /\ Running /\ Depth > 1 /\ Len(Top.eval) >= Returns[Top.method]
  /\ frames' = [SubSeq(frames, 1, Depth - 1) EXCEPT
                  ![Depth - 1].eval = @ \o Args(Returns[Top.method])]
  /\ UNCHANGED status

(* An exception leaves the invocations above the one that catches it. *)
Throw(n) ==
  /\ Running /\ Top.eval # <<>> /\ n \in 1 .. Depth /\ frames[n].method \in Catching
  /\ frames' = [SubSeq(frames, 1, n) EXCEPT ![n].eval = Args(1)]
  /\ UNCHANGED status

(* The end of the first method, or of the program for want of stack. *)
Stop ==
  /\ Running /\ status' \in {"exit", "crash"}
  /\ UNCHANGED frames

Next ==
  \/ Return \/ Stop
  \/ \E v \in UNION {Literals[m] : m \in Methods} : Push(v)
  \/ \E i \in DOMAIN Top.vars : Load(i) \/ Store(i)
  \/ \E m \in Methods :
       \/ Call(m) \/ TailCall(m)
       \/ \E obj, pending \in Objects : NewObject(m, obj, pending)
  \/ \E obj, pending \in Objects : NewVector(obj, pending)
  \/ \E n \in 1 .. Depth : Throw(n)

Spec == Init /\ [][Next]_vars
=============================================================================

----------------------------- MODULE CilMachine -----------------------------
(***************************************************************************)
(* What a verifiable method does, as the Common Intermediate Language      *)
(* defines it: instructions that work on a stack of typed values, variables*)
(* and objects made of values. Nothing here knows of the translator, of    *)
(* words or of the sizes of anything. The environment writes the program   *)
(* one instruction at a time; then it runs.                                *)
(*                                                                         *)
(* A step that would be a NullReferenceException, an IndexOutOfRange-      *)
(* Exception or a DivideByZeroException, none of which the code has, or    *)
(* one the language leaves undefined, ends the run as "unspecified".       *)
(***************************************************************************)
EXTENDS Cil

CONSTANTS Methods,    \* what the programs are written for, by name
          Library     \* the programs of Callees: Verified

VARIABLES method,
          prog,       \* the program that is written, then the one that runs
          fn,         \* the method it is of: 0 for the one written, or one of Callees
          frame,       \* the region of its variables
          callers,    \* the methods that called it: prog, fn, frame, the offset to go on at, the stack
          status,     \* "writing", "running", "returned", "unhandled" or "unspecified"
          pc,         \* the offset of the next instruction
          stack,      \* the evaluation stack: values, the last one on top
          mem,        \* the variables, the statics, then every object and the variables of methods called
          result      \* the value returned

Method == Methods[method]

vars == <<method, prog, fn, frame, callers, status, pc, stack, mem, result>>

Body == IF fn = 0 THEN Method ELSE Callees[fn]

Width(t) == IF t \in Int64s THEN 2 * Long ELSE Long
Value(t, v) == IF t \in Int64s THEN <<v, 0>> ELSE <<v>>

(* Memory. *)
Zeros(n) == [k \in 1 .. n |-> 0]

Load(a, n) == SubSeq(mem[RegionOf(a)].cells, CellOf(a) + 1, CellOf(a) + n)
Store(a, v) == [mem EXCEPT ![RegionOf(a)].cells =
  [k \in DOMAIN @ |-> IF k - CellOf(a) \in DOMAIN v THEN v[k - CellOf(a)] ELSE @[k]]]

VariableTypes == Body.params \o Body.locals
ArgAt(n) == Ref(frame) + Offset(VariableTypes, n)
LocalAt(n) == Ref(frame) + Offset(VariableTypes, Len(Body.params) + n)
StaticAt(n) == Statics + Offset(Fields.statics, n)
FieldAt(a, t, n) == IF a = 0 THEN 0 ELSE a + Offset(Fields[t[1]], n)
ElementAt(a, t, n) == IF a = 0 \/ n \notin 0 .. mem[RegionOf(a)].len - 1 THEN 0 ELSE a + n * Size(t)

(* What an array keeps of a 32-bit integer. *)
Cell(t, v) ==
  CASE t = <<"U1">> -> Unsigned(v, Bits)
    [] t = <<"I1">> -> Wrap(v, Bits)
    [] t = <<"U2">> -> Unsigned(v, 2 * Bits)
    [] t = <<"I2">> -> Wrap(v, 2 * Bits)
    [] OTHER -> v

(***************************************************************************)
(* Arithmetic: the values an operation may give, none when it is undefined.*)
(***************************************************************************)
Binary(op, a, b, w) ==
  CASE op = "add" -> {Wrap(a + b, w)}
    [] op = "sub" -> {Wrap(a - b, w)}
    [] op = "mul" -> {Wrap(a * b, w)}
    [] op = "div" -> IF b = 0 \/ (b = -1 /\ a = -(2 ^ (w - 1))) THEN {} ELSE {Quotient(a, b)}
    [] op = "rem" -> IF b = 0 \/ (b = -1 /\ a = -(2 ^ (w - 1))) THEN {} ELSE {a - b * Quotient(a, b)}
    [] op = "div.un" -> IF b = 0 THEN {} ELSE {Wrap(Unsigned(a, w) \div Unsigned(b, w), w)}
    [] op = "rem.un" -> IF b = 0 THEN {} ELSE {Wrap(Unsigned(a, w) % Unsigned(b, w), w)}
    [] op = "and" -> {Wrap(Unsigned(a, w) & Unsigned(b, w), w)}
    [] op = "or" -> {Wrap(Unsigned(a, w) | Unsigned(b, w), w)}
    [] op = "xor" -> {Wrap(Unsigned(a, w) ^^ Unsigned(b, w), w)}

Shift(op, a, n, w) ==
  IF n \notin 0 .. w - 1 THEN {}
  ELSE CASE op = "shl" -> {Wrap(a * 2 ^ n, w)}
         [] op = "shr" -> {a \div 2 ^ n}
         [] op = "shr.un" -> {Wrap(Unsigned(a, w) \div 2 ^ n, w)}

Exact(op, a, b) ==
  CASE op = "add.ovf" -> a + b
    [] op = "sub.ovf" -> a - b
    [] op = "mul.ovf" -> a * b
    [] op = "add.ovf.un" -> Unsigned(a, Long) + Unsigned(b, Long)
    [] op = "sub.ovf.un" -> Unsigned(a, Long) - Unsigned(b, Long)
    [] op = "mul.ovf.un" -> Unsigned(a, Long) * Unsigned(b, Long)

Fitting(op) == IF op \in {"add.ovf", "sub.ovf", "mul.ovf"} THEN -(2 ^ (Long - 1)) .. 2 ^ (Long - 1) - 1
                                                            ELSE 0 .. 2 ^ Long - 1

Holds(op, a, b, w) ==
  CASE op \in {"beq", "ceq"} -> a = b
    [] op = "bne.un" -> a # b
    [] op = "bge" -> a >= b
    [] op \in {"bgt", "cgt"} -> a > b
    [] op = "ble" -> a <= b
    [] op \in {"blt", "clt"} -> a < b
    [] op = "bge.un" -> Unsigned(a, w) >= Unsigned(b, w)
    [] op \in {"bgt.un", "cgt.un"} -> Unsigned(a, w) > Unsigned(b, w)
    [] op = "ble.un" -> Unsigned(a, w) <= Unsigned(b, w)
    [] op \in {"blt.un", "clt.un"} -> Unsigned(a, w) < Unsigned(b, w)

Convert(op, v, from) ==
  CASE op = "conv.i1" -> Wrap(v, Bits)
    [] op = "conv.u1" -> Unsigned(v, Bits)
    [] op = "conv.i2" -> Wrap(v, 2 * Bits)
    [] op = "conv.u2" -> Unsigned(v, 2 * Bits)
    [] op \in {"conv.i4", "conv.u4"} -> Wrap(v, Long)
    [] op = "conv.i8" -> v
    [] op = "conv.u8" -> IF from \in Int64s THEN v ELSE Unsigned(v, Long)

(***************************************************************************)
(* The next instruction, its operands and their types.                     *)
(***************************************************************************)
i == prog.code[pc]
Shape == prog.shapes[pc]
at == Operands(Shape, Arity(Body, i))
a == Operands(stack, Arity(Body, i))
Rest == Below(stack, Arity(Body, i))

Go(next, s, m) ==
  /\ pc' = next /\ stack' = s /\ mem' = m
  /\ UNCHANGED <<method, prog, fn, frame, callers, status, result>>

End(how, v, m) ==
  /\ status' = how /\ pc' = 0 /\ stack' = <<>> /\ result' = v /\ mem' = m
  /\ fn' = 0 /\ frame' = 1 /\ callers' = <<>>
  /\ UNCHANGED <<method, prog>>

Unspecified == End("unspecified", <<>>, mem)

TypeInit ==
  /\ method \in DOMAIN Methods
  /\ prog = Empty(Method) /\ fn = 0 /\ frame = 1 /\ callers = <<>>
  /\ status = "writing" /\ pc = 0 /\ stack = <<>> /\ mem = <<>> /\ result = <<>>

(* The compiler's work: any program that verifies. *)
Write ==
  /\ status = "writing" /\ Len(prog.code) < Method.length
  /\ \E j \in Method.menu : prog'.code = Append(prog.code, j) /\ prog' \in Extend(Method, prog, j)
  /\ UNCHANGED <<method, fn, frame, callers, status, pc, stack, mem, result>>

Start ==
  /\ status = "writing" /\ Complete(Method, prog)
  /\ status' = "running" /\ pc' = 1
  /\ \E v \in Method.inputs : mem' = <<Region(<<"vars", 0>>, 0, v)>> \o Method.heap
  /\ UNCHANGED <<method, prog, fn, frame, callers, stack, result>>

(* Instructions that work on the stack alone: the values they may leave. *)
One(vs) == {<<v>> : v \in vs}

Compared == IF i.op = "cgt.un" /\ IsRef(at[1]) THEN "bne.un" ELSE i.op
Condition == Holds(Compared, a[1][1], a[2][1], Width(at[1]))

Results ==
  CASE i.op = "nop" -> {<<>>}
    [] i.op = "ldnull" -> {<<<<0>>>>}
    [] i.op = "ldc.i4" -> {<<<<i.n>>>>}
    [] i.op = "ldc.i8" -> {<<<<i.n, 0>>>>}
    [] i.op = "dup" -> {<<a[1], a[1]>>}
    [] i.op = "pop" -> {<<>>}
    [] i.op = "ldarga" -> {<<<<ArgAt(i.n)>>>>}
    [] i.op = "ldloca" -> {<<<<LocalAt(i.n)>>>>}
    [] i.op = "ldsflda" -> {<<<<StaticAt(i.n)>>>>}
    [] i.op = "ldflda" -> {<<<<p>>>> : p \in {FieldAt(a[1][1], i.t, i.n)} \ {0}}
    [] i.op = "ldfld" -> LET o == Offset(Fields[i.t[1]], i.n)
                         IN  {<<SubSeq(a[1], o + 1, o + Size(FieldOf(i.t, i.n)))>>}
    [] i.op = "ldlen" -> {<<<<mem[r].len>>>> : r \in {RegionOf(a[1][1])} \ {0}}
    [] i.op = "isinst" -> {<<<<IF a[1][1] # 0 /\ IsInstance(mem[RegionOf(a[1][1])].type, i.t) THEN a[1][1] ELSE 0>>>>}
    [] i.op = "ldelema" -> {<<<<p>>>> : p \in {ElementAt(a[1][1], i.t, a[2][1])} \ {0}}
    [] i.op \in Arithmetic -> One({Value(at[1], v) : v \in Binary(i.op, a[1][1], a[2][1], Width(at[1]))})
    [] i.op \in Shifts -> One({Value(at[1], v) : v \in Shift(i.op, a[1][1], a[2][1], Width(at[1]))})
    [] i.op = "neg" -> One({Value(at[1], Wrap(-a[1][1], Width(at[1])))})
    [] i.op = "not" -> One({Value(at[1], -a[1][1] - 1)})
    [] i.op \in ToI4 -> One({<<Convert(i.op, a[1][1], at[1])>>})
    [] i.op \in ToI8 -> One({<<Convert(i.op, a[1][1], at[1]), 0>>})
    [] i.op \in Compares -> {<<<<IF Condition THEN 1 ELSE 0>>>>}

FromValue == i.op = "ldfld" /\ IsStruct(at[1])

Evaluates ==
  \/ i.op \in {"nop", "ldnull", "ldc.i4", "ldc.i8", "dup", "pop", "ldarga", "ldloca", "ldsflda", "ldflda",
               "isinst", "ldlen", "ldelema", "neg", "not"} \cup Arithmetic \cup Shifts \cup ToI4 \cup ToI8 \cup Compares
  \/ FromValue

Evaluate ==
  /\ status = "running" /\ Evaluates
  /\ \/ \E vs \in Results : Go(pc + 1, Rest \o vs, mem)
     \/ Results = {} /\ Unspecified

(* Instructions that read the variables, the statics or an object. *)
Source ==
  CASE i.op = "ldarg" -> ArgAt(i.n)
    [] i.op = "ldloc" -> LocalAt(i.n)
    [] i.op = "ldsfld" -> StaticAt(i.n)
    [] i.op = "ldfld" -> FieldAt(a[1][1], i.t, i.n)
    [] i.op \in LoadElements \cup {"ldelem"} -> ElementAt(a[1][1], <<at[1][2]>>, a[2][1])
    [] i.op \in {"ldind.i4", "ldind.u4", "ldind.i8", "ldind.ref", "ldobj", "unbox.any"} -> a[1][1]

Loaded == prog.shapes[pc + 1][Len(Rest) + 1]

AsLoaded(v) ==
  CASE i.op = "ldelem.i1" -> <<Wrap(v[1], Bits)>>
    [] i.op = "ldelem.u1" -> <<Unsigned(v[1], Bits)>>
    [] i.op = "ldelem.i2" -> <<Wrap(v[1], 2 * Bits)>>
    [] i.op = "ldelem.u2" -> <<Unsigned(v[1], 2 * Bits)>>
    [] OTHER -> v

Loads == i.op \in LoadElements \cup {"ldarg", "ldloc", "ldsfld", "ldfld", "ldelem", "ldind.i4", "ldind.u4",
                                     "ldind.i8", "ldind.ref", "ldobj", "unbox.any"} /\ ~FromValue

LoadValue ==
  /\ status = "running" /\ Loads
  /\ IF Source = 0 THEN Unspecified
     ELSE Go(pc + 1, Append(Rest, AsLoaded(Load(Source, Size(Loaded)))), mem)

(* Instructions that write them. *)
Destination ==
  CASE i.op = "starg" -> ArgAt(i.n)
    [] i.op = "stloc" -> LocalAt(i.n)
    [] i.op = "stsfld" -> StaticAt(i.n)
    [] i.op = "stfld" -> FieldAt(a[1][1], i.t, i.n)
    [] i.op \in StoreElements \cup {"stelem"} -> ElementAt(a[1][1], <<at[1][2]>>, a[2][1])
    [] i.op \in {"stind.i4", "stind.i8", "stind.ref", "stobj", "initobj"} -> a[1][1]

Stored ==
  CASE i.op = "initobj" -> Zeros(Size(i.t))
    [] i.op \in StoreElements \cup {"stelem"} -> <<Cell(<<at[1][2]>>, a[3][1])>> \o Tail(a[3])
    [] OTHER -> a[Len(a)]

Stores == i.op \in StoreElements \cup {"starg", "stloc", "stsfld", "stfld", "stelem", "stind.i4", "stind.i8",
                                       "stind.ref", "stobj", "initobj"}

StoreValue ==
  /\ status = "running" /\ Stores
  /\ IF Destination = 0 THEN Unspecified ELSE Go(pc + 1, Rest, Store(Destination, Stored))

Created ==
  IF i.op = "box" THEN Region(<<"box", i.t[1]>>, 0, a[1])
                  ELSE Region(<<"array", i.t[1]>>, a[1][1], Zeros(a[1][1] * Size(i.t)))

Create ==
  /\ status = "running" /\ i.op \in {"newarr", "box"}
  /\ IF i.op = "newarr" /\ a[1][1] < 0 THEN Unspecified
     ELSE Go(pc + 1, Append(Rest, <<Ref(Len(mem) + 1)>>), Append(mem, Created))

(* Instructions that decide where to go on. *)
NextOffset ==
  CASE i.op = "br" -> i.to[1]
    [] i.op = "brtrue" -> IF a[1][1] # 0 THEN i.to[1] ELSE pc + 1
    [] i.op = "brfalse" -> IF a[1][1] = 0 THEN i.to[1] ELSE pc + 1
    [] i.op \in Branches -> IF Condition THEN i.to[1] ELSE pc + 1
    [] i.op = "switch" -> IF a[1][1] \in 0 .. Len(i.to) - 1 THEN i.to[a[1][1] + 1] ELSE pc + 1

Jump ==
  /\ status = "running" /\ i.op \in Branches \cup {"br", "brtrue", "brfalse", "switch"}
  /\ Go(NextOffset, Rest, mem)

(* A method goes on; those it called are left. *)
Resume(state, below, next, s, m) ==
  /\ prog' = state.prog /\ fn' = state.fn /\ frame' = state.frame /\ callers' = below
  /\ pc' = next /\ stack' = s /\ mem' = m
  /\ UNCHANGED <<method, status, result>>

Return ==
  /\ status = "running" /\ i.op = "ret"
  /\ IF callers = <<>> THEN End("returned", IF a = <<>> THEN <<>> ELSE a[1], mem)
     ELSE Resume(Last(callers), Front(callers), Last(callers).pc, Last(callers).stack \o a, mem)

(* A call: the method gets its arguments in variables of its own, and what *)
(* is left of the stack, below its result, is kept for its return.         *)
Caller(kept) == [prog |-> prog, fn |-> fn, frame |-> frame, pc |-> pc + 1, stack |-> kept]

Enter(c, args, kept, m) ==
  /\ prog' = Library[c] /\ fn' = c /\ frame' = Len(m) + 1 /\ pc' = 1 /\ stack' = <<>>
  /\ callers' = Append(callers, Caller(kept))
  /\ mem' = Append(m, Region(<<"vars", c>>, 0, FlattenSeq(args)))
  /\ UNCHANGED <<method, status, result>>

(* The first clause, of the nearest method, whose try block the exception  *)
(* leaves and which catches it.                                            *)
Clauses(f) == IF f = 0 THEN Method.clauses ELSE Callees[f].clauses
Catching(state, t) == {c \in DOMAIN Clauses(state.fn) : /\ state.pc - 1 \in Clauses(state.fn)[c].ts .. Clauses(state.fn)[c].te - 1
                                                       /\ Fits(t, Clauses(state.fn)[c].type)}

Raise(obj, m) ==
  LET states == Append(callers, Caller(<<>>))
      found == [k \in DOMAIN states |-> Catching(states[k], m[RegionOf(obj)].type)]
      catching == {k \in DOMAIN states : found[k] # {}}
  IN  IF catching = {} THEN End("unhandled", <<>>, m)
      ELSE \E k \in catching : \E c \in found[k] :
             /\ \A l \in catching : l <= k
             /\ \A d \in found[k] : c <= d
             /\ Resume(states[k], SubSeq(states, 1, k - 1), Clauses(states[k].fn)[c].hs, << <<obj>> >>, m)

Throw ==
  /\ status = "running" /\ i.op = "throw"
  /\ IF a[1][1] = 0 THEN Unspecified ELSE Raise(a[1][1], mem)

Leave ==
  /\ status = "running" /\ i.op = "leave"
  /\ Go(i.to[1], <<>>, mem)

(* A cast to a type that the object is not of, a checked result that does  *)
(* not fit and a virtual call on null raise an exception of type <<"E">>.  *)
IsOfType == a[1][1] = 0 \/ IsInstance(mem[RegionOf(a[1][1])].type, i.t)
Value32 == Exact(i.op, a[1][1], a[2][1])

Fails ==
  CASE i.op = "castclass" -> ~IsOfType
    [] i.op \in Checked -> Value32 \notin Fitting(i.op)
    [] i.op = "callvirt" -> a[1][1] = 0
    [] OTHER -> FALSE

RaiseNew ==
  /\ status = "running" /\ Fails
  /\ Raise(Ref(Len(mem) + 1), Append(mem, Region(<<"E">>, 0, <<>>)))

Cast ==
  /\ status = "running" /\ i.op = "castclass" /\ ~Fails
  /\ Go(pc + 1, stack, mem)

CheckedArithmetic ==
  /\ status = "running" /\ i.op \in Checked /\ ~Fails
  /\ Go(pc + 1, Append(Rest, <<Wrap(Value32, Long)>>), mem)

(* A virtual call reaches the method of the object's own type; this is a   *)
(* pointer to the value when that is a boxed one.                          *)
Call ==
  /\ status = "running" /\ i.op \in {"call", "callvirt"} /\ ~Fails
  /\ Enter(IF i.op = "call" THEN i.n ELSE Overriding(i.n, mem[RegionOf(a[1][1])].type), a, Rest, mem)

NewObject ==
  LET t == Callees[i.n].params[1]
      m == Append(mem, Region(t, 0, Zeros(Len(Layout(Fields[t[1]])))))
  IN  /\ status = "running" /\ i.op = "newobj"
      /\ Enter(i.n, << <<Ref(Len(m))>> >> \o a, Append(Rest, <<Ref(Len(m))>>), m)

Execute ==
  \/ Evaluate \/ LoadValue \/ StoreValue \/ Create \/ Cast \/ CheckedArithmetic
  \/ Jump \/ Leave \/ Call \/ NewObject \/ Return \/ Throw \/ RaiseNew

Init == TypeInit
Next == Write \/ Start \/ Execute
Spec == Init /\ [][Next]_vars
=============================================================================

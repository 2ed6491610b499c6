-------------------------------- MODULE Jit --------------------------------
(***************************************************************************)
(* The translator of methods (JIT.c: JITit and the locals of JIT_Prepare)  *)
(* and the interpreter of what it emits (JIT_Execute.c), for the           *)
(* instructions that move and compute values, branch, call and throw.      *)
(* One memory word stands for 32 bits; a stack, a variable or an object is *)
(* a row of words without types, and the translator alone decides how many *)
(* each operation moves. Each step of Write hands JITit the next           *)
(* instruction of the program, in the order its loop reads them.           *)
(*                                                                         *)
(* The code of an operation is <<first of its row in JIT_OpCodes.h, how far*)
(* from it>>; its parameters follow it in ops. "undefined" is what C does  *)
(* with a null reference, an index out of an array or a division by zero;  *)
(* "crashed" is Crash() in JITit and "aborted" the abort() of PUSH and POP.*)
(***************************************************************************)
EXTENDS Cil

CONSTANTS Methods,     \* what the programs are written for, by name
          Junk         \* the word the evaluation stack is full of at first

VARIABLES method,
          prog,        \* the program that is written, then the one that runs
          jit,         \* JITit's variables for it: ops, branchOffsets, pJITOffsets, ppTypeStacks, typeStack
          status,      \* of the thread
          fn, frame,    \* the method it is of, 0 for the one written, and the region of its variables
          ip,          \* the index in its ops of the next operation
          eval, ofs,   \* the words of its evaluation stack and how many are in use
          callers,     \* the method states that called it
          memory, result

Method == Methods[method]

thread == <<fn, frame, ip, eval, ofs, callers>>
vars == <<method, prog, jit, status, thread, memory, result>>

(***************************************************************************)
(* Types as the translator sees them.                                      *)
(***************************************************************************)
StackType(t) ==
  CASE IsStruct(t) -> "VALUETYPE"
    [] t \in Int64s -> "INT64"
    [] IsPtr(t) -> "PTR"
    [] t \in Int32s \/ t[1] \in Narrow -> "INT32"
    [] OTHER -> "O"

StackSize(t) ==
  CASE IsStruct(t) -> FoldLeft(LAMBDA n, f : n + (IF f \in Int64s THEN 2 ELSE 1), 0, Fields[t[1]])
    [] t \in Int64s -> 2
    [] OTHER -> 1

IsValueType(t) == StackType(t) \in {"VALUETYPE", "INT32", "INT64"}

SizeOfAll(ts) == FoldLeft(LAMBDA n, t : n + StackSize(t), 0, ts)

ParamOffset(m, n) == SizeOfAll(SubSeq(m.params, 1, n - 1))
LocalOffset(m, n) == SizeOfAll(m.params) + SizeOfAll(SubSeq(m.locals, 1, n - 1))

Field(t, n) == [ofs |-> SizeOfAll(SubSeq(Fields[t[1]], 1, n - 1)), size |-> StackSize(Fields[t[1]][n]), type |-> Fields[t[1]][n]]

IntPtr == <<"&", "I4">>
Object == <<"O">>
Int32 == <<"I4">>
UInt32 == <<"U4">>
Int64 == <<"I8">>
UInt64 == <<"U8">>

(***************************************************************************)
(* The instructions in the order of CIL_OpCodes.h, the operations in that  *)
(* of JIT_OpCodes.h.                                                       *)
(***************************************************************************)
CilAdd == 88
CilAddOvf == 214
CilArithmetic == <<"add", "sub", "mul", "div", "div.un", "rem", "rem.un", "and", "or", "xor">>
CilOverflow == <<"add.ovf", "add.ovf.un", "mul.ovf", "mul.ovf.un", "sub.ovf", "sub.ovf.un">>
CilBranches == <<"beq", "bge", "bgt", "ble", "blt", "bne.un", "bge.un", "bgt.un", "ble.un", "blt.un">>
CilCompares == <<"ceq", "cgt", "cgt.un", "clt", "clt.un">>
CilShifts == <<"shl", "shr", "shr.un">>
CilLoadIndirect == <<"ldind.i1", "ldind.u1", "ldind.i2", "ldind.u2", "ldind.i4", "ldind.u4", "ldind.i8", "ldind.i", "ldind.r4", "ldind.r8", "ldind.ref">>
CilStoreIndirect == <<"stind.ref", "stind.i1", "stind.i2", "stind.i4", "stind.i8", "stind.r4", "stind.r8">>
CilLoadElement == <<"ldelem.i1", "ldelem.u1", "ldelem.i2", "ldelem.u2", "ldelem.i4", "ldelem.u4">>

JitArithmetic == <<"ADD_OVF", "ADD_OVF_UN", "MUL_OVF", "MUL_OVF_UN", "SUB_OVF", "SUB_OVF_UN",
                   "ADD", "SUB", "MUL", "DIV", "DIV_UN", "REM", "REM_UN", "AND", "OR", "XOR">>
JitBranches == <<"EQ", "GE", "GT", "LE", "LT", "NE", "GE_UN", "GT_UN", "LE_UN", "LT_UN">>
JitCompares == <<"EQ", "GT", "GT_UN", "LT", "LT_UN">>
JitShifts == <<"SHL", "SHR", "SHR_UN">>
JitLoadIndirect == <<"U32", "U32", "U32", "U32", "U32", "U32", "U64", "none", "U32", "U64", "U32">>
JitStoreIndirect == <<"U32", "U32", "U32", "U32", "U64", "U32", "U64">>
JitLoadElement == <<"I8", "U8", "I16", "U16", "I32", "I32">>

Position(order, op) == (CHOOSE k \in DOMAIN order : order[k] = op) - 1
Member(order, op) == \E k \in DOMAIN order : order[k] = op

CilCode(op) == IF Member(CilArithmetic, op) THEN CilAdd + Position(CilArithmetic, op) ELSE CilAddOvf + Position(CilOverflow, op)

(***************************************************************************)
(* What JITit emits for one instruction: the operation with its parameters,*)
(* the types it pops and pushes.                                           *)
(***************************************************************************)
Emit(ops, pops, pushes) == {[ops |-> ops, pops |-> pops, pushes |-> pushes]}
Crash == {}
Op(name, k) == <<name, k>>
Do(name) == <<name, 0>>

(* A variable at offset o holding a value of type t. *)
ParamLocal(first, general, t, o) ==
  IF StackSize(t) = 1 /\ o < 8 THEN <<Op(first, o)>>
  ELSE <<Op(general, StackType(t)), o>> \o (IF StackType(t) = "VALUETYPE" THEN <<t>> ELSE <<>>)

LoadParamLocal(t, o) == Emit(ParamLocal("LOADPARAMLOCAL_0", "LOADPARAMLOCAL", t, o), 0, <<t>>)
StoreParamLocal(t, o) == Emit(ParamLocal("STOREPARAMLOCAL_0", "STOREPARAMLOCAL", t, o), 1, <<>>)

(* The row of an operation on two operands, by their stack types. *)
Row(x, y, name32, name64) ==
  CASE StackType(x) = "INT32" /\ StackType(y) = "INT32" -> {name32}
    [] StackType(x) = "INT64" /\ StackType(y) = "INT64" -> {name64}
    [] StackType(x) = StackType(y) /\ StackType(x) \in {"O", "PTR"} -> {name32}
    [] OTHER -> {}

EmitConstant(j) ==
  CASE j.op = "ldnull" -> Emit(<<Do("LOAD_NULL")>>, 0, <<Object>>)
    [] j.op = "ldc.i4" -> IF j.n \in -1 .. 2 THEN Emit(<<Op("LOAD_I4_0", j.n)>>, 0, <<Int32>>)
                          ELSE Emit(<<Do("LOAD_I32"), Unsigned(j.n, Long)>>, 0, <<Int32>>)
    [] j.op = "ldc.i8" -> Emit(<<Do("LOAD_I64"), Unsigned(j.n, Long), Unsigned(j.n \div 2 ^ Long, Long)>>, 0, <<Int64>>)

EmitDup(t) ==
  Emit(CASE StackSize(t) = 1 -> <<Do("DUP_4")>>
         [] StackSize(t) = 2 -> <<Do("DUP_8")>>
         [] OTHER -> <<Do("DUP_GENERAL"), StackSize(t)>>, 1, <<t, t>>)

(* Mutant: one word is popped whatever the value. *)
EmitPopOfOneWord(t) == Emit(<<Do("POP_4")>>, 1, <<>>)

EmitPop(t) == Emit(IF StackSize(t) = 1 THEN <<Do("POP_4")>> ELSE <<Do("POP"), StackSize(t)>>, 1, <<>>)

(* x below y on top of the type stack. *)
EmitArithmetic(j, x, y) ==
  LET u32Value == IF Member(CilOverflow, j.op) THEN (CilAddOvf - CilAdd) + 6 ELSE 0
      rows == IF StackType(x) # "PTR" THEN Row(x, y, "ADD_I32I32", "ADD_I64I64")
              ELSE IF StackType(y) = "INT32" /\ j.op \in {"add", "sub"} THEN {"ADD_I32I32"} ELSE {}
  IN  UNION {Emit(<<Op(row, CilCode(j.op) - CilAdd - u32Value)>>, 2, <<x>>) : row \in rows}

EmitCompare(j, x, y) ==
  UNION {Emit(<<Op(row, Position(CilCompares, j.op))>>, 2, <<Int32>>) : row \in Row(x, y, "CEQ_I32I32", "CEQ_I64I64")}

EmitUnary(j, x) ==
  LET k == IF j.op = "neg" THEN 0 ELSE 1
  IN  CASE StackType(x) = "INT32" -> Emit(<<Op("NEG_I32", k)>>, 1, <<Int32>>)
        [] StackType(x) = "INT64" -> Emit(<<Op("NEG_I64", k)>>, 1, <<Int64>>)
        [] OTHER -> Crash

EmitShift(j, x) ==
  CASE StackType(x) = "INT32" -> Emit(<<Op("SHL_I32", Position(CilShifts, j.op))>>, 2, <<Int32>>)
    [] StackType(x) = "INT64" -> Emit(<<Op("SHL_I64", Position(CilShifts, j.op))>>, 2, <<Int64>>)
    [] OTHER -> Crash

(* JIT_CONV_FROM_x + JIT_CONV_OFFSET_y, with the shift or the mask of a    *)
(* narrow type; Translate crashes on the two without code.                 *)
From(x) ==
  CASE StackType(x) = "INT64" -> IF x = Int64 THEN {"CONV_I64"} ELSE {"CONV_U64"}
    [] StackType(x) \in {"INT32", "PTR"} -> IF x \in {<<"U1">>, <<"U2">>, UInt32} THEN {"CONV_U32"} ELSE {"CONV_I32"}
    [] OTHER -> {}

NoCode == {Op("CONV_I64", "I64"), Op("CONV_U64", "U64")}

BitCount(op) == IF op \in {"conv.i1", "conv.u1"} THEN Bits ELSE IF op \in {"conv.i2", "conv.u2"} THEN 2 * Bits ELSE Long

EmitConvert(j, x) ==
  LET FromTo(to) == {Op(from, to) : from \in From(x)} \ NoCode
  IN  CASE j.op \in {"conv.i1", "conv.i2", "conv.i4"} -> UNION {Emit(<<op, Long - BitCount(j.op)>>, 1, <<Int32>>) : op \in FromTo("I32")}
        [] j.op \in {"conv.u1", "conv.u2", "conv.u4"} -> UNION {Emit(<<op, 2 ^ BitCount(j.op) - 1>>, 1, <<UInt32>>) : op \in FromTo("U32")}
        [] j.op = "conv.i8" -> UNION {Emit(<<op>>, 1, <<Int64>>) : op \in FromTo("I64")}
        [] j.op = "conv.u8" -> UNION {Emit(<<op>>, 1, <<UInt64>>) : op \in FromTo("U64")}

EmitIndirect(j) ==
  CASE Member(CilLoadIndirect, j.op) ->
         Emit(<<Op("LOADINDIRECT_I8", Position(CilLoadIndirect, j.op))>>, 1,
              <<CASE j.op = "ldind.i4" -> Int32 [] j.op = "ldind.u4" -> UInt32 [] j.op = "ldind.i8" -> Int64 [] OTHER -> Object>>)
    [] Member(CilStoreIndirect, j.op) -> Emit(<<Op("STOREINDIRECT_REF", Position(CilStoreIndirect, j.op))>>, 2, <<>>)
    [] j.op = "ldobj" -> Emit(<<Do("LOADOBJECT"), j.t>>, 1, <<j.t>>)
    [] j.op = "stobj" -> Emit(IF IsValueType(j.t) /\ StackSize(j.t) # 1
                              THEN <<Do("STORE_OBJECT_VALUETYPE"), StackSize(j.t)>>
                              ELSE <<Op("STOREINDIRECT_REF", 0)>>, 2, <<>>)
    [] j.op = "initobj" -> Emit(IF IsValueType(j.t) THEN <<Do("INIT_VALUETYPE"), j.t>> ELSE <<Do("INIT_OBJECT")>>, 1, <<>>)

(* An array's element is loaded as its own type, one of a byte as UInt32. *)
EmitElement(j, top) ==
  CASE Member(CilLoadElement, j.op) -> Emit(<<Op("LOAD_ELEMENT_I8", Position(CilLoadElement, j.op))>>, 2, <<Int32>>)
    [] j.op = "ldelem.i8" -> Emit(<<Do("LOAD_ELEMENT_I64")>>, 2, <<Int64>>)
    [] j.op = "ldelem.ref" -> Emit(<<Op("LOAD_ELEMENT_I8", 5)>>, 2, <<Object>>)
    [] j.op = "ldelem" -> Emit(<<Do("LOAD_ELEMENT"), StackSize(j.t)>>, 2, <<IF j.t[1] \in {"U1", "U2"} THEN UInt32 ELSE j.t>>)
    [] j.op = "ldelema" -> Emit(<<Do("LOAD_ELEMENT_ADDR")>>, 2, <<IntPtr>>)
    [] j.op \in {"stelem.i1", "stelem.i2", "stelem.i4", "stelem.ref"} -> Emit(<<Do("STORE_ELEMENT_32")>>, 3, <<>>)
    [] j.op = "stelem.i8" -> Emit(<<Do("STORE_ELEMENT_64")>>, 3, <<>>)
    [] j.op = "stelem" -> Emit(<<Do("STORE_ELEMENT"), StackSize(top)>>, 3, <<>>)
    [] j.op = "newarr" -> Emit(<<Do("NEW_VECTOR"), <<"array", j.t[1]>>>>, 1, <<<<"array", j.t[1]>>>>)
    [] j.op = "ldlen" -> Emit(<<Do("LOAD_VECTOR_LEN")>>, 1, <<Int32>>)

LoadField(obj, f) ==
  CASE StackType(obj) \in {"INT32", "PTR", "O"} ->
         Emit(IF f.size = 1 THEN <<Do("LOADFIELD_4"), f.ofs>> ELSE <<Do("LOADFIELD"), f>>, 1, <<f.type>>)
    [] StackType(obj) = "INT64" -> Emit(<<Do("LOADFIELD_8"), f.ofs>>, 1, <<f.type>>)
    [] StackType(obj) = "VALUETYPE" -> Emit(<<Do("LOADFIELD_VALUETYPE"), StackSize(obj), f>>, 1, <<f.type>>)

EmitField(j, top) ==
  LET f == Field(IF j.t = <<>> THEN <<"statics">> ELSE j.t, j.n)
  IN  CASE j.op = "ldfld" -> LoadField(top, f)
        [] j.op = "ldflda" -> Emit(<<Do("LOAD_FIELD_ADDR"), f.ofs>>, 1, <<IntPtr>>)
        [] j.op = "stfld" -> Emit(<<Op("STOREFIELD", StackType(top)), f>>, 2, <<>>)
        [] j.op = "ldsfld" -> Emit(<<Op("LOADSTATICFIELD", StackType(f.type)), f>>, 0, <<f.type>>)
        [] j.op = "stsfld" -> Emit(<<Op("STORESTATICFIELD", StackType(f.type)), f>>, 1, <<>>)
        [] j.op = "ldsflda" -> Emit(<<Do("LOADSTATICFIELDADDRESS"), f>>, 0, <<IntPtr>>)

(* Branches: the target stays an offset of the CIL until all is translated. *)
EmitTransfer(j, x, y) ==
  CASE j.op = "ret" -> Emit(<<Do("RETURN")>>, 0, <<>>)
    [] j.op = "throw" -> Emit(<<Do("THROW")>>, 1, <<>>)
    [] j.op = "br" -> Emit(<<Do("BRANCH")>> \o j.to, 0, <<>>)
    [] j.op = "leave" -> Emit(<<Do("LEAVE")>> \o j.to, 0, <<>>)
    [] j.op = "switch" -> Emit(<<Do("SWITCH"), Len(j.to)>> \o j.to, 1, <<>>)
    [] j.op \in {"brfalse", "brtrue"} ->
         Emit(<<Op(IF StackSize(y) = 1 THEN "BRANCH_FALSE" ELSE "BRANCH64_FALSE", IF j.op = "brtrue" THEN 1 ELSE 0)>> \o j.to, 1, <<>>)
    [] Member(CilBranches, j.op) ->
         UNION {Emit(<<Op(row, Position(CilBranches, j.op))>> \o j.to, 2, <<>>) : row \in Row(x, y, "BEQ_I32I32", "BEQ_I64I64")}

(* The type stack keeps the type the value had. *)
EmitCast(j) == Emit(<<Do(IF j.op = "castclass" THEN "CAST_CLASS" ELSE "IS_INSTANCE"), j.t>>, 0, <<>>)

FromTop(types, n) == IF Len(types) > n THEN types[Len(types) - n] ELSE <<>>

(* The operation goes by the type of this, or by an Object for a static    *)
(* method. A method of Object, class or structure: none is an interface.   *)
EmitCall(j, types) ==
  LET c == Callees[j.n]
      this == IF c.static THEN Object ELSE FromTop(types, Len(c.params) - 1)
  IN  CASE StackType(this) = "O" -> Emit(<<Do(IF j.op = "call" THEN "CALL_O" ELSE "CALLVIRT_O"), j.n>>, Len(c.params), c.returns)
        [] StackType(this) \in {"PTR", "VALUETYPE"} -> Emit(<<Do("CALL_PTR"), j.n>>, Len(c.params), c.returns)
        [] OTHER -> Crash

EmitNewObject(j) == Emit(<<Do("NEWOBJECT"), j.n>>, Len(Callees[j.n].params) - 1, <<Callees[j.n].params[1]>>)

(* y is the type on top of the type stack, x the one below. *)
Emitted(m, j, types) ==
  LET x == FromTop(types, 1)
      y == FromTop(types, 0)
  IN
  CASE j.op = "nop" -> Emit(<<Do("NOP")>>, 0, <<>>)
    [] j.op \in {"ldnull", "ldc.i4", "ldc.i8"} -> EmitConstant(j)
    [] j.op = "dup" -> EmitDup(y)
    [] j.op = "pop" -> EmitPop(y)
    [] j.op = "ldarg" -> LoadParamLocal(m.params[j.n], ParamOffset(m, j.n))
    [] j.op = "ldloc" -> LoadParamLocal(m.locals[j.n], LocalOffset(m, j.n))
    [] j.op = "starg" -> StoreParamLocal(y, ParamOffset(m, j.n))
    [] j.op = "stloc" -> StoreParamLocal(y, LocalOffset(m, j.n))
    [] j.op = "ldarga" -> Emit(<<Do("LOAD_PARAMLOCAL_ADDR"), ParamOffset(m, j.n)>>, 0, <<IntPtr>>)
    [] j.op = "ldloca" -> Emit(<<Do("LOAD_PARAMLOCAL_ADDR"), LocalOffset(m, j.n)>>, 0, <<IntPtr>>)
    [] j.op \in Arithmetic \cup Checked -> EmitArithmetic(j, x, y)
    [] j.op \in Compares -> EmitCompare(j, x, y)
    [] j.op \in Shifts -> EmitShift(j, x)
    [] j.op \in {"neg", "not"} -> EmitUnary(j, y)
    [] j.op \in ToI4 \cup ToI8 -> EmitConvert(j, y)
    [] j.op \in Transfers \cup Branches \cup {"switch", "brfalse", "brtrue"} -> EmitTransfer(j, x, y)
    [] j.op \in {"ldfld", "ldflda", "stfld", "ldsfld", "stsfld", "ldsflda"} -> EmitField(j, y)
    [] j.op \in LoadElements \cup StoreElements \cup {"ldelem", "ldelema", "stelem", "newarr", "ldlen"} -> EmitElement(j, y)
    [] j.op = "box" -> Emit(<<Op("BOX", StackType(y)), j.t>>, 1, <<Object>>)
    [] j.op = "unbox.any" -> Emit(<<Do(IF IsValueType(j.t) THEN "UNBOX2VALUETYPE" ELSE "UNBOX2OBJECT")>>, 1, <<j.t>>)
    [] j.op \in {"castclass", "isinst"} -> EmitCast(j)
    [] j.op \in {"call", "callvirt"} -> EmitCall(j, types)
    [] j.op = "newobj" -> EmitNewObject(j)
    [] OTHER -> EmitIndirect(j)

(***************************************************************************)
(* The loop of JITit. A branch forward copies the type stack for its       *)
(* target; after an instruction that does not fall through, the copy made  *)
(* for the next offset is restored, or the stack is empty.                 *)
(***************************************************************************)
NoJit(m) ==
  [ops |-> <<>>, branchOffsets |-> {}, jitOffsets |-> <<>>,
   saved |-> [k \in 1 .. m.length + 1 |-> IF HandlerAt(m, k) = {} THEN {}
                                          ELSE {<<m.clauses[c].type>> : c \in HandlerAt(m, k)}],
   types |-> <<>>, maxStack |-> 0, clauses |-> <<>>]

(* MayCopyTypeStack: only for targets beyond what is read of the instruction. *)
Copied(saved, j, cilOfs, types) ==
  LET ReadUpTo(b) == IF b = Len(j.to) THEN cilOfs ELSE cilOfs - 1
  IN  [k \in DOMAIN saved |-> IF \E b \in DOMAIN j.to : j.to[b] = k /\ k > ReadUpTo(b) THEN {types} ELSE saved[k]]

(* Mutant: the copy of the type stack is not restored. *)
RestoredEmpty(saved, cilOfs) == <<>>

Restored(saved, cilOfs) == IF saved[cilOfs] = {} THEN <<>> ELSE CHOOSE s \in saved[cilOfs] : TRUE

Translate(g, j, e) ==
  LET cilOfs == Len(g.jitOffsets) + 2
      popped == SubSeq(g.types, 1, Len(g.types) - e.pops)
      pushed == popped \o e.pushes
      saved == Copied(g.saved, j, cilOfs, popped)
      at == Len(g.ops) + Len(e.ops) - Len(j.to)
  IN  [g EXCEPT !.ops = @ \o e.ops,
                !.branchOffsets = @ \cup {at + b : b \in DOMAIN j.to},
                !.jitOffsets = Append(@, Len(g.ops) + 1),
                !.saved = saved,
                !.types = IF j.op \in Transfers THEN Restored(saved, cilOfs) ELSE pushed,
                !.maxStack = IF e.pushes # <<>> /\ SizeOfAll(pushed) > @ THEN SizeOfAll(pushed) ELSE @]

(* The program's next instruction and its translation. *)
Write ==
  /\ status = "writing" /\ Len(prog.code) < Method.length
  /\ \E j \in Method.menu : \E p \in Extend(Method, prog, j) :
       LET es == Emitted(Method, j, jit.types)
       IN  /\ prog' = p
           /\ IF es = Crash THEN status' = "crashed" /\ jit' = jit
              ELSE status' = status /\ \E e \in es : jit' = Translate(jit, j, e)
  /\ UNCHANGED <<method, thread, memory, result>>

(***************************************************************************)
(* The offsets of branches and clauses become those of operations; the     *)
(* method is called with some values of its parameters and locals.         *)
(***************************************************************************)
BranchesFixed(g) ==
  [f \in DOMAIN g.ops |-> IF f \in g.branchOffsets THEN g.jitOffsets[g.ops[f]] ELSE g.ops[f]]

ClausesFixed(m, g) ==
  [c \in DOMAIN m.clauses |-> [tryStart |-> g.jitOffsets[m.clauses[c].ts], tryEnd |-> g.jitOffsets[m.clauses[c].te],
                               handlerStart |-> g.jitOffsets[m.clauses[c].hs], catch |-> m.clauses[c].type]]

(* What is executed; maxStack is that of the pushes, not of the handlers' entries. *)
Fixed(m, g) == [g EXCEPT !.ops = BranchesFixed(g), !.clauses = ClausesFixed(m, g)]

(* The methods called are translated when they are called first. *)
Translations(m) ==
  FoldLeft(LAMBDA gs, j : UNION {{Translate(g, j, e) : e \in Emitted(m, j, g.types)} : g \in gs}, {NoJit(m)}, m.code)

JIT_Prepare == [c \in DOMAIN Callees |-> CHOOSE g \in {Fixed(Callees[c], h) : h \in Translations(Callees[c])} : TRUE]

(* Values as words, and words as values, of cells of the kinds of layout. *)
Encoded(layout, v) ==
  [n \in DOMAIN layout |->
     CASE layout[n] \in {"I", "lo"} -> Unsigned(v[n], Long)
       [] layout[n] = "hi" -> Unsigned(v[n - 1] \div 2 ^ Long, Long)
       [] layout[n] \in {"I1", "U1"} -> Unsigned(v[n], Bits)
       [] layout[n] \in {"I2", "U2"} -> Unsigned(v[n], 2 * Bits)
       [] OTHER -> v[n]]

Decoded(layout, ws) ==
  [n \in DOMAIN layout |->
     CASE layout[n] = "I" -> Wrap(ws[n], Long)
       [] layout[n] = "lo" -> Wrap(ws[n] + 2 ^ Long * ws[n + 1], 2 * Long)
       [] layout[n] = "hi" -> 0
       [] layout[n] = "I1" -> Wrap(ws[n], Bits)
       [] layout[n] = "I2" -> Wrap(ws[n], 2 * Bits)
       [] OTHER -> ws[n]]

ParametersLayout == [c \in DOMAIN Callees |-> Layout(Callees[c].params \o Callees[c].locals)]
VariablesLayout == [m \in DOMAIN Methods |-> Layout(Methods[m].params \o Methods[m].locals)]
FieldsLayout == [c \in DOMAIN Fields |-> Layout(Fields[c])]

RegionLayout(r) ==
  LET Repeated(l) == [n \in DOMAIN r.cells |-> l[((n - 1) % Len(l)) + 1]]
  IN  CASE r.type[1] = "vars" -> IF r.type[2] = 0 THEN VariablesLayout[method] ELSE ParametersLayout[r.type[2]]
        [] r.type[1] = "array" -> Repeated(CellsOf(<<r.type[2]>>))
        [] r.type[1] = "box" -> CellsOf(<<r.type[2]>>)
        [] OTHER -> FieldsLayout[r.type[1]]

Start ==
  /\ status = "writing" /\ Complete(Method, prog)
  /\ status' = "running" /\ ip' = 1
  /\ jit' = Fixed(Method, jit)
  /\ eval' = [n \in 1 .. jit.maxStack |-> Junk] /\ ofs' = 0
  /\ \E v \in Method.inputs :
       memory' = [r \in 1 .. 1 + Len(Method.heap) |->
         LET region == IF r = 1 THEN Region(<<"vars", 0>>, 0, v) ELSE Method.heap[r - 1]
         IN  [region EXCEPT !.cells = Encoded(RegionLayout(region), @)]]
  /\ UNCHANGED <<method, prog, fn, frame, callers, result>>

(***************************************************************************)
(* The interpreter. An operation reads its parameters, pops words, pushes  *)
(* words and goes on at an index of ops; what C leaves undefined has no    *)
(* effect here. The words above the height of the stack stay where they are*)
(***************************************************************************)
opcode == jit.ops[ip][1]
kth == jit.ops[ip][2]
Param(n) == jit.ops[ip + n]
Past(n) == ip + 1 + n              \* the operation after n parameters
Top(n) == SubSeq(eval, ofs - n + 1, ofs)

Effect(next, pops, pushes, m) == {[next |-> next, pops |-> pops, pushes |-> pushes, memory |-> m]}
Undefined == {}

End(how, words, m) ==
  /\ status' = how /\ result' = words /\ memory' = m
  /\ fn' = 0 /\ frame' = 1 /\ ip' = 0 /\ eval' = <<>> /\ ofs' = 0 /\ callers' = <<>>
  /\ UNCHANGED <<method, prog, jit>>

(* POP, then PUSH, which abort when they leave the evaluation stack. *)
Perform(e) ==
  LET bottom == ofs - e.pops
      height == bottom + Len(e.pushes)
  IN  IF bottom < 0 \/ height > Len(eval) THEN End("aborted", <<>>, memory)
      ELSE /\ eval' = [n \in DOMAIN eval |-> IF n \in bottom + 1 .. height THEN e.pushes[n - bottom] ELSE eval[n]]
           /\ ofs' = height /\ ip' = e.next /\ memory' = e.memory
           /\ UNCHANGED <<method, prog, jit, status, fn, frame, callers, result>>

PerformAny(es) == \/ \E e \in es : Perform(e)
                  \/ es = Undefined /\ End("unspecified", <<>>, memory)

(* Memory: reading n words at p and writing words there. *)
Valid(p, n) == RegionOf(p) \in DOMAIN memory /\ CellOf(p) + n <= Len(memory[RegionOf(p)].cells)
Words(p, n) == IF Valid(p, n) THEN {SubSeq(memory[RegionOf(p)].cells, CellOf(p) + 1, CellOf(p) + n)} ELSE {}
Written(p, ws) ==
  IF Valid(p, Len(ws))
  THEN {[memory EXCEPT ![RegionOf(p)].cells =
           [n \in DOMAIN @ |-> IF n - CellOf(p) \in DOMAIN ws THEN ws[n - CellOf(p)] ELSE @[n]]]}
  ELSE {}

Load(next, pops, p, n) == UNION {Effect(next, pops, ws, memory) : ws \in Words(p, n)}
Store(next, pops, p, ws) == UNION {Effect(next, pops, <<>>, m) : m \in Written(p, ws)}

(* The words of a value of a stack type; size is that of a value type. *)
WordsOf(stackType, size) == CASE stackType = "INT64" -> 2 [] stackType = "VALUETYPE" -> size [] OTHER -> 1

(* Constants and operations on the stack alone. *)
StackEffect ==
  CASE opcode \in {"NOP", "UNBOX2OBJECT"} -> Effect(Past(0), 0, <<>>, memory)
    [] opcode = "LOAD_NULL" -> Effect(Past(0), 0, <<0>>, memory)
    [] opcode = "LOAD_I32" -> Effect(Past(1), 0, <<Param(1)>>, memory)
    [] opcode = "LOAD_I4_0" -> Effect(Past(0), 0, <<Unsigned(kth, Long)>>, memory)
    [] opcode = "LOAD_I64" -> Effect(Past(2), 0, <<Param(1), Param(2)>>, memory)
    [] opcode = "DUP_4" -> Effect(Past(0), 0, Top(1), memory)
    [] opcode = "DUP_8" -> Effect(Past(0), 0, Top(2), memory)
    [] opcode = "DUP_GENERAL" -> Effect(Past(1), 0, Top(Param(1)), memory)
    [] opcode = "POP_4" -> Effect(Past(0), 1, <<>>, memory)
    [] opcode = "POP" -> Effect(Past(1), Param(1), <<>>, memory)
    [] opcode = "LOAD_PARAMLOCAL_ADDR" -> Effect(Past(1), 0, <<Ref(frame) + Param(1)>>, memory)
    [] opcode = "LOADSTATICFIELDADDRESS" -> Effect(Past(1), 0, <<Statics + Param(1).ofs>>, memory)

StackOp ==
  /\ status = "running"
  /\ opcode \in {"NOP", "UNBOX2OBJECT", "LOAD_NULL", "LOAD_I32", "LOAD_I4_0", "LOAD_I64", "DUP_4", "DUP_8", "DUP_GENERAL",
                 "POP_4", "POP", "LOAD_PARAMLOCAL_ADDR", "LOADSTATICFIELDADDRESS"}
  /\ PerformAny(StackEffect)

(* Parameters, locals and static fields. *)
VariableEffect ==
  LET Reads == IF kth = "VALUETYPE" THEN 2 ELSE 1
      Local == WordsOf(kth, IF kth = "VALUETYPE" THEN StackSize(Param(2)) ELSE 0)
      Static == WordsOf(kth, Param(1).size)
  IN  CASE opcode = "LOADPARAMLOCAL_0" -> Load(Past(0), 0, Ref(frame) + kth, 1)
        [] opcode = "STOREPARAMLOCAL_0" -> Store(Past(0), 1, Ref(frame) + kth, Top(1))
        [] opcode = "LOADPARAMLOCAL" -> Load(Past(Reads), 0, Ref(frame) + Param(1), Local)
        [] opcode = "STOREPARAMLOCAL" -> Store(Past(Reads), Local, Ref(frame) + Param(1), Top(Local))
        [] opcode = "LOADSTATICFIELD" -> Load(Past(1), 0, Statics + Param(1).ofs, Static)
        [] opcode = "STORESTATICFIELD" -> Store(Past(1), Static, Statics + Param(1).ofs, Top(Static))

VariableOp ==
  /\ status = "running"
  /\ opcode \in {"LOADPARAMLOCAL_0", "STOREPARAMLOCAL_0", "LOADPARAMLOCAL", "STOREPARAMLOCAL",
                 "LOADSTATICFIELD", "STORESTATICFIELD"}
  /\ PerformAny(VariableEffect)

(* Through a pointer, and the fields of an object or of a value on the stack. *)
IndirectEffect ==
  LET Stored(n) == Store(Past(1), n + 1, Top(n + 1)[1] + Param(1).ofs, Tail(Top(n + 1)))
      Wide(order) == IF order[kth + 1] = "U64" THEN 2 ELSE 1
      W == Wide(JitStoreIndirect)
  IN  CASE opcode = "LOADINDIRECT_I8" -> Load(Past(0), 1, Top(1)[1], Wide(JitLoadIndirect))
        [] opcode = "STOREINDIRECT_REF" -> Store(Past(0), W + 1, Top(W + 1)[1], Tail(Top(W + 1)))
        [] opcode = "LOADOBJECT" -> Load(Past(1), 1, Top(1)[1], StackSize(Param(1)))
        [] opcode = "STORE_OBJECT_VALUETYPE" ->
             Store(Past(1), Param(1) + 1, Top(Param(1) + 1)[1], Tail(Top(Param(1) + 1)))
        [] opcode = "INIT_VALUETYPE" -> Store(Past(1), 1, Top(1)[1], [n \in 1 .. StackSize(Param(1)) |-> 0])
        [] opcode = "INIT_OBJECT" -> Store(Past(0), 1, Top(1)[1], <<0>>)
        [] opcode = "LOADFIELD_4" -> Load(Past(1), 1, Top(1)[1] + Param(1), 1)
        [] opcode = "LOADFIELD_8" -> Load(Past(1), 1, Top(1)[1] + Param(1), 2)
        [] opcode = "LOADFIELD" -> Load(Past(1), 1, Top(1)[1] + Param(1).ofs, Param(1).size)
        [] opcode = "LOADFIELD_VALUETYPE" ->
             Effect(Past(2), Param(1), SubSeq(Top(Param(1)), Param(2).ofs + 1, Param(2).ofs + Param(2).size), memory)
        [] opcode = "LOAD_FIELD_ADDR" ->
             IF Top(1)[1] = 0 THEN Undefined ELSE Effect(Past(1), 1, <<Top(1)[1] + Param(1)>>, memory)
        [] opcode = "STOREFIELD" -> Stored(WordsOf(kth, Param(1).size))

IndirectOp ==
  /\ status = "running"
  /\ opcode \in {"LOADINDIRECT_I8", "STOREINDIRECT_REF", "LOADOBJECT", "STORE_OBJECT_VALUETYPE", "INIT_VALUETYPE",
                 "INIT_OBJECT", "LOADFIELD_4", "LOADFIELD_8", "LOADFIELD", "LOADFIELD_VALUETYPE", "LOAD_FIELD_ADDR", "STOREFIELD"}
  /\ PerformAny(IndirectEffect)

(***************************************************************************)
(* Arrays: an element of a narrow type is one cell of 8 or 16 bits. How    *)
(* many words an element has is the array's own matter, not the caller's.  *)
(***************************************************************************)
Element(obj) == <<memory[RegionOf(obj)].type[2]>>
ElementSize(t) == IF t[1] \in Narrow THEN 1 ELSE StackSize(t)
ElementBits(t) == IF t[1] \in {"I1", "U1"} THEN Bits ELSE 2 * Bits

LoadElementAddress(obj, index) ==
  IF RegionOf(obj) \in DOMAIN memory /\ index < memory[RegionOf(obj)].len
  THEN {obj + ElementSize(Element(obj)) * index} ELSE {}

(* What a buffer whose first word was old holds once the element is there. *)
LoadElement(obj, index, old) ==
  UNION {{IF Element(obj)[1] \in Narrow
          THEN LET digit == 2 ^ ElementBits(Element(obj)) IN <<(old \div digit) * digit + ws[1]>>
          ELSE ws : ws \in Words(p, ElementSize(Element(obj)))} : p \in LoadElementAddress(obj, index)}

StoreElement(next, pops, obj, index, ws) ==
  UNION {Store(next, pops, p, IF Element(obj)[1] \in Narrow THEN <<ws[1] % 2 ^ ElementBits(Element(obj))>>
                              ELSE SubSeq(ws, 1, ElementSize(Element(obj)))) : p \in LoadElementAddress(obj, index)}

Cast(type, w) ==
  CASE type = "I8" -> Unsigned(Wrap(w, Bits), Long)
    [] type = "U8" -> Unsigned(w, Bits)
    [] type = "I16" -> Unsigned(Wrap(w, 2 * Bits), Long)
    [] type = "U16" -> Unsigned(w, 2 * Bits)
    [] OTHER -> w

ArrayEffect ==
  LET Loaded(next, old) == UNION {Effect(next, 2, ws, memory) : ws \in LoadElement(Top(2)[1], Top(2)[2], old)}
      Stored(next, n) == StoreElement(next, n + 2, Top(n + 2)[1], Top(n + 2)[2], Top(n))
  IN  CASE opcode = "LOAD_ELEMENT_I8" ->
             UNION {Effect(e.next, 2, <<Cast(JitLoadElement[kth + 1], e.pushes[1])>>, memory) : e \in Loaded(Past(0), Junk)}
        [] opcode = "LOAD_ELEMENT_I64" -> Loaded(Past(0), Junk)
        [] opcode = "LOAD_ELEMENT" -> Loaded(Past(1), 0)
        [] opcode = "LOAD_ELEMENT_ADDR" ->
             UNION {Effect(Past(0), 2, <<p>>, memory) : p \in LoadElementAddress(Top(2)[1], Top(2)[2])}
        [] opcode = "STORE_ELEMENT_32" -> Stored(Past(0), 1)
        [] opcode = "STORE_ELEMENT_64" -> Stored(Past(0), 2)
        [] opcode = "STORE_ELEMENT" -> Stored(Past(1), Param(1))
        [] opcode = "LOAD_VECTOR_LEN" ->
             UNION {Effect(Past(0), 1, <<memory[r].len>>, memory) : r \in DOMAIN memory \cap {RegionOf(Top(1)[1])}}

ArrayOp ==
  /\ status = "running"
  /\ opcode \in {"LOAD_ELEMENT_I8", "LOAD_ELEMENT_I64", "LOAD_ELEMENT", "LOAD_ELEMENT_ADDR", "STORE_ELEMENT_32",
                 "STORE_ELEMENT_64", "STORE_ELEMENT", "LOAD_VECTOR_LEN"}
  /\ PerformAny(ArrayEffect)

(* New objects; an array of 2 ^ 31 elements or more is undefined here. *)
NewObject == Ref(Len(memory) + 1)

NewVector(type, length) ==
  Region(type, length, [n \in 1 .. length * ElementSize(<<type[2]>>) |-> 0])

ObjectEffect ==
  CASE opcode = "NEW_VECTOR" ->
         IF Top(1)[1] >= 2 ^ (Long - 1) THEN Undefined
         ELSE Effect(Past(1), 1, <<NewObject>>, Append(memory, NewVector(Param(1), Top(1)[1])))
    [] opcode = "BOX" ->
         LET n == WordsOf(kth, StackSize(Param(1)))
         IN  Effect(Past(1), n, <<NewObject>>, Append(memory, Region(<<"box", Param(1)[1]>>, 0, Top(n))))
    [] opcode = "UNBOX2VALUETYPE" ->
         UNION {Load(Past(0), 1, Top(1)[1], StackSize(<<memory[r].type[2]>>)) : r \in DOMAIN memory \cap {RegionOf(Top(1)[1])}}

ObjectOp ==
  /\ status = "running" /\ opcode \in {"NEW_VECTOR", "BOX", "UNBOX2VALUETYPE"}
  /\ PerformAny(ObjectEffect)

(***************************************************************************)
(* Arithmetic on words without sign, one for 32 bits, two for 64.          *)
(***************************************************************************)
Number(ws) == IF Len(ws) = 1 THEN ws[1] ELSE ws[1] + 2 ^ Long * ws[2]
AsWords(v, n) == IF n = 1 THEN <<v % 2 ^ Long>> ELSE <<v % 2 ^ Long, (v \div 2 ^ Long) % 2 ^ Long>>
Signed(v, n) == Wrap(v, n * Long)

(* The values C may give, none when it leaves the operation undefined. *)
Defined(cond, v) == IF cond THEN {v} ELSE {}

Calculated(name, x, y, n) ==
  LET Divides == y # 0 /\ ~(Signed(y, n) = -1 /\ Signed(x, n) = -(2 ^ (n * Long - 1)))
  IN  CASE name = "ADD" -> {x + y}
        [] name = "SUB" -> {x - y}
        [] name = "MUL" -> {Signed(x, n) * Signed(y, n)}
        [] name = "DIV" -> Defined(Divides, Quotient(Signed(x, n), Signed(y, n)))
        [] name = "REM" -> Defined(Divides, Signed(x, n) - Signed(y, n) * Quotient(Signed(x, n), Signed(y, n)))
        [] name = "DIV_UN" -> Defined(y # 0, x \div y)
        [] name = "REM_UN" -> Defined(y # 0, x % y)
        [] name = "AND" -> {x & y}
        [] name = "OR" -> {x | y}
        [] name = "XOR" -> {x ^^ y}

Shifted(name, x, count, n) ==
  CASE name = "SHL" -> Defined(count < n * Long, Signed(x, n) * 2 ^ count)
    [] name = "SHR" -> Defined(count < n * Long, Signed(x, n) \div 2 ^ count)
    [] name = "SHR_UN" -> Defined(count < n * Long, x \div 2 ^ count)

Related(name, x, y, n) ==
  CASE name = "EQ" -> x = y
    [] name = "NE" -> x # y
    [] name = "GE" -> Signed(x, n) >= Signed(y, n)
    [] name = "GT" -> Signed(x, n) > Signed(y, n)
    [] name = "LE" -> Signed(x, n) <= Signed(y, n)
    [] name = "LT" -> Signed(x, n) < Signed(y, n)
    [] name = "GE_UN" -> x >= y
    [] name = "GT_UN" -> x > y
    [] name = "LE_UN" -> x <= y
    [] name = "LT_UN" -> x < y

(* The words of one operand: two in the rows and columns of 64-bit operations. *)
Wide == {"ADD_I64I64", "CEQ_I64I64", "NEG_I64", "SHL_I64", "CONV_I64", "CONV_U64", "BEQ_I64I64", "BRANCH64_FALSE"}
N == IF opcode \in Wide THEN 2 ELSE 1
Left == Number(SubSeq(Top(2 * N), 1, N))
Right == Number(Top(N))

ComputeEffect ==
  LET Values(pops, vs) == UNION {Effect(Past(0), pops, AsWords(v, N), memory) : v \in vs}
  IN  CASE opcode \in {"ADD_I32I32", "ADD_I64I64"} -> Values(2 * N, Calculated(JitArithmetic[kth + 7], Left, Right, N))
        [] opcode \in {"SHL_I32", "SHL_I64"} ->
             Values(N + 1, Shifted(JitShifts[kth + 1], Number(SubSeq(Top(N + 1), 1, N)), Top(1)[1], N))
        [] opcode \in {"NEG_I32", "NEG_I64"} -> Values(N, {IF kth = 0 THEN -Right ELSE -Right - 1})
        [] opcode \in {"CEQ_I32I32", "CEQ_I64I64"} ->
             Effect(Past(0), 2 * N, <<IF Related(JitCompares[kth + 1], Left, Right, N) THEN 1 ELSE 0>>, memory)

Checks == opcode = "ADD_I32I32" /\ kth < 0

ComputeOp ==
  /\ status = "running" /\ ~Checks
  /\ opcode \in {"ADD_I32I32", "ADD_I64I64", "SHL_I32", "SHL_I64", "NEG_I32", "NEG_I64", "CEQ_I32I32", "CEQ_I64I64"}
  /\ PerformAny(ComputeEffect)

(* To 32 bits: shifted left and back, or under a mask; from 64, of the low word. *)
ConvertEffect ==
  CASE kth = "I32" -> Effect(Past(1), N, AsWords(Wrap(Right, Long - Param(1)), 1), memory)
    [] kth = "U32" -> Effect(Past(1), N, AsWords(Right & Param(1), 1), memory)
    [] kth = "I64" /\ opcode = "CONV_I32" -> Effect(Past(0), 1, AsWords(Wrap(Right, Long), 2), memory)
    [] <<opcode, kth>> \in {<<"CONV_I64", "U64">>, <<"CONV_U64", "I64">>} -> Effect(Past(0), 0, <<>>, memory)
    [] OTHER -> Effect(Past(0), 1, AsWords(Right, 2), memory)

ConvertOp ==
  /\ status = "running" /\ opcode \in {"CONV_I32", "CONV_U32", "CONV_I64", "CONV_U64"}
  /\ PerformAny(ConvertEffect)

(***************************************************************************)
(* Branches, the end of the method, exceptions.                            *)
(***************************************************************************)
BranchEffect ==
  LET Go(pops, cond) == Effect(IF cond THEN Param(1) ELSE Past(1), pops, <<>>, memory)
  IN  CASE opcode = "BRANCH" -> Go(0, TRUE)
        [] opcode = "SWITCH" ->
             Effect(IF Top(1)[1] >= Param(1) THEN Past(1 + Param(1)) ELSE Param(2 + Top(1)[1]), 1, <<>>, memory)
        [] opcode \in {"BRANCH_FALSE", "BRANCH64_FALSE"} -> Go(N, IF kth = 1 THEN Right # 0 ELSE Right = 0)
        [] opcode \in {"BEQ_I32I32", "BEQ_I64I64"} -> Go(2 * N, Related(JitBranches[kth + 1], Left, Right, N))

BranchOp ==
  /\ status = "running"
  /\ opcode \in {"BRANCH", "SWITCH", "BRANCH_FALSE", "BRANCH64_FALSE", "BEQ_I32I32", "BEQ_I64I64"}
  /\ PerformAny(BranchEffect)

(***************************************************************************)
(* Calls. A method state of its own, with the arguments as its parameters, *)
(* for the method called; the caller keeps what is below them, and for a   *)
(* constructor the new object. Where method states lie is ThreadStack's.   *)
(***************************************************************************)
MethodState(next, kept, words) ==
  [prog |-> prog, jit |-> jit, fn |-> fn, frame |-> frame, ip |-> next, ofs |-> kept + Len(words),
   eval |-> [n \in DOMAIN eval |-> IF n \in kept + 1 .. kept + Len(words) THEN words[n - kept] ELSE eval[n]]]

Enter(c, this, words, m) ==
  LET args == SizeOfAll(Callees[c].params) - Len(this)
      state == MethodState(Past(1), ofs - args, words)
  IN  IF ofs - args < 0 \/ state.ofs > Len(eval) THEN End("aborted", <<>>, memory)
      ELSE /\ prog' = Verified[c] /\ jit' = JIT_Prepare[c]
           /\ fn' = c /\ frame' = Len(m) + 1 /\ ip' = 1 /\ ofs' = 0
           /\ eval' = [n \in 1 .. jit'.maxStack |-> Junk]
           /\ callers' = Append(callers, state)
           /\ memory' = Append(m, Region(<<"vars", c>>, 0, this \o Top(args)))
           /\ UNCHANGED <<method, status, result>>

(* LOAD_METHOD_STATE: a method state goes on at next, with words on top of kept ones. *)
Resume(state, below, next, kept, words, m) ==
  IF kept + Len(words) > Len(state.eval) THEN End("aborted", <<>>, memory)
  ELSE /\ prog' = state.prog /\ jit' = state.jit /\ fn' = state.fn /\ frame' = state.frame
       /\ ip' = next /\ ofs' = kept + Len(words)
       /\ eval' = [n \in DOMAIN state.eval |-> IF n \in kept + 1 .. kept + Len(words) THEN words[n - kept] ELSE state.eval[n]]
       /\ callers' = below /\ memory' = m
       /\ UNCHANGED <<method, status, result>>

Return ==
  /\ status = "running" /\ opcode = "RETURN"
  /\ LET words == Top(SizeOfAll(IF fn = 0 THEN Method.returns ELSE Callees[fn].returns))
     IN  IF callers = <<>> THEN End("returned", words, memory)
         ELSE Resume(Last(callers), Front(callers), Last(callers).ip, Last(callers).ofs, words, memory)

(***************************************************************************)
(* Exceptions. The base types of every type are itself and Object.         *)
(***************************************************************************)
IsDerivedFromOrSame(base, test) == base \in {test, Object}

(* The clauses of a method state with the last word of ops it read in their try block. *)
Handlers(state, type) ==
  {c \in DOMAIN state.jit.clauses : /\ state.ip - 1 \in state.jit.clauses[c].tryStart .. state.jit.clauses[c].tryEnd - 1
                                    /\ IsDerivedFromOrSame(state.jit.clauses[c].catch, type)}

(* The first clause of the nearest method state that has one; the stack of *)
(* that method state is emptied. n words were read behind the operation.   *)
Throw(n, exception, m) ==
  LET states == Append(callers, MethodState(Past(n), 0, <<>>))
      found == [k \in DOMAIN states |-> Handlers(states[k], m[RegionOf(exception)].type)]
      catching == {k \in DOMAIN states : found[k] # {}}
  IN  IF catching = {} THEN End("unhandled", <<>>, m)
      ELSE \E k \in catching : \E c \in found[k] :
             /\ \A l \in catching : l <= k
             /\ \A d \in found[k] : c <= d
             /\ Resume(states[k], SubSeq(states, 1, k - 1), states[k].jit.clauses[c].handlerStart, 0, <<exception>>, m)

ThrowOp ==
  /\ status = "running" /\ opcode = "THROW"
  /\ IF Top(1)[1] = 0 THEN End("unspecified", <<>>, memory) ELSE Throw(0, Top(1)[1], memory)

(* Arrays are compared by their elements, those of value types exactly. *)
Castable(to, test) ==
  IF to[1] = "array" /\ test[1] = "array" /\ IsValueType(<<test[2]>>) THEN to = test
  ELSE IF to[1] = "array" /\ test[1] = "array" THEN IsDerivedFromOrSame(<<to[2]>>, <<test[2]>>)
  ELSE IsDerivedFromOrSame(to, test)

CastHolds == LET obj == Top(1)[1] IN obj # 0 => Castable(Param(1), memory[RegionOf(obj)].type)

CastOp ==
  /\ status = "running" /\ opcode \in {"CAST_CLASS", "IS_INSTANCE"}
  /\ opcode = "CAST_CLASS" => CastHolds
  /\ PerformAny(Effect(Past(1), 1, <<IF CastHolds THEN Top(1)[1] ELSE 0>>, memory))

(* The result in 64 bits, which an overflow is seen in before it is cut. *)
CheckedResult ==
  LET name == JitArithmetic[kth + 7]
      x == Signed(Left, 1)
      y == Signed(Right, 1)
  IN  CASE name = "ADD_OVF" -> x + y
        [] name = "SUB_OVF" -> x - y
        [] name = "MUL_OVF" -> x * y
        [] name = "ADD_OVF_UN" -> Left + Right
        [] name = "SUB_OVF_UN" -> (Left - Right) % 2 ^ (2 * Long)
        [] name = "MUL_OVF_UN" -> Left * Right

Overflows ==
  IF JitArithmetic[kth + 7] \in {"ADD_OVF", "SUB_OVF", "MUL_OVF"}
  THEN CheckedResult > 2 ^ (Long - 1) - 1 \/ CheckedResult < -(2 ^ (Long - 1))
  ELSE CheckedResult > 2 ^ Long - 1

CheckedOp ==
  /\ status = "running" /\ Checks /\ ~Overflows
  /\ PerformAny(Effect(Past(0), 2, AsWords(CheckedResult, 1), memory))

(* A null is no object to look for an overriding method in, but any method may be called on it. *)
Argument0 == Top(SizeOfAll(Callees[Param(1)].params))[1]

CallOp ==
  /\ status = "running" /\ opcode \in {"CALL_O", "CALL_PTR", "CALLVIRT_O"}
  /\ opcode = "CALLVIRT_O" => Argument0 # 0
  /\ Enter(IF opcode = "CALLVIRT_O" /\ Callees[Param(1)].virtual THEN Overriding(Param(1), memory[RegionOf(Argument0)].type)
                                                                 ELSE Param(1),
           <<>>, <<>>, memory)

NewObjectOp ==
  /\ status = "running" /\ opcode = "NEWOBJECT"
  /\ LET type == Callees[Param(1)].params[1]
         obj == Region(type, 0, [n \in 1 .. SizeOfAll(Fields[type[1]]) |-> 0])
     IN  Enter(Param(1), <<NewObject>>, <<NewObject>>, Append(memory, obj))

(* THROW: a new exception object of a type of the core library. *)
Fails ==
  CASE opcode = "CAST_CLASS" -> ~CastHolds
    [] opcode = "CALLVIRT_O" -> Argument0 = 0
    [] OTHER -> Checks /\ Overflows

ThrowNew ==
  /\ status = "running" /\ Fails
  /\ Throw(IF Checks THEN 0 ELSE 1, NewObject, Append(memory, Region(<<"E">>, 0, <<>>)))

(* POP_ALL; there is no finally clause among those of the programs. *)
LeaveOp ==
  /\ status = "running" /\ opcode = "LEAVE"
  /\ PerformAny(Effect(Param(1), ofs, <<>>, memory))

Init ==
  /\ method \in DOMAIN Methods
  /\ prog = Empty(Method) /\ jit = NoJit(Method)
  /\ fn = 0 /\ frame = 1 /\ callers = <<>>
  /\ status = "writing" /\ ip = 0 /\ eval = <<>> /\ ofs = 0 /\ memory = <<>> /\ result = <<>>

Next ==
  \/ Write \/ Start
  \/ StackOp \/ VariableOp \/ IndirectOp \/ ArrayOp \/ ObjectOp \/ ComputeOp \/ ConvertOp
  \/ BranchOp \/ Return \/ ThrowOp \/ CallOp \/ NewObjectOp \/ CastOp \/ CheckedOp \/ ThrowNew \/ LeaveOp

Spec == Init /\ [][Next]_vars

(* The offset in the CIL of the operation at an index of ops; 0 inside one. *)
PcAt(g, at) == IF \E n \in DOMAIN g.jitOffsets : g.jitOffsets[n] = at
               THEN CHOOSE n \in DOMAIN g.jitOffsets : g.jitOffsets[n] = at ELSE 0

(***************************************************************************)
(* Properties.                                                             *)
(***************************************************************************)
(* The translator's variables have their types, and its stack of types is  *)
(* the one the program verifies with: as many values of the same stack     *)
(* types and sizes, whatever way the control flow comes (RestoreTypeStack).*)
(* Every branch of a running method leads to the start of an operation,    *)
(* and its values fit the stack that was reserved for it.                  *)
TypeOK ==
  /\ status \in {"writing", "running", "returned", "unhandled", "unspecified", "crashed", "aborted"}
  /\ status = "writing" =>
       LET types == prog.shapes[Len(prog.code) + 1]
       IN  /\ Len(jit.types) = Len(types)
           /\ \A n \in DOMAIN types : StackType(jit.types[n]) = StackType(types[n]) /\ StackSize(jit.types[n]) = StackSize(types[n])
  /\ status = "running" =>
       /\ ofs \in 0 .. Len(eval)
       /\ \A f \in jit.branchOffsets : PcAt(jit, jit.ops[f]) # 0
       /\ \A n \in 1 .. ofs : eval[n] >= 0

(* What the words stand for, in terms of the methods and their types. *)
PcOf == IF status = "running" THEN PcAt(jit, ip) ELSE 0

ValuesOf(types, words, n) ==
  IF Len(Layout(types)) # n THEN << <<>> >>
  ELSE [k \in DOMAIN types |-> Decoded(CellsOf(types[k]), SubSeq(words, Offset(types, k) + 1, Offset(types, k + 1)))]

StackOf == IF PcOf = 0 THEN <<>> ELSE ValuesOf(prog.shapes[PcOf], eval, ofs)

(* A caller has all but the result of the method it called. *)
CallersOf ==
  [k \in DOMAIN callers |->
     LET state == callers[k]
         called == IF k = Len(callers) THEN fn ELSE callers[k + 1].fn
         pc == PcAt(state.jit, state.ip)
         types == Below(state.prog.shapes[pc], Len(Callees[called].returns))
     IN  [prog |-> state.prog, fn |-> state.fn, frame |-> state.frame, pc |-> pc, stack |-> ValuesOf(types, state.eval, state.ofs)]]

MemOf == [r \in DOMAIN memory |-> [memory[r] EXCEPT !.cells = Decoded(RegionLayout(memory[r]), @)]]

ResultOf == IF result = <<>> THEN <<>> ELSE Decoded(CellsOf(Method.returns[1]), result)

(* Every verifiable program does, translated to operations on words, what  *)
(* it does on typed values: the same path, the same values on the stack,   *)
(* in the variables and in the objects at every instruction, the same      *)
(* result, and it neither crashes the translator nor leaves its stack.     *)
Machine == INSTANCE CilMachine WITH Library <- Verified, pc <- PcOf, stack <- StackOf, callers <- CallersOf, mem <- MemOf, result <- ResultOf
ImplementsCil == Machine!Spec
=============================================================================

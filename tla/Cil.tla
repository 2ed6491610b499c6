-------------------------------- MODULE Cil --------------------------------
(***************************************************************************)
(* The instructions of the Common Intermediate Language the translator     *)
(* (JIT.c) is modelled on, the types of the values they work on, and which *)
(* programs are verifiable: what a compiler may hand to JIT_Prepare.       *)
(* Everything here stands for the language; the code enters with Jit.tla.  *)
(*                                                                         *)
(* A program is a sequence of instructions, an offset is a position in it. *)
(* A type is <<b>> for a base type b, <<"&", b>> for a managed pointer to  *)
(* a b, <<"array", b>> for an array of b's and <<"box", b>> for a boxed b. *)
(* <<"U4">> stands for the types a 32-bit slot is converted from without   *)
(* its sign (Byte, UInt16, UInt32, UIntPtr), <<"U8">> is UInt64, <<"N">>   *)
(* is the type of null.                                                    *)
(***************************************************************************)
EXTENDS Integers, Sequences, SequencesExt, FiniteSets, Bitwise

CONSTANTS Bits,      \* bits of a byte: a 32-bit integer has 4 * Bits of them
          Fields,    \* the types of the fields of each class, structure, and of the statics
          Callees,   \* the methods programs call: the fields of a method (see below) and code
          Overrides  \* Overrides[c]: the methods that override c, functions of the type of this

ASSUME BitsAssumption == Bits \in Nat \ {0}

Narrow == {"I1", "U1", "I2", "U2"}
Int32s == {<<"I4">>, <<"U4">>}
Int64s == {<<"I8">>, <<"U8">>}
Integers32or64 == Int32s \cup Int64s
Structs == {"S"}
IsRef(t) == t[1] \in {"C", "E", "O", "N", "array", "box"}
IsPtr(t) == t[1] = "&"
IsStruct(t) == t[1] \in Structs

(* A value of type t may be used where a want is expected. *)
Fits(t, want) ==
  \/ t = want
  \/ t \in Int32s /\ (want \in Int32s \/ want[1] \in Narrow)
  \/ t \in Int64s /\ want \in Int64s
  \/ IsRef(t) /\ want = <<"O">>
  \/ t = <<"N">> /\ IsRef(want)

(* An object of type t is one of type want; arrays of references are as    *)
(* their elements are.                                                     *)
IsInstance(t, want) ==
  \/ Fits(t, want)
  \/ t[1] = "array" /\ want[1] = "array" /\ IsRef(<<t[2]>>) /\ Fits(<<t[2]>>, <<want[2]>>)

(***************************************************************************)
(* Values are sequences of cells, one per 32-bit word: "I" is a 32-bit     *)
(* integer, "lo" the cell that holds a 64-bit one and "hi" the empty cell  *)
(* after it, "R" a reference or a pointer, a narrow type an array element. *)
(***************************************************************************)
Primitive(t) ==
  CASE t \in Int32s -> <<"I">>
    [] t \in Int64s -> <<"lo", "hi">>
    [] t[1] \in Narrow -> t
    [] OTHER -> <<"R">>

StructCells == [s \in Structs |-> FlattenSeq([f \in DOMAIN Fields[s] |-> Primitive(Fields[s][f])])]

CellsOf(t) == IF IsStruct(t) THEN StructCells[t[1]] ELSE Primitive(t)

Layout(ts) == FlattenSeq([k \in DOMAIN ts |-> CellsOf(ts[k])])

Size(t) == Len(CellsOf(t))

(* Where the k-th of some values of types ts starts, in words. *)
Offset(ts, k) == Len(Layout(SubSeq(ts, 1, k - 1)))

(* Integers of b bits, with a sign and without; division rounds to zero. *)
Long == 4 * Bits                      \* the bits of a 32-bit integer
Wrap(v, b) == ((v + 2 ^ (b - 1)) % 2 ^ b) - 2 ^ (b - 1)
Unsigned(v, b) == v % 2 ^ b
Sign(v) == IF v < 0 THEN -1 ELSE 1
Quotient(x, y) == Sign(x) * Sign(y) * ((Sign(x) * x) \div (Sign(y) * y))

(***************************************************************************)
(* Memory: a region is the method's variables, the statics or an object.   *)
(* A reference is 1000 * its region, a pointer adds a cell; null is 0.     *)
(***************************************************************************)
Ref(r) == 1000 * r
Statics == Ref(2)
RegionOf(p) == p \div 1000
CellOf(p) == p % 1000
Region(type, len, cells) == [type |-> type, len |-> len, cells |-> cells]

(***************************************************************************)
(* Instructions: n is a number, a variable or a field, t a type, to the    *)
(* offsets it may branch to.                                               *)
(***************************************************************************)
Instr(op, n, t, to) == [op |-> op, n |-> n, t |-> t, to |-> to]
I(op) == Instr(op, 0, <<>>, <<>>)
In(op, n) == Instr(op, n, <<>>, <<>>)
It(op, t) == Instr(op, 0, t, <<>>)
If(op, n, t) == Instr(op, n, t, <<>>)
Ib(op, to) == Instr(op, 0, <<>>, to)

Arithmetic == {"add", "sub", "mul", "div", "div.un", "rem", "rem.un", "and", "or", "xor"}
Checked == {"add.ovf", "add.ovf.un", "mul.ovf", "mul.ovf.un", "sub.ovf", "sub.ovf.un"}
Shifts == {"shl", "shr", "shr.un"}
Branches == {"beq", "bge", "bgt", "ble", "blt", "bne.un", "bge.un", "bgt.un", "ble.un", "blt.un"}
Compares == {"ceq", "cgt", "cgt.un", "clt", "clt.un"}
ToI4 == {"conv.i1", "conv.i2", "conv.i4", "conv.u1", "conv.u2", "conv.u4"}
ToI8 == {"conv.i8", "conv.u8"}
LoadElements == {"ldelem.i1", "ldelem.u1", "ldelem.i2", "ldelem.u2", "ldelem.i4", "ldelem.u4", "ldelem.i8", "ldelem.ref"}
StoreElements == {"stelem.i1", "stelem.i2", "stelem.i4", "stelem.i8", "stelem.ref"}
Transfers == {"br", "leave", "ret", "throw"}

(* The arrays ldelem.x and stelem.x are for. *)
ElementOf(op) ==
  CASE op \in {"ldelem.i1", "ldelem.u1", "stelem.i1"} -> {"I1", "U1"}
    [] op \in {"ldelem.i2", "ldelem.u2", "stelem.i2"} -> {"I2", "U2"}
    [] op \in {"ldelem.i4", "ldelem.u4", "stelem.i4"} -> {"I4", "U4"}
    [] op \in {"ldelem.i8", "stelem.i8"} -> {"I8"}
    [] OTHER -> {"O"}

Arity(m, i) ==
  CASE i.op \in {"nop", "ldnull", "ldc.i4", "ldc.i8", "ldarg", "ldloc", "ldarga", "ldloca", "ldsfld", "ldsflda", "br", "leave"} -> 0
    [] i.op \in Arithmetic \cup Checked \cup Shifts \cup Branches \cup Compares \cup LoadElements
                \cup {"stind.i4", "stind.i8", "stind.ref", "stobj", "ldelem", "ldelema", "stfld"} -> 2
    [] i.op \in StoreElements \cup {"stelem"} -> 3
    [] i.op = "ret" -> Len(m.returns)
    [] i.op \in {"call", "callvirt"} -> Len(Callees[i.n].params)
    [] i.op = "newobj" -> Len(Callees[i.n].params) - 1
    [] OTHER -> 1

(* The types an instruction leaves for operands of types a (bottom first), *)
(* or none when it does not take them.                                     *)
Typed(cond, ts) == IF cond THEN {ts} ELSE {}

FieldOf(t, n) == Fields[t[1]][n]

TypesLoad(m, i, a) ==
  CASE i.op = "nop" -> {<<>>}
    [] i.op = "ldnull" -> {<<<<"N">>>>}
    [] i.op = "ldc.i4" -> {<<<<"I4">>>>}
    [] i.op = "ldc.i8" -> {<<<<"I8">>>>}
    [] i.op = "ldarg" -> {<<m.params[i.n]>>}
    [] i.op = "ldloc" -> {<<m.locals[i.n]>>}
    [] i.op = "ldarga" -> {<<<<"&", m.params[i.n][1]>>>>}
    [] i.op = "ldloca" -> {<<<<"&", m.locals[i.n][1]>>>>}
    [] i.op = "starg" -> Typed(Fits(a[1], m.params[i.n]), <<>>)
    [] i.op = "stloc" -> Typed(Fits(a[1], m.locals[i.n]), <<>>)
    [] i.op = "dup" -> {<<a[1], a[1]>>}
    [] i.op = "pop" -> {<<>>}
    [] i.op = "ldsfld" -> {<<Fields.statics[i.n]>>}
    [] i.op = "ldsflda" -> {<<<<"&", Fields.statics[i.n][1]>>>>}
    [] i.op = "stsfld" -> Typed(Fits(a[1], Fields.statics[i.n]), <<>>)
    [] i.op = "ldfld" -> Typed(a[1] \in {i.t, <<"&", i.t[1]>>}, <<FieldOf(i.t, i.n)>>)
    [] i.op = "ldflda" -> Typed(a[1] \in {i.t, <<"&", i.t[1]>>} /\ ~IsStruct(a[1]), <<<<"&", FieldOf(i.t, i.n)[1]>>>>)
    [] i.op = "stfld" -> Typed(a[1] \in {i.t, <<"&", i.t[1]>>} /\ ~IsStruct(a[1]) /\ Fits(a[2], FieldOf(i.t, i.n)), <<>>)
    [] i.op \in {"ldind.i4", "ldind.u4"} -> Typed(a[1] \in {<<"&", "I4">>, <<"&", "U4">>}, IF i.op = "ldind.i4" THEN <<<<"I4">>>> ELSE <<<<"U4">>>>)
    [] i.op = "ldind.i8" -> Typed(a[1] = <<"&", "I8">>, <<<<"I8">>>>)
    [] i.op = "ldind.ref" -> Typed(a[1] = <<"&", "O">>, <<<<"O">>>>)
    [] i.op = "stind.i4" -> Typed(a[1] \in {<<"&", "I4">>, <<"&", "U4">>} /\ a[2] \in Int32s, <<>>)
    [] i.op = "stind.i8" -> Typed(a[1] = <<"&", "I8">> /\ a[2] \in Int64s, <<>>)
    [] i.op = "stind.ref" -> Typed(a[1] = <<"&", "O">> /\ IsRef(a[2]), <<>>)
    [] i.op = "ldobj" -> Typed(a[1] = <<"&", i.t[1]>>, <<i.t>>)
    [] i.op = "stobj" -> Typed(a[1] = <<"&", i.t[1]>> /\ Fits(a[2], i.t), <<>>)
    [] i.op = "initobj" -> Typed(a[1] = <<"&", i.t[1]>>, <<>>)
    [] i.op = "newarr" -> Typed(a[1] \in Int32s, <<<<"array", i.t[1]>>>>)
    [] i.op = "ldlen" -> Typed(a[1][1] = "array", <<<<"I4">>>>)
    [] i.op \in LoadElements -> Typed(a[1] \in {<<"array", b>> : b \in ElementOf(i.op)} /\ a[2] \in Int32s,
                                      CASE i.op = "ldelem.i8" -> <<<<"I8">>>> [] i.op = "ldelem.ref" -> <<<<"O">>>> [] OTHER -> <<<<"I4">>>>)
    [] i.op = "ldelem" -> Typed(a[1] = <<"array", i.t[1]>> /\ a[2] \in Int32s, <<IF i.t[1] \in {"U1", "U2"} THEN <<"U4">> ELSE i.t>>)
    [] i.op = "ldelema" -> Typed(a[1] = <<"array", i.t[1]>> /\ a[2] \in Int32s, <<<<"&", i.t[1]>>>>)
    [] i.op \in StoreElements -> Typed(a[1] \in {<<"array", b>> : b \in ElementOf(i.op)} /\ a[2] \in Int32s /\ Fits(a[3], <<a[1][2]>>), <<>>)
    [] i.op = "stelem" -> Typed(a[1] = <<"array", i.t[1]>> /\ a[2] \in Int32s /\ Fits(a[3], i.t), <<>>)
    [] i.op = "box" -> Typed(Fits(a[1], i.t), <<<<"box", i.t[1]>>>>)
    [] i.op = "unbox.any" -> Typed(a[1] = <<"box", i.t[1]>>, <<i.t>>)
    [] i.op \in {"isinst", "castclass"} -> Typed(IsRef(a[1]), <<i.t>>)

Comparable(op, a) ==
  \/ a[1] \in Int32s /\ a[2] \in Int32s
  \/ a[1] \in Int64s /\ a[2] \in Int64s
  \/ op \in {"beq", "bne.un", "ceq"} /\ ((IsRef(a[1]) /\ IsRef(a[2])) \/ (IsPtr(a[1]) /\ IsPtr(a[2])))
  \/ op = "cgt.un" /\ IsRef(a[1]) /\ a[2] = <<"N">>

(* An integer keeps the signedness of the type it has got: the result of   *)
(* an operation is of its first operand's type. Three conversions to 64    *)
(* bits are left out (see the README): conv.i8 of an <<"I8">>, conv.u8 of  *)
(* a <<"U8">>, which have no code, and conv.i8 of a <<"U4">>.              *)
TypesCompute(m, i, a) ==
  CASE i.op \in Arithmetic -> Typed({a[1], a[2]} \subseteq Int32s \/ {a[1], a[2]} \subseteq Int64s, <<a[1]>>)
    [] i.op \in Checked -> Typed(a[1] \in Int32s /\ a[2] \in Int32s, <<a[1]>>)
    [] i.op \in Shifts -> Typed(a[1] \in Integers32or64 /\ a[2] \in Int32s, IF a[1] \in Int32s THEN <<<<"I4">>>> ELSE <<<<"I8">>>>)
    [] i.op \in {"neg", "not"} -> Typed(a[1] \in Integers32or64, IF a[1] \in Int32s THEN <<<<"I4">>>> ELSE <<<<"I8">>>>)
    [] i.op \in ToI4 -> Typed(a[1] \in Integers32or64, IF i.op \in {"conv.u1", "conv.u2", "conv.u4"} THEN <<<<"U4">>>> ELSE <<<<"I4">>>>)
    [] i.op = "conv.i8" -> Typed(a[1] \in {<<"I4">>, <<"U8">>}, <<<<"I8">>>>)
    [] i.op = "conv.u8" -> Typed(a[1] \in Int32s \cup {<<"I8">>}, <<<<"U8">>>>)
    [] i.op \in Compares -> Typed(Comparable(i.op, a), <<<<"I4">>>>)
    [] i.op \in Branches -> Typed(Comparable(i.op, a), <<>>)
    [] i.op \in {"brfalse", "brtrue"} -> Typed(~IsStruct(a[1]), <<>>)
    [] i.op = "switch" -> Typed(a[1] \in Int32s, <<>>)
    [] i.op \in {"br", "leave"} -> {<<>>}
    [] i.op = "throw" -> Typed(a[1] \in {<<"C">>, <<"E">>, <<"O">>}, <<>>)
    [] i.op = "ret" -> Typed(\A k \in DOMAIN a : Fits(a[k], m.returns[k]), <<>>)

(* The first parameter of an instance method is this. *)
Takes(c, a) == \A k \in DOMAIN a : Fits(a[k], Callees[c].params[Len(Callees[c].params) - Len(a) + k])

TypesCall(m, i, a) ==
  CASE i.op \in {"call", "callvirt"} -> Typed(Takes(i.n, a), Callees[i.n].returns)
    [] i.op = "newobj" -> Typed(Takes(i.n, a), <<Callees[i.n].params[1]>>)

Calling == {"call", "callvirt", "newobj"}
Computing == Arithmetic \cup Checked \cup Shifts \cup Branches \cup Compares \cup ToI4 \cup ToI8
             \cup {"neg", "not", "brfalse", "brtrue", "switch"} \cup Transfers

Operands(s, n) == SubSeq(s, Len(s) - n + 1, Len(s))
Below(s, n) == SubSeq(s, 1, Len(s) - n)

(* The types of the evaluation stack after instruction i on a stack of types s. *)
After(m, i, s) ==
  LET n == Arity(m, i)
      a == Operands(s, n)
      pushed == IF n > Len(s) THEN {}
                ELSE IF i.op \in Calling THEN TypesCall(m, i, a)
                ELSE IF i.op \in Computing THEN TypesCompute(m, i, a) ELSE TypesLoad(m, i, a)
  IN  {Below(s, n) \o ts : ts \in pushed}

(***************************************************************************)
(* Programs: code, shapes (the types of the stack before each instruction  *)
(* and after the last one) and due (those the branches forward to an       *)
(* offset agreed on). The method gives its parameters, locals, results and *)
(* catch clauses, each a try block ts .. te - 1 and a handler hs .. he - 1.*)
(***************************************************************************)
Blocks(m, k) == {<<c, "try">> : c \in {c \in DOMAIN m.clauses : k \in m.clauses[c].ts .. m.clauses[c].te - 1}}
                \cup {<<c, "catch">> : c \in {c \in DOMAIN m.clauses : k \in m.clauses[c].hs .. m.clauses[c].he - 1}}

HandlerAt(m, k) == {c \in DOMAIN m.clauses : m.clauses[c].hs = k}

Empty(m) == [code |-> <<>>, shapes |-> << <<>> >>, due |-> [k \in 1 .. m.length + 1 |-> {}]]

(* Offset `to` may be branched to with a stack of types s from offset k. *)
MayBranch(m, p, k, i, to, s) ==
  /\ IF i.op = "leave" THEN Blocks(m, to) \subseteq Blocks(m, k) /\ Blocks(m, to) # Blocks(m, k) /\ s = <<>>
                       ELSE Blocks(m, to) = Blocks(m, k)
  /\ IF to <= k THEN p.shapes[to] = s ELSE to <= m.length /\ p.due[to] \subseteq {s}
  /\ ~(i.op = "br" /\ to = k + 1 /\ s # <<>>)

(* The control flow may go on at k + 1 after instruction i at k. *)
MayFall(m, p, k, i, s) ==
  IF i.op \in Transfers
  THEN i.op = "ret" => s = <<>> /\ Blocks(m, k) = {}
  ELSE /\ Blocks(m, k) \subseteq Blocks(m, k + 1)
       /\ HandlerAt(m, k + 1) = {}
       /\ p.due[k + 1] \subseteq {s}

Entry(m, p, due, k, i, s) ==
  CASE HandlerAt(m, k + 1) # {} -> <<m.clauses[CHOOSE c \in HandlerAt(m, k + 1) : TRUE].type>>
    [] i.op \in Transfers /\ HandlerAt(m, k + 1) = {} -> IF due[k + 1] = {} THEN <<>> ELSE CHOOSE d \in due[k + 1] : TRUE
    [] OTHER -> s

(* Program p of method m with instruction i added, if p with i verifies. *)
Extend(m, p, i) ==
  LET k == Len(p.code) + 1
      Added(s) ==
        LET due == [d \in DOMAIN p.due |-> p.due[d] \cup (IF d > k /\ \E b \in DOMAIN i.to : i.to[b] = d THEN {s} ELSE {})]
        IN  [code |-> Append(p.code, i), shapes |-> Append(p.shapes, Entry(m, p, due, k, i, s)), due |-> due]
  IN  {Added(s) : s \in {s \in After(m, i, p.shapes[k]) :
         /\ \A b \in DOMAIN i.to : MayBranch(m, p, k, i, i.to[b], s)
         /\ MayFall(m, p, k, i, s)
         /\ \A c \in DOMAIN m.clauses : m.clauses[c].ts = k + 1 => Entry(m, p, p.due, k, i, s) = <<>>
         /\ Len(s) <= m.length - k}}

Complete(m, p) ==
  LET k == Len(p.code)
  IN  /\ k > 0 /\ p.code[k].op \in Transfers
      /\ \A d \in k + 1 .. m.length + 1 : p.due[d] = {}
      /\ \A c \in DOMAIN m.clauses : m.clauses[c].he <= k + 1

(* The methods called are verifiable too. *)
Programs(m) == FoldLeft(LAMBDA ps, i : UNION {Extend(m, p, i) : p \in ps}, {Empty(m)}, m.code)
Verified == [c \in DOMAIN Callees |-> CHOOSE p \in Programs(Callees[c]) : TRUE]

(* The method a virtual call of c on an object of a type reaches. *)
Overriding(c, type) == IF type \in DOMAIN Overrides[c] THEN Overrides[c][type] ELSE c
=============================================================================

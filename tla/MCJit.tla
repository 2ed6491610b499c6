-------------------------------- MODULE MCJit --------------------------------
(* Small methods for the translator: each has a menu of instructions for    *)
(* one part of the language, and TLC tries every program they make. A byte  *)
(* has 2 bits here, so that an Int32 has 8 and an Int64 16.                 *)
EXTENDS Jit

S == <<"S">>
C == <<"C">>
E == <<"E">>
I4 == <<"I4">>
U4 == <<"U4">>
I8 == <<"I8">>
O == <<"O">>
Array(b) == <<"array", b>>

MCFields == [C |-> <<I4, I8, S, O>>, E |-> <<>>, S |-> <<I4, I8>>, statics |-> <<I8, S, I4>>]

Zeroes == Region(<<"statics">>, 0, <<300, 0, -5, -300, 0, 6>>)
AnObject == Region(C, 0, <<-7, 1000, 0, 11, -1000, 0, 0>>)
AnException == Region(E, 0, <<>>)
TheC == Ref(3)
TheE == Ref(4)
Heap == <<Zeroes, AnObject, AnException>>

NewMethod(params, locals, returns, inputs, menu, length) ==
  [params |-> params, locals |-> locals, returns |-> returns, clauses |-> <<>>, heap |-> Heap,
   inputs |-> inputs, menu |-> menu, length |-> length]

Ops(names) == {I(op) : op \in names}
Some(op, ns) == {In(op, n) : n \in ns}
To(op, targets) == {Ib(op, <<t>>) : t \in targets}

Pairs == {<<-128, -1>>, <<127, 2>>, <<-3, 5>>, <<100, 100>>, <<7, 0>>}

(* 32-bit arithmetic, with and without checks; the second parameter has no sign. *)
Arithmetic32 ==
  NewMethod(<<I4, U4>>, <<>>, <<I4>>, Pairs,
         Some("ldarg", 1 .. 2) \cup {I("ret")} \cup Ops(Arithmetic \cup Checked \cup Shifts \cup Compares \cup ToI4 \cup {"neg", "not"}), 5)

LongPairs == {<<x[1] * y, 0, x[2], 0>> : x \in Pairs, y \in {1, 256}}

Arithmetic64 ==
  NewMethod(<<I8, I8>>, <<>>, <<I8>>, LongPairs,
         Some("ldarg", 1 .. 2) \cup {I("ret")} \cup Ops(Arithmetic \cup {"neg", "not"}), 5)

Mixed64 ==
  NewMethod(<<I8, I4>>, <<>>, <<I8>>, {<<x[1] * 256 + 3, 0, x[2]>> : x \in Pairs},
         Some("ldarg", 1 .. 2) \cup {I("ret"), In("ldc.i8", -3)} \cup Ops(Shifts \cup ToI8 \cup ToI4 \cup {"neg", "add"}), 5)

Compare64 ==
  NewMethod(<<I8, I8>>, <<>>, <<I4>>, LongPairs,
         Some("ldarg", 1 .. 2) \cup {I("ret")} \cup Ops(Compares), 5)

(* Variables on both sides of the eighth word. *)
Moves ==
  NewMethod(<<I8, S>>, <<I4, I8, U4, S, C>>, <<>>, {<<-2, 0, 5, 700, 0, -9, 1234, 0, 17, 3, -800, 0, TheC>>},
         Some("ldarg", 1 .. 2) \cup Some("starg", {2}) \cup Some("ldloc", {1, 2, 3, 5}) \cup Some("stloc", 1 .. 5)
         \cup Ops({"dup", "pop", "ret", "ldnull"}) \cup {In("ldc.i4", 77)}, 5)

(* Every way to branch, with values on the stack where the ways meet. *)
Paths ==
  NewMethod(<<I4, I8>>, <<>>, <<I4>>, {<<0, 0, 0>>, <<1, 256, 0>>, <<-1, -1, 0>>},
         Some("ldarg", 1 .. 2) \cup Ops({"pop", "ret"}) \cup To("br", {1, 6}) \cup To("brtrue", {4})
         \cup {Ib("switch", <<5, 6>>)} \cup To("beq", {5}), 7)

Conditions ==
  NewMethod(<<I4, U4, I8>>, <<>>, <<>>, {<<x[1], x[2], -x[1], 0>> : x \in Pairs},
         Some("ldarg", 1 .. 3) \cup {I("ret"), I("nop")} \cup UNION {To(op, {5}) : op \in Branches}, 6)

References ==
  NewMethod(<<C, E, O>>, <<>>, <<>>, {<<TheC, TheE, r>> : r \in {0, TheC}},
         Some("ldarg", 1 .. 3) \cup Ops({"ret", "ldnull", "ceq", "cgt.un", "pop"})
         \cup UNION {To(op, {5}) : op \in {"beq", "bne.un", "brtrue", "brfalse"}}, 6)

(* Arrays of small integers, where an element is less than a word. *)
SmallArrays ==
  [NewMethod(<<Array("I1"), Array("U1"), Array("I2"), Array("U2"), I4>>, <<>>, <<>>,
          {<<Ref(5), Ref(6), Ref(7), Ref(8), v>> : v \in {-1, 38}},
          Some("ldarg", 1 .. 5) \cup Some("ldc.i4", {0, 1}) \cup Ops({"ret", "pop"})
          \cup Ops({op \in LoadElements \cup StoreElements : ElementOf(op) \in {{"I1", "U1"}, {"I2", "U2"}}})
          \cup {It("ldelem", <<"U1">>), It("ldelem", <<"U2">>), It("stelem", <<"I2">>)}, 6)
   EXCEPT !.heap = Heap \o <<Region(Array("I1"), 2, <<1, -2>>), Region(Array("U1"), 2, <<3, 2>>),
                             Region(Array("I2"), 2, <<-8, 5>>), Region(Array("U2"), 2, <<15, 8>>)>>]

(* Arrays of elements of one word or more, by index and by address. *)
Arrays ==
  [NewMethod(<<Array("I8"), Array("S"), Array("O"), Array("U4")>>, <<I8, S, C, U4>>, <<>>,
          {<<Ref(5), Ref(6), Ref(7), Ref(8), -300, 0, 8, 9, 0, TheC, -2>>},
          Some("ldarg", 1 .. 4) \cup Some("ldloc", 1 .. 4) \cup Some("ldc.i4", {1, 2}) \cup Ops({"ret", "pop", "ldlen"})
          \cup Ops({op \in LoadElements \cup StoreElements : ElementOf(op) \in {{"I4", "U4"}, {"I8"}, {"O"}}})
          \cup {It(op, t) : op \in {"ldelem", "stelem"}, t \in {S, I8, U4}} \cup {It("ldelema", S), It("ldobj", S)}
          \cup {It("newarr", t) : t \in {S, <<"U1">>}}, 6)
   EXCEPT !.heap = Heap \o <<Region(Array("I8"), 2, <<-400, 0, 77, 0>>), Region(Array("S"), 2, <<1, 500, 0, -2, -500, 0>>),
                             Region(Array("O"), 2, <<0, TheE>>), Region(Array("U4"), 2, <<-1, 2>>)>>]

(* Fields of objects, structures and statics; pointers to them. *)
FieldsOf ==
  NewMethod(<<C, C>>, <<S, I8, I4>>, <<>>, {<<TheC, 0, 1, -700, 0, 900, 0, -4>>},
         Some("ldarg", 1 .. 2) \cup Some("ldloc", 1 .. 3) \cup Some("ldloca", {1}) \cup Ops({"ret", "pop"})
         \cup {If(op, n, C) : op \in {"ldfld", "stfld"}, n \in 1 .. 4} \cup {If(op, n, S) : op \in {"ldfld", "stfld"}, n \in 1 .. 2}
         \cup {If("ldflda", 3, C), If("ldflda", 2, S)} \cup Ops({"ldind.i8", "stind.i8"}) \cup {It("ldobj", S)}, 6)

Pointers ==
  NewMethod(<<I4, C>>, <<S, I8, O>>, <<>>, {<<-6, TheC, 1, -700, 0, 900, 0, TheE>>},
         Some("ldarg", {1}) \cup Some("ldarga", {1}) \cup Some("ldloc", 1 .. 3) \cup Some("ldloca", 1 .. 3)
         \cup UNION {Some(op, 1 .. 3) : op \in {"ldsfld", "stsfld", "ldsflda"}} \cup Ops({"ret", "pop"})
         \cup Ops({"ldind.i4", "ldind.u4", "ldind.i8", "ldind.ref", "stind.i4", "stind.i8", "stind.ref"})
         \cup {It(op, t) : op \in {"ldobj", "stobj", "initobj"}, t \in {S, I8, O}}, 5)

Boxes ==
  NewMethod(<<I4, I8, S>>, <<O>>, <<>>, {<<-6, 900, 0, 1, -700, 0, 0>>},
         Some("ldarg", 1 .. 3) \cup Some("stloc", {1}) \cup Ops({"ret", "pop", "dup"})
         \cup {It(op, t) : op \in {"box", "unbox.any"}, t \in {I4, I8, S}}, 6)

(* Exceptions: two clauses for one try block, and an overflow in a nested one. *)
Clause(ts, te, hs, he, type) == [ts |-> ts, te |-> te, hs |-> hs, he |-> he, type |-> type]

Catches ==
  [NewMethod(<<C, E, O>>, <<O>>, <<>>, {<<TheC, TheE, r, 0>> : r \in {0, TheE}},
          Some("ldarg", 1 .. 3) \cup Some("stloc", {1}) \cup Ops({"throw", "pop", "ret"}) \cup To("leave", {8}), 9)
   EXCEPT !.clauses = <<Clause(1, 4, 4, 6, C), Clause(1, 4, 6, 8, O)>>]

Overflow ==
  [NewMethod(<<I4, I4>>, <<I4>>, <<>>, {<<p[1], p[2], 0>> : p \in Pairs},
          Some("ldarg", 1 .. 2) \cup Some("stloc", {1}) \cup Ops({"add.ovf", "sub.ovf.un", "pop", "ret", "throw"})
          \cup To("leave", {9}), 10)
   EXCEPT !.clauses = <<Clause(1, 6, 6, 8, E)>>]

(* Casts of classes, arrays and boxed integers, tried with a handler for the failure. *)
Casts ==
  [NewMethod(<<O>>, <<O>>, <<>>, {<<r, 0>> : r \in {0, TheC, TheE, Ref(5), Ref(6), Ref(7)}},
          {In("ldarg", 1), In("stloc", 1)} \cup Ops({"throw", "ret"}) \cup To("leave", {7})
          \cup {It(op, t) : op \in {"isinst", "castclass"}, t \in {C, Array("O"), Array("I8"), <<"box", "I4">>}}, 7)
   EXCEPT !.heap = Heap \o <<Region(Array("C"), 1, <<TheC>>), Region(Array("I8"), 0, <<>>), Region(<<"box", "I4">>, 0, <<-9>>)>>,
          !.clauses = <<Clause(1, 5, 5, 7, E)>>]

(***************************************************************************)
(* The methods called: with arguments of one word and of more, results of  *)
(* none, one and more, pointers, overridden methods, calls of their own,   *)
(* an exception that leaves them and one that they catch.                  *)
(***************************************************************************)
Callee(static, virtual, params, returns, code) ==
  [static |-> static, virtual |-> virtual, params |-> params, locals |-> <<>>, returns |-> returns,
   code |-> code, length |-> Len(code), clauses |-> <<>>]

Mix == 1
Set == 2
Get == 3
Thrower == 4
Hash == 5
HashOfC == 6
HashOfInt32 == 7
NewC == 8
Twice == 9
Safe == 10
Second == 11

MCCallees ==
  <<Callee(TRUE, FALSE, <<I8, S, I4>>, <<I8>>, <<In("ldarg", 1), In("ldarg", 3), I("conv.i8"), I("add"), I("ret")>>),
    Callee(TRUE, FALSE, <<<<"&", "I8">>, I8>>, <<>>, <<In("ldarg", 1), In("ldarg", 2), I("stind.i8"), I("ret")>>),
    Callee(FALSE, FALSE, <<C, I4>>, <<S>>, <<In("ldarg", 1), If("ldfld", 3, C), I("ret")>>),
    Callee(TRUE, FALSE, <<E>>, <<>>, <<In("ldarg", 1), I("throw")>>),
    Callee(FALSE, TRUE, <<O>>, <<I4>>, <<In("ldc.i4", 1), I("ret")>>),
    Callee(FALSE, TRUE, <<C>>, <<I4>>, <<In("ldarg", 1), If("ldfld", 1, C), I("ret")>>),
    Callee(FALSE, TRUE, <<<<"&", "I4">>>>, <<I4>>, <<In("ldarg", 1), I("ldind.i4"), I("ret")>>),
    Callee(FALSE, FALSE, <<C, I4>>, <<>>, <<In("ldarg", 1), In("ldarg", 2), If("stfld", 1, C), I("ret")>>),
    Callee(FALSE, FALSE, <<C>>, <<I4>>,
           <<In("ldarg", 1), In("callvirt", Hash), In("ldarg", 1), In("callvirt", Hash), I("add"), I("ret")>>),
    [Callee(TRUE, FALSE, <<E>>, <<>>,
            <<In("ldarg", 1), In("call", Thrower), Ib("leave", <<6>>), I("pop"), Ib("leave", <<6>>), I("ret")>>)
     EXCEPT !.clauses = <<Clause(1, 4, 4, 6, E)>>],
    Callee(FALSE, FALSE, <<<<"&", "S">>>>, <<I8>>, <<In("ldarg", 1), If("ldfld", 2, S), I("ret")>>)>>

MCOverrides ==
  [c \in DOMAIN MCCallees |-> IF c # Hash THEN <<>>
                              ELSE [t \in {C, <<"box", "I4">>} |-> IF t = C THEN HashOfC ELSE HashOfInt32]]

Calls ==
  NewMethod(<<I8, S, I4, C>>, <<>>, <<I8>>, {<<-300, 0, 1, 500, 0, -7, r>> : r \in {0, TheC}},
         Some("ldarg", 1 .. 4) \cup Some("ldarga", 1 .. 2) \cup Ops({"ret", "add"}) \cup {If("ldfld", 2, S)}
         \cup Some("call", {Mix, Set, Get, Second}), 7)

Objects ==
  [NewMethod(<<O, C, I4>>, <<>>, <<I4>>, {<<r, TheC, 6>> : r \in {0, TheC, TheE, Ref(5)}},
          Some("ldarg", 1 .. 3) \cup Ops({"ret", "dup", "add"}) \cup {In("newobj", NewC), If("ldfld", 1, C)}
          \cup Some("callvirt", {Hash, Twice}) \cup Some("call", {Hash, HashOfC}), 6)
   EXCEPT !.heap = Heap \o <<Region(<<"box", "I4">>, 0, <<-9>>)>>]

Unwinding ==
  [NewMethod(<<E, C>>, <<>>, <<>>, {<<TheE, r>> : r \in {0, TheC}},
          Some("ldarg", 1 .. 2) \cup Ops({"ret", "pop"}) \cup To("leave", {8})
          \cup Some("call", {Thrower, Safe, HashOfC}) \cup Some("callvirt", {Hash, Twice}), 9)
   EXCEPT !.clauses = <<Clause(1, 6, 6, 8, E)>>]

MCMethods ==
  [Arithmetic32 |-> Arithmetic32, Arithmetic64 |-> Arithmetic64, Mixed64 |-> Mixed64, Compare64 |-> Compare64,
   Moves |-> Moves, Paths |-> Paths, Conditions |-> Conditions, References |-> References,
   SmallArrays |-> SmallArrays, Arrays |-> Arrays, FieldsOf |-> FieldsOf, Pointers |-> Pointers,
   Boxes |-> Boxes, Catches |-> Catches, Casts |-> Casts, Overflow |-> Overflow,
   Calls |-> Calls, Objects |-> Objects, Unwinding |-> Unwinding]
=============================================================================

----------------------------- MODULE ClassModel -----------------------------
(***************************************************************************)
(* What type declarations mean: inheritance, overriding, implementation of *)
(* interfaces, sizes and assignability, defined on the declarations alone. *)
(* TypeSystem builds the tables of the runtime; here it is said what they  *)
(* must amount to.                                                         *)
(*                                                                         *)
(* A declaration is a record: kind ("class" or "interface"; a struct is a  *)
(* class that extends ValueType), generic (has a type parameter), known    *)
(* (filled by Type_Init), stackSize and instanceMemSize (preset sizes or   *)
(* 0), extends, interfaces, fields [type, static], methods [name, virtual, *)
(* newslot, params, returns], and impls: explicit implementations, where   *)
(* method body implements method of = <<interface, number>>.               *)
(***************************************************************************)
EXTENDS Integers, Sequences, SequencesExt

VARIABLE program   \* the declarations: the metadata of the program

(* The declarations every program begins with, known to Type.c, in the     *)
(* order in which Type_Init fills them.                                    *)
Object == 1
SystemArray == 2   \* types[TYPE_SYSTEM_ARRAY_NO_TYPE]
Int32 == 3
IListT == 4        \* stands for the three generic interfaces of arrays
Int64 == 5
ValueType == 6

PointerSize == 4

(* A reference to a type in a signature, and, without Var, a type. *)
Named(i) == [k |-> "named", id |-> i, of |-> <<>>]
ArrayOf(r) == [k |-> "array", id |-> 0, of |-> <<r>>]
Inst(c, r) == [k |-> "inst", id |-> c, of |-> <<r>>]
Var == [k |-> "var", id |-> 0, of |-> <<>>]

RECURSIVE Subst(_, _)
Subst(r, args) ==
  CASE r.k = "named" -> r
    [] r.k = "var" -> IF args = <<>> THEN Var ELSE args[1]
    [] OTHER -> [r EXCEPT !.of = <<Subst(r.of[1], args)>>]

(* An array type is a class below System.Array that adds no members. *)
DeclOf(type) ==
  IF type.k = "array"
  THEN [program[SystemArray] EXCEPT
          !.extends = <<Named(SystemArray)>>,
          !.methods = <<>>, !.fields = <<>>, !.interfaces = <<>>]
  ELSE program[type.id]
TypeArgs(type) == IF type.k = "inst" THEN type.of ELSE <<>>
In(type, r) == Subst(r, TypeArgs(type))

(* The type and the types it derives from, the root first. *)
RECURSIVE Lineage(_)
Lineage(type) ==
  IF DeclOf(type).extends = <<>> THEN <<type>>
  ELSE Append(Lineage(In(type, DeclOf(type).extends[1])), type)

IsValueTypeOf(type) ==
  /\ type.k # "array"
  /\ \E i \in DOMAIN Lineage(type) : Lineage(type)[i] = Named(ValueType)

OwnInterfaces(type) ==
  {In(type, r) : r \in ToSet(DeclOf(type).interfaces)}
    \cup IF type.k = "array" THEN {Inst(IListT, type.of[1])} ELSE {}

InterfacesOf(type) ==
  UNION {OwnInterfaces(Lineage(type)[i]) : i \in DOMAIN Lineage(type)}

-----------------------------------------------------------------------------
(* Methods.  A method is a pair: the type that declares it and its number. *)

Method(m) == DeclOf(m[1]).methods[m[2]]

Signature(m) ==
  LET Types(refs) == [i \in DOMAIN refs |-> In(m[1], refs[i])]
  IN <<Method(m).name, Types(Method(m).params), Types(Method(m).returns)>>

SameSignature(m, n) == Signature(m) = Signature(n)

(* Going down from the type that declares m: an override replaces it, and  *)
(* a new method of the same signature hides it from overrides below.       *)
Overriding(type, m) ==
  LET line == Lineage(type)
      below == SelectSeq(line, LAMBDA d : Len(Lineage(d)) > Len(Lineage(m[1])))
      Same(d) == {j \in DOMAIN DeclOf(d).methods :
                    DeclOf(d).methods[j].virtual /\ SameSignature(m, <<d, j>>)}
      Step(acc, d) ==
        IF acc.hidden \/ Same(d) = {} THEN acc
        ELSE LET j == CHOOSE x \in Same(d) : TRUE IN
             IF DeclOf(d).methods[j].newslot
             THEN [acc EXCEPT !.hidden = TRUE]
             ELSE [acc EXCEPT !.now = <<d, j>>]
  IN FoldLeft(Step, [now |-> m, hidden |-> FALSE], below).now

(* The method of a class that implements a method of an interface: the     *)
(* most derived class that names the interface decides, by an explicit     *)
(* implementation or by the nearest virtual method of the signature.       *)
Implementing(type, m) ==
  LET line == Lineage(type)
      Last0(P(_)) == CHOOSE i \in DOMAIN line :
                       P(line[i]) /\ \A j \in i + 1 .. Len(line) : ~P(line[j])
      decider == Last0(LAMBDA d : m[1] \in OwnInterfaces(d))
      Explicit(d) == {x \in ToSet(DeclOf(d).impls) : x.of = <<m[1].id, m[2]>>}
      Matching(d) == {j \in DOMAIN DeclOf(d).methods :
                        DeclOf(d).methods[j].virtual /\ SameSignature(m, <<d, j>>)}
      found == CHOOSE i \in 1 .. decider :
                 /\ Explicit(line[i]) # {} \/ Matching(line[i]) # {}
                 /\ \A j \in i + 1 .. decider :
                      Explicit(line[j]) = {} /\ Matching(line[j]) = {}
      d == line[found]
      body == IF Explicit(d) # {} THEN (CHOOSE x \in Explicit(d) : TRUE).body
              ELSE CHOOSE j \in Matching(d) : TRUE
  IN Overriding(type, <<d, body>>)

(* The nearest finalizer; Object's own does nothing and does not count.    *)
FinalizersOf(type) ==
  {m \in {<<Lineage(type)[i], j>> : i \in 2 .. Len(Lineage(type)), j \in 1 .. 9} :
     m[2] \in DOMAIN DeclOf(m[1]).methods /\ Method(m).name = "Finalize"}

-----------------------------------------------------------------------------
(* Sizes. *)

InstanceFields(type) == SelectSeq(DeclOf(type).fields, LAMBDA f : ~f.static)

RECURSIVE SizeOf(_), InstanceSize(_)

(* In a field, as a parameter and on the stack. *)
SizeOf(type) ==
  IF type.k # "array" /\ DeclOf(type).stackSize > 0 THEN DeclOf(type).stackSize
  ELSE IF IsValueTypeOf(type) THEN InstanceSize(type)
  ELSE PointerSize

InstanceSize(type) ==
  LET line == Lineage(type)
      AddField(n, f) == n + SizeOf(f)
      AddType(n, d) ==
        FoldLeft(AddField, n, [i \in DOMAIN InstanceFields(d) |->
                                 In(d, InstanceFields(d)[i].type)])
  IN IF DeclOf(type).instanceMemSize > 0 THEN DeclOf(type).instanceMemSize
     ELSE FoldLeft(AddType, 0, line)

-----------------------------------------------------------------------------
(* Casts: to a base type or an interface; between arrays, if their element *)
(* types are references and can be cast, or are the same.                  *)

SubtypeOf(from, to) == to \in ToSet(Lineage(from)) \cup InterfacesOf(from)

CastAllowed(to, from) ==
  IF to.k = "array" /\ from.k = "array"
  THEN \/ to = from
       \/ ~IsValueTypeOf(from.of[1]) /\ SubtypeOf(from.of[1], to.of[1])
  ELSE SubtypeOf(from, to)
=============================================================================

----------------------------- MODULE TypeSystem -----------------------------
(***************************************************************************)
(* Types: how MetaData_Fill_TypeDef builds a type from its declaration     *)
(* (parent, slots of virtual methods, layout, virtual table, interface     *)
(* maps), how array types and generic instances are made and cached, and   *)
(* how casts and virtual calls use the result.                             *)
(*                                                                         *)
(* Filling is recursive: on its way a type fills its parent and every type *)
(* its fields and methods mention.  A type is marked as filled when its    *)
(* filling begins, so a type that is reached again is used half built.     *)
(* What must not matter in the end is in which order a program touches its *)
(* types.                                                                  *)
(*                                                                         *)
(* A type is the number of its tMD_TypeDef; 0 is NULL.  A reference to a   *)
(* type in a signature is a record (see Ref).  Generic types have one      *)
(* parameter.                                                              *)
(***************************************************************************)
EXTENDS ClassModel

CONSTANTS Programs   \* the programs, and the types each of them touches

VARIABLES S,         \* the types built so far, see Type_Init
          uses       \* the types the program still has to touch

vars == <<program, S, uses>>

(* What is known of a type before it is filled. *)
NoMethod == <<0, 0>>
NoSlot == -1
NoField == [type |-> 0, offset |-> 0, size |-> 0]
NoMap == [interface |-> 0, lookup |-> <<>>]

NewType(decl, args) ==
  [decl |-> decl, args |-> args, elem |-> 0, pTypeDef |-> 0,
   isFilled |-> FALSE, isValueType |-> FALSE, isGenericDefinition |-> FALSE,
   pParent |-> 0, numVirtualMethods |-> 0, pVTable |-> <<>>,
   instanceMemSize |-> 0, stackSize |-> 0,
   fields |-> <<>>, paramSizes |-> <<>>, pInterfaceMaps |-> <<>>,
   pFinalizer |-> NoMethod]

(* A row of the TypeDef table, with the sizes Type_Init presets. *)
TableRow(i) ==
  [NewType(i, <<>>) EXCEPT
     !.isGenericDefinition = program[i].generic,
     !.stackSize = program[i].stackSize,
     !.instanceMemSize = program[i].instanceMemSize]

Decl(s, t) == program[s.td[t].decl]
Methods(s, t) == Decl(s, t).methods
IsInterface(s, t) == Decl(s, t).kind = "interface"

(* 1, ..., n and its reverse, for the loops of the code. *)
UpTo(n) == [i \in 1 .. n |-> i]
DownFrom(n) == [i \in 1 .. n |-> n + 1 - i]

(* The functions of the code that call each other.  Each takes the state   *)
(* of the type tables and returns the new one; those with a result return  *)
(* a pair.                                                                 *)
RECURSIVE MetaData_Fill_TypeDef_(_, _),
          Type_GetTypeFromSig(_, _, _),
          FindVirtualOverriddenMethod(_, _, _)

MetaData_Fill_TypeDef(s, t) ==
  IF s.td[t].isFilled THEN s ELSE MetaData_Fill_TypeDef_(s, t)

(* A call that leaves a state and returns a result, and what comes after.  *)
Bind(call, Then(_, _)) == Then(call[1], call[2])

(* Resolve a reference and fill what it refers to, if anything. *)
FillResult(call) ==
  IF call[2] = 0 THEN call ELSE <<MetaData_Fill_TypeDef(call[1], call[2]), call[2]>>
GetFilled(s, ref, args) == FillResult(Type_GetTypeFromSig(s, ref, args))

-----------------------------------------------------------------------------
(* Generic instances and array types: both are entered in their cache      *)
(* before they are built.                                                  *)

FindInstance(s, core, arg) ==
  {i \in DOMAIN s.insts : s.insts[i].core = core /\ s.insts[i].arg = arg}

EnterInstance(s, core, arg) ==
  LET t == Len(s.td) + 1
  IN [s EXCEPT !.td = Append(@, [NewType(core, <<arg>>) EXCEPT
                                   !.isGenericDefinition = (arg = 0), !.pTypeDef = t]),
               !.insts = Append(@, [core |-> core, arg |-> arg, type |-> t])]

FillNew(s) == <<MetaData_Fill_TypeDef_(s, Len(s.td)), Len(s.td)>>

GetInstance(s, core, arg) ==
  LET found == FindInstance(s, core, arg)
  IN IF found # {} THEN <<s, s.insts[CHOOSE i \in found : TRUE].type>>
     ELSE FillNew(EnterInstance(s, core, arg))

Generics_GetGenericTypeFromCoreType(s, core, arg) ==
  GetInstance(MetaData_Fill_TypeDef(s, core), core, arg)

InstanceOf(core, call) == Generics_GetGenericTypeFromCoreType(call[1], core, call[2])

Generics_GetGenericTypeFromSig(s, ref, args) ==
  InstanceOf(ref.id, GetFilled(MetaData_Fill_TypeDef(s, ref.id), ref.of[1], args))

(* A copy of System.Array as it is now, with a generic interface added;    *)
(* the instances of its generic methods have a parameter of type elem.     *)
CopyArray(s, t, elem) ==
  [s EXCEPT !.td[t] = [s.td[SystemArray] EXCEPT
     !.elem = elem, !.isFilled = TRUE, !.pInterfaceMaps = Append(@, NoMap)]]

SetLastMap(s, t, u) ==
  [s EXCEPT !.td[t].pInterfaceMaps[Len(s.td[t].pInterfaceMaps)].interface = u]

CreateNewArrayType(s, t, elem) ==
  MetaData_Fill_TypeDef(
    Bind(Generics_GetGenericTypeFromCoreType(
           CopyArray(MetaData_Fill_TypeDef(s, SystemArray), t, elem), IListT, elem),
         LAMBDA s1, u : SetLastMap(s1, t, u)),
    elem)

(* Mutant: a new array type is not entered in the list. *)
EnterArrayNot(s, elem, t) == s

EnterArray(s, elem, t) ==
  [s EXCEPT !.arrays = <<[elem |-> elem, type |-> t]>> \o @]

Type_GetArrayTypeDef(s, elem) ==
  LET found == {i \in DOMAIN s.arrays : s.arrays[i].elem = elem}
      t == Len(s.td) + 1
      s1 == EnterArray([s EXCEPT !.td = Append(@, NewType(0, <<>>))], elem, t)
  IN IF elem = 0 THEN <<s, SystemArray>>
     ELSE IF found # {} THEN <<s, s.arrays[CHOOSE i \in found : TRUE].type>>
     ELSE <<CreateNewArrayType(s1, t, elem), t>>

ArrayOfResult(call) == Type_GetArrayTypeDef(call[1], call[2])

Type_GetTypeFromSig(s, ref, args) ==
  CASE ref.k = "named" -> <<s, ref.id>>
    [] ref.k = "var" -> <<s, IF args = <<>> THEN 0 ELSE args[1]>>
    [] ref.k = "inst" -> Generics_GetGenericTypeFromSig(s, ref, args)
    [] ref.k = "array" ->
         ArrayOfResult(Type_GetTypeFromSig(s, ref.of[1], args))

-----------------------------------------------------------------------------
(* Which method a method overrides.  A method is a pair of the type it     *)
(* belongs to and its number in the declaration.                           *)

MethodOf(s, m) == Methods(s, m[1])[m[2]]

(* Two references of signatures, each in its type. *)
ResolveNext(acc, x) ==
  Bind(Type_GetTypeFromSig(acc[1], x[1], x[2]),
       LAMBDA s1, u : <<s1, Append(acc[2], u)>>)

SameType(acc, pair) ==
  IF ~acc[2] THEN acc
  ELSE Bind(FoldLeft(ResolveNext, <<acc[1], <<>>>>, pair),
            LAMBDA s1, types : <<s1, types[1] = types[2]>>)

(* Method m against entry e of the virtual table of type t, parameters and *)
(* return type: those of e are read with the type arguments of t.          *)
MetaData_CompareNameAndSig(s, m, e, t) ==
  LET Refs(x) == MethodOf(s, x).returns \o MethodOf(s, x).params
      Pair(i) == << <<Refs(m)[i], s.td[m[1]].args>>, <<Refs(e)[i], s.td[t].args>> >>
  IN IF \/ e = NoMethod
        \/ MethodOf(s, m).name # MethodOf(s, e).name
        \/ Len(MethodOf(s, m).params) # Len(MethodOf(s, e).params)
        \/ Len(Refs(m)) # Len(Refs(e))
     THEN <<s, FALSE>>
     ELSE FoldLeft(SameType, <<s, TRUE>>, [i \in DOMAIN Refs(m) |-> Pair(i)])

(* A type has the number of its virtual methods before it has their table: *)
(* who reads the table in between reads through NULL.                      *)
ReadVTable(s, t) ==
  [s EXCEPT !.nullRead = @ \/ Len(s.td[t].pVTable) < s.td[t].numVirtualMethods]

(* The slot of the last entry of the table of t with the signature of m.   *)
SearchVTable(s, t, m) ==
  FoldLeft(LAMBDA acc, k :
             IF acc[2] # NoSlot THEN acc
             ELSE Bind(MetaData_CompareNameAndSig(acc[1], m, s.td[t].pVTable[k], t),
                       LAMBDA s1, same : <<s1, IF same THEN k - 1 ELSE NoSlot>>),
           <<ReadVTable(s, t), NoSlot>>, DownFrom(Len(s.td[t].pVTable)))

OrAbove(call, t, m) ==
  IF call[2] # NoSlot THEN call ELSE FindVirtualOverriddenMethod(call[1], t, m)

(* The slot of the method that m overrides in t or above: an explicit      *)
(* implementation, or one with its signature. *)
FindVirtualOverriddenMethod(s, t, m) ==
  LET impls == SelectSeq(Decl(s, t).impls,
                         LAMBDA x : x.of = <<s.td[m[1]].decl, m[2]>>)
  IN IF t = 0 THEN <<s, NoSlot>>
     ELSE IF impls # <<>> THEN <<s, s.slot[s.td[t].decl][Last(impls).body]>>
     ELSE OrAbove(SearchVTable(s, t, m), s.td[t].pParent, m)

-----------------------------------------------------------------------------
(* The phases of MetaData_Fill_TypeDef_, in their order. *)

(* Its second use of the parent resolves the reference without type        *)
(* arguments, and may so build another instance of a generic parent.       *)
Type_IsValueType(s, t) ==
  IF IsInterface(s, t) THEN <<s, FALSE>>
  ELSE IF t = ValueType THEN <<s, TRUE>>
  ELSE IF t = Object THEN <<s, FALSE>>
  ELSE Bind(GetFilled(s, Decl(s, t).extends[1], <<>>),
            LAMBDA s1, u : <<s1, s1.td[u].isValueType>>)

Parent(s, t) ==
  IF Decl(s, t).extends = <<>> THEN <<s, 0>>
  ELSE Type_GetTypeFromSig(s, Decl(s, t).extends[1], s.td[t].args)

SetParent(call, t) == <<[call[1] EXCEPT !.td[t].pParent = call[2]], call[2]>>
SetValueType(call, t) == [call[1] EXCEPT !.td[t].isValueType = call[2]]

FillParent(s, t) ==
  SetValueType(Type_IsValueType(FillResult(SetParent(Parent(s, t), t))[1], t), t)

Inherited(s, t, what, none) ==
  IF s.td[t].pParent = 0 THEN none ELSE s.td[s.td[t].pParent][what]

(* Mutant: every virtual method gets a slot of its own. *)
SlotOfNew(s, t, i) == <<s, NoSlot>>

(* The slot of virtual method i of t, or NoSlot if it gets a new one. *)
SlotOf(s, t, i) ==
  IF Methods(s, t)[i].newslot \/ s.td[t].pParent = 0 THEN <<s, NoSlot>>
  ELSE FindVirtualOverriddenMethod(s, s.td[t].pParent, <<t, i>>)

(* Mutant: a derived class numbers its new methods from zero. *)
FirstSlotZero(s, t) == 0

FirstSlot(s, t) == Inherited(s, t, "numVirtualMethods", 0)

SetSlot(s, t, i, slot) == [s EXCEPT !.slot[s.td[t].decl][i] = slot]

AllocateSlots(s, t) ==
  Bind(FoldLeft(
         LAMBDA acc, i :
           IF ~Methods(s, t)[i].virtual THEN acc
           ELSE Bind(SlotOf(acc[1], t, i),
                     LAMBDA s1, slot :
                       IF slot = NoSlot THEN <<SetSlot(s1, t, i, acc[2]), acc[2] + 1>>
                       ELSE <<SetSlot(s1, t, i, slot), acc[2]>>),
         <<s, FirstSlot(s, t)>>, UpTo(Len(Methods(s, t)))),
       LAMBDA s1, n : [s1 EXCEPT !.td[t].numVirtualMethods = n])

PresetStackSize(s, t) ==
  IF s.td[t].stackSize = 0 /\ ~s.td[t].isValueType
  THEN [s EXCEPT !.td[t].stackSize = PointerSize] ELSE s

FirstField(s, t) == Inherited(s, t, "instanceMemSize", 0)

(* The instance fields (or the static ones) of t, one after the other.     *)
(* The size of a type whose size is not known yet is that of a pointer.    *)
MetaData_Fill_FieldDefs(s, t, static, first) ==
  LET decl == Decl(s, t).fields
      Size(known) == IF known > 0 THEN known ELSE PointerSize
      Place(s1, i, u, at, size) ==
        <<[s1 EXCEPT !.td[t].fields[i] = [type |-> u, offset |-> at, size |-> size]],
          at + size>>
  IN FoldLeft(LAMBDA acc, i :
                IF decl[i].static # static THEN acc
                ELSE Bind(GetFilled(acc[1], decl[i].type, s.td[t].args),
                          LAMBDA s1, u : Place(s1, i, u, acc[2], Size(s1.td[u].stackSize))),
              <<s, first>>, UpTo(Len(decl)))

FillInstanceFields(s, t) ==
  LET begun == [s EXCEPT !.td[t].fields = [i \in DOMAIN Decl(s, t).fields |-> NoField]]
      OrSize(known, size) == IF known = 0 THEN size ELSE known
      SetMemSize(s1, size) == [s1 EXCEPT !.td[t].instanceMemSize = OrSize(@, size)]
      SetStackSize(s1) == [s1 EXCEPT !.td[t].stackSize = OrSize(@, s1.td[t].instanceMemSize)]
  IN Bind(MetaData_Fill_FieldDefs(begun, t, FALSE, FirstField(s, t)),
          LAMBDA s1, size : SetStackSize(SetMemSize(s1, size)))

FillStaticFields(s, t) == MetaData_Fill_FieldDefs(s, t, TRUE, 0)[1]

CopyVTable(s, t) ==
  IF s.td[t].pParent = 0 THEN s ELSE ReadVTable(s, s.td[t].pParent)

(* The table of the parent with the methods of t. *)
SetVTable(s, t) ==
  LET own == Methods(s, t)
      slot == s.slot[s.td[t].decl]
      from == Inherited(s, t, "pVTable", <<>>)
      Entry(k) ==
        LET here == {i \in DOMAIN own : own[i].virtual /\ slot[i] = k - 1}
        IN IF here # {} THEN <<t, CHOOSE i \in here : \A j \in here : i >= j>>
           ELSE IF k <= Len(from) THEN from[k] ELSE NoMethod
  IN [CopyVTable(s, t) EXCEPT !.td[t].pVTable = [k \in 1 .. s.td[t].numVirtualMethods |-> Entry(k)]]

RECURSIVE InheritedFinalizer(_, _)
InheritedFinalizer(s, t) ==
  CASE t = 0 -> NoMethod
    [] t # 0 /\ s.td[t].pFinalizer # NoMethod -> s.td[t].pFinalizer
    [] OTHER -> InheritedFinalizer(s, s.td[t].pParent)

(* Object's own finalizer is left out. *)
SetFinalizer(s, t) ==
  LET own == {i \in DOMAIN Methods(s, t) : Methods(s, t)[i].name = "Finalize"}
      parent == s.td[t].pParent
  IN [s EXCEPT !.td[t].pFinalizer =
        IF own # {} /\ parent # 0 THEN <<t, CHOOSE i \in own : TRUE>>
        ELSE InheritedFinalizer(s, parent)]

(* Mutant: the type of a parameter is looked up but not filled. *)
ParamTypeUnfilled(s, ref, args) == Type_GetTypeFromSig(s, ref, args)

ParamType(s, ref, args) == GetFilled(s, ref, args)

(* The return type and the parameters of every method, and their sizes. *)
FillParams(s, t, refs) ==
  FoldLeft(LAMBDA acc, ref :
             Bind(ParamType(acc[1], ref, s.td[t].args),
                  LAMBDA s1, u :
                    <<s1, Append(acc[2], [type |-> u, size |-> s1.td[u].stackSize])>>),
           <<s, <<>>>>, refs)

MetaData_Fill_MethodDefs(s, t) ==
  FoldLeft(LAMBDA s0, m :
             Bind(FillParams(s0, t, m.returns \o m.params),
                  LAMBDA s1, sizes :
                    [s1 EXCEPT !.td[t].paramSizes =
                       Append(@, SubSeq(sizes, Len(m.returns) + 1, Len(sizes)))]),
           s, Methods(s, t))

(* Mutant: a derived class starts without the maps of its parent. *)
InheritedMapsNone(s, t) == <<>>

InheritedMaps(s, t) == Inherited(s, t, "pInterfaceMaps", <<>>)

(* The maps of the parent, then one for each interface of the declaration: *)
(* for each method of the interface, the slot that implements it.          *)
Lookup(s, t, m, method) ==
  Bind(FindVirtualOverriddenMethod(s, t, method),
       LAMBDA s1, slot : [s1 EXCEPT !.td[t].pInterfaceMaps[m].lookup = Append(@, slot)])

SetLookups(call, t, m) ==
  FoldLeft(LAMBDA s, i : Lookup(s, t, m, s.td[call[2]].pVTable[i]),
           [ReadVTable(call[1], call[2]) EXCEPT !.td[t].pInterfaceMaps[m].interface = call[2]],
           UpTo(Len(call[1].td[call[2]].pVTable)))

MapInterfaces(s, t) ==
  LET refs == Decl(s, t).interfaces
      before == InheritedMaps(s, t)
  IN IF IsInterface(s, t) THEN s
     ELSE FoldLeft(LAMBDA acc, k :
                     SetLookups(GetFilled(acc, refs[k], s.td[t].args), t, Len(before) + k),
            [s EXCEPT !.td[t].pInterfaceMaps = before \o [k \in DOMAIN refs |-> NoMap]],
            UpTo(Len(refs)))

(* A generic definition gets no more than its parent. *)
FillMembers(s, t) ==
  IF s.td[t].isGenericDefinition THEN s
  ELSE MapInterfaces(MetaData_Fill_MethodDefs(SetFinalizer(SetVTable(
         FillStaticFields(FillInstanceFields(PresetStackSize(AllocateSlots(
           s, t), t), t), t), t), t), t), t)

MetaData_Fill_TypeDef_(s, t) ==
  FillMembers(FillParent(
    [s EXCEPT !.td[t].isFilled = TRUE, !.td[t].pTypeDef = t], t), t)

-----------------------------------------------------------------------------
(* The interpreter's use of types. *)

RECURSIVE Type_IsDerivedFromOrSame(_, _, _)
Type_IsDerivedFromOrSame(s, base, t) ==
  /\ t # 0
  /\ \/ t = base
     \/ s.td[t].pTypeDef = s.td[base].pTypeDef
     \/ Type_IsDerivedFromOrSame(s, base, s.td[t].pParent)

Type_IsImplemented(s, interface, t) ==
  \E i \in DOMAIN s.td[t].pInterfaceMaps :
    s.td[t].pInterfaceMaps[i].interface = interface

Type_IsAssignableFrom(s, to, from) ==
  \/ Type_IsDerivedFromOrSame(s, to, from)
  \/ IsInterface(s, to) /\ Type_IsImplemented(s, to, from)

IsArray(s, t) == s.td[t].elem # 0

(* Mutant: arrays of value types are covariant too. *)
CastSucceedsCovariant(s, to, from) ==
  IF IsArray(s, from) /\ IsArray(s, to)
  THEN Type_IsAssignableFrom(s, s.td[to].elem, s.td[from].elem)
  ELSE Type_IsAssignableFrom(s, to, from)

(* JIT_CAST_CLASS, JIT_IS_INSTANCE of an object of type from. *)
CastSucceeds(s, to, from) ==
  IF IsArray(s, from) /\ IsArray(s, to)
  THEN LET e == s.td[from].elem
           f == s.td[to].elem
       IN IF s.td[e].isValueType THEN e = f ELSE Type_IsAssignableFrom(s, f, e)
  ELSE Type_IsAssignableFrom(s, to, from)

(* Mutant: the maps are searched from the first. *)
InterfaceMapFirst(s, t, interface) ==
  LET maps == s.td[t].pInterfaceMaps
  IN {i \in DOMAIN maps :
       /\ maps[i].interface = interface
       /\ \A j \in 1 .. i - 1 : maps[j].interface # interface}

(* The last map of the interface: "the most recent definition gets called". *)
InterfaceMap(s, t, interface) ==
  LET maps == s.td[t].pInterfaceMaps
  IN {i \in DOMAIN maps :
       /\ maps[i].interface = interface
       /\ \A j \in i + 1 .. Len(maps) : maps[j].interface # interface}

(* JIT_CALLVIRT_O of method m on an object of type t: the method called.   *)
(* It is NoMethod where the code would read outside a table.               *)
CallVirt(s, m, t) ==
  LET slot == s.slot[s.td[m[1]].decl][m[2]]
      through == InterfaceMap(s, t, m[1])
      At(ofs) == IF ofs + 1 \in DOMAIN s.td[t].pVTable
                 THEN s.td[t].pVTable[ofs + 1] ELSE NoMethod
  IN IF ~IsInterface(s, m[1]) THEN At(slot)
     ELSE IF through = {} THEN NoMethod
     ELSE At(s.td[t].pInterfaceMaps[CHOOSE i \in through : TRUE].lookup[slot + 1])

-----------------------------------------------------------------------------
Init ==
  \E p \in Programs :
    /\ program = p.types
    /\ uses = p.uses
    /\ S = [td |-> [i \in DOMAIN p.types |-> TableRow(i)],
            slot |-> [i \in DOMAIN p.types |->
                        [j \in DOMAIN p.types[i].methods |-> NoSlot]],
            arrays |-> <<>>, insts |-> <<>>, nullRead |-> FALSE]

Started == S.td[Object].isFilled

(* At the start the known types are filled. *)
Type_Init ==
  /\ ~Started
  /\ S' = FoldLeft(MetaData_Fill_TypeDef, S,
                   SelectSeq(UpTo(Len(program)), LAMBDA i : program[i].known))
  /\ UNCHANGED <<program, uses>>

(* The program touches a type: a token is resolved when a method that      *)
(* mentions it is translated.  A read through NULL is its end.             *)
Touch(ref) ==
  /\ Started /\ ~S.nullRead
  /\ ref \in uses
  /\ S' = GetFilled(S, ref, <<>>)[1]
  /\ uses' = uses \ {ref}
  /\ UNCHANGED program

Next == Type_Init \/ \E ref \in uses : Touch(ref)

Spec == Init /\ [][Next]_vars

-----------------------------------------------------------------------------
(* Properties *)

TypeDefs == DOMAIN S.td

(* The types an object can have or a variable can be declared with.        *)
Built == {t \in TypeDefs : S.td[t].isFilled /\ ~S.td[t].isGenericDefinition}
Classes == {t \in Built : ~IsInterface(S, t)}

RECURSIVE TermOf(_)
TermOf(t) ==
  IF t = 0 THEN Var
  ELSE IF S.td[t].elem # 0 THEN ArrayOf(TermOf(S.td[t].elem))
  ELSE IF S.td[t].args # <<>> THEN Inst(S.td[t].decl, TermOf(S.td[t].args[1]))
  ELSE Named(S.td[t].decl)

MethodTerm(m) == <<TermOf(m[1]), m[2]>>

VirtualMethods(t) ==
  {<<t, i>> : i \in {j \in DOMAIN Methods(S, t) : Methods(S, t)[j].virtual}}

TypeOK ==
  /\ ~S.nullRead
  /\ \A t \in TypeDefs :
       /\ S.td[t].decl \in DOMAIN program
       /\ S.td[t].pParent \in {0} \cup TypeDefs
       /\ S.td[t].elem \in {0} \cup TypeDefs
       /\ S.td[t].instanceMemSize \in Nat /\ S.td[t].stackSize \in Nat
  /\ \A t \in Built : \A m \in VirtualMethods(t) :
       S.slot[S.td[t].decl][m[2]] \in 0 .. S.td[t].numVirtualMethods - 1
  /\ \A t \in Built : \A k \in 1 .. S.td[t].numVirtualMethods :
       S.td[t].pVTable[k] # NoMethod
  /\ \A x \in ToSet(S.arrays) : {x.elem, x.type} \subseteq TypeDefs
  /\ \A x \in ToSet(S.insts) : x.core \in DOMAIN program /\ x.type \in TypeDefs

(* The collector queues an object whose type has a finalizer: it is the    *)
(* nearest one, also when the class does not declare it itself.            *)
NearestFinalizer(t) ==
  LET f == S.td[t].pFinalizer
      all == FinalizersOf(TermOf(t))
  IN IF all = {} THEN f = NoMethod
     ELSE /\ MethodTerm(f) \in all
          /\ \A m \in all : Len(Lineage(m[1])) <= Len(Lineage(TermOf(f[1])))

(* Whatever the order in which a program touches its types, a virtual call *)
(* on an object of a class calls the method that overriding and hiding     *)
(* select for that class, and so does the call of its finalizer.           *)
VirtualCallsDispatch ==
  \A t \in Classes : NearestFinalizer(t) /\ \A a \in {c \in Classes : ~IsArray(S, c)} :
    TermOf(a) \in ToSet(Lineage(TermOf(t))) =>
      \A m \in VirtualMethods(a) :
        MethodTerm(CallVirt(S, m, t)) = Overriding(TermOf(t), MethodTerm(m))

(* A call through an interface reaches the method that implements it, for  *)
(* interfaces inherited, implemented again or implemented explicitly.      *)
InterfaceCallsDispatch ==
  \A t \in Classes : \A a \in Built \ Classes :
    TermOf(a) \in InterfacesOf(TermOf(t)) /\ ~IsArray(S, t) =>
      \A m \in VirtualMethods(a) :
        MethodTerm(CallVirt(S, m, t)) = Implementing(TermOf(t), MethodTerm(m))

(* The layout of every type is the one its declaration gives, whichever    *)
(* type was touched first: fields lie behind those of the parent and do    *)
(* not overlap, and each has the size of its type.  So has every parameter *)
(* that is passed by size, although methods are filled while types they    *)
(* mention are not yet finished.                                           *)
LayoutAsDeclared ==
  /\ \A t \in Classes :
       LET type == TermOf(t)
           decl == Decl(S, t).fields
           start == IF S.td[t].pParent = 0 THEN 0
                    ELSE InstanceSize(TermOf(S.td[t].pParent))
           Size(i) == IF decl[i].static THEN 0 ELSE SizeOf(In(type, decl[i].type))
       IN /\ S.td[t].instanceMemSize = InstanceSize(type)
          /\ \A i \in DOMAIN decl :
               /\ S.td[t].fields[i].size = SizeOf(In(type, decl[i].type))
               /\ ~decl[i].static =>
                    S.td[t].fields[i].offset =
                      FoldLeft(LAMBDA n, j : n + Size(j), start, UpTo(i - 1))
  /\ \A t \in Built : \A i \in DOMAIN S.td[t].paramSizes :
       \A p \in ToSet(S.td[t].paramSizes[i]) : p.size = SizeOf(TermOf(p.type))

(* Types are compared by address: however an array type or an instance is  *)
(* reached, also while it is being built, there is one of each.            *)
OneTypePerTerm ==
  \A t, u \in TypeDefs : TermOf(t) = TermOf(u) => t = u

(* The types for which casts behave: arrays of arrays are left out, since  *)
(* all array types share the pTypeDef that Type_IsDerivedFromOrSame        *)
(* compares.                                                               *)
Simple(t) == ~(IsArray(S, t) /\ IsArray(S, S.td[t].elem))

(* A cast or a type test succeeds for subtypes and arrays of them only.    *)
CastsAgree ==
  \A to, from \in Built :
    Simple(to) /\ Simple(from) /\ ~IsInterface(S, from) /\ from # SystemArray =>
      (CastSucceeds(S, to, from) <=> CastAllowed(TermOf(to), TermOf(from)))

=============================================================================

---------------------------- MODULE MCTypeSystem ----------------------------
EXTENDS TypeSystem

Class(extends, interfaces, fields, methods) ==
  [kind |-> "class", generic |-> FALSE, known |-> FALSE,
   stackSize |-> 0, instanceMemSize |-> 0,
   extends |-> <<Named(extends)>>, interfaces |-> interfaces,
   fields |-> fields, methods |-> methods, impls |-> <<>>]

Interface(methods) ==
  [Class(Object, <<>>, <<>>, methods) EXCEPT !.kind = "interface", !.extends = <<>>]

Generic(d, base) == [d EXCEPT !.generic = TRUE, !.extends = <<base>>]
Preset(d, stack, mem) ==
  [d EXCEPT !.known = TRUE, !.stackSize = stack, !.instanceMemSize = mem]

Field(type) == [type |-> type, static |-> FALSE]
Static(type) == [type |-> type, static |-> TRUE]

Plain(name, params) ==
  [name |-> name, virtual |-> FALSE, newslot |-> FALSE,
   params |-> params, returns |-> <<>>]
Virtual(name, params) == [Plain(name, params) EXCEPT !.virtual = TRUE, !.newslot = TRUE]
Override(name, params) == [Plain(name, params) EXCEPT !.virtual = TRUE]
Returning(m, type) == [m EXCEPT !.returns = <<type>>]

int == Named(Int32)
long == Named(Int64)

Core ==
  << [Preset(Class(Object, <<>>, <<>>, <<Override("Finalize", <<>>),
        Override("Equals", <<Named(Object)>>)>>), 4, 0) EXCEPT !.extends = <<>>],
     Preset(Class(Object, <<>>, <<>>, <<Virtual("Length", <<>>)>>), 4, 0),
     Preset(Class(ValueType, <<>>, <<>>, <<Override("Equals", <<Named(Object)>>)>>), 4, 4),
     [Preset(Interface(<<Virtual("Add", <<Var>>)>>), 4, 0) EXCEPT !.generic = TRUE],
     Preset(Class(ValueType, <<>>, <<>>, <<>>), 8, 8),
     Preset(Class(Object, <<>>, <<>>, <<Override("Equals", <<Named(Object)>>)>>), 0, 0) >>

(* Overriding, hiding, a method that refers to its own class, fields of    *)
(* different sizes, finalizers inherited and declared.                     *)
Hiding ==
  [types |-> Core \o
     << Class(Object, <<>>, <<Field(int), Field(Named(7)), Static(long)>>,
          <<Virtual("f", <<int>>), Virtual("g", <<Named(7)>>),
            Plain("h", <<>>), Override("Finalize", <<>>)>>),
        Class(7, <<>>, <<Field(long)>>,
          <<Override("f", <<int>>), Virtual("g", <<Named(7)>>), Virtual("f", <<long>>)>>),
        Class(8, <<>>, <<Static(Named(9)), Field(Named(7))>>,
          <<Override("g", <<Named(7)>>), Override("f", <<int>>),
            Override("Finalize", <<>>)>>),
        Class(8, <<>>, <<Field(int)>>, <<Override("Equals", <<Named(Object)>>)>>) >>,
   uses |-> {Named(i) : i \in 7 .. 10} \cup {ArrayOf(Named(8)), ArrayOf(Named(7))}]

(* Interfaces inherited, implemented again, implemented explicitly. *)
Interfaces ==
  [types |-> Core \o
     << Interface(<<Virtual("m", <<int>>)>>),
        Interface(<<Virtual("m", <<int>>), Virtual("n", <<Named(7)>>)>>),
        Class(Object, <<Named(7)>>, <<Field(Named(8))>>,
          <<Virtual("m", <<int>>), Virtual("k", <<>>)>>),
        Class(9, <<Named(8)>>, <<>>,
          <<Virtual("n", <<Named(7)>>), Override("m", <<int>>)>>),
        [Class(10, <<Named(7)>>, <<>>, <<Virtual("I.m", <<int>>), Virtual("m", <<int>>)>>)
           EXCEPT !.impls = <<[of |-> <<7, 1>>, body |-> 1]>>],
        Class(11, <<Named(7)>>, <<>>, <<Override("m", <<int>>)>>) >>,
   uses |-> {Named(i) : i \in 7 .. 12} \cup {ArrayOf(Named(7)), ArrayOf(Named(9))}]

(* A generic class that implements a generic interface, holds an array of  *)
(* its parameter, and is derived from, by classes and generic classes.     *)
Generics ==
  [types |-> Core \o
     << Generic(Class(Object, <<Inst(IListT, Var)>>,
          <<Field(Var), Field(ArrayOf(Var)), Field(int)>>,
          <<Virtual("Add", <<Var>>), Returning(Virtual("Get", <<int>>), Var)>>),
          Named(Object)),
        [Class(Object, <<>>, <<Field(long)>>, <<Override("Add", <<int>>)>>)
           EXCEPT !.extends = <<Inst(7, int)>>],
        Generic(Class(Object, <<>>, <<Field(Var)>>, <<Override("Add", <<ArrayOf(Var)>>)>>),
          Inst(7, ArrayOf(Var))),
        [Class(Object, <<Inst(IListT, long)>>, <<>>,
           <<Returning(Override("Get", <<int>>), ArrayOf(int)), Virtual("Add", <<long>>)>>)
           EXCEPT !.extends = <<Inst(9, int)>>] >>,
   uses |-> {Inst(7, int), Inst(9, long), Named(8), Named(10), ArrayOf(int),
             ArrayOf(Named(8)), Inst(7, ArrayOf(int))}]

(* Value types that contain each other, and arrays of them. *)
Structs ==
  [types |-> Core \o
     << Class(ValueType, <<>>, <<Field(int), Field(long), Static(Named(7))>>,
          <<Plain("Plus", <<Named(7)>>)>>),
        Class(ValueType, <<>>, <<Field(Named(7)), Field(ArrayOf(Named(7)))>>,
          <<Override("Equals", <<Named(Object)>>)>>),
        Class(Object, <<>>, <<Field(Named(8)), Field(Named(7))>>,
          <<Virtual("Set", <<Named(8), long, Named(7)>>)>>),
        Class(9, <<>>, <<Field(ArrayOf(Named(8))), Field(long)>>,
          <<Override("Set", <<Named(8), long, Named(7)>>)>>) >>,
   uses |-> {Named(i) : i \in 7 .. 10} \cup
            {ArrayOf(Named(8)), ArrayOf(int), ArrayOf(Named(Object)),
             ArrayOf(ArrayOf(int))}]

MCPrograms == {Hiding, Interfaces, Generics, Structs}

=============================================================================

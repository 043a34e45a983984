--------------------------- MODULE ClassHierarchy ---------------------------
(* java_bridge/jclass.lua and jmethod_id.lua: which members of a class and its
   superclasses the bridge finds by name, and when two methods are the same to it.
   args and ret are the signature. *)
EXTENDS JavaTypes

CONSTANTS Declared,   \* of each class: its methods in the virtual machine's order
          Fields      \* of each class: its fields

Methods == UNION {Range(Declared[c]) : c \in Classes}

\* Lines are counted from 1.
LineTables == Seq([location : Nat, line : Nat \ {0}])

\* A class has one method of a name and signature.
ASSUME MembersAssumption ==
  \A c \in Classes :
    /\ Declared[c] \in Seq([class : {c}, name : STRING, args : Seq(Types), ret : Types \cup {Void},
                            static : BOOLEAN, code : BOOLEAN, lines : LineTables])
    /\ \A m \in Range(Declared[c]) :
         /\ m.name = "<init>" => m.ret = Void
         /\ \A n \in Range(Declared[c]) :
              m.name = n.name /\ m.args = n.args /\ m.ret = n.ret => m = n

ASSUME FieldsAssumption ==
  \A c \in Classes :
    Fields[c] \in Seq([class : {c}, name : STRING, type : Types, static : BOOLEAN])

\* Slip: overloads of a method are the same method.
SameName(a, b) == a.raw.name = b.raw.name /\ a.class = b.class

\* A jmethod_id
MethodIds == [raw : Methods, class : Classes]

\* jmethod_id.__eq: class is the class the method was looked for in.
SameMethod(a, b) ==
  /\ a.raw.name = b.raw.name
  /\ a.raw.args = b.raw.args /\ a.raw.ret = b.raw.ret
  /\ a.class = b.class

\* The elements of s that are in S, in their order
Only(s, S) == FlattenSeq([i \in DOMAIN s |-> IF s[i] \in S THEN <<s[i]>> ELSE <<>>])

\* The methods a class declares, then those of the interfaces it names.
WithInterfaces(c) ==
  Declared[c] \o FlattenSeq([i \in DOMAIN Interfaces[c] |-> Declared[Interfaces[c][i]]])

\* What a method is called in Lua
LuaName(m) == IF m.name = "<init>" THEN "new" ELSE m.name

Names == {LuaName(m) : m \in Methods} \cup {f.name : f \in UNION {Range(Fields[c]) : c \in Classes}}

\* jclass:find_methods, of each class and name
FindMethods ==
  [c \in Classes |-> [name \in Names |->
     LET all == FlattenSeq([i \in DOMAIN SuperChain[c] |-> WithInterfaces(SuperChain[c][i])])
         hits == Only(all, {m \in Methods : LuaName(m) = name})
     IN  [i \in DOMAIN hits |-> [raw |-> hits[i], class |-> c]]]]

\* jclass:find_field, of the superclasses only: the constants of interfaces are not found.
FindField(c, name) ==
  LET all == FlattenSeq([i \in DOMAIN SuperChain[c] |-> Fields[SuperChain[c][i]]])
      hits == Only(all, {f \in Range(all) : f.name = name})
  IN  IF hits = <<>> THEN Nil ELSE Head(hits)

HasField(c, name) == FindField(c, name) # Nil

\* JNI's GetMethodID and GetStaticMethodID: the nearest of the superclasses'
\* methods, then any interface's; a constructor only of the class itself.
GetMethodID(c, name, args, ret) ==
  LET fitting == {m \in Methods : /\ m.name = name /\ m.args = args /\ m.ret = ret
                                  /\ name = "<init>" => m.class = c}
      own == Only(FlattenSeq([i \in DOMAIN SuperChain[c] |-> Declared[SuperChain[c][i]]]), fitting)
  IN  IF own # <<>> THEN {Head(own)} ELSE {m \in fitting : m.class \in Ancestors[c]}

\* jmethod_id.find, of a method that is written with its class: nothing or one.
FindMethod(c, name, args, ret) ==
  {[raw |-> m, class |-> c] : m \in GetMethodID(c, name, args, ret)}
===========================================================================

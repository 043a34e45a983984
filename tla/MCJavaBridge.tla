---------------------------- MODULE MCJavaBridge ----------------------------
(* Classes, members, arrays and typed values for TLC.  Widths are scaled down. *)
EXTENDS JavaBridge

CONSTANTS Itf, Base, Sub   \* an interface, a class that implements it, a subclass

Program == {Itf, Base, Sub, ObjectClass, StringClass, IntegerClass, DoubleClass, ClassClass}
Supers == [c \in Program |-> CASE c \in {Itf, ObjectClass} -> Nil
                               [] c = Sub -> Base
                               [] OTHER -> ObjectClass]
Implements == [c \in Program |-> IF c = Base THEN <<Itf>> ELSE <<>>]
Halves == [p \in Numeric |->
             CASE p \in {"B", "C"} -> 2 [] p \in {"S", "I"} -> 4 [] OTHER -> 32]

Method(c, name, args, ret, static, lines) ==
  [class |-> c, name |-> name, args |-> args, ret |-> ret, static |-> static, code |-> TRUE,
   lines |-> [i \in DOMAIN lines |-> [location |-> 2 * (i - 1), line |-> lines[i]]]]
Abstract(c, name, args, ret) ==
  [class |-> c, name |-> name, args |-> args, ret |-> ret, static |-> FALSE, code |-> FALSE,
   lines |-> <<>>]
Field(c, name, type, static) == [class |-> c, name |-> name, type |-> type, static |-> static]

B == Type("B")
I == Type("I")
Z == Type("Z")
S == Type(StringClass)
ArrayOf(t, n) == [t EXCEPT !.dims = n]

DeclaredMethods ==
  [c \in Program |->
     CASE c = Itf -> <<Abstract(Itf, "run", <<>>, Void)>>
       [] c = Base -> <<Method(Base, "run", <<>>, Void, FALSE, <<10, 12, 14>>),
                        Method(Base, "run", <<ArrayOf(I, 1)>>, B, FALSE, <<20, 22, 21>>),
                        Method(Base, "set", <<I, Z>>, Z, FALSE, <<30>>),
                        Method(Base, "set", <<S, I>>, I, TRUE, <<40>>),
                        Method(Base, "set", <<ArrayOf(I, 2)>>, ArrayOf(Type(Itf), 1), FALSE, <<50>>),
                        Method(Base, "size", <<>>, I, FALSE, <<60>>),
                        Method(Base, "toString", <<>>, S, FALSE, <<62>>),
                        Method(Base, "toString", <<I, I>>, Type(ObjectClass), TRUE, <<64>>),
                        Method(Base, "<init>", <<>>, Void, FALSE, <<66>>)>>
       [] c = Sub -> <<Method(Sub, "<init>", <<Type(Base)>>, Void, FALSE, <<70>>),
                       Method(Sub, "set", <<Type(Itf), Type("J")>>, Type("J"), FALSE, <<80>>)>>
       [] c = ClassClass -> <<Abstract(ClassClass, "getName", <<>>, S)>>
       [] OTHER -> <<>>]
DeclaredFields ==
  [c \in Program |->
     CASE c = Base -> <<Field(Base, "size", I, FALSE), Field(Base, "next", Type(Itf), TRUE),
                       Field(Base, "last", Type("J"), FALSE)>>
       [] c = Sub -> <<Field(Sub, "next", ArrayOf(I, 1), FALSE)>>
       [] OTHER -> <<>>]

AnObject(c) == [kind |-> "object", class |-> c]
AClass(c) == [kind |-> "class", class |-> c]
Called == {AnObject(Sub), AClass(Sub)}

Runs == {m \in Methods : m.name = "run"}
one == Number(1)
sub == Object(Type(Sub))
TypedArgs == {<<>>, <<Object(ArrayOf(I, 1))>>, <<JavaNull>>, <<sub>>, <<one, Boolean(TRUE)>>,
              <<one, one>>, <<Number(5), JavaNull>>, <<String, Number(5)>>, <<nil, one>>, <<sub, one>>,
              <<sub, sub>>, <<JavaNull, sub>>}

JavaGiven == {JavaNull, sub, Object(S), Object(ArrayOf(I, 1)), Object(ArrayOf(Type(Base), 1)),
              Number(0), Number(-2), Number(3), Number(11), Number(-21), Number(31), Boolean(TRUE), Boolean(FALSE)}

TheArrays == {"bytes", "objects"}
ArrayTypes == [a \in TheArrays |-> IF a = "bytes" THEN ArrayOf(Type("B"), 1) ELSE ArrayOf(Type(Itf), 1)]
Lengths == [a \in TheArrays |-> IF a = "bytes" THEN 2 ELSE 1]
Stored == {one, Number(2), String, nil, sub, Object(Type(ObjectClass))}
===========================================================================

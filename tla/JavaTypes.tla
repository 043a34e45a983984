----------------------------- MODULE JavaTypes -----------------------------
(* Java's types and values as the bridge of java_bridge/ and lua_java.c sees
   them, and how a value of Lua becomes one of Java.

   A type is [dims, base]: an element type, a primitive of Java by its letter or
   a class, and the number of array dimensions over it.  A Lua value is a record
   of one field named for its kind.  What a value is beyond its type is left out
   for objects and strings; a number is a whole number.  F and D are left out,
   their values are passed on as they are. *)
EXTENDS Integers, SequencesExt

CONSTANTS Classes,      \* the classes and interfaces of the program
          Super,        \* the superclass of each, or Nil
          Interfaces,   \* the interfaces each names in its declaration, in that order
          Half,         \* of each numeric primitive: half the number of its values
          Precision,    \* 2^53: a number of Lua, a double, is any whole number up to it
          ObjectClass, StringClass, IntegerClass, DoubleClass, ClassClass, Nil

Unsigned == "C"
Numeric == {"B", "C", "S", "I", "J"}
Primitives == Numeric \cup {"Z"}

\* What lies between two doubles up to 2^63, the last a jlong may come to.
Units == {1, 2, 4, 8, 16, 32, 64, 128, 256, 512, 1024}

\* What parse_arg_spec makes of "[[" is no type.
TwoBrackets == [dims |-> 0, base |-> "[["]

\* No class is above itself.
ASSUME TypesAssumption ==
  /\ {ObjectClass, StringClass, IntegerClass, DoubleClass, ClassClass} \subseteq Classes
  /\ Nil \notin Classes
  /\ Super \in [Classes -> Classes \cup {Nil}]
  /\ Interfaces \in [Classes -> Seq(Classes)]
  /\ \A S \in SUBSET Classes : S # {} => \E c \in S : Super[c] \notin S
  /\ Half \in [Numeric -> Nat \ {0}]
  /\ Precision \in Nat
  /\ \A p \in Numeric \ {"J"} : 2 * Half[p] <= Precision
  /\ Half["J"] <= 1024 * Precision
  /\ Classes \cap (Primitives \cup {"V", "[["}) = {}

VARIABLE outcome   \* history: what the last line typed came to

Type(base) == [dims |-> 0, base |-> base]
Types == [dims : Nat, base : Classes \cup Primitives]
Void == Type("V")

Number(n) == [number |-> n]
Boolean(b) == [boolean |-> b]
String == [string |-> StringClass]
Object(t) == [object |-> t]
JavaNull == [null |-> Nil]
nil == [none |-> Nil]

IsNumber(v) == DOMAIN v = {"number"}
IsBoolean(v) == DOMAIN v = {"boolean"}
IsString(v) == DOMAIN v = {"string"}
IsObject(v) == DOMAIN v = {"object"}

\* The double a whole number becomes: the nearest, of two the even one.
ToDouble(n) ==
  LET u == Min({d \in Units : n \in (-Precision * d)..(Precision * d)})
      q == n \div u
      r == n % u
  IN  u * (IF 2 * r < u \/ (2 * r = u /\ q % 2 = 0) THEN q ELSE q + 1)

\* What variables of Java hold, and those of Lua
Data == [number : Int] \cup [boolean : BOOLEAN] \cup [object : Types] \cup {JavaNull}
LuaValues == [number : {n \in Int : ToDouble(n) = n}] \cup [boolean : BOOLEAN]
               \cup [object : Types] \cup {JavaNull, String, nil}

---------------------------------------------------------------------------
(* Classes *)

\* A class, its superclass, and so on up.
SuperChain[c \in Classes] ==
  IF Super[c] = Nil THEN <<c>> ELSE <<c>> \o SuperChain[Super[c]]

\* A class with all that it extends and implements: the least set with it and the
\* superclass and the interfaces of what is in it.
Upward(S) == \A c \in S : Super[c] \in S \cup {Nil} /\ Range(Interfaces[c]) \subseteq S

Ancestors ==
  [c \in Classes |-> {d \in Classes : \A S \in SUBSET Classes : c \in S /\ Upward(S) => d \in S}]

\* Class.isAssignableFrom
Assignable(t, from) ==
  \/ t = from
  \/ t.base = ObjectClass /\ t.dims <= from.dims
       /\ (t.dims = from.dims => from.base \in Classes)
  \/ t.dims = from.dims /\ from.base \in Classes /\ t.base \in Ancestors[from.base]

IsReference(t) == t.dims > 0 \/ t.base \in Classes

---------------------------------------------------------------------------
(* Numbers *)

Numbers(p) == IF p = Unsigned THEN 0..(2 * Half[p] - 1) ELSE -Half[p]..(Half[p] - 1)

\* Slip: the first number that is negative is taken for positive.
WrapLate(n, p) ==
  LET m == n % (2 * Half[p])
  IN  IF p # Unsigned /\ m > Half[p] THEN m - 2 * Half[p] ELSE m

\* Assignment to a jbyte, jchar, jshort, jint or jlong.  (No jlong is 2^63, which
\* the largest ones become in Lua; the cast of it to lua_Integer, left open by C,
\* gives -2^63 where the processor is an x86.)
Wrap(n, p) ==
  LET m == n % (2 * Half[p])
  IN  IF p # Unsigned /\ m >= Half[p] THEN m - 2 * Half[p] ELSE m

---------------------------------------------------------------------------
(* What a variable of Java holds *)

\* The values of a type
Has(t, v) ==
  IF IsReference(t) THEN v = JavaNull \/ (IsObject(v) /\ Assignable(t, v.object))
  ELSE IF t.base = "Z" THEN IsBoolean(v)
  ELSE IsNumber(v) /\ v.number \in Numbers(t.base)

\* A jvalue of zeros, and what the virtual machine initialises variables to
Default(t) == IF IsReference(t) THEN JavaNull
              ELSE IF t.base = "Z" THEN Boolean(FALSE) ELSE Number(0)

\* What a Java value is in Lua: create_jobject makes nil of null, lua_pushinteger,
\* of a lua_Integer of 64 bits, a double of a number.
FromJava(v) ==
  IF v = JavaNull THEN nil
  ELSE IF IsNumber(v) THEN Number(ToDouble(v.number))
  ELSE v
===========================================================================

------------------------------- MODULE Results -------------------------------
(* What comes back from Java to Lua: the value a method returns (jmethod_id:__call,
   lj_call_method) and the value of a field (jfield_id:get_value, lj_get_field). *)
EXTENDS CallableMethod

CONSTANT Given   \* the Java values methods return and fields hold

ASSUME ResultsAssumption == Given \subseteq Data

\* A method that throws, one that returns nothing, and what JNI leaves undefined.
Thrown == [thrown |-> Nil]
Nothing == [nothing |-> Nil]
Undefined == [undefined |-> Nil]

JavaValues(t) == {v \in Given : Has(t, v)}

---------------------------------------------------------------------------
(* Methods *)

\* Slip: a constructor returns nothing, as its signature says.
RetBySignature(m) ==
  IF m.name = "toString" THEN "STR"
  ELSE IF m.ret.dims > 0 THEN "["
  ELSE IF m.ret.base \in Classes THEN "L"
  ELSE m.ret.base

\* jmethod_id:get_preferred_ret_type
PreferredRet(m) ==
  IF m.name = "toString" THEN "STR"
  ELSE IF m.ret.dims > 0 THEN "["
  ELSE IF m.ret.base \in Classes \/ m.name = "<init>" THEN "L"
  ELSE m.ret.base

\* What lj_call_method is given to call a method on: a class, as an object, is one
\* of java.lang.Class.
Fits(m, target) ==
  IF m.static \/ m.name = "<init>" THEN target.kind = "class"
  ELSE Assignable(Type(m.class), Type(IF target.kind = "class" THEN ClassClass ELSE target.class))

\* How a method may end.  NewObject makes an object of the class it is given,
\* whichever class the constructor is one of.
Ends(m, target) ==
  IF ~Fits(m, target) THEN {Undefined}
  ELSE {Thrown} \cup (IF m.name = "<init>" THEN {Object(Type(target.class))}
                      ELSE IF m.ret = Void THEN {Nothing} ELSE JavaValues(m.ret))

\* lj_call_method from the call on, and create_return_value.  An exception is
\* printed and cleared and the jvalue is what memset made it; new_string expects a
\* string, and not null.
ReturnValue(m, v) ==
  LET ret == PreferredRet(m)
      val == IF v # Thrown THEN v
             ELSE IF ret \in {"L", "[", "STR"} THEN JavaNull ELSE Default(m.ret)
  IN  IF v = Undefined THEN Undefined
      ELSE IF ret = "V" THEN nil
      ELSE IF ret = "STR" THEN IF val = Object(Type(StringClass)) THEN String ELSE Undefined
      ELSE FromJava(val)

Pending == outcome.op = "call" /\ outcome.chosen # Nil

Return ==
  /\ Pending
  /\ LET m == outcome.chosen.method.raw
     IN  \E v \in Ends(m, outcome.target) :
           outcome' = [op |-> "result", name |-> m.name, value |-> v, lua |-> ReturnValue(m, v),
                       type |-> IF m.name = "<init>" THEN Type(outcome.target.class) ELSE m.ret]

---------------------------------------------------------------------------
(* Fields *)

\* GetStaticIntField and its like go by the field and not by the class they are
\* given; GetIntField reads the object it is given, also when that is a class.
FieldValues(f, receiver) ==
  IF f.static \/ receiver.kind = "object" \/ f.class = ClassClass
  THEN JavaValues(f.type) ELSE {Undefined}

\* object.name
GetField(receiver, name) ==
  LET f == FindField(Holder(receiver, name), name)
  IN  /\ f # Nil
      /\ \E v \in FieldValues(f, receiver) :
           outcome' = [op |-> "result", name |-> name, value |-> v, lua |-> FromJava(v),
                       type |-> f.type]

FieldsNext == \E r \in Receivers, name \in Names : GetField(r, name)

---------------------------------------------------------------------------
(* Properties *)

\* The types whose values a parameter takes; of others no argument is.
Passable(t) ==
  ParseArgSpec(<<t>>) = <<t>> /\ (IsReference(t) \/ t.base \in {"I", "J", "Z"})

\* A number that Lua may have another one for.
Large(v) == IsNumber(v) /\ v.number \notin (-Precision)..Precision

\* A value that came back, by a method or from a field, can be handed to a method
\* that takes its type and arrives there as it was; a number of a type no parameter
\* takes is that number, null is nil and so is nothing.  A number that is too large
\* for Lua may come back as one near it, and once only: what Lua shows is what
\* arrives, unless it is no longer of the type.  What get_preferred_ret_type,
\* lj_call_method, create_return_value and jcallable_method:__call each make of a
\* value fits together; only a toString that is not declared to return a string is
\* not provided for: what is none is undefined, and what is one is a string of Lua,
\* which no parameter of another type takes.
ComesBackAsItWas ==
  outcome.op = "result" /\ outcome.value \notin {Thrown, Undefined} =>
    LET v == outcome.value
        lua == outcome.lua
        type == outcome.type
    IN  IF lua = Undefined THEN outcome.name = "toString" /\ v # Object(Type(StringClass))
        ELSE IF v \in {Nothing, JavaNull} THEN lua = nil
        ELSE IF outcome.name = "toString" /\ type # Type(StringClass) /\ lua = String
        THEN v = Object(Type(StringClass))
        ELSE IF Large(v)
        THEN Accepts(type, lua) /\ (Has(type, lua) => ToJava(type, lua) = lua)
        ELSE IF Passable(type) THEN Accepts(type, lua) /\ ToJava(type, lua) = v
        ELSE lua = v
===========================================================================

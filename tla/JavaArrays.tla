----------------------------- MODULE JavaArrays -----------------------------
(* java_bridge/jarray.lua with lj_get_array_element and lj_set_array_element of
   lua_java.c: array[k] and array[k] = value from Lua.  An exception of the virtual
   machine is printed and cleared; only errors of Lua reach the user. *)
EXTENDS JavaTypes

CONSTANTS Arrays,   \* the arrays of the program
          ArrayType,\* the type of each
          Length,   \* the length of each
          Indices,  \* the indices that are typed
          Values    \* the values that are typed

ASSUME ArraysAssumption ==
  /\ ArrayType \in [Arrays -> {t \in Types : t.dims > 0}]
  /\ Length \in [Arrays -> Nat]
  /\ Indices \subseteq Int
  /\ Values \subseteq LuaValues

VARIABLE elements   \* what the arrays hold

Component(a) == [ArrayType[a] EXCEPT !.dims = @ - 1]

ArraysInit == elements = [a \in Arrays |-> [i \in 1..Length[a] |-> Default(Component(a))]]

\* What array[k] may come to: outside of the array a primitive is read from a
\* jvalue that nothing was written to, and a reference as the null JNI returns.
Reads(a, k) ==
  IF k \in 1..Length[a] THEN {FromJava(elements[a][k])}
  ELSE IF IsReference(Component(a)) THEN {nil}
  ELSE IF Component(a).base = "Z" THEN {Boolean(TRUE), Boolean(FALSE)}
  ELSE {FromJava(Number(n)) : n \in Numbers(Component(a).base)}

\* jobject.coerce: the objects a value may become, none if it fails.
Coerced(v, t) ==
  IF IsObject(v) THEN {v}
  ELSE {Object(Type(c)) : c \in {d \in {StringClass, IntegerClass, DoubleClass} :
          \/ d = StringClass /\ t = Type(StringClass)
          \/ d = IntegerClass /\ t = Type(IntegerClass) /\ IsNumber(v)
          \/ d = StringClass /\ t = Type(ObjectClass) /\ IsString(v)
          \/ d = DoubleClass /\ t = Type(ObjectClass) /\ IsNumber(v)}}

\* The Java values an element of type t may get for v, none if there is an error:
\* only a component type that ends in ";" takes objects.
Converted(v, t) ==
  IF v = nil THEN IF IsReference(t) THEN {JavaNull} ELSE {}
  ELSE IF t.base \in Classes THEN Coerced(v, t)
  ELSE IF t.dims > 0 THEN {}
  ELSE IF t.base = "Z" THEN IF IsBoolean(v) THEN {v} ELSE {}
  ELSE IF IsNumber(v) THEN {Number(Wrap(v.number, t.base))} ELSE {}

\* ArrayStoreException
Storable(v, t) == IsObject(v) => Assignable(t, v.object)

\* Slip: Lua's index is taken for Java's.
IndexFromZero(a, k, v) ==
  LET t == Component(a)
      new == Converted(v, t)
  IN  /\ elements' = IF new # {} /\ k + 1 \in 1..Length[a] /\ \A e \in new : Storable(e, t)
                     THEN [elements EXCEPT ![a][k + 1] = CHOOSE e \in new : TRUE]
                     ELSE elements
      /\ outcome' = [op |-> "set", failed |-> new = {}]

\* array[k] = v
SetElement(a, k, v) ==
  LET t == Component(a)
      new == Converted(v, t)
  IN  /\ elements' = IF new # {} /\ k \in 1..Length[a] /\ \A e \in new : Storable(e, t)
                     THEN [elements EXCEPT ![a][k] = CHOOSE e \in new : TRUE]
                     ELSE elements
      /\ outcome' = [op |-> "set", failed |-> new = {}]

\* array[k]
GetElement(a, k) ==
  \E v \in Reads(a, k) : outcome' = [op |-> "get", read |-> v] /\ UNCHANGED elements

ArraysNext ==
  \E a \in Arrays, k \in Indices :
    GetElement(a, k) \/ \E v \in Values : SetElement(a, k, v)

---------------------------------------------------------------------------
(* Properties *)

\* Whether the element type has the value itself, not another made of it.
Represents(t, v) ==
  \/ v = nil /\ IsReference(t)
  \/ t = Type("Z") /\ IsBoolean(v)
  \/ t.dims = 0 /\ t.base \in Numeric /\ IsNumber(v) /\ v.number \in Numbers(t.base)
  \/ t.base \in Classes /\ IsObject(v) /\ Assignable(t, v.object)

\* array[k] reads what was assigned to array[k] as long as the element type has
\* that value, whatever Lua, JNI and the width of the type do on the way; no other
\* element changes, and none does for an index outside of the array.
ReadsBack ==
  [][\A a \in Arrays, k \in Indices, v \in Values :
       SetElement(a, k, v) =>
         /\ k \in 1..Length[a] /\ Represents(Component(a), v) => Reads(a, k)' = {v}
         /\ \A j \in 1..Length[a] \ {k} : Reads(a, j)' = Reads(a, j)]_<<elements, outcome>>
===========================================================================

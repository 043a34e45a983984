--------------------------- MODULE CallableMethod ---------------------------
(* java_bridge/jcallable_method.lua: object.name(args) from Lua.  Which of the
   methods of that name is called, with what, and the values lj_call_method makes
   of the arguments. *)
EXTENDS ClassHierarchy

CONSTANTS Receivers,    \* what methods are called on: objects, or classes by name
          ArgLists      \* the argument lists that are typed

\* How many arguments `#args` finds where the last one is nil, Lua does not say.
ASSUME CallsAssumption ==
  /\ Receivers \subseteq [kind : {"object", "class"}, class : Classes]
  /\ ArgLists \subseteq Seq(LuaValues)
  /\ \A args \in ArgLists : args # <<>> => Last(args) # nil
  /\ Nil \notin [method : MethodIds, args : Seq(Data)]

\* The pieces it cuts a type into: "[" takes the letter after it, whatever it is,
\* unless that is an L.
Pieces(t) ==
  [i \in 1..(t.dims \div 2) |-> TwoBrackets] \o <<[t EXCEPT !.dims = @ % 2]>>

\* parse_arg_spec
ParseArgSpec(args) == FlattenSeq([i \in DOMAIN args |-> Pieces(args[i])])

\* Whether an argument is taken for a parameter of type t; nil becomes the string
\* "nil".
Accepts(t, v) ==
  \/ v = JavaNull
  \/ t = Type("Z") /\ IsBoolean(v)
  \/ t \in {Type("I"), Type("J")} /\ IsNumber(v)
  \/ t = Type(StringClass) /\ (IsNumber(v) \/ IsBoolean(v) \/ IsString(v) \/ v = nil)
  \/ IsObject(v) /\ t.dims > 0 /\ t = v.object
  \/ IsObject(v) /\ t.base \in Classes /\ Assignable(t, v.object)

\* The jvalue lj_call_method makes of an argument that was taken for type t.
ToJava(t, v) ==
  IF v = JavaNull \/ IsObject(v) THEN v
  ELSE IF t = Type(StringClass) THEN Object(t)
  ELSE IF IsBoolean(v) THEN v
  ELSE Number(Wrap(v.number, t.base))

SameArity(methods, args) ==
  Only(methods, {m \in Range(methods) : Len(ParseArgSpec(m.raw.args)) = Len(args)})

\* Every parameter of every candidate with its argument, in the order they are tried.
Tries(methods, args) ==
  FlattenSeq([c \in DOMAIN methods |->
    [i \in DOMAIN args |-> [method |-> methods[c], arg |-> args[i],
                            type |-> ParseArgSpec(methods[c].raw.args)[i]]]])

\* Those the argument is taken in
Taken(tries) == Only(tries, {t \in Range(tries) : Accepts(t.type, t.arg)})

\* Slip: the number of arguments is looked at after each candidate only.
ChooseAfter(methods, args) ==
  LET n == Len(args)
      upto(c) == Taken(Tries(SubSeq(methods, 1, c), args))
      full == {c \in DOMAIN methods : Len(upto(c)) = n}
  IN  IF full = {} THEN Nil
      ELSE [method |-> methods[Min(full)],
            args |-> [i \in 1..n |-> ToJava(upto(Min(full))[i].type, upto(Min(full))[i].arg)]]

\* Slip: the converted arguments are put in the order they are tried in from behind.
ChooseReversed(methods, args) ==
  LET taken == Taken(Tries(methods, args))
      n == Len(args)
  IN  IF Len(taken) < n THEN Nil
      ELSE [method |-> taken[n].method,
            args |-> Reverse([i \in 1..n |-> ToJava(taken[i].type, taken[i].arg)])]

\* The loop over the candidates: jargs is not emptied between them, and the method
\* is called as soon as it is as long as the argument list.
Choose(methods, args) ==
  LET taken == Taken(Tries(methods, args))
      n == Len(args)
  IN  IF Len(taken) < n THEN Nil
      ELSE [method |-> taken[n].method,
            args |-> [i \in 1..n |-> ToJava(taken[i].type, taken[i].arg)]]

\* jcallable_method:__call
Chosen(methods, args) ==
  LET bare == Only(methods, {m \in Range(methods) : m.raw.args = <<>>})
  IN  IF args # <<>> THEN Choose(SameArity(methods, args), args)
      ELSE IF bare = <<>> THEN Nil
      ELSE [method |-> Head(bare), args |-> <<>>]

\* Whose members object.name is looked up in: a class that has none of that name
\* is an object of java.lang.Class.
Holder(receiver, name) ==
  IF receiver.kind = "class" /\ ~HasField(receiver.class, name) /\ FindMethods[receiver.class][name] = <<>>
  THEN ClassClass
  ELSE receiver.class

\* object.name(args); a field hides the methods of its name.
Call(receiver, name, args) ==
  LET holder == Holder(receiver, name)
      methods == FindMethods[holder][name]
      chosen == Chosen(methods, args)
  IN  /\ ~HasField(holder, name)
      /\ methods # <<>>
      /\ outcome' =
           [op |-> "call", typed |-> args, methods |-> methods, chosen |-> chosen,
            target |-> IF chosen # Nil /\ chosen.method.raw.static
                       THEN [receiver EXCEPT !.kind = "class"] ELSE receiver]

CallNext ==
  \E r \in Receivers, name \in Names, args \in ArgLists : Call(r, name, args)

---------------------------------------------------------------------------
(* Properties *)

AcceptsAll(m, args) ==
  LET types == ParseArgSpec(m.raw.args)
  IN  Len(types) = Len(args) /\ \A i \in DOMAIN args : Accepts(types[i], args[i])

\* "No matching method" is true: when the call fails, no method of the name
\* accepts all the arguments, whatever earlier candidates left in jargs.
MatchIsFound ==
  outcome.op = "call" /\ outcome.chosen = Nil =>
    \A i \in DOMAIN outcome.methods : ~AcceptsAll(outcome.methods[i], outcome.typed)

\* A method is called with its own arguments, each in its place and converted for
\* its parameter, when no candidate before it took an argument and it takes all.
OwnArguments ==
  outcome.op = "call" /\ outcome.typed # <<>> =>
    LET args == outcome.typed
        tried == SameArity(outcome.methods, args)
        types(i) == ParseArgSpec(tried[i].raw.args)
        takesNone(i) == \A j \in DOMAIN args : ~Accepts(types(i)[j], args[j])
    IN  \A i \in DOMAIN tried :
          AcceptsAll(tried[i], args) /\ (\A k \in 1..(i - 1) : takesNone(k)) =>
            outcome.chosen = [method |-> tried[i],
                              args |-> [j \in DOMAIN args |-> ToJava(types(i)[j], args[j])]]
===========================================================================

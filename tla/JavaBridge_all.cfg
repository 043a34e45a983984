\* A small class hierarchy with overloads, a byte array and an array of objects.
CONSTANTS
  Itf = Itf
  Base = Base
  Sub = Sub
  ObjectClass = ObjectClass
  StringClass = StringClass
  IntegerClass = IntegerClass
  DoubleClass = DoubleClass
  ClassClass = ClassClass
  Nil = Nil
  Classes <- Program
  Super <- Supers
  Interfaces <- Implements
  Half <- Halves
  Precision = 8
  Declared <- DeclaredMethods
  Fields <- DeclaredFields
  Stops <- Runs
  Lines = {0, 13}
  Receivers <- Called
  ArgLists <- TypedArgs
  Given <- JavaGiven
  Arrays <- TheArrays
  ArrayType <- ArrayTypes
  Length <- Lengths
  Indices = {0, 1, 2}
  Values <- Stored
SPECIFICATION Spec
INVARIANT TypeOK
INVARIANT ListMatchesVM
INVARIANT HitFindsItsMethod
INVARIANT LineIsFound
INVARIANT MatchIsFound
INVARIANT OwnArguments
INVARIANT ComesBackAsItWas
PROPERTY ReadsBack

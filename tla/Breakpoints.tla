---------------------------- MODULE Breakpoints ----------------------------
(* bp, bc and the lookup of cb_breakpoint in debuglib.lua: the list of breakpoints
   beside the virtual machine's, with the methods, classes and lines that
   DebugSession leaves out.  One thread types; DebugSession has the interleavings. *)
EXTENDS ClassHierarchy

CONSTANTS Stops,           \* the methods breakpoints are set in
          Lines            \* the line numbers that are typed, 0 for none

BreakpointRecords == [raw : Methods, class : Classes, line : Nat, location : Nat]

ASSUME BreakpointsAssumption ==
  /\ Stops \subseteq Methods /\ Lines \subseteq Nat
  /\ Nil \notin BreakpointRecords

VARIABLES breakpoints,   \* the list: [raw, class, line, location]
          set            \* the virtual machine's: [raw, location]

breakpointVars == <<breakpoints, set>>

At(b) == [raw |-> b.raw, location |-> b.location]

BreakpointsInit == breakpoints = <<>> /\ set = {}

\* Slip: a line without code of its own belongs to the line after it.
LocationAfter(m, line) ==
  LET after == {i \in DOMAIN m.lines : line <= m.lines[i].line}
  IN  IF m.lines = <<>> THEN 0
      ELSE IF after = {} THEN Last(m.lines).location
      ELSE m.lines[Min(after)].location

\* method_location_for_line_num; bp() takes 0 for a method without a table.
LocationForLine(m, line) ==
  LET after == {i \in DOMAIN m.lines : line <= m.lines[i].line}
      first == Min(after)
  IN  IF m.lines = <<>> THEN 0
      ELSE IF after = {} THEN Last(m.lines).location
      ELSE IF m.lines[first].line = line THEN m.lines[first].location
      ELSE IF first > 1 THEN m.lines[first - 1].location
      ELSE 0

\* The breakpoint bp() makes of a method
Breakpoint(method, line) ==
  [raw |-> method.raw, class |-> method.class, line |-> line,
   location |-> LocationForLine(method.raw, line)]

Exists(b) ==
  \E i \in DOMAIN breakpoints :
    SameMethod(breakpoints[i], b) /\ breakpoints[i].location = b.location

\* lj_set_breakpoint fails where there is no code, or a breakpoint already.
CanSet(b) == b.raw.code /\ At(b) \notin set

\* bp() is called for methods, one after the other.
Bp(methods, line) ==
  /\ outcome' = [op |-> "adding", methods |-> methods, next |-> 1, line |-> line]
  /\ UNCHANGED breakpointVars

\* bp("class.name(args)ret", line)
BpMethod(c, name, args, ret, line) ==
  \E method \in FindMethod(c, name, args, ret) : Bp(<<method>>, line)

\* bp(class.name): every method the name may mean
BpCallable(c, name) ==
  /\ ~HasField(c, name)
  /\ FindMethods[c][name] # <<>>
  /\ Bp(FindMethods[c][name], 0)

Adding == outcome.op = "adding"

\* The method is dealt with and the next one's turn.
NextMethod ==
  outcome' = IF outcome.next < Len(outcome.methods) THEN [outcome EXCEPT !.next = @ + 1]
             ELSE [op |-> "bp", failed |-> FALSE]

\* Slip: the breakpoint is listed before it is set.
AddListedFirst ==
  /\ Adding
  /\ LET b == Breakpoint(outcome.methods[outcome.next], outcome.line)
     IN  IF Exists(b) THEN NextMethod /\ UNCHANGED breakpointVars
         ELSE /\ set' = set \cup {At(b)}
              /\ breakpoints' = Append(breakpoints, b)
              /\ IF CanSet(b) THEN NextMethod ELSE outcome' = [op |-> "bp", failed |-> TRUE]

\* bp() of one of them; an error breaks off the calls that would follow.
Add ==
  /\ Adding
  /\ LET b == Breakpoint(outcome.methods[outcome.next], outcome.line)
     IN  \/ Exists(b) /\ NextMethod /\ UNCHANGED breakpointVars
         \/ /\ ~Exists(b) /\ CanSet(b)
            /\ set' = set \cup {At(b)}
            /\ breakpoints' = Append(breakpoints, b)
            /\ NextMethod
         \/ /\ ~Exists(b) /\ ~CanSet(b)
            /\ outcome' = [op |-> "bp", failed |-> TRUE]
            /\ UNCHANGED breakpointVars

\* bc(n); ClearBreakpoint does not fail for what the virtual machine has.
Bc(n) ==
  /\ set' = set \ {At(breakpoints[n])}
  /\ breakpoints' = RemoveAt(breakpoints, n)
  /\ outcome' = [op |-> "bc"]

\* bc()
BcAll ==
  /\ breakpoints # <<>>
  /\ set' = set \ {At(breakpoints[n]) : n \in DOMAIN breakpoints}
  /\ breakpoints' = <<>>
  /\ outcome' = [op |-> "bc"]

\* The breakpoint cb_breakpoint takes for the one that was hit: the last that fits.
Found(m) ==
  LET own == {i \in DOMAIN breakpoints :
                SameMethod(breakpoints[i], [raw |-> m, class |-> m.class])}
  IN  IF own = {} THEN Nil ELSE breakpoints[Max(own)]

\* cb_breakpoint up to assert(bp)
Hit(at) ==
  /\ at \in set
  /\ outcome' = [op |-> "hit", at |-> at, found |-> Found(at.raw)]
  /\ UNCHANGED breakpointVars

BreakpointsNext ==
  \/ \E m \in Stops, c \in Classes, line \in Lines : BpMethod(c, m.name, m.args, m.ret, line)
  \/ \E m \in Stops, c \in Classes : BpCallable(c, LuaName(m))
  \/ \E n \in DOMAIN breakpoints : Bc(n)
  \/ BcAll
  \/ \E at \in set : Hit(at)

---------------------------------------------------------------------------
(* Properties *)

\* The list is what the virtual machine has: whatever fails, and however often a
\* name stands for several methods, no breakpoint is set that bc() cannot clear
\* and none is listed that will not be hit.
ListMatchesVM ==
  /\ {At(breakpoints[i]) : i \in DOMAIN breakpoints} = set
  /\ \A i, j \in DOMAIN breakpoints : At(breakpoints[i]) = At(breakpoints[j]) => i = j

\* A hit is taken for a breakpoint of its own method.  assert(bp) fails only when
\* every breakpoint of that method was set under the name of a class that inherits it.
HitFindsItsMethod ==
  outcome.op = "hit" =>
    IF outcome.found = Nil
    THEN \A i \in DOMAIN breakpoints :
           breakpoints[i].raw = outcome.at.raw => breakpoints[i].class # outcome.at.raw.class
    ELSE outcome.found.raw = outcome.at.raw

Ascending(lines) == \A i, j \in DOMAIN lines : i <= j => lines[i].line <= lines[j].line

\* A breakpoint at a line is at code of that line or, when it has none, of the
\* last line before it that has; where the line table is in the order of the lines.
LineIsFound ==
  \A i \in DOMAIN breakpoints :
    LET b == breakpoints[i]
        before == {e \in Range(b.raw.lines) : e.line <= b.line}
    IN  Ascending(b.raw.lines) /\ before # {} =>
          \E e \in before : e.location = b.location /\ \A f \in before : f.line <= e.line
===========================================================================

---------------------------- MODULE Inspection ----------------------------
(* Looking around in a stopped program (debuglib.lua, debuglib/frame.lua,
   java_bridge/jthread.lua and the C functions under them): the user selects a
   frame of the stack, reads local variables, keeps Frame objects in a variable
   of his own and forces methods to return.

   What a frame, a thread or a name stands for is found through state that all
   threads share: lj_current_thread, which every callback overwrites before it
   waits for debug_lock; the table `threads`, whose keys are the names of the
   threads; `depth`, which only cb_breakpoint resets; and `self`, which
   Frame.create does not make local.  The breakpoint table, the event queues
   and stepping have modules of their own. *)
EXTENDS Integers, Sequences, FiniteSets

CONSTANTS Threads,       \* the threads that run Java code
          CMD,           \* the thread of the command interpreter
          ThreadNames,
          Methods,
          Main,          \* the method every thread begins with
          Variables,     \* the LocalVariableTable of each method
          Returns,       \* what each method returns
          LastLocation,  \* the last location of each method, the first being 0
          Nil,           \* Lua's nil
          Raised,        \* an error in place of a value
          Alias,         \* a variable that refers to the table `self` refers to
          MaxFrames,     \* bound: frames of a stack
          MaxCallbacks,  \* bound: callbacks that stop a thread
          MaxLines       \* bound: lines of the user's that concern frames

Kinds == {"int", "long", "float", "double", "object"}

Results == {"void", "String", "object", "primitive"}

Entry == [name : STRING, slot : Nat, kind : Kinds, from : Nat, to : Nat]

Depths == (1 - MaxFrames)..MaxFrames

\* A Frame is a table: `by` made it, `complete` says that it has a method_id.
Frame ==
  [thread : Threads \cup {Nil}, depth : Depths, method : Methods,
   location : Nat, by : Threads \cup {CMD}, complete : BOOLEAN]

\* The compiler puts `this` into the first slot.
ASSUME ThisAssumption ==
  \A m \in Methods : \A i \in DOMAIN Variables[m] :
    LET v == Variables[m][i] IN v.name = "this" => v.slot = 0 /\ v.kind = "object"

ASSUME InspectionAssumption ==
  /\ CMD \notin Threads /\ Nil \notin Threads /\ Nil \notin Frame
  /\ Alias \notin Frame \cup {Nil}
  /\ Main \in Methods
  /\ Variables \in [Methods -> Seq(Entry)]
  /\ Returns \in [Methods -> Results]
  /\ LastLocation \in [Methods -> Nat]
  /\ MaxFrames \in Nat \ {0} /\ MaxCallbacks \in Nat /\ MaxLines \in Nat

Entries(m) == {Variables[m][i] : i \in DOMAIN Variables[m]}

Names == {"this"} \cup {v.name : v \in UNION {Entries(m) : m \in Methods}}

VARIABLES name,         \* the name of each thread
          stack,        \* the frames of each thread, the innermost first
          early,        \* what a thread is forced to return when it goes on
          pc,           \* what each thread does next
          why,          \* what stops each thread, a breakpoint or a step
          current,      \* lj_current_thread
          owner,        \* the owner of debug_lock
          debugThread,  \* debug_thread
          threads,      \* the table `threads`: jthread objects by name
          depth,        \* depth
          self,         \* the global `self`
          todo,         \* the Frame.create each thread is in, and its purpose
          kept,         \* the Frame in a variable of the user's
          shown,        \* the local variable that was read last
          fresh,        \* history: `kept` is of the stop in progress
          aborted,      \* history: threads with a callback an error broke off
          callbacks,    \* history: the number of callbacks so far
          lines         \* history: the number of the user's lines so far

program == <<name, stack, early>>
session == <<why, current, owner, debugThread, threads>>
history == <<fresh, aborted, callbacks, lines>>
vars == <<program, pc, session, depth, self, todo, kept, shown, history>>

Purpose == ({"print", "keep"} \X {Nil}) \cup ({"select"} \X Depths) \cup ({"read"} \X Names)

Shown == [frame : Frame, name : Names, from : Threads,
          value : (Threads \X (0..MaxFrames) \X Nat) \cup {Nil}]

TypeOK ==
  /\ name \in [Threads -> ThreadNames]
  /\ stack \in [Threads -> Seq([method : Methods, location : Nat])]
  /\ \A t \in Threads : Len(stack[t]) <= MaxFrames /\ (stack[t] = <<>> <=> pc[t] = "ended")
  /\ early \in [Threads -> Results \cup {Nil}]
  /\ pc \in [Threads \cup {CMD} ->
               {"run", "enter", "print", "stopped", "ended", "read", "evaluate", "creating"}]
  /\ why \in [Threads -> {"breakpoint", "step"}]
  /\ current \in Threads \cup {Nil}
  /\ owner \in Threads \cup {Nil}
  /\ debugThread \in Threads \cup {Nil}
  /\ threads \in [ThreadNames -> Threads \cup {Nil}]
  /\ depth \in Depths
  /\ self \in Frame \cup {Nil}
  /\ todo \in [Threads \cup {CMD} -> (Threads \X Purpose) \cup {Nil}]
  /\ kept \in Frame \cup {Nil, Alias}
  /\ shown \in Shown \cup {Nil}
  /\ fresh \in BOOLEAN
  /\ aborted \subseteq Threads
  /\ callbacks \in 0..MaxCallbacks /\ lines \in 0..MaxLines

Init ==
  /\ name \in [Threads -> ThreadNames]
  /\ stack = [t \in Threads |-> <<[method |-> Main, location |-> 0]>>]
  /\ early = [t \in Threads |-> Nil]
  /\ pc = [e \in Threads \cup {CMD} |-> IF e = CMD THEN "read" ELSE "run"]
  /\ why = [t \in Threads |-> "breakpoint"]
  /\ current = Nil /\ owner = Nil /\ debugThread = Nil
  /\ threads = [n \in ThreadNames |-> Nil]
  /\ depth = 1
  /\ self = Nil
  /\ todo = [e \in Threads \cup {CMD} |-> Nil]
  /\ kept = Nil /\ shown = Nil
  /\ fresh = FALSE /\ aborted = {} /\ callbacks = 0 /\ lines = 0

Goto(e, from, to) == pc[e] = from /\ pc' = [pc EXCEPT ![e] = to]

---------------------------------------------------------------------------
(* The virtual machine *)

\* GetStackTrace counts a start depth below 0, n < 1, from the oldest frame.
Position(t, n) == IF n > 0 THEN n ELSE Len(stack[t]) + n

HasFrame(t, n) == Position(t, n) \in 1..Len(stack[t])

\* The variables of a method that exist at a location.
Alive(f) == {v \in Entries(f.method) : f.location \in v.from..v.to}

\* GetLocalInt and its like fail on a missing frame, and find nothing in a slot
\* that holds no variable, or one of another kind.
GetLocal(t, n, slot, kind) ==
  IF n \notin 1..Len(stack[t]) THEN Raised
  ELSE IF \E v \in Alive(stack[t][n]) : v.slot = slot /\ v.kind = kind
       THEN <<t, Len(stack[t]) - n, slot>> ELSE Nil

\* Java code calls, goes on and returns; the last return ends the thread.
RunProgram(t) ==
  /\ pc[t] = "run"
  /\ \/ /\ Len(stack[t]) < MaxFrames
        /\ \E m \in Methods :
             stack' = [stack EXCEPT ![t] = <<[method |-> m, location |-> 0]>> \o @]
     \/ /\ stack[t][1].location < LastLocation[stack[t][1].method]
        /\ stack' = [stack EXCEPT ![t][1].location = @ + 1]
     \/ stack' = [stack EXCEPT ![t] = Tail(@)]
  /\ Goto(t, "run", IF stack'[t] = <<>> THEN "ended" ELSE "run")
  /\ UNCHANGED <<name, early, session, depth, self, todo, kept, shown, history>>

---------------------------------------------------------------------------
(* Frames *)

\* Slip: the depth of the frame is given as the virtual machine counts it.
CreateFrameFromZero(e, w, n, purpose) ==
  /\ HasFrame(w, n)
  /\ kept' = IF kept = Alias THEN self ELSE kept
  /\ LET f == stack[w][Position(w, n)]
     IN  self' = [thread |-> Nil, depth |-> n - 1, method |-> f.method,
                  location |-> f.location, by |-> e, complete |-> FALSE]
  /\ todo' = [todo EXCEPT ![e] = <<w, purpose>>]

\* frames[n] of thread w, evaluated by e: Frame.create makes the raw frame the
\* value of `self`, and looks up its method ...
CreateFrame(e, w, n, purpose) ==
  /\ HasFrame(w, n)
  /\ kept' = IF kept = Alias THEN self ELSE kept
  /\ LET f == stack[w][Position(w, n)]
     IN  self' = [thread |-> Nil, depth |-> n, method |-> f.method,
                  location |-> f.location, by |-> e, complete |-> FALSE]
  /\ todo' = [todo EXCEPT ![e] = <<w, purpose>>]

\* Slip: the method is left to be looked up.
CreatedBare(e) == [self EXCEPT !.thread = todo[e][1]]

\* ... then sets the thread of, and returns, what `self` is by then.
Created(e) == [self EXCEPT !.thread = todo[e][1], !.complete = @ \/ self.by = e]

\* (A value of `self` that nothing refers to any more is forgotten.)
FinishFrame(e, op) ==
  /\ pc[e] = "creating" /\ todo[e][2][1] = op
  /\ self' = IF \/ op = "keep" \/ kept = Alias
                \/ \E c \in DOMAIN pc \ {e} : pc[c] = "creating"
             THEN Created(e) ELSE Nil
  /\ todo' = [todo EXCEPT ![e] = Nil]

KeptFrame == IF kept = Alias THEN self ELSE kept

\* The table of local variables has their names for keys: of variables of one
\* name it holds the last.
VariableNamed(m, k) ==
  LET named == {i \in DOMAIN Variables[m] : Variables[m][i].name = k}
  IN  Variables[m][CHOOSE i \in named : \A j \in named : j <= i]

\* Slip: the virtual machine counts from 0, which is forgotten.
LocalOfCaller(f, k) ==
  LET v == VariableNamed(f.method, k) IN GetLocal(current, f.depth + 1, v.slot, v.kind)

\* Frame:__index: the depth and the slot, but not the thread, are the frame's.
LocalOf(f, k) ==
  LET v == VariableNamed(f.method, k) IN GetLocal(current, f.depth, v.slot, v.kind)

HasVariable(m, k) == \E v \in Entries(m) : v.name = k

\* Slip: the error is not looked at.
ShowUnchecked(f, k, value) ==
  shown' = [frame |-> f, name |-> k, from |-> current, value |-> value]

Show(f, k, value) ==
  shown' = IF value = Raised THEN Nil
           ELSE [frame |-> f, name |-> k, from |-> current, value |-> value]

---------------------------------------------------------------------------
(* A callback that stops its thread *)

\* The C function notes the thread before it calls Lua.
Callback(t, reason) ==
  /\ Goto(t, "run", "enter")
  /\ why' = [why EXCEPT ![t] = reason]
  /\ current' = t
  /\ callbacks < MaxCallbacks /\ callbacks' = callbacks + 1
  /\ UNCHANGED <<program, owner, debugThread, threads, depth, self, todo, kept, shown,
                 fresh, aborted, lines>>

\* The jthread object that was created first for a thread of t's name.
CurrentThread(t) == IF threads[name[t]] = Nil THEN t ELSE threads[name[t]]

\* Slip: cb_breakpoint leaves depth alone, as the other callbacks do.
EnterWithDepth(t) ==
  /\ owner \in {t, Nil}
  /\ Goto(t, "enter", "print")
  /\ owner' = t
  /\ threads' = [threads EXCEPT ![name[t]] = CurrentThread(t)]
  /\ debugThread' = CurrentThread(t)
  /\ UNCHANGED <<program, why, current, depth, self, todo, kept, shown, history>>

EnterDebugger(t) ==
  /\ owner \in {t, Nil}
  /\ Goto(t, "enter", "print")
  /\ owner' = t
  /\ threads' = [threads EXCEPT ![name[t]] = CurrentThread(t)]
  /\ debugThread' = CurrentThread(t)
  /\ depth' = IF why[t] = "breakpoint" THEN 1 ELSE depth
  /\ UNCHANGED <<program, why, current, self, todo, kept, shown, history>>

\* dbgio:print(current_thread().frames[depth])
PrintFrame(t) ==
  /\ Goto(t, "print", "creating")
  /\ CreateFrame(t, CurrentThread(t), depth, <<"print", Nil>>)
  /\ UNCHANGED <<program, session, depth, shown, history>>

\* After a step there may be no frame at the depth left over.
PrintNothing(t) ==
  /\ Goto(t, "print", "stopped")
  /\ pc[CurrentThread(t)] # "ended" /\ ~HasFrame(CurrentThread(t), depth)
  /\ UNCHANGED <<program, session, depth, self, todo, kept, shown, history>>

FramePrinted(t) ==
  /\ FinishFrame(t, "print")
  /\ Created(t).complete
  /\ Goto(t, "creating", "stopped")
  /\ UNCHANGED <<program, session, depth, kept, shown, history>>

\* An error breaks the callback off: debug_lock stays locked, debug_thread set.
BreakOff(t) ==
  /\ pc' = [pc EXCEPT ![t] = "run"]
  /\ aborted' = aborted \cup {t}
  /\ UNCHANGED <<program, session, depth, shown, fresh, callbacks, lines>>

\* A Frame without method_id cannot be printed ...
PrintFails(t) ==
  /\ FinishFrame(t, "print")
  /\ ~Created(t).complete
  /\ BreakOff(t)
  /\ UNCHANGED kept

\* ... and a thread that has ended has no stack to look at.
NoStack(t) ==
  /\ pc[t] = "print" /\ pc[CurrentThread(t)] = "ended"
  /\ BreakOff(t)
  /\ UNCHANGED <<self, todo, kept>>

\* g().  A forced return happens when Java code goes on.
Resume(t) ==
  /\ pc[t] = "stopped"
  /\ stack' = [stack EXCEPT ![t] = IF early[t] = Nil THEN @ ELSE Tail(@)]
  /\ early' = [early EXCEPT ![t] = Nil]
  /\ pc' = [pc EXCEPT ![t] = IF stack'[t] = <<>> THEN "ended" ELSE "run"]
  /\ debugThread' = Nil
  /\ owner' = IF t \in aborted THEN t ELSE Nil
  /\ why' = [why EXCEPT ![t] = "breakpoint"]
  /\ shown' = Nil /\ fresh' = FALSE
  /\ UNCHANGED <<name, current, threads, depth, self, todo, kept, aborted,
                 callbacks, lines>>

---------------------------------------------------------------------------
(* The commands, evaluated by the stopped thread *)

\* A line that needs a Frame.  The user types the next one when the interpreter
\* has read this.
NextLine == lines < MaxLines /\ lines' = lines + 1

Evaluate(t, n, purpose) ==
  /\ NextLine
  /\ pc[CMD] = "read"
  /\ Goto(t, "stopped", "creating")
  /\ CreateFrame(t, CurrentThread(t), n, purpose)
  /\ UNCHANGED <<program, session, depth, shown, fresh, aborted, callbacks>>

\* frame(num), of up() and down()
SelectFrame(t, num) == num \in Depths /\ Evaluate(t, num, <<"select", num>>)

FrameSelected(t) ==
  /\ FinishFrame(t, "select")
  /\ Goto(t, "creating", "stopped")
  /\ depth' = todo[t][2][2]
  /\ UNCHANGED <<program, session, kept, shown, history>>

KeepFrame(t) == Evaluate(t, depth, <<"keep", Nil>>)

FrameKept(t) ==
  /\ FinishFrame(t, "keep")
  /\ Goto(t, "creating", "stopped")
  /\ kept' = Alias /\ fresh' = TRUE
  /\ UNCHANGED <<program, session, depth, shown, aborted, callbacks, lines>>

\* A global name: get_local_variable() looks for it in the selected frame.
ReadName(t, k) == Evaluate(t, depth, <<"read", k>>)

NameRead(t) ==
  /\ FinishFrame(t, "read")
  /\ Goto(t, "creating", "stopped")
  /\ LET f == Created(t)
         k == todo[t][2][2]
     IN  CASE k = "this" -> Show(f, k, GetLocal(current, f.depth, 0, "object"))
           [] k # "this" /\ HasVariable(f.method, k) -> Show(f, k, LocalOf(f, k))
           [] OTHER -> shown' = Nil
  /\ UNCHANGED <<program, session, depth, kept, history>>

\* The same through the Frame in the user's variable.
ReadThroughFrame(t, k) ==
  /\ pc[t] = "stopped" /\ pc[CMD] = "read"
  /\ KeptFrame # Nil
  /\ KeptFrame.complete /\ HasVariable(KeptFrame.method, k)
  /\ Show(KeptFrame, k, LocalOf(KeptFrame, k))
  /\ NextLine
  /\ UNCHANGED <<program, pc, session, depth, self, todo, kept, fresh, aborted, callbacks>>

\* What force_return(val) asks the virtual machine to return: any value does
\* for a String, only an object for another class.
Forced(m, val) ==
  CASE Returns[m] = "void" -> "void"
    [] Returns[m] \in {"String", "object"} /\ val \in {"String", "object"} -> val
    [] Returns[m] = "String" /\ val = "lua" -> "String"
    [] OTHER -> Raised

\* ForceEarlyReturn wants the thread to be the one that asks, and a value of the
\* type that its innermost method returns.
MayForce(t, result) == early[t] = Nil /\ Returns[stack[t][1].method] = result

\* Slip: the depth of the frame is not looked at.
ForceReturnAnywhere(t, val) ==
  /\ pc[t] = "stopped" /\ pc[CMD] = "read"
  /\ KeptFrame # Nil
  /\ KeptFrame.complete /\ KeptFrame.thread = t
  /\ MayForce(t, Forced(KeptFrame.method, val))
  /\ early' = [early EXCEPT ![t] = Forced(KeptFrame.method, val)]
  /\ NextLine
  /\ UNCHANGED <<name, stack, pc, session, depth, self, todo, kept, shown, fresh, aborted,
                 callbacks>>

ForceReturn(t, val) ==
  /\ pc[t] = "stopped" /\ pc[CMD] = "read"
  /\ KeptFrame # Nil
  /\ KeptFrame.complete /\ KeptFrame.thread = t /\ KeptFrame.depth = 1
  /\ MayForce(t, Forced(KeptFrame.method, val))
  /\ early' = [early EXCEPT ![t] = Forced(KeptFrame.method, val)]
  /\ NextLine
  /\ UNCHANGED <<name, stack, pc, session, depth, self, todo, kept, shown, fresh, aborted,
                 callbacks>>

---------------------------------------------------------------------------
(* The interpreter, when no thread is being debugged *)

InterpreterOnly == UNCHANGED <<program, session, depth, shown, aborted, callbacks>>

CheckEvaluates ==
  /\ debugThread = Nil /\ lines < MaxLines
  /\ Goto(CMD, "read", "evaluate")
  /\ UNCHANGED <<self, todo, kept, fresh, lines>> /\ InterpreterOnly

\* A line that does not concern frames, or fails.
OtherLine ==
  /\ Goto(CMD, "evaluate", "read")
  /\ UNCHANGED <<self, todo, kept, fresh, lines>> /\ InterpreterOnly

\* A line that keeps frames[n] of a jthread the user has got.
InspectThread(w, n) ==
  /\ w \in {threads[s] : s \in ThreadNames}
  /\ Goto(CMD, "evaluate", "creating")
  /\ CreateFrame(CMD, w, n, <<"keep", Nil>>)
  /\ NextLine
  /\ UNCHANGED fresh /\ InterpreterOnly

ThreadInspected ==
  /\ FinishFrame(CMD, "keep")
  /\ Goto(CMD, "creating", "read")
  /\ kept' = Alias /\ fresh' = FALSE
  /\ UNCHANGED lines /\ InterpreterOnly

---------------------------------------------------------------------------

Next ==
  \/ \E t \in Threads :
       \/ RunProgram(t) \/ Callback(t, "breakpoint") \/ Callback(t, "step")
       \/ EnterDebugger(t) \/ PrintFrame(t) \/ PrintNothing(t)
       \/ FramePrinted(t) \/ PrintFails(t) \/ NoStack(t) \/ Resume(t)
       \/ SelectFrame(t, depth + 1) \/ SelectFrame(t, depth - 1) \/ FrameSelected(t)
       \/ KeepFrame(t) \/ FrameKept(t) \/ NameRead(t)
       \/ \E k \in Names : ReadName(t, k) \/ ReadThroughFrame(t, k)
       \/ \E val \in {"String", "object", "lua"} : ForceReturn(t, val)
  \/ CheckEvaluates \/ OtherLine \/ ThreadInspected
  \/ \E w \in Threads, n \in 1..MaxFrames : InspectThread(w, n)

Spec == Init /\ [][Next]_vars

---------------------------------------------------------------------------
(* Properties *)

\* A frame object is the frame its thread has at its depth.
Holds(f) ==
  /\ HasFrame(f.thread, f.depth)
  /\ LET at == stack[f.thread][Position(f.thread, f.depth)]
     IN  at.method = f.method /\ at.location = f.location

InDebugger(t) == pc[t] \in {"stopped", "creating"}

\* A breakpoint selects a frame, and up(), down() and frame() select frames,
\* that exist: depth, which all threads share, never points beyond the stack of
\* a thread stopped at a breakpoint.  (After a step it may, and a depth below 1
\* is a frame too: down() from the innermost frame selects the outermost.)
SelectedFrameExists ==
  \A t \in Threads : InDebugger(t) /\ why[t] = "breakpoint" /\ CurrentThread(t) = t
                       => HasFrame(t, depth)

\* A callback of debuglib fails to stop its thread only when a thread of the
\* same name, of which `threads` still has the object, has ended, or when the
\* interpreter is inside Frame.create, with the same `self`.
StopsItsThread ==
  [][\A t \in aborted' \ aborted :
       \/ \E u \in Threads \ {t} : name[u] = name[t] /\ pc[u] = "ended"
       \/ pc[CMD] = "creating"]_vars

\* A Frame made in a stop remains the frame it says while that stop lasts,
\* whatever the interpreter and the other threads do.
FrameIsWhatItSays ==
  fresh /\ KeptFrame.thread # Nil /\ InDebugger(KeptFrame.thread) => Holds(KeptFrame)

\* force_return() on a Frame of this stop makes that very frame return, and not
\* one that called it or was called by it.
ForcesTheFrameAsked ==
  [][\A t \in Threads : early[t] = Nil /\ early'[t] # Nil /\ fresh
       => /\ KeptFrame.thread = t /\ KeptFrame.method = stack[t][1].method
          /\ Position(t, KeptFrame.depth) = 1]_vars

DeclaredOnce(m, k) == Cardinality({i \in DOMAIN Variables[m] : Variables[m][i].name = k}) = 1

\* What the program itself finds under a name in the n-th frame of a thread.
Found(t, frames, n, k) ==
  LET found == {v \in Alive(frames[n]) : v.name = k}
  IN  IF found = {} THEN Nil
      ELSE <<t, Len(frames) - n, (CHOOSE v \in found : TRUE).slot>>

InProgram(f, k) == Found(f.thread, stack[f.thread], Position(f.thread, f.depth), k)

SlotShared(m, k) ==
  \E v, w \in Entries(m) : v.name = k /\ w.name # k /\ w.slot = v.slot

\* The value is that of the frame.  Exempt are names declared twice in a method,
\* of which the last is taken, and names out of scope whose slot is another
\* variable's by now: nothing looks at where a variable begins and ends.
OfItsFrame ==
  LET f == shown.frame
      v == InProgram(f, shown.name)
  IN  \/ shown.value = v
      \/ ~DeclaredOnce(f.method, shown.name)
      \/ v = Nil /\ SlotShared(f.method, shown.name)

\* The value shown for a name is the one the program has in that frame, unless it
\* was read of another thread because its callback had come in between.
LocalIsRight ==
  shown # Nil /\ InDebugger(shown.frame.thread) /\ Holds(shown.frame)
    => OfItsFrame \/ shown.from # shown.frame.thread

\* "Print local variables in current stack frame": the values are those of the
\* frame they are read from.
LocalsOfTheFrame ==
  shown # Nil /\ InDebugger(shown.frame.thread) /\ Holds(shown.frame) => OfItsFrame
===========================================================================

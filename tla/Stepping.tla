----------------------------- MODULE Stepping -----------------------------
(* next_line() of debuglib.lua: one thread of the program, its call stack, and
   what the stepping callbacks make of its single steps and method exits.  A
   line that calls a method is stepped over: in the callee single steps are given
   up for method exits until the callee returns.

   The program is the virtual machine's affair and external: a thread moves along
   the locations of a method, calls methods and leaves them by a return or an
   exception, anywhere.  EventCallbacks has the events of several threads; here
   the callbacks of one thread follow each other, and a callback that does not
   stop is one step. *)
EXTENDS Integers, SequencesExt

CONSTANTS Methods,     \* the methods of the program
          Main,        \* the method the thread begins in
          Natives,     \* the methods without locations and line table
          LastLocation,\* of each method
          Moves,       \* of each method: the pairs of locations with a way from one to the other
          Callees,     \* of each method: what its locations may call
          LineStarts,  \* line_number_table of each method: the first locations of its lines
          Breakpoints, \* set of [method, location]
          Nil,
          MaxDepth     \* bound: frames of the thread

Locations(m) == 0..LastLocation[m]

AllLocations == UNION {Locations(m) : m \in Methods}

ASSUME SteppingAssumption ==
  /\ Main \in Methods \ Natives
  /\ LastLocation \in [Methods -> Nat]
  /\ \A m \in Methods :
       /\ Moves[m] \subseteq Locations(m) \X Locations(m)
       /\ Callees[m] \subseteq Methods
       /\ LineStarts[m] \in Seq(Locations(m))
  /\ \A b \in Breakpoints : b.method \in Methods \ Natives
  /\ Nil \notin Methods \cup Nat \cup {"breakpoint", "single_step", "method_exit"}
  /\ MaxDepth \in Nat \ {0}

VARIABLES frames,      \* the call stack, innermost last
          pending,     \* the events still to be posted before the location is executed
          stoppedIn,   \* the callback the thread handles events in, or Nil
          registered,  \* the kinds of stepping events with a function
          enabled,     \* the kinds that are turned on for the thread
          exitCount,   \* previous_frame_count of check_nested_method_return,
                       \* 0 if the function for method exits is cb_method_exit
          depth,       \* the frame the user looks at, 1 is the innermost
          target,      \* next_line_location
          method,      \* next_line_method_id
          asked,       \* history: the frame the last next_line() was to go on in, or 0
          left         \* history: that frame has gone since

vars == <<frames, pending, stoppedIn, registered, enabled, exitCount, depth,
          target, method, asked, left>>

stepVars == <<registered, enabled, exitCount, target, method>>

Kinds == {"single_step", "method_exit"}

Frames == [method : Methods, location : AllLocations, called : BOOLEAN]

TypeOK ==
  /\ frames \in Seq(Frames)
  /\ pending \subseteq {"single_step", "breakpoint"}
  /\ stoppedIn \in Kinds \cup {"breakpoint", Nil}
  /\ registered \subseteq Kinds
  /\ enabled \subseteq Kinds
  /\ exitCount \in Nat
  /\ depth \in (1 - MaxDepth)..MaxDepth
  /\ target \in AllLocations \cup {Nil}
  /\ method \in Methods \cup {Nil}
  /\ asked \in Nat
  /\ left \in BOOLEAN

Init ==
  /\ frames = <<[method |-> Main, location |-> 0, called |-> FALSE]>>
  /\ pending = {"single_step", "breakpoint"}
  /\ stoppedIn = Nil
  /\ registered = {} /\ enabled = {} /\ exitCount = 0
  /\ depth = 1
  /\ target = Nil /\ method = Nil
  /\ asked = 0 /\ left = FALSE

Top == Last(frames)

AtBreakpoint ==
  [method |-> Top.method, location |-> Top.location] \in Breakpoints

\* The events that are posted before the thread executes its location.
Due == {e \in pending : IF e = "breakpoint" THEN AtBreakpoint ELSE e \in enabled}

Runs == frames # <<>> /\ stoppedIn = Nil

\* The program executes the instruction at its location.
Executes == Runs /\ Due = {} /\ Top.method \notin Natives

\* enable_events_after_callback_handling, with on turned on meanwhile: the
\* events are all off while a callback runs, except for what its function sets.
Reenabled(on, kinds) ==
  on \cup (IF "single_step" \in kinds THEN {"single_step"} ELSE kinds)

---------------------------------------------------------------------------
(* The program *)

ArriveAt(l) ==
  /\ frames' = [frames EXCEPT ![Len(frames)].location = l,
                              ![Len(frames)].called = FALSE]
  /\ pending' = {"single_step", "breakpoint"}
  /\ UNCHANGED <<stoppedIn, depth, asked, left, stepVars>>

Move(l) ==
  /\ Executes
  /\ <<Top.location, l>> \in Moves[Top.method]
  /\ ArriveAt(l)

Call(m) ==
  /\ Executes
  /\ m \in Callees[Top.method]
  /\ ~Top.called
  /\ Len(frames) < MaxDepth
  /\ frames' = Append([frames EXCEPT ![Len(frames)].called = TRUE],
                      [method |-> m, location |-> 0, called |-> FALSE])
  /\ pending' = IF m \in Natives THEN {} ELSE {"single_step", "breakpoint"}
  /\ UNCHANGED <<stoppedIn, depth, asked, left, stepVars>>

\* The innermost frame goes; its caller is in the middle of a location.
PopFrame ==
  /\ frames' = Front(frames)
  /\ pending' = {}
  /\ left' = (left \/ asked = Len(frames))
  /\ asked' = asked

\* The innermost method returns or throws.
Leaves == Runs /\ (Executes \/ Top.method \in Natives)

LeavesUnnoticed ==
  /\ Leaves
  /\ "method_exit" \notin enabled \cap registered
  /\ PopFrame
  /\ UNCHANGED <<stoppedIn, depth, stepVars>>

---------------------------------------------------------------------------
(* The callbacks *)

\* cb_breakpoint
HitBreakpoint ==
  /\ Runs
  /\ "breakpoint" \in Due
  /\ pending' = pending \ {"breakpoint"}
  /\ stoppedIn' = "breakpoint"
  /\ depth' = 1
  /\ enabled' = {}
  /\ UNCHANGED <<frames, registered, exitCount, target, method, asked, left>>

\* cb_method_exit: its thread stops with the frame still on the stack.
StopsAtExit ==
  /\ Leaves
  /\ "method_exit" \in enabled \cap registered
  /\ exitCount = 0
  /\ stoppedIn' = "method_exit"
  /\ enabled' = {}
  /\ UNCHANGED <<frames, pending, depth, registered, exitCount, target, method, asked, left>>

\* Slip: the callee's frame is taken to be off the stack already.
NestedReturnsLate ==
  /\ Leaves
  /\ "method_exit" \in enabled \cap registered
  /\ exitCount > 0
  /\ IF Len(frames) = exitCount - 1
     THEN /\ registered' = Kinds
          /\ enabled' = Reenabled(Kinds, registered')
          /\ exitCount' = 0
     ELSE /\ enabled' = Reenabled({}, registered)
          /\ UNCHANGED <<registered, exitCount>>
  /\ PopFrame
  /\ UNCHANGED <<stoppedIn, depth, target, method>>

\* Slip: the function for method exits comes back, the one for single steps does not.
NestedReturnsHalf ==
  /\ Leaves
  /\ "method_exit" \in enabled \cap registered
  /\ exitCount > 0
  /\ exitCount' = IF Len(frames) = exitCount THEN 0 ELSE exitCount
  /\ enabled' = Reenabled({}, registered)
  /\ PopFrame
  /\ UNCHANGED <<stoppedIn, depth, registered, target, method>>

\* check_nested_method_return: the method that was stepped into is left.
NestedReturns ==
  /\ Leaves
  /\ "method_exit" \in enabled \cap registered
  /\ exitCount > 0
  /\ IF Len(frames) = exitCount
     THEN /\ registered' = Kinds
          /\ enabled' = Reenabled(Kinds, registered')
          /\ exitCount' = 0
     ELSE /\ enabled' = Reenabled({}, registered)
          /\ UNCHANGED <<registered, exitCount>>
  /\ PopFrame
  /\ UNCHANGED <<stoppedIn, depth, target, method>>

SingleStepped ==
  /\ Runs
  /\ "single_step" \in Due
  /\ "single_step" \in registered
  /\ pending' = pending \ {"single_step"}
  /\ UNCHANGED <<frames, depth, asked, left>>

\* Slip: another method is stepped through, its exit is not watched.
StepsThrough ==
  /\ SingleStepped
  /\ method # Top.method
  /\ enabled' = Reenabled({}, registered)
  /\ UNCHANGED <<stoppedIn, registered, exitCount, target, method>>

\* cb_single_step in another method than that of the line.
StepsInto ==
  /\ SingleStepped
  /\ method # Top.method
  /\ registered' = {"method_exit"}
  /\ exitCount' = Len(frames)
  /\ enabled' = Reenabled({"method_exit"}, registered')
  /\ UNCHANGED <<stoppedIn, target, method>>

Reached == target # Nil /\ Top.location >= target

\* cb_single_step when the next line is reached.
StopsAtLine ==
  /\ SingleStepped
  /\ method = Top.method
  /\ Reached
  /\ registered' = {}
  /\ enabled' = {}
  /\ exitCount' = 0
  /\ target' = Nil
  /\ method' = Nil
  /\ stoppedIn' = "single_step"

\* cb_single_step on the way there.
StepsOn ==
  /\ SingleStepped
  /\ method = Top.method
  /\ ~Reached
  /\ enabled' = Reenabled({}, registered)
  /\ UNCHANGED <<stoppedIn, registered, exitCount, target, method>>

---------------------------------------------------------------------------
(* The user's commands, while the thread is stopped *)

\* The callback returns.
Resumes(on) ==
  /\ stoppedIn' = Nil
  /\ enabled' = Reenabled(on, registered')
  /\ depth' = depth

\* Slip: frames are counted from 0.
FrameFromZero(n) ==
  /\ stoppedIn # Nil
  /\ n \in (1 - Len(frames))..Len(frames)
  /\ depth' = n - 1
  /\ UNCHANGED <<frames, pending, stoppedIn, asked, left, stepVars>>

\* frame(n), up() and down().  GetStackTrace counts a depth below 1 from the
\* oldest frame: down() from the innermost frame selects the outermost.
Frame(n) ==
  /\ stoppedIn # Nil
  /\ n \in (1 - Len(frames))..Len(frames)
  /\ depth' = n
  /\ UNCHANGED <<frames, pending, stoppedIn, asked, left, stepVars>>

\* The index in frames of the frame the user looks at.
Selected == IF depth > 0 THEN Len(frames) + 1 - depth ELSE 1 - depth

\* current_thread().frames[depth] has a line table to look into; without one, or
\* without the frame, the line fails.
HasLines == Selected \in DOMAIN frames /\ frames[Selected].method \notin Natives

\* The first entry of the line table after the location of the selected frame:
\* there is one or none.
NextLines ==
  LET here   == frames[Selected].location
      starts == LineStarts[frames[Selected].method]
  IN  {starts[i] : i \in {i \in DOMAIN starts :
                            /\ here < starts[i]
                            /\ \A j \in 1..(i - 1) : starts[j] <= here}}

\* A thread that stopped at the exit of a method goes on by leaving it.
Resumed ==
  IF stoppedIn = "method_exit" THEN frames' = Front(frames) /\ pending' = {}
                               ELSE UNCHANGED <<frames, pending>>

Gone(i) == stoppedIn = "method_exit" /\ i = Len(frames)

\* g()
Go ==
  /\ stoppedIn # Nil
  /\ UNCHANGED <<registered, exitCount, target, method>>
  /\ Resumes({})
  /\ Resumed
  /\ asked' = asked
  /\ left' = (left \/ Gone(asked))

\* next_line() when the method has a later line
NextLine ==
  /\ stoppedIn # Nil
  /\ HasLines
  /\ \E l \in NextLines : target' = l
  /\ method' = frames[Selected].method
  /\ registered' = Kinds
  /\ exitCount' = 0
  /\ Resumes(Kinds)
  /\ Resumed
  /\ asked' = Selected
  /\ left' = Gone(Selected)

\* next_line() on the last line
StepOut ==
  /\ stoppedIn # Nil
  /\ HasLines
  /\ NextLines = {}
  /\ registered' = registered \cup {"method_exit"}
  /\ exitCount' = 0
  /\ UNCHANGED <<target, method>>
  /\ Resumes({"method_exit"})
  /\ Resumed
  /\ asked' = 0
  /\ left' = FALSE

---------------------------------------------------------------------------

Next ==
  \/ \E l \in AllLocations : Move(l)
  \/ \E m \in Methods : Call(m)
  \/ LeavesUnnoticed \/ NestedReturns \/ StopsAtExit
  \/ HitBreakpoint \/ StepsInto \/ StopsAtLine \/ StepsOn
  \/ Go \/ NextLine \/ StepOut
  \/ \E n \in (1 - MaxDepth)..MaxDepth : Frame(n)

Spec == Init /\ [][Next]_vars

---------------------------------------------------------------------------
(* Properties *)

\* A step over a call finds its way back: while single steps are given up for a
\* callee, that callee is on the stack and its exit will be noticed.
CalleeIsWatched ==
  exitCount > 0 =>
    /\ Len(frames) >= exitCount
    /\ stoppedIn = Nil => enabled = {"method_exit"}

\* next_line() does not miss its line: whatever the line calls, and however the
\* calls end, the frame the user stepped in executes nothing at or after the next
\* line's location before the thread has stopped there.
NextLineIsNotMissed ==
  Executes /\ Len(frames) = asked /\ ~left /\ target # Nil => Top.location < target

\* A step stops where it began: a thread that stops at a line stands in the frame
\* next_line() was called for or, when that has gone, in one further out; not in
\* a method the line called, except within a recursion of its own method.
StopsWhereAsked ==
  [][StopsAtLine /\ asked # 0 =>
       \/ asked = Len(frames) /\ ~left
       \/ asked > Len(frames) /\ left
       \/ \E i \in 1..(Len(frames) - 1) : frames[i].method = Top.method]_vars
===========================================================================

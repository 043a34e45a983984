# Yellow Tree in TLA+

Yellow Tree is a debugger for Java programs: a JVMTI agent in C that carries a
Lua interpreter, and a Lua library (`debuglib.lua`, `java_bridge/`) in which the
debugger is written.  The user types Lua at a prompt while the threads of the
Java program run into breakpoints and single steps.  What makes it hard is that
Lua code runs on every thread of the virtual machine at once and shares
everything: `debug_thread`, the list of breakpoints, `lj_current_thread`, the
stack of the one shared `lua_State`, and every Lua variable that lacks a `local`.

This directory models that: TLA+ modules translated from the source, TLC runs
over small instances, and proofs, checked by TLAPS, for instances of any size.
All paths below are relative to the root of the repository, written `src/`.

## The system

| component | state | operations | meets |
| --- | --- | --- | --- |
| raw monitors (`lua_java/lj_raw_monitor.c`, `java_bridge/jmonitor.lua`) | owner, entries, waiting threads | enter, exit, wait, notify, notify all | every other component locks with them |
| event queues (`debuglib/event_queue.lua`, `event.lua`) | one table and one monitor per Java thread | push, pop | interpreter and `g()` push, `jthread:handle_events` pops |
| debugger session (`debuglib.lua`, `java_bridge/jthread.lua`) | `debug_lock`, `debug_thread`, `breakpoints`, the event queues | `start_cmd`, `g`, `bp`, `bc`, `cb_breakpoint`, `handle_events` | called by the event callbacks on the thread that hit something |
| agent start-up (`yt.c`, `lua_interface.c`) | `thread_resume_monitor`, the two threads' progress | `Agent_OnLoad`, `cbVMInit`, `lua_start_cmd`, the runfile | starts the interpreter, is resumed by `g()` |
| event callbacks (`lua_jvmti_event.c`) | registered functions, `lj_current_thread`, the stack of `lj_L`, enabled events per thread | seven copies of one callback (`cb_*`), set and clear a function | called by the virtual machine, call `cb_*` of `debuglib.lua` |
| stepping (`debuglib.lua`) | `next_line_location`, `next_line_method_id`, `previous_frame_count`, `depth` | `next_line`, `frame`, `up`, `down`, `cb_single_step`, `cb_method_exit`, `check_nested_method_return` | registers functions with the event callbacks |
| stack frames and locals (`debuglib.lua`, `debuglib/frame.lua`, `java_bridge/jthread.lua`, `lua_java/lj_stack_frame.c`, `lj_force_early_return.c`) | `depth`, the table `threads`, the global `self`, the frames the user keeps | `frame`, `up`, `down`, `Frame.create`, `Frame:__index`, `force_return` | goes through `lj_current_thread`, which the callbacks write |
| breakpoint table, line tables (`debuglib.lua`, `java_bridge/jmethod_id.lua`) | `breakpoints` | `bp`, `bc`, lookup of the breakpoint hit, location of a line | finds methods through classes and methods below |
| Java values and calls (`lua_java.c`, `java_bridge/jcallable_method.lua`, `types.c`, `jarray.lua`) | argument lists | conversions both ways, choice of the overload | called by every line that touches Java |
| classes, methods, fields (`java_bridge/jclass.lua` ...) | | member lookup through superclasses and interfaces, call of a method, value of a field | |
| references (`java_bridge/jobject.lua`) | global and local JNI references | create, global_ref, finalizer | not modelled, see the plan |
| input, output, field watches, editor modes, tests, vendored Telescope | | | not modelled |

What makes each correct, in a sentence:

* *monitors and queues*: no wake-up is lost, `pop` returns events in the order
  they were pushed and never indexes an empty table, and nobody is stuck;
* *session*: one thread at a time is in the debugger; the thread the user's
  lines go to is that thread; a stopped thread can be set going; every thread
  that hit a breakpoint gets its turn; the entries of `debug_lock` are all
  accounted for, also those errors leave behind;
* *start-up*: the program begins when told to and not before;
* *callbacks*: a Lua state lives as long as its callback; the events turned off for
  a callback stay off until it ends;
* *stepping*: a step stops before the next line is executed, in the frame it began
  in or further out, whatever the line calls and however the calls end;
* *frames*: the selected frame exists; a Frame is the frame it says, a forced
  return returns from it, and a variable read from it has its value there; a
  callback that should stop its thread does;
* *breakpoint table*: the list is what the virtual machine has, also after a call
  that failed half-way; a breakpoint is on the line asked for; a hit is taken for a
  breakpoint of its own method;
* *values and calls*: a method that accepts the arguments is found, and called with
  them; what is assigned to an array element is read from it; what a method returns
  can be handed to the next one and arrives there as it was;
* *references*: an object that Lua can still name is not collected, and one that it
  cannot is.

What is hard to test: a callback may begin on any thread at any time, and also
*within* Lua code that runs Java code, on the same thread; an error in a callback
skips the unlock; the wait of a stopped thread can be interrupted by the program;
`debug_thread` is read without the lock by the interpreter and by `g()`;
`lj_current_thread` is written by threads that then wait for the lock;
`Frame.create` fills a global; a notification before the wait is lost.
`PROJECT.json` lists the hazards one by one, each at its line and with the
properties that watch it.

## Modules

| module | models | lines it stands for |
| --- | --- | --- |
| `RawMonitor` | operators: the effect of each monitor call | `lua_java/lj_raw_monitor.c` |
| `EventChannel` | abstract: a FIFO channel | what `handle_events` relies on |
| `EventQueue` | push and pop, one action per statement | `debuglib/event_queue.lua` |
| `Session` | abstract: who is in the debugger and whom the lines go to | what `cb_breakpoint`, `handle_events` and `start_cmd` promise |
| `DebugSession` | the debugger at work, one action per access to shared state | `debuglib.lua`, `java_bridge/jthread.lua` |
| `MCDebugSession` | the symmetry of the program's threads, for TLC | |
| `AgentStartup` | from loading to the first line of the program | `yt.c`, `lua_interface.c`, `start_cmd` |
| `EventCallbacks` | from a JVMTI event to a Lua function and back | `lua_jvmti_event.c`, `get_current_java_thread` |
| `Stepping` | `next_line` and the stepping callbacks over the call stack of a thread | `debuglib.lua` |
| `MCStepping` | the program that is stepped through, for TLC | |
| `Inspection` | frames, locals and forced returns, several threads | `debuglib.lua`, `debuglib/frame.lua`, `jthread.lua`, `lj_stack_frame.c`, `lua_java.c` |
| `MCInspection` | the program that is looked at, for TLC | |
| `JavaTypes` | operators: types, values, widths | `lj_call_method`, `raw_passthrough`, `create_jobject` |
| `ClassHierarchy` | operators: members by name, identity of methods | `java_bridge/jclass.lua`, `jmethod_id.lua`, `lj_method.c` |
| `Breakpoints` | `bp`, `bc`, the lookup of a hit, lines | `debuglib.lua` |
| `CallableMethod` | choice of the overload, conversion of arguments | `java_bridge/jcallable_method.lua`, `lj_call_method` |
| `Results` | what methods return and fields hold | `jmethod_id.lua`, `lj_call_method`, `lj_get_field`, `types.c` |
| `JavaArrays` | reading and writing array elements | `java_bridge/jarray.lua`, `lua_java.c` |
| `JavaBridge` | the four above behind one prompt | the loop of `start_cmd` |
| `MCJavaBridge` | classes, arrays and typed values, for TLC | |
| `RawMonitor_proofs`, `EventQueue_proofs`, `DebugSession_proofs`, `AgentStartup_proofs`, `EventCallbacks_proofs`, `Stepping_proofs`, `Inspection_proofs`, `JavaBridge_proofs` | proofs | |

`EventQueue`, `DebugSession` and `AgentStartup` build on `RawMonitor`.
`EventQueue` implements `EventChannel` (`Channel == INSTANCE EventChannel WITH
...`, property `IsChannel`), and that is why `DebugSession` may use plain
sequences for the queues.  `DebugSession` implements `Session` (property
`IsSession`).  `Results` extends `CallableMethod`, and this and `Breakpoints`
extend `ClassHierarchy`, which extends `JavaTypes`; `JavaBridge` composes them
with `JavaArrays`.

### RawMonitor and EventQueue

A monitor is a record of owner, number of entries and the set of threads that
wait and have not been notified.  `RawMonitorWait` is two steps: `Waiting` gives
up all entries, `Reentered` takes them back, after a notification or after an
interrupt.  JVMTI's raw monitors are external; they are modelled as
`lj_raw_monitor.c` uses them.  Spurious wake-ups are not modelled: JVMTI names
notification, time-out and interrupt as the ways a wait ends, and the code passes
no time-out.

`EventQueue` has one program counter per thread and an action for each statement
of `push` and `pop`.  `PopInterrupted` is the wait that ends in
`JVMTI_ERROR_INTERRUPT`: `lj_check_jvmti_error` raises a Lua error, and `pop` has
no unlock on the way out, so the owner keeps the entry; `interrupted` counts
them and `LockAccounting` says that nothing else goes astray.

### Session and DebugSession

`Session` says what the debugger promises, without locks or an order of
statements: a thread enters when no other is inside, the lines go
to the thread that is inside and never from one to another directly, and a thread
leaves only when no more lines come to it.  An event is addressed to the thread
the lines go to (`Address`) and handed over later (`Hand`): the addressee may have
left in between, and then finds the event when it comes in again.  What a thread
was handed it takes in order, and only while it is inside.  Under the refinement
mapping a thread is inside as many times as it has entered `debug_lock`, also by
callbacks that an error broke off, `debug_thread` is the thread the lines go to,
and what a thread has read of `debug_thread` and not used yet is its addressee.

In `DebugSession` `pc` has, per thread, the next access to shared state; everything
between two accesses is part of one action.  What a thread has read and is going to
use after another access is in `found`.

* A thread of the program is at `run` and `HitBreakpoint` takes it to `enter`,
  `set`, `lookup`, then `handler` or `events`, `clear`, `unlock`
  (`cb_breakpoint`).  What it goes on with afterwards is pushed on `suspended`,
  so callbacks nest: in a line that runs Java code (`call`) and in a breakpoint's
  handler.  At `events` the queue is looked at; a thread that found it empty is at
  `waiting`, where the wait may be interrupted, whether an event has come by then
  or not.
* The interpreter is at `read`, then `check` (line 93), then evaluates the line
  itself or is at `push` (line 100), where `debug_thread` is read again, and at
  `deliver`, where the event is inserted in the queue of the thread read
  (`event_queue.lua:30`).  `g()` takes the same three steps (`g`, `g_push`,
  `g_deliver`).
* `bp` searches the list (`bp`), sets the breakpoint (`bp_set`) and lists it
  (`bp_insert`); `bc` reads the entry (`bc`), clears the breakpoint (`bc_clear`) and
  removes what has the number by then (`bc_remove`).  Other threads may do the same
  between any two of these.
* Commands are `g`, `bp`, `bc`; `call` stands for any line that runs Java code,
  `raise` for one whose error is not a string, `badresult` for one whose result
  cannot be printed (its `__tostring` fails).  A line with any other error, or
  with none and no effect on the shared state, would be a stutter.
* `Abort` is an error that leaves `cb_breakpoint`: `assert(bp)` (`LookupFails`),
  the interrupted wait (`WaitInterrupted`), the unprotected printing
  (`EvaluationFails`), and `debug_thread:handle_events()` with `debug_thread` nil
  after a nested callback (`StopFails`).  `aborted` counts them per thread.

Left out of it: `debug_event` (only the tests wait for it), the output, `bp` with
a method object that has several candidates and `bc()` without a number (loops of
the calls that are modelled), the location of a breakpoint (one per method), the
stepping callbacks, and Java code the debugger itself calls in between
(`Thread.getName` in `current_thread`): a breakpoint on that would recurse without
end.  A loop over the list of breakpoints is one read of it.  The threads have
distinct names, so that `current_thread()` is the thread that asks for it;
`Inspection` has the namesakes.

### AgentStartup

Two threads, that of the virtual machine (`vm`) and that of the interpreter
(`cmd`), and what the runfile comes to.  No thread is debugged before the
program begins, so `g()` takes the branch of `thread_resume_monitor` here;
`DebugSession` has the other one.  With `Fallible` the set-up calls may fail: the
start-up aborts where `check_jvmti_error` or an assertion sees it, and goes on where
the result is dropped.  That of `RunAgentThread` is (`RunAgentThreadFails`), and so
are those of `CreateRawMonitor` and `RawMonitorWait`.  Without a monitor (`made`),
its identifier was never set: the virtual machine refuses it, so that the program
begins at once (`PassesResume`) and `g()` raises an error (`GLockFails`), or crashes
on it (`ResumeCrashes`).  With `Interrupts` the wait may end in
`JVMTI_ERROR_INTERRUPT`, and the program begins (`WaitInterrupted`).  `told` and
`interrupted` are history: the first is true once a `g()` has notified the monitor
while `cbVMInit` was waiting on it, and not by one that came before.

### EventCallbacks

`frames[t]` is the stack of what thread `t` is doing, innermost last: Java code,
callbacks, and the two-step calls that register or clear a function.  The seven
`cb_*` functions of `lua_jvmti_event.c` are copies, so one action sequence
stands for them, and the kind of the event matters to whether it occurs only.  A
callback is named by its thread and its depth there.  Three history variables are
about the callbacks in progress: `began` has those with a state in the order they
began, `overtaken` those during which one that began before them ended, `apart`
those that nothing has come between: no event or registration on another thread,
no registration in it, no callback nested in it that has ended.  Not modelled: that two
threads may be inside one `lua_*` call on `lj_L` at the same instant (no model
can say what that does), and threads that end.

### Stepping

`frames` is the call stack of one thread; `Move`, `Call` and the ways to leave a
method are the program's, and external.  Before a location is executed the events
that are due are posted (`pending`), breakpoint and single step in either order.
A callback that does not stop its thread is one action (`StepsInto`, `StepsOn`,
`NestedReturns`); one that stops it (`HitBreakpoint`, `StopsAtLine`,
`StopsAtExit`) sets `stoppedIn`, and `Go`, `NextLine` and `StepOut` (`next_line()`
on the last line) are the commands that let it return.  `exitCount` says which
function is registered for method exits: 0 for `cb_method_exit`, otherwise the
closure `check_nested_method_return` returned, with its frame count.
`Reenabled` is `enable_events_after_callback_handling` with its `else if`: with
both functions registered only single steps come back.  `asked` and
`left` are history: the frame `next_line()` was called for and whether it has gone.

Native methods are leaves of the call tree.  Not modelled: Java code that a
stopped thread's lines run, several threads (the registered functions and
`next_line_location` are shared by all of them), and `step()`, which is a stub.

### Inspection

Several threads, each with a stack (innermost frame first) and a name, and the
interpreter.  A thread that hits a breakpoint or is stopped by a step is at
`enter` (its C callback has written `lj_current_thread`, and it waits for
`debug_lock`), then `print` (`dbgio:print(current_thread().frames[depth])`), then
`stopped`, where it evaluates lines.

* `Frame.create` is two actions, since `self = frame_raw` is an assignment to a
  global: `CreateFrame` assigns it and begins the lookup of the method, which calls
  Java; `FinishFrame` sets the thread of whatever `self` is by then, and returns it.
  `by` says who made a Frame, `complete` whether it has a `method_id`.  A Frame is a
  table, so the user's variable and `self` may be one: `kept = Alias`.
* `GetStackTrace` and the functions for locals count differently: a start depth
  below zero is counted from the oldest frame by the former (`Position`), and
  refused by the latter (`GetLocal`).
* `CurrentThread` is `current_thread()` with its table of threads by name.  Two
  threads may have one name, and a thread may have ended that the table still has.
* Lines that concern frames are actions: `SelectFrame` (`frame`, `up`, `down`),
  `KeepFrame` (`f = frame()`), `ReadName` (a global name, looked for in the selected
  frame), `ReadThroughFrame` (`f.name`), `ForceReturn`; and `InspectThread`, a line
  the interpreter itself evaluates about a thread of the program.  It can do so
  while a thread is on its way into the debugger, and begin before and end after
  (`CheckEvaluates`).
* A value is named by where it is: thread, frame and slot.  `shown` remembers the
  last one read and of which thread; `fresh` is history and says that the Frame
  kept was made in the stop that lasts.

Left out: handlers of breakpoints, Java code the lines run, and the loop of
`Frame:locals`, which reads a field that is never set and fails.  A local cannot be
assigned in this debugger, and a forced return of a primitive is refused
(`frame.lua:59`).  `lj_get_local_variable` is also reached with a slot that the
user gives (`local_slot`); `LocalOf` is the same call with the slot of a name.  The
conversion of what is read (`lua_java.c:190`) is that of `JavaTypes!FromJava`, and not
repeated here.

### JavaBridge

At the prompt a line is typed, and `outcome` says what it came to; `Prompt` reads
the next one.  Types are an element type and a number of dimensions, a method is a
record of its class, name, parameter types, line table and two of its modifiers,
and the classes are a constant: nothing in the code changes them.

* `Breakpoints`: a `bp()` begins with the methods it is for, one (`BpMethod`) or all
  that a name may mean (`BpCallable`), and then takes them one after the other, a
  step each (`Add`): location of the line, the search for a breakpoint that exists,
  `lj_set_breakpoint`, and then `table.insert`.  An error at one of them leaves those
  before it set and the others out.  `Hit` is `cb_breakpoint` up to `assert(bp)`.
  `DebugSession` has the same list with the interleavings and without lines,
  overloads and classes.
* `CallableMethod`: `Tries` are the pairs of a parameter and an argument in the order of the
  two loops of `jcallable_method:__call`, and `Choose` calls the method at which as
  many as there are arguments have been converted.  That is the code's `jargs`,
  which is never emptied; `Pieces` is what `parse_arg_spec` makes of `[[`.
* `Results`: a call is two steps, the choice of the method (`Call`) and `Return`:
  the value the method comes to (`Ends`: one of its type, an exception, or anything
  when JNI is given a target the method cannot have), then what `lj_call_method`
  asks for (`PreferredRet`) and makes of it (`ReturnValue`).  `GetField` is the same
  for a field, of an object or of a class.
* `JavaArrays`: exceptions of the virtual machine are printed and cleared
  (`EXCEPTION_CHECK`), so an index outside of the array or an object of the wrong
  class is no error.  What is read outside of an array of primitives is an
  uninitialised variable: any value of the type.

A number of Lua 5.2 is a double: `FromJava` rounds a whole number to the nearest one
(`ToDouble`, of two the even one) as `lua_pushinteger` does with a `lua_Integer` of 64
bits; the build for 32-bit Windows, where it has 32, is not modelled.  The way back is
a cast, of 2^63 as an x86 does it (`Wrap`).  `ComesBackAsItWas` says of a number no
double is: the call that it is handed to gets what Lua shows.

External: `isAssignableFrom`, JNI's resolution of methods, the array store check.
Left out: `F` and `D`, fractions and numeric strings, argument lists that end in nil
(which `#args` does not count), and the names `jclass.lua` itself defines, which hide members of that name in Java (`Class.getName` is found,
a static method called `find` or `create` is not).

## Runs

| run | instance | shows |
| --- | --- | --- |
| `EventQueue_all` | 3 threads (interpreter, another, the owner), 3 events under way, 2 interrupts; fair | `TypeOK`, `LockAccounting`, `NoLostWakeup`, `IsChannel`, `PopDelivers`, `PushCompletes` |
| `DebugSession_safety` | interpreter and 2 threads (symmetric), 1 method with a handler, all commands, interrupts, callbacks nested 2 deep, 1 event from the interpreter per queue, 1 broken-off callback per thread | `TypeOK`, `LockAccounting`, `ListAccounting`, `IsSession` |
| `DebugSession_live` | interpreter and 2 threads, `g`, `bc`, `badresult`, no nesting; fair | `StoppedIsDebugThread`, `StoppedIsResumed`, `HitIsServed` |
| `AgentStartup_all` | every runfile, calls of `g()` in it, failing set-up calls, an interrupted wait; fair | `TypeOK`, `BeginsWhenTold`, `ResumeAccounting`, `TypingGBegins` |
| `EventCallbacks_all` | a thread of the program and an interpreter, breakpoints, single steps, method exits, callbacks nested 2 deep that register and clear the stepping functions | `TypeOK`, `StackBalanced`, `KeptUnlessOvertaken`, `NotReentered` |
| `Stepping_all` | a method with three lines and a loop that calls itself, a two-line method and a native one; 3 frames deep; returns and exceptions anywhere; 2 breakpoints | `TypeOK`, `CalleeIsWatched`, `NextLineIsNotMissed`, `StopsWhereAsked` |
| `Inspection_all` | interpreter and 2 threads, of one name or of two (symmetric), stacks of 2 frames, 2 callbacks, 3 lines that concern frames; a method with three variables in two slots and a static one | `TypeOK`, `SelectedFrameExists`, `FrameIsWhatItSays`, `LocalIsRight`, `StopsItsThread`, `ForcesTheFrameAsked` |
| `JavaBridge_all` | an interface, a class that implements it and a subclass, with overloads, a static, an abstract and a hidden method, constructors, fields and a line table out of order; breakpoints in the methods of one name; 11 argument lists on an object and on a class; an array of bytes and one of objects | `TypeOK`, `ListMatchesVM`, `HitFindsItsMethod`, `LineIsFound`, `MatchIsFound`, `OwnArguments`, `ComesBackAsItWas`, `ReadsBack` |

Four more runs end in a violation, each of something the repository says:

| run | violated | what happens |
| --- | --- | --- |
| `DebugSession_assert` | `HitIsListed` | `bc()` while a thread is on its way into `cb_breakpoint`: `assert(bp)` fails, `debug_lock` stays entered |
| `AgentStartup_runfile` | `RunfileFalseBegins` | a runfile that returns false ends the interpreter without notifying anybody; `configuration.md` promises that execution begins |
| `EventCallbacks_anchor` | `StateAnchored` | two threads leave their callbacks in the order they came: `lua_pop(lj_L, 1)` pops the state of the one that stays |
| `Inspection_locals` | `LocalsOfTheFrame` | a thread is stopped and another one hits a breakpoint: the locals the user reads of the first one's frame are those of the second's stack, since `lj_get_local_variable` goes by `lj_current_thread`.  The commands are documented to be about the current stack frame |

The bounds, and why they are enough:

* Session: three threads are needed for one to be in the debugger, one to wait for
  `debug_lock` and one to type; two callbacks on one thread for re-entry (a third
  nests in the second as the second does in the first); one event per queue for a
  RESUME that is left over, and the stopped thread may add more from `g()`; one
  broken-off callback per thread for the lock to be lost, after which the thread's
  later callbacks differ by a number that `LockAccounting` ties to `aborted`.
* Queue: three events let two threads push while one event is in the table.
* Stepping: three frames let a stepped-over call itself call, and the recursive
  method be its own callee's callee; the loop has a way back over the line's start.
* Callbacks: two threads for callbacks to overtake each other and to leave the wrong
  thread in `lj_current_thread`, one of them an interpreter, which also registers
  outside of callbacks; two callbacks on each for one to end inside the other.
* Inspection: two callbacks (`MaxCallbacks`) let a second thread come in while the
  first is stopped, or one thread stop twice; three lines (`MaxLines`) select a
  frame, keep it and use it; two frames (`MaxFrames`) make the selected frame differ
  from the innermost; two names let threads be namesakes or not.  `i` is declared
  twice in one method, once in each slot; `j` takes over the first slot; `j` of the
  static method, with which every thread begins, is where `this` would be.
* JavaBridge: widths are scaled down to 2 bits for `B` and `C`, 3 for `S` and `I`, 6 for `J`
  (`Half` is half the number of values a type has), and 2^53, up to which a double is
  any whole number, to 8 (`Precision`): what wrapping and rounding do is the same for
  all.  A `J` goes up to 31, where doubles are 4 apart, and its largest value is
  rounded out of the type.  Nothing bounds
  the list of breakpoints but what can be set: of the methods called `run`
  one is abstract, and of the line tables of the others one is out of order.

What does not depend on the bounds is proved.

`CHECK_DEADLOCK FALSE` stands where the system may really stop: the interpreter
has ended and every thread waits, a runfile has returned false, the agent was
refused, the program that is looked at or stepped through is over.

Some properties name the cases in which the code fails what they say, so that
they hold of everything else: `KeptUnlessOvertaken` (a callback that began earlier
has ended: `EventCallbacks_anchor` is the same without the exception),
`NotReentered` (something came between: a callback or a registration on another
thread, which may make the events of the wrong thread go off and on, or a nested
callback, which turns them on again on its way out), `ListAccounting` (two threads
inside `bc()` at once), `BeginsWhenTold` (no monitor, an interrupted wait),
`StopsItsThread` (a namesake that has ended; the
interpreter inside `Frame.create`), `LocalIsRight` (another thread's callback has
come in between; names declared twice; slots that are another variable's by now)
and `SelectedFrameExists` (after a step, and for namesakes, `depth` may be beyond
the stack).

### Fairness

* A thread inside `push`, `pop`, `cb_breakpoint` or the evaluation of a line, the
  interpreter and the thread of the virtual machine keep running (weak fairness
  of their steps): operating system threads are scheduled.
* A thread that asks for a monitor again and again finds it free and gets it at
  last (strong fairness of `PushLock`, `PopLock`, `PopWake`, `EnterDebugger`,
  `EnterResume`, `Wakes`): monitors do not starve a thread for ever.
* The user types `g()` again and again (strong fairness of `ReadLine(g)` and
  `TypesG`): the liveness properties say that this is enough.
* Nobody has to begin a push or a pop, hit a breakpoint or interrupt a thread.
  Handlers (`HandlerReturns`) and Java code called from a line (`CallReturns`)
  end; the run with fairness has neither.

## Proofs

For any number of threads, methods, events and callbacks, any bounds and any
commands; the assumptions are those named in the modules (`EventQueueAssumption`,
`SessionAssumption`, `StartupAssumption`, `CallbacksAssumption`,
`SteppingAssumption`, `InspectionAssumption`, `ThisAssumption`): the special values
differ from the threads, methods and frames, the bounds are natural numbers, a line
table names locations of its method, and `this` is in the first slot.  For
`JavaBridge` they are `TypesAssumption` (no class is above itself, a width is a
positive number), `MembersAssumption` (a class declares a method of one name,
parameters and result once; constructors return nothing), `FieldsAssumption`,
`BreakpointsAssumption`, `CallsAssumption`, `ArraysAssumption` and
`ResultsAssumption` (each says what the members, lines, argument lists, arrays and
values are).

* `EventQueue_proofs`: `TypeCorrect`, `LockIsAccountedFor`, `WakeupNotLost`,
  `PopAlwaysFindsEvent`, and `Refinement`: the queue implements `EventChannel`.
  The inductive invariant adds to `LockAccounting` that only the owner waits and
  that an owner past its wait has an event.  The second is why `if` is enough in
  `pop`: a queue has one consumer, nobody else removes, and the owner is taken
  off the wait set only by a push that has already inserted.
* `DebugSession_proofs`: `TypeCorrect`, `LockIsAccountedFor`, `DebugThreadIsOwner`,
  `ListAgrees`, and `KeepsItsPromise`: the debugger implements `Session`.
  `LockAccounting` and `DebugThreadOwnsLock` are not inductive: returning from a
  callback restores what it suspended, so `Nesting` says that a thread is inside a
  callback exactly when it has suspended something, `CommandFits` that a thread in
  the middle of `bp` has a command with a method, `Cleared` that `debug_thread` is
  not the thread that is about to unlock.  The refinement has a case per action:
  those inside a callback need that the thread holds the lock (`LockAccounting`),
  so that it is alone and `debug_thread` is it or nobody (`DebugThreadOwnsLock`);
  leaving needs `Cleared`; one that delivers an event has an addressee because what it
  has read is never nil.  `ListAccounting` counts, for each breakpoint, its entries in
  the list, the threads about to insert it and those about to remove it; `SetBreakpoint`
  and `ClearBreakpoint`, which fail when there is nothing to do, are what keeps the
  account.  It needs that a thread in `bc()` finds under its number what it read there,
  as long as it is the only one there (`AloneInBc`): others only append.  `StoppedIsFocus` is `StoppedIsDebugThread` for
  `MaxNest <= 1`: no thread has two callbacks in progress, and one that is past
  `SetDebugThread` and short of `ClearDebugThread` is `debug_thread` (`Focused`),
  because whoever else would write it is kept out by `debug_lock`.
* `AgentStartup_proofs`: `TypeCorrect`, `ResumeIsAccountedFor`,
  `NothingBeginsUntold`, from an invariant that only the thread of the virtual
  machine waits, is taken off the wait set by nobody but `g()` (`WokenByG`), and that
  without a monitor nobody is inside one (`NobodyInside`).
* `EventCallbacks_proofs`: `TypeCorrect` and `StackIsBalanced`: the stack of `lj_L`
  has one entry per callback in progress, on all threads together.  The invariant
  adds `Bottom`, that below every callback there is the program or an interpreter,
  so that what a callback returns to exists, and `KindFits`, that a frame has the
  kind its step needs.  The number of callbacks in progress goes up and down by
  one with `FS_AddElement` and `FS_RemoveElement`.  `KeptUntilOvertaken` rests on
  `Recorded`: the list of callbacks in the order they began is as long as the stack,
  and whatever has not been overtaken is at the same place of both.  A callback that
  ends takes the top of the stack and its own place of the list, so that only what was
  behind it moves, and that is overtaken.  `NeverReentered` rests on `ApartFits`: while a
  callback is apart the other threads have none, so that `lj_current_thread` is its own
  thread from `SetCurrent` on, whatever it was before, and what the callback turns off
  stays off.
* `Stepping_proofs`: `TypeCorrect`, `CalleeStaysWatched`, `LineNotMissed`,
  `StepStopsWhereAsked`, for any program and any depth.  A step under way is in one
  of two phases: single steps are on, or the thread is inside a callee and only
  method exits are on, with the frame count of that callee; `Watched` ties the
  registered functions to the enabled events in the second, `Followed` says that as
  long as the frame `next_line()` was called for exists one of the two holds, and
  `Stopped` that a stopped thread has a frame.  Once the frame of the step has gone,
  `Outward` takes over: every frame from where it was up to the innermost one that
  single steps are posted for was called by the method of the step; a caller that is
  returned to is in the middle of its call (`Called`) and calls nothing more before
  its next single step (`Ready`).
* `Inspection_proofs`: `TypeCorrect`, `SelectedFrameIsThere`, `ThreadIsStopped`,
  `KeptFrameIsRight`, `ReturnIsForcedThere`, `LocalIsTheFrames`, for any threads and
  names, any methods and variables, any depth of stacks.  Four invariants on top of
  one another:
  `TInv`, that whoever is inside `Frame.create` finds a frame in `self`, also when
  somebody else has replaced it; `IInv`, that a thread at a prompt owns `debug_lock`
  (`Inside`), that an object of the table `threads` has the name it is found under
  (`KeyIsName`), that a thread inside `Frame.create` finds its own frame in `self`
  or one the interpreter made (`Maker`), and that the frame about to be selected
  exists (`Selection`); `FInv`, that the interpreter hands every line over while a
  thread is inside (`Led`) and so is not in `Frame.create` from the first line the
  stopped thread evaluates on (`Line`), which makes the Frame it keeps its own, and
  true of a stack that does not move (`Fresh`); `LInv`, that what is shown was read
  by the thread that evaluates lines (`ShownWell`).  That the slot a name is looked up
  in is the variable's is a lemma about one declaration and one stack (`ReadRight`).
* `JavaBridge_proofs`: `TypeCorrect`, `ListsWhatIsSet`, `BreaksAtLine`, `HitsOwnMethod`,
  `FailsWithoutMatch`, `CalledWithOwnArguments`, `ValuesReturn`, `ReadsWhatWasSet`, for
  any hierarchy of classes, members, line tables, arrays and widths.  One invariant per
  component:
  `BreakpointsInv` adds to `ListMatchesVM` that an entry is at the location of its line
  and is of the method its class declares itself, if that declares one of its signature
  (`Listed`, `Own`), and where a `bp()` in progress is (`Turn`).  The search for a
  breakpoint that exists compares names, signatures and the class that was looked in;
  the virtual machine compares methods.  That an overridden method never gets an entry
  beside the one that overrides it needs that `bp()` of a name comes to a class's own
  methods first (`InTurn`, from `OwnComesFirst`).
  `ArraysInv`: an element has a value of the array's type, so that what is read is not
  wrapped twice.  `CallsInv`: the call about to return is what `Choose` made of its
  arguments, so that `ReturnValue` meets only methods there are.
  What carries the rest are lemmas about the operators.  `SuperChain` is defined for
  every class because none is above itself, shown by a least counterexample
  (`ChainOfClass`), since the induction theorems cannot be instantiated; `FlattenSeq`,
  a recursive function of the community modules, is pinned down position by position in
  the same way (`FlattenParts`, `FlattenProperties`); a class's own methods come before
  those it inherits (`AllMethodsTypes`, `OwnComesFirst`); in an ordered line table the
  entry before the first that is too late is the right one (`WhereLineIs`,
  `NearestLine`); `Choose` calls the method at which as many arguments have been taken
  as there are, and when nothing is left over those are its own (`TriesProperties`,
  `ChooseProperties`); `Wrap` is the identity on the values of a type
  (`WrapProperties`); what has gone to Lua comes back (`ValuesComeBack`,
  `ReturnsComeBack`).
* `RawMonitor_proofs`: the types of the monitor operators, cited by all of them.

Attempts at these proofs changed the model where it was wrong or said less than it
seemed to.  `ComesBackAsItWas` had overlooked that a `toString` with another result
than a String comes back as one all the same.  In `ToJava` and `ReturnValue` the
guards of a CASE overlapped, which leaves the value open; they are in the code's order
now.  `Ancestors` is the least set that holds a class and what is above it, rather than
a recursion that nothing bounds.  `bp()` of a name was one step and is one for each
method, which is also how it fails.

Model-checked only: everything about liveness (`PopDelivers`, `PushCompletes`,
`StoppedIsResumed`, `HitIsServed`, `TypingGBegins`), which TLAPS cannot prove
under fairness.  Every other property of a passing run is proved as the run states
it, `StoppedIsDebugThread` under the restriction its run has too (`MaxNest <= 1`),
without which it is false.

## Behaviour the models show that no run reports

These are in the models.  Of most of them the repository says nothing.  Of some it
does: that an overload is called "only if all args matched"
(`jcallable_method.lua:108`), that the breakpoint that was hit is in the list (the
assertion at `debuglib.lua:358`), that a breakpoint does not exist already
(`debuglib.lua:253`), that events are off "for the duration of the callback"
(`lua_jvmti_event.c:50`).  For these a property states what is true of the code and
names the exception.

Start-up and session:

* a `g()` in the runfile can come before `cbVMInit` waits (`yt.c:96`) and is lost; a
  later one works (`TypingGBegins`);
* the result of `RunAgentThread` is not looked at (`yt.c:91` checks an older one),
  and the virtual machine waits for an interpreter there is not;
* the interpreter reads `debug_thread` at line 93 and again at line 100; when it
  has become nil the error ends the interpreter (`PushToNobody`);
* `g()` does the same at lines 109 and 111; there the line just fails;
* a breakpoint hit within a command of a stopped thread clears `debug_thread` when
  it is left: the outer stop gets no more lines and no RESUME.
  `StoppedIsDebugThread` is checked without nesting;
* `bc()` on two threads: `table.remove` takes what has the number by then
  (`BcRemoves`), and list and virtual machine disagree from then on
  (`ListAccounting` excludes it);
* a breakpoint may be in the list twice for a time: one thread sets it, another
  clears it and has not removed the entry yet, a third, which had searched before,
  sets it again and lists it;
* an event may reach the queue of a thread that has left the debugger since
  `debug_thread` was read: its next stop begins with the late command, or ends at
  once with the late RESUME;
* a wait of `cbVMInit` that is interrupted, or a monitor that could not be made, lets
  the program begin without `g()`;
* a line the interpreter evaluates itself runs into a breakpoint: the
  interpreter's thread stops, or waits for `debug_lock`, and no more lines are read;
* a second `g()` leaves a RESUME in the queue that ends the next stop at once;
* `test_breakpoint_on_main_thread` waits for `debug_event`, which `cb_breakpoint`
  broadcasts only when the handler does not return false; its handler does.

Callbacks and stepping:

* a callback that occurs inside another one, in Java code its function runs, turns the
  stepping events on again when it ends, and the outer one is no longer protected
  from being re-entered (`EnableAndReturn` makes `apart` empty);
* a callback between another one's `SetCurrent` and its use of `lj_current_thread`
  makes that one turn the events of the wrong thread off, or on;
* the `else if` of `lua_jvmti_event.c:65` leaves method exits off after the first
  single step, so a method that is left during a step is left unnoticed
  (`LeavesUnnoticed`), and the step ends only when the caller steps or is left;
* stepping out leaves `cb_method_exit` registered after it has stopped
  (`StopsAtExit`): the thread stops at the exit of every method from then on, and
  before that at the exit of whatever the last line still calls;
* a thread that stopped at the exit of a native method has no line table to look
  into: `next_line()` fails there (`HasLines`).

Frames and locals:

* `depth` is set back by `cb_breakpoint` only: after a step the user looks at the
  frame with the number selected before it, if there is one;
* `down()` from the innermost frame selects the outermost: `GetStackTrace` counts a
  start depth below zero from there.  Variables of it cannot be read;
* the interpreter inside `Frame.create` on behalf of another line takes `self` from
  a thread that has just stopped: its Frame has no `method_id` yet, printing it
  fails, and the callback is broken off with `debug_lock` locked (`PrintFails`);
* a thread with the name of one that has ended gets that one's object: its stack is
  gone and the callback is broken off (`NoStack`).  With one that lives, its frames
  are the other's;
* a Frame kept from an earlier stop is taken by its depth, whatever is there now;
* of variables declared twice under one name the last is read, wherever the thread
  is, and a name out of scope shows the variable that has its slot by then;
* `this` in a static method is its first argument, if that is an object.

Breakpoints, values and calls:

* a breakpoint set under the name of a class that inherits the method is not found
  when it is hit: `assert(bp)` fails (`HitFindsItsMethod` says that this is the only
  case).  All of `bp(object.method)` for an inherited method is of that kind;
* of several breakpoints in one method the last is taken for the one that was hit,
  also for its handler (`debuglib.lua:354` has a TODO);
* in a line table that is not in the order of its lines (`for` loops, expressions
  over several lines) a line may not be found although it is there;
* arguments an overload has taken before it failed to match stay in `jargs`:
  `set(String, int)` is called with an int for its String once `set(int, boolean)`
  has taken the first of `1, 1`;
* `parse_arg_spec` takes a parameter `int[][]` for two: a method with one is called
  with one argument never, and with two when both are null;
* no number is ever taken for a parameter of type byte, char or short;
* a nil for a String parameter is passed on as the string "nil" (`Accepts`), not as null;
* a `jlong` beyond 2^53 is another number in Lua, the nearest double; the largest are
  rounded to 2^63, which no `jlong` is (`Large` in `Results`);
* an instance method called on a class is invoked with the class for its object;
* `new` finds the constructors of the superclasses too, and runs one of those on an
  object of the class;
* an exception in the called method is printed and cleared, and comes back as nil,
  0 or false, like a value (`ReturnValue`);
* the result of any method called `toString` is handed to `GetStringUTFChars`, also
  when it is null or no string;
* the constants of interfaces are not found (`FindField`), and the class of a field
  is the one it was looked for in, where `java_bridge.md` says the declaring one;
* an array can be assigned to an element of an array of arrays only when these end
  in a class, not to one of an `int[][]`.

## Not modelled

* References: whether a Lua value holds a global reference (`jclass`, `jthread`, with
  a finalizer) or a local one that ends with the callback it came in (`jobject`).
  See the plan.
* `F` and `D` and fractions: TLC has no floating-point numbers, and the conversions
  of the code are C's.
* `lj_watch.c` (two calls passed on to the virtual machine), `console_io.lua`,
  `network_io.lua`, the Emacs modes, Telescope and the tests.
* What is printed: `dump`, `__tostring` and the messages.

## Plan

In this order; each module comes with its run, its mutants and, where it says so,
its theorems.

1. `References`: a local reference is valid until its callback returns, a `jobject`
   may be kept longer in a Lua variable; `global_ref` and the finalizers.
2. Stepping with several threads, which share the registered functions and
   `next_line_location`.
3. Proofs of what has no theorem because no run states it: that a hit is served by the
   handler of the breakpoint found, and the safety half of the liveness properties
   (what a stopped thread waits for is in its queue or can still be put there).

--------------------------- MODULE DebugSession ---------------------------
(* The debugger at work (debuglib.lua): application threads run into
   breakpoints, cb_breakpoint stops them under debug_lock and serves the events
   of their queue, and the command interpreter (start_cmd) reads lines, which
   it evaluates itself when no thread is being debugged and hands to the
   debugged thread otherwise.  Every global of debuglib.lua that two threads
   share is a variable; every read or write of one of them that another thread
   can get in front of is a step of its own, and what a thread has read and not
   used yet is in `found`.  A loop over the breakpoint list is one read.

   A line is reduced to the one command it calls.  The event queues are the
   channels of EventChannel, which EventQueue implements; of their locks only
   the entries an interrupted wait leaves behind are kept. *)
EXTENDS RawMonitor, SequencesExt

CONSTANTS AppThreads,    \* the threads of the debugged program
          CMD,           \* the thread of the command interpreter
          Methods,       \* the methods a breakpoint can be set on
          Handled,       \* those whose breakpoint is given a handler
          Ops,           \* the commands the user types
          Nil,           \* Lua's nil
          Interrupts,    \* whether the program interrupts its threads
          MaxNest,       \* bound: callbacks in progress on one thread
          MaxQueue,      \* bound: events the interpreter puts in one queue
          MaxAborted     \* bound: callbacks of a thread broken off by an error

Threads == AppThreads \cup {CMD}

AllOps == {"g", "bp", "bc", "call", "raise", "badresult"}

ASSUME SessionAssumption ==
  /\ CMD \notin AppThreads
  /\ Nobody \notin Threads
  /\ Nil \notin Threads \cup Methods
  /\ IsFiniteSet(AppThreads) /\ IsFiniteSet(Methods)
  /\ Handled \subseteq Methods
  /\ Ops \subseteq AllOps
  /\ Interrupts \in BOOLEAN
  /\ MaxNest \in Nat /\ MaxQueue \in Nat /\ MaxAborted \in Nat

\* bp takes a method and bc an index of the breakpoint list; `call` stands for
\* a line that runs Java code, `raise` for one that raises an error that is no
\* string, `badresult` for one whose result cannot be printed.
Commands ==
  [op : Ops \cap {"g", "call", "raise", "badresult"}, arg : {Nil}]
    \cup [op : Ops \cap {"bp"}, arg : Methods]
    \cup [op : Ops \cap {"bc"}, arg : 1..Cardinality(Methods) + 1]

Resume == [op |-> "RESUME", arg |-> Nil]

Events == Commands \cup {Resume}

VARIABLES pc,            \* the step each thread executes next
          suspended,     \* what each thread goes on with after its callbacks
          hit,           \* the method whose breakpoint a callback looks up
          cmd,           \* the command each thread evaluates
          found,         \* the thread or breakpoint a thread has read and will use
          debugLock,     \* debug_lock
          debugThread,   \* debug_thread
          queue,         \* the event queue of each thread
          queueHeld,     \* entries left in the lock of each queue
          breakpoints,   \* breakpoints, the list of debuglib.lua
          jvmtiBps,      \* the breakpoints set in the virtual machine
          overlapped,    \* history: two threads were inside bc() at once
          aborted        \* history: callbacks of each thread an error broke off

threadVars == <<pc, suspended, hit, cmd, found>>
tableVars  == <<breakpoints, jvmtiBps, overlapped>>
vars == <<threadVars, debugLock, debugThread, queue, queueHeld, tableVars, aborted>>

\* Java code runs: in the program, under a command, under a handler.
JavaCode == {"run", "call", "handler"}

Interpreter == {"read", "check", "push", "deliver", "exited"}

Callback == {"enter", "set", "lookup", "handler", "events", "waiting", "clear", "unlock"}

Evaluation ==
  AllOps \cup {"g_push", "g_deliver", "bp_set", "bp_insert", "bc_clear", "bc_remove"}

TypeOK ==
  /\ pc \in [Threads -> {"run"} \cup Interpreter \cup Callback \cup Evaluation]
  /\ suspended \in [Threads -> Seq(JavaCode)]
  /\ hit \in [Threads -> Methods \cup {Nil}]
  /\ cmd \in [Threads -> Commands \cup {Nil}]
  /\ found \in [Threads -> Threads \cup Methods \cup {Nil}]
  /\ debugLock \in Monitor(Threads)
  /\ debugThread \in Threads \cup {Nil}
  /\ queue \in [Threads -> Seq(Events)]
  /\ queueHeld \in [Threads -> Nat]
  /\ breakpoints \in Seq(Methods)
  /\ jvmtiBps \subseteq Methods
  /\ overlapped \in BOOLEAN
  /\ aborted \in [Threads -> Nat]

\* A runfile may have set breakpoints before the program begins.
Init ==
  /\ pc = [t \in Threads |-> IF t = CMD THEN "read" ELSE "run"]
  /\ suspended = [t \in Threads |-> <<>>]
  /\ hit = [t \in Threads |-> Nil]
  /\ cmd = [t \in Threads |-> Nil]
  /\ found = [t \in Threads |-> Nil]
  /\ debugLock = FreeMonitor
  /\ debugThread = Nil
  /\ queue = [t \in Threads |-> <<>>]
  /\ queueHeld = [t \in Threads |-> 0]
  /\ jvmtiBps \in SUBSET Methods
  /\ breakpoints \in SetToSeqs(jvmtiBps)
  /\ overlapped = FALSE
  /\ aborted = [t \in Threads |-> 0]

Goto(t, from, to) == pc[t] = from /\ pc' = [pc EXCEPT ![t] = to]

---------------------------------------------------------------------------
(* cb_breakpoint *)

\* Java code on t reaches a method with a breakpoint.  The virtual machine
\* calls the agent whatever t is doing, also in the middle of a callback.
HitBreakpoint(t) ==
  /\ pc[t] \in IF "call" \in Ops THEN JavaCode ELSE {"run"}
  /\ Len(suspended[t]) < MaxNest
  /\ aborted[t] < MaxAborted
  /\ hit' \in {[hit EXCEPT ![t] = m] : m \in jvmtiBps}
  /\ suspended' = [suspended EXCEPT ![t] = <<pc[t]>> \o @]
  /\ pc' = [pc EXCEPT ![t] = "enter"]
  /\ UNCHANGED <<cmd, found, debugLock, debugThread, queue, queueHeld, tableVars, aborted>>

\* Slip: the lock is not waited for.
EnterDebuggerUnlocked(t) ==
  /\ Goto(t, "enter", "set")
  /\ debugLock' = Entered(debugLock, t)
  /\ UNCHANGED <<suspended, hit, cmd, found, debugThread, queue, queueHeld, tableVars, aborted>>

EnterDebugger(t) ==
  /\ CanEnter(debugLock, t)
  /\ Goto(t, "enter", "set")
  /\ debugLock' = Entered(debugLock, t)
  /\ UNCHANGED <<suspended, hit, cmd, found, debugThread, queue, queueHeld, tableVars, aborted>>

\* Slip: debug_thread is not set.
SetDebugThreadForgotten(t) ==
  /\ Goto(t, "set", "lookup")
  /\ UNCHANGED <<suspended, hit, cmd, found, debugLock, debugThread, queue, queueHeld, tableVars, aborted>>

SetDebugThread(t) ==
  /\ Goto(t, "set", "lookup")
  /\ debugThread' = t
  /\ UNCHANGED <<suspended, hit, cmd, found, debugLock, queue, queueHeld, tableVars, aborted>>

\* The callback is over and Java code goes on where it was.
ReturnToJava(t) ==
  /\ pc' = [pc EXCEPT ![t] = Head(suspended[t])]
  /\ suspended' = [suspended EXCEPT ![t] = Tail(@)]

\* An error leaves cb_breakpoint.  The lua_pcall of lua_jvmti_event.c catches
\* it and the thread runs on; debug_lock stays entered and debug_thread set.
Abort(t) ==
  /\ ReturnToJava(t)
  /\ aborted' = [aborted EXCEPT ![t] = @ + 1]
  /\ UNCHANGED <<debugLock, debugThread, queue, tableVars>>

Lookup(t) ==
  /\ hit[t] \in ToSet(breakpoints)
  /\ Goto(t, "lookup", IF hit[t] \in Handled THEN "handler" ELSE "events")
  /\ hit' = [hit EXCEPT ![t] = Nil]
  /\ UNCHANGED <<suspended, cmd, found, debugLock, debugThread, queue, queueHeld, tableVars, aborted>>

\* assert(bp)
LookupFails(t) ==
  /\ pc[t] = "lookup"
  /\ hit[t] \notin ToSet(breakpoints)
  /\ Abort(t)
  /\ hit' = [hit EXCEPT ![t] = Nil]
  /\ UNCHANGED <<cmd, found, queueHeld>>

\* A handler that returns false or nothing lets the thread go on; one that
\* returns true, or fails, stops it.
HandlerReturns(t) ==
  /\ \/ Goto(t, "handler", "clear")
     \/ debugThread # Nil /\ Goto(t, "handler", "events")
  /\ UNCHANGED <<suspended, hit, cmd, found, debugLock, debugThread, queue, queueHeld, tableVars, aborted>>

\* A callback nested in the handler has cleared debug_thread, of which
\* handle_events is now called.
StopFails(t) ==
  /\ pc[t] = "handler" /\ debugThread = Nil
  /\ Abort(t)
  /\ UNCHANGED <<hit, cmd, found, queueHeld>>

ClearDebugThread(t) ==
  /\ Goto(t, "clear", "unlock")
  /\ debugThread' = Nil
  /\ UNCHANGED <<suspended, hit, cmd, found, debugLock, queue, queueHeld, tableVars, aborted>>

\* Slips: debug_lock is not unlocked, or once too often.
LeaveDebuggerLocked(t) ==
  /\ pc[t] = "unlock"
  /\ ReturnToJava(t)
  /\ UNCHANGED <<hit, cmd, found, debugLock, debugThread, queue, queueHeld, tableVars, aborted>>

LeaveDebuggerTwice(t) ==
  /\ pc[t] = "unlock"
  /\ ReturnToJava(t)
  /\ debugLock' = Exited(Exited(debugLock))
  /\ UNCHANGED <<hit, cmd, found, debugThread, queue, queueHeld, tableVars, aborted>>

LeaveDebugger(t) ==
  /\ pc[t] = "unlock"
  /\ ReturnToJava(t)
  /\ debugLock' = Exited(debugLock)
  /\ UNCHANGED <<hit, cmd, found, debugThread, queue, queueHeld, tableVars, aborted>>

---------------------------------------------------------------------------
(* jthread:handle_events *)

\* pop() finds the queue empty and waits, the lock of the queue given up.
BeginWait(t) ==
  /\ queue[t] = <<>>
  /\ Goto(t, "events", "waiting")
  /\ UNCHANGED <<suspended, hit, cmd, found, debugLock, debugThread, queue, queueHeld, tableVars, aborted>>

\* pop() takes the first event, without a wait or after one.
Pops(t, to) ==
  /\ queue[t] # <<>>
  /\ Goto(t, "events", to) \/ Goto(t, "waiting", to)
  /\ queue' = [queue EXCEPT ![t] = Tail(@)]

PopResume(t) ==
  /\ Pops(t, "clear")
  /\ Head(queue[t]) = Resume
  /\ UNCHANGED <<suspended, hit, cmd, found, debugLock, debugThread, queueHeld, tableVars, aborted>>

PopCommand(t) ==
  /\ Pops(t, Head(queue[t]).op)
  /\ Head(queue[t]) # Resume
  /\ cmd' = [cmd EXCEPT ![t] = Head(queue[t])]
  /\ UNCHANGED <<suspended, hit, found, debugLock, debugThread, queueHeld, tableVars, aborted>>

\* The wait in pop() fails, whether an event has come meanwhile or not: see
\* PopInterrupted in EventQueue.
WaitInterrupted(t) ==
  /\ Interrupts
  /\ pc[t] = "waiting"
  /\ Abort(t)
  /\ queueHeld' = [queueHeld EXCEPT ![t] = @ + 1]
  /\ UNCHANGED <<hit, cmd, found>>

---------------------------------------------------------------------------
(* start_cmd *)

ReadLine(c) ==
  /\ Goto(CMD, "read", "check")
  /\ cmd' = [cmd EXCEPT ![CMD] = c]
  /\ UNCHANGED <<suspended, hit, found, debugLock, debugThread, queue, queueHeld, tableVars, aborted>>

\* No thread is being debugged: the interpreter evaluates the line.
CheckEvaluates ==
  /\ debugThread = Nil
  /\ Goto(CMD, "check", cmd[CMD].op)
  /\ UNCHANGED <<suspended, hit, cmd, found, debugLock, debugThread, queue, queueHeld, tableVars, aborted>>

CheckPushes ==
  /\ debugThread # Nil
  /\ Goto(CMD, "check", "push")
  /\ UNCHANGED <<suspended, hit, cmd, found, debugLock, debugThread, queue, queueHeld, tableVars, aborted>>

\* Bound: the interpreter addresses no event to a queue that is full.  A thread
\* that addresses one to itself is not held back, it is the one to empty it.
CanAddress(t) ==
  /\ debugThread # Nil
  /\ Len(queue[debugThread]) < MaxQueue \/ (t = debugThread /\ suspended[t] # <<>>)

\* t gets the lock of the queue of u: u left no entry in it, or waits for an event
\* and has given its entries up, or is t itself.
CanDeliver(t, u) == queueHeld[u] = 0 \/ pc[u] = "waiting" \/ t = u

\* debug_thread is read again, after the check ...
PushReads ==
  /\ Goto(CMD, "push", "deliver")
  /\ CanAddress(CMD)
  /\ found' = [found EXCEPT ![CMD] = debugThread]
  /\ UNCHANGED <<suspended, hit, cmd, debugLock, debugThread, queue, queueHeld, tableVars, aborted>>

\* ... and the queue of the thread read gets the command, whether it still is
\* debug_thread or not.
PushDelivers ==
  /\ Goto(CMD, "deliver", "read")
  /\ CanDeliver(CMD, found[CMD])
  /\ queue' = [queue EXCEPT ![found[CMD]] = Append(@, cmd[CMD])]
  /\ cmd' = [cmd EXCEPT ![CMD] = Nil]
  /\ found' = [found EXCEPT ![CMD] = Nil]
  /\ UNCHANGED <<suspended, hit, debugLock, debugThread, queueHeld, tableVars, aborted>>

\* Indexing nil is an error that nothing in start_cmd catches, and
\* lua_start_cmd does not start it again.
PushToNobody ==
  /\ debugThread = Nil
  /\ Goto(CMD, "push", "exited")
  /\ cmd' = [cmd EXCEPT ![CMD] = Nil]
  /\ UNCHANGED <<suspended, hit, found, debugLock, debugThread, queue, queueHeld, tableVars, aborted>>

---------------------------------------------------------------------------
(* The commands, on the thread that evaluates them *)

\* The chunk is over, with a result or with an error that is a string.
Evaluated(t, from) ==
  /\ Goto(t, from, IF suspended[t] = <<>> THEN "read" ELSE "events")
  /\ cmd' = [cmd EXCEPT ![t] = Nil]
  /\ found' = [found EXCEPT ![t] = Nil]
  /\ UNCHANGED <<suspended, hit, debugLock, debugThread, queueHeld, aborted>>

Proceed(t, from, to) ==
  /\ Goto(t, from, to)
  /\ UNCHANGED <<suspended, hit, cmd, debugLock, debugThread, queue, queueHeld, aborted>>

\* g() with no thread to resume notifies the start-up monitor instead.
GNotifies(t) ==
  /\ debugThread = Nil
  /\ Evaluated(t, "g")
  /\ UNCHANGED <<queue, tableVars>>

GChecks(t) ==
  /\ debugThread # Nil
  /\ Proceed(t, "g", "g_push")
  /\ UNCHANGED <<found, tableVars>>

\* debug_thread is read again and has become nil: an error.
GFindsNobody(t) ==
  /\ debugThread = Nil
  /\ Evaluated(t, "g_push")
  /\ UNCHANGED <<queue, tableVars>>

GReads(t) ==
  /\ Proceed(t, "g_push", "g_deliver")
  /\ CanAddress(t)
  /\ found' = [found EXCEPT ![t] = debugThread]
  /\ UNCHANGED tableVars

\* Slip: g() always notifies and never pushes.
GPushesNothing(t) ==
  /\ Evaluated(t, "g_deliver")
  /\ UNCHANGED <<queue, tableVars>>

GPushes(t) ==
  /\ Evaluated(t, "g_deliver")
  /\ CanDeliver(t, found[t])
  /\ queue' = [queue EXCEPT ![found[t]] = Append(@, Resume)]
  /\ UNCHANGED tableVars

\* bp(): first the list is searched ...
BpExists(t) ==
  /\ pc[t] = "bp"
  /\ cmd[t].arg \in ToSet(breakpoints)
  /\ Evaluated(t, "bp")
  /\ UNCHANGED <<queue, tableVars>>

BpSearches(t) ==
  /\ pc[t] = "bp"
  /\ cmd[t].arg \notin ToSet(breakpoints)
  /\ Proceed(t, "bp", "bp_set")
  /\ UNCHANGED <<found, tableVars>>

\* ... then the virtual machine is told, where SetBreakpoint fails on a location
\* that has a breakpoint ...
BpRefused(t) ==
  /\ pc[t] = "bp_set"
  /\ cmd[t].arg \in jvmtiBps
  /\ Evaluated(t, "bp_set")
  /\ UNCHANGED <<queue, tableVars>>

\* Slip: the error of SetBreakpoint is not looked at.
BpSetsUnchecked(t) ==
  /\ Proceed(t, "bp_set", "bp_insert")
  /\ jvmtiBps' = jvmtiBps \cup {cmd[t].arg}
  /\ UNCHANGED <<found, breakpoints, overlapped>>

BpSets(t) ==
  /\ pc[t] = "bp_set"
  /\ cmd[t].arg \notin jvmtiBps
  /\ Proceed(t, "bp_set", "bp_insert")
  /\ jvmtiBps' = jvmtiBps \cup {cmd[t].arg}
  /\ UNCHANGED <<found, breakpoints, overlapped>>

\* ... and last it is listed, without another look at the list.
BpInserts(t) ==
  /\ Evaluated(t, "bp_insert")
  /\ breakpoints' = Append(breakpoints, cmd[t].arg)
  /\ UNCHANGED <<queue, jvmtiBps, overlapped>>

\* bc(num): the breakpoint that is number num now ...
BcUnknown(t) ==
  /\ pc[t] = "bc"
  /\ cmd[t].arg \notin DOMAIN breakpoints
  /\ Evaluated(t, "bc")
  /\ UNCHANGED <<queue, tableVars>>

\* The steps of a thread that is to remove the entry it has read.
Clearing == {"bc_clear", "bc_remove"}

BcReads(t) ==
  /\ pc[t] = "bc"
  /\ cmd[t].arg \in DOMAIN breakpoints
  /\ Proceed(t, "bc", "bc_clear")
  /\ found' = [found EXCEPT ![t] = breakpoints[cmd[t].arg]]
  /\ overlapped' = (overlapped \/ \E u \in Threads : pc[u] \in Clearing)
  /\ UNCHANGED <<breakpoints, jvmtiBps>>

\* ... is cleared, which fails where there is none any more ...
BcRefused(t) ==
  /\ pc[t] = "bc_clear"
  /\ found[t] \notin jvmtiBps
  /\ Evaluated(t, "bc_clear")
  /\ UNCHANGED <<queue, tableVars>>

BcClears(t) ==
  /\ pc[t] = "bc_clear"
  /\ found[t] \in jvmtiBps
  /\ Proceed(t, "bc_clear", "bc_remove")
  /\ jvmtiBps' = jvmtiBps \ {found[t]}
  /\ UNCHANGED <<found, breakpoints, overlapped>>

\* ... and table.remove takes what is number num by then, if there still is one.
BcRemoves(t) ==
  /\ pc[t] = "bc_remove"
  /\ Evaluated(t, "bc_remove")
  /\ breakpoints' = IF cmd[t].arg \in DOMAIN breakpoints
                    THEN RemoveAt(breakpoints, cmd[t].arg) ELSE breakpoints
  /\ UNCHANGED <<queue, jvmtiBps, overlapped>>

CallReturns(t) ==
  /\ Evaluated(t, "call")
  /\ UNCHANGED <<queue, tableVars>>

\* "Error: " .. m2 and the printing of a result are not protected: the error
\* leaves handle_events, or start_cmd when the interpreter evaluates.
EvaluationFails(t) ==
  /\ pc[t] \in {"raise", "badresult"} /\ suspended[t] # <<>>
  /\ Abort(t)
  /\ cmd' = [cmd EXCEPT ![t] = Nil]
  /\ UNCHANGED <<hit, found, queueHeld>>

\* start_cmd evaluates under xpcall, whose handler takes any error ...
InterpreterRaises ==
  /\ suspended[CMD] = <<>>
  /\ Evaluated(CMD, "raise")
  /\ UNCHANGED <<queue, tableVars>>

\* ... but prints the result outside it.
InterpreterPrintFails ==
  /\ suspended[CMD] = <<>>
  /\ Goto(CMD, "badresult", "exited")
  /\ cmd' = [cmd EXCEPT ![CMD] = Nil]
  /\ UNCHANGED <<suspended, hit, found, debugLock, debugThread, queue, queueHeld, tableVars, aborted>>

---------------------------------------------------------------------------

CallbackStep(t) ==
  \/ SetDebugThread(t) \/ Lookup(t) \/ LookupFails(t) \/ HandlerReturns(t)
  \/ StopFails(t) \/ ClearDebugThread(t) \/ LeaveDebugger(t)
  \/ BeginWait(t) \/ PopResume(t) \/ PopCommand(t)

EvaluationStep(t) ==
  \/ GNotifies(t) \/ GChecks(t) \/ GFindsNobody(t) \/ GReads(t) \/ GPushes(t)
  \/ BpExists(t) \/ BpSearches(t) \/ BpRefused(t) \/ BpSets(t) \/ BpInserts(t)
  \/ BcUnknown(t) \/ BcReads(t) \/ BcRefused(t) \/ BcClears(t) \/ BcRemoves(t)
  \/ CallReturns(t) \/ EvaluationFails(t)

InterpreterStep ==
  \/ CheckEvaluates \/ CheckPushes \/ PushReads \/ PushDelivers \/ PushToNobody
  \/ InterpreterRaises \/ InterpreterPrintFails

Next ==
  \/ \E t \in Threads : \/ HitBreakpoint(t) \/ EnterDebugger(t) \/ CallbackStep(t)
                        \/ WaitInterrupted(t) \/ EvaluationStep(t)
  \/ \E c \in Commands : ReadLine(c)
  \/ InterpreterStep

Spec == Init /\ [][Next]_vars

\* Threads in the debugger and the interpreter keep running, debug_lock is not
\* withheld for ever from a thread it is offered to, and the user, whatever
\* else is typed, types g() again and again.
Fairness ==
  /\ \A t \in Threads : /\ WF_vars(CallbackStep(t)) /\ WF_vars(EvaluationStep(t))
                        /\ SF_vars(EnterDebugger(t))
  /\ WF_vars(InterpreterStep)
  /\ \A c \in Commands : c.op = "g" => SF_vars(ReadLine(c))

FairSpec == Spec /\ Fairness

---------------------------------------------------------------------------
(* Properties *)

\* The entries of debug_lock a thread has for the callbacks in progress on it.
Held(t) ==
  IF pc[t] = "enter" THEN Len(suspended[t]) - 1 ELSE Len(suspended[t])

\* The lock is entered once for every callback in progress on its owner and
\* once for every one of its callbacks that an error broke off; a thread that
\* does not own it has neither.
LockAccounting ==
  /\ \A t \in Threads : IF debugLock.owner = t
                        THEN debugLock.count = Held(t) + aborted[t] /\ debugLock.count > 0
                        ELSE Held(t) + aborted[t] = 0
  /\ debugLock.owner = Nobody => debugLock.count = 0

\* Lines go to the thread that holds debug_lock or to nobody: the read and the
\* write of debug_thread never get ahead of the lock or stay behind it.
DebugThreadOwnsLock == debugThread # Nil => debugLock.owner = debugThread

\* Entries of a thread that it has not given back, whether they are used or lost.
Entries == [t \in Threads |-> Held(t) + aborted[t]]

\* The thread whose queue a thread is about to put an event in.
Addressed ==
  [t \in Threads |-> IF pc[t] \in {"deliver", "g_deliver"} THEN found[t] ELSE Nil]

Promise == INSTANCE Session WITH inside <- Entries, focus <- debugThread,
                                 addressed <- Addressed, inbox <- queue

\* debug_lock "prevent[s] multiple threads from entering the debugger
\* simultaneously" (debuglib.lua:36), and more: lines are addressed to the thread
\* that is inside and to no other, never go over from one thread to another
\* directly, reach the thread they were addressed to even when it has left by then,
\* and are taken by that thread alone, in order, when it is inside.  All that
\* without the owner of debug_lock being looked at anywhere.
IsSession == Promise!Spec

\* A thread that evaluates commands or waits for them is the one g() resumes.
StoppedIsDebugThread ==
  \A t \in Threads : suspended[t] # <<>> /\ pc[t] \in {"events", "waiting"} \cup Evaluation
                       => debugThread = t

\* Where a breakpoint is listed, and the threads about to list it and to remove it.
Listed(m) == {i \in DOMAIN breakpoints : breakpoints[i] = m}

Listing(m) == {t \in Threads : pc[t] = "bp_insert" /\ cmd[t].arg = m}

Unlisting(m) == {t \in Threads : pc[t] = "bc_remove" /\ found[t] = m}

\* As long as no two threads are inside bc() at once, the list and the virtual
\* machine agree but for what is on its way: a breakpoint is listed, or about to
\* be, once if it is set and not at all if not, and once more for every bc() that
\* has cleared it and not yet removed it.  So bp() may look for a breakpoint long
\* before it sets it, set it long before it lists it, and another thread may do the
\* same or clear it in between: when all are done it is listed once or not at all.
ListAccounting ==
  ~overlapped =>
    \A m \in Methods :
      Cardinality(Listed(m)) + Cardinality(Listing(m))
        = (IF m \in jvmtiBps THEN 1 ELSE 0) + Cardinality(Unlisting(m))

\* assert(bp) in cb_breakpoint.
HitIsListed ==
  \A t \in Threads : pc[t] = "lookup" => hit[t] \in ToSet(breakpoints)

\* As long as there is an interpreter, typing g() sets a stopped thread going.
StoppedIsResumed ==
  \A t \in AppThreads : pc[t] \in {"events", "waiting"} ~> pc[t] = "run" \/ pc[CMD] = "exited"

\* A thread that ran into a breakpoint gets its turn in the debugger, unless an
\* error in another thread's callback has taken debug_lock away for good.
HitIsServed ==
  \A t \in AppThreads :
    pc[t] = "enter" ~> \/ pc[t] = "run" \/ pc[CMD] = "exited"
                       \/ \E u \in Threads : aborted[u] > 0
===========================================================================

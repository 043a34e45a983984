---------------------------- MODULE EventQueue ----------------------------
(* debuglib/event_queue.lua, statement by statement: the queue of one Java
   thread.  Any thread pushes (the command interpreter does, and the thread
   itself does when it evaluates g()); only the thread the queue belongs to
   pops, from jthread:handle_events().  The queue is a Lua table guarded by a
   raw monitor that is also the condition "there is an event". *)
EXTENDS RawMonitor, Sequences, FiniteSets

CONSTANTS Threads,       \* the threads that use the queue
          Owner,         \* the thread the queue belongs to
          Events,        \* what they push
          Nil,           \* Lua's nil
          MaxEvents,     \* bound: events in the queue and on their way to it
          MaxInterrupts  \* bound: how many waits Java code may interrupt

ASSUME EventQueueAssumption ==
  /\ Owner \in Threads
  /\ Nobody \notin Threads
  /\ Nil \notin Events
  /\ MaxEvents \in Nat
  /\ MaxInterrupts \in Nat

VARIABLES events,       \* self.events
          lock,         \* self.lock
          pc,           \* the statement each thread executes next
          arg,          \* the event each thread is pushing
          saved,        \* the entries the waiting owner takes back
          result,       \* the event pop() returned last
          interrupted   \* history: waits that ended in an error

vars == <<events, lock, pc, arg, saved, result, interrupted>>

PushSteps == {"push_lock", "push_insert", "push_broadcast", "push_unlock"}
PopSteps  == {"pop_lock", "pop_test", "pop_wait", "pop_remove", "pop_unlock"}

\* The statements a thread executes inside the monitor (pop_wait gives it up).
Guarded == {"push_insert", "push_broadcast", "push_unlock",
            "pop_test", "pop_remove", "pop_unlock"}

TypeOK ==
  /\ events \in Seq(Events)
  /\ lock \in Monitor(Threads)
  /\ pc \in [Threads -> PushSteps \cup PopSteps \cup {"idle"}]
  /\ arg \in [Threads -> Events \cup {Nil}]
  /\ saved \in Nat
  /\ result \in Events \cup {Nil}
  /\ interrupted \in Nat

Init ==
  /\ events = <<>>
  /\ lock = FreeMonitor
  /\ pc = [t \in Threads |-> "idle"]
  /\ arg = [t \in Threads |-> Nil]
  /\ saved = 0
  /\ result = Nil
  /\ interrupted = 0

Goto(t, from, to) == pc[t] = from /\ pc' = [pc EXCEPT ![t] = to]

---------------------------------------------------------------------------
(* push(event) *)

Pending == {t \in Threads : pc[t] \in {"push_lock", "push_insert"}}

StartPush(t, e) ==
  /\ Len(events) + Cardinality(Pending) < MaxEvents
  /\ Goto(t, "idle", "push_lock")
  /\ arg' = [arg EXCEPT ![t] = e]
  /\ UNCHANGED <<events, lock, saved, result, interrupted>>

PushLock(t) ==
  /\ CanEnter(lock, t)
  /\ Goto(t, "push_lock", "push_insert")
  /\ lock' = Entered(lock, t)
  /\ UNCHANGED <<events, arg, saved, result, interrupted>>

\* Slip: the event is put in front, as if the table were a stack.
PushInsertInFront(t) ==
  /\ Goto(t, "push_insert", "push_broadcast")
  /\ events' = <<arg[t]>> \o events
  /\ UNCHANGED <<lock, arg, saved, result, interrupted>>

PushInsert(t) ==
  /\ Goto(t, "push_insert", "push_broadcast")
  /\ events' = Append(events, arg[t])
  /\ UNCHANGED <<lock, arg, saved, result, interrupted>>

\* Slip: the broadcast is forgotten.
PushBroadcastForgotten(t) ==
  /\ Goto(t, "push_broadcast", "push_unlock")
  /\ UNCHANGED <<events, lock, arg, saved, result, interrupted>>

PushBroadcast(t) ==
  /\ Goto(t, "push_broadcast", "push_unlock")
  /\ lock' = AllNotified(lock)
  /\ UNCHANGED <<events, arg, saved, result, interrupted>>

PushUnlock(t) ==
  /\ Goto(t, "push_unlock", "idle")
  /\ lock' = Exited(lock)
  /\ arg' = [arg EXCEPT ![t] = Nil]
  /\ UNCHANGED <<events, saved, result, interrupted>>

---------------------------------------------------------------------------
(* pop() *)

StartPop ==
  /\ Goto(Owner, "idle", "pop_lock")
  /\ UNCHANGED <<events, lock, arg, saved, result, interrupted>>

PopLock ==
  /\ CanEnter(lock, Owner)
  /\ Goto(Owner, "pop_lock", "pop_test")
  /\ lock' = Entered(lock, Owner)
  /\ UNCHANGED <<events, arg, saved, result, interrupted>>

\* An event is there: the wait is skipped.
PopTestFull ==
  /\ events # <<>>
  /\ Goto(Owner, "pop_test", "pop_remove")
  /\ UNCHANGED <<events, lock, arg, saved, result, interrupted>>

\* The table is empty: RawMonitorWait gives the monitor up.
PopTestEmpty ==
  /\ events = <<>>
  /\ Goto(Owner, "pop_test", "pop_wait")
  /\ lock' = Waiting(lock, Owner)
  /\ saved' = lock.count
  /\ UNCHANGED <<events, arg, result, interrupted>>

\* The wait returns and the code goes on without looking at the table again.
PopWake ==
  /\ Owner \notin lock.waiting
  /\ CanReenter(lock)
  /\ Goto(Owner, "pop_wait", "pop_remove")
  /\ lock' = Reentered(lock, Owner, saved)
  /\ UNCHANGED <<events, arg, saved, result, interrupted>>

\* Java code interrupts the thread: RawMonitorWait takes the monitor back and
\* reports an error, which lj_check_jvmti_error raises.  The error leaves pop
\* past its unlock.
PopInterrupted ==
  /\ interrupted < MaxInterrupts
  /\ CanReenter(lock)
  /\ Goto(Owner, "pop_wait", "idle")
  /\ lock' = Reentered(lock, Owner, saved)
  /\ interrupted' = interrupted + 1
  /\ UNCHANGED <<events, arg, saved, result>>

\* table.remove(events, 1) returns nil when the table is empty.
PopRemove ==
  /\ Goto(Owner, "pop_remove", "pop_unlock")
  /\ result' = IF events = <<>> THEN Nil ELSE Head(events)
  /\ events' = IF events = <<>> THEN <<>> ELSE Tail(events)
  /\ UNCHANGED <<lock, arg, saved, interrupted>>

\* Slip: pop returns without leaving the monitor.
PopUnlockForgotten ==
  /\ Goto(Owner, "pop_unlock", "idle")
  /\ UNCHANGED <<events, lock, arg, saved, result, interrupted>>

PopUnlock ==
  /\ Goto(Owner, "pop_unlock", "idle")
  /\ lock' = Exited(lock)
  /\ UNCHANGED <<events, arg, saved, result, interrupted>>

---------------------------------------------------------------------------

\* The steps of a push that has begun, and of a pop that has begun.
PushStep(t) == PushLock(t) \/ PushInsert(t) \/ PushBroadcast(t) \/ PushUnlock(t)

PopStep == PopLock \/ PopTestFull \/ PopTestEmpty \/ PopWake
             \/ PopRemove \/ PopUnlock

Next ==
  \/ \E t \in Threads : PushStep(t) \/ \E e \in Events : StartPush(t, e)
  \/ StartPop \/ PopStep \/ PopInterrupted

Spec == Init /\ [][Next]_vars

\* A thread inside push or pop keeps running; a monitor that is offered to a
\* thread again and again is entered at last.  Nobody has to begin a call.
Fairness ==
  /\ \A t \in Threads : WF_vars(PushStep(t)) /\ SF_vars(PushLock(t))
  /\ WF_vars(PopStep) /\ SF_vars(PopLock) /\ SF_vars(PopWake)

FairSpec == Spec /\ Fairness

---------------------------------------------------------------------------
(* Properties *)

\* The entries a thread has not left: one while it is inside push or pop, and
\* the owner's from every pop that an interrupt broke off.
Entries(t) ==
  (IF pc[t] \in Guarded THEN 1 ELSE 0)
    + (IF t = Owner /\ pc[t] # "pop_wait" THEN interrupted ELSE 0)

\* Only one thread is between lock() and unlock(), and the monitor is entered
\* exactly as often as the calls account for; since event_queue.lua does not
\* unlock on the way out of an error, those that were interrupted stay.
LockAccounting ==
  /\ \A t \in Threads : IF lock.owner = t THEN lock.count = Entries(t) /\ lock.count > 0
                                          ELSE Entries(t) = 0
  /\ lock.owner = Nobody => lock.count = 0
  /\ pc[Owner] = "pop_wait" => saved = interrupted + 1

\* The signal for an event is never lost: a pop that sleeps while there is
\* something in the table has a push behind it that is about to broadcast.
NoLostWakeup ==
  Owner \in lock.waiting /\ events # <<>>
    => \E t \in Threads : pc[t] = "push_broadcast"

\* pop() tests the table with `if` and not `while`, and handle_events() indexes
\* what it returns: when pop comes to table.remove there must be an event.
PopFindsEvent == pc[Owner] = "pop_remove" => events # <<>>

\* The queue implements the channel handle_events() relies on.
Channel == INSTANCE EventChannel WITH channel <- events, received <- result

IsChannel == Channel!Spec

\* A pop that has something to return does return it.
PopDelivers ==
  pc[Owner] \in PopSteps /\ events # <<>> ~> pc[Owner] = "idle"

\* The command interpreter is never stuck in push, whatever the owner does,
\* until an interrupted pop leaves the monitor entered for good.
PushCompletes ==
  \A t \in Threads : pc[t] = "push_lock" ~> pc[t] = "idle" \/ interrupted > 0
===========================================================================

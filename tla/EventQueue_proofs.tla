------------------------- MODULE EventQueue_proofs -------------------------
(* Proofs about the event queue, for any number of threads, any events and any
   number of interrupts.  The inductive invariant adds to the properties what
   ties the sleeping owner to the table: it is the only thread that waits, it
   waits only in pop, and once it was notified the table is not empty. *)
EXTENDS EventQueue, RawMonitor_proofs

\* What makes the properties inductive.
WaitDiscipline ==
  /\ lock.waiting \subseteq {Owner}
  /\ Owner \in lock.waiting => pc[Owner] = "pop_wait"
  /\ pc[Owner] = "pop_wait" /\ Owner \notin lock.waiting => events # <<>>
  /\ \A t \in Threads : pc[t] = "push_broadcast" => events # <<>>
  /\ \A t \in Threads : pc[t] \in PushSteps => arg[t] \in Events

Inv == TypeOK /\ LockAccounting /\ WaitDiscipline /\ NoLostWakeup /\ PopFindsEvent

USE EventQueueAssumption

LEMMA InitInv == Init => Inv
  BY DEF Init, Inv, TypeOK, LockAccounting, WaitDiscipline, NoLostWakeup,
         PopFindsEvent, Entries, Guarded, PushSteps, PopSteps, FreeMonitor, Monitor

LEMMA PushPreserves ==
  ASSUME Inv, NEW t \in Threads,
         PushStep(t) \/ \E e \in Events : StartPush(t, e)
  PROVE  Inv'
  <1> USE DEF Inv, TypeOK, LockAccounting, WaitDiscipline, NoLostWakeup,
              PopFindsEvent, Entries, Guarded, PushSteps, PopSteps, Monitor, Goto
  <1>1. ASSUME NEW e \in Events, StartPush(t, e) PROVE Inv'
    BY <1>1 DEF StartPush
  <1>2. CASE PushLock(t)
    <2>1. lock' = Entered(lock, t) /\ CanEnter(lock, t)
      BY <1>2 DEF PushLock
    <2>2. /\ lock' \in Monitor(Threads) /\ lock'.owner = t
          /\ lock'.count = lock.count + 1 /\ lock'.waiting = lock.waiting
          /\ lock.count \in Nat /\ lock.owner \in {Nobody, t}
      BY <2>1, EnteredProperties DEF CanEnter, Monitor
    <2>3. TypeOK'
      BY <1>2, <2>2 DEF PushLock
    <2>4. LockAccounting'
      BY <1>2, <2>2 DEF PushLock
    <2>5. WaitDiscipline' /\ NoLostWakeup' /\ PopFindsEvent'
      BY <1>2, <2>2 DEF PushLock
    <2> QED BY <2>3, <2>4, <2>5
  <1>3. CASE PushInsert(t)
    BY <1>3 DEF PushInsert
  <1>4. CASE PushBroadcast(t)
    BY <1>4 DEF PushBroadcast, AllNotified
  <1>5. CASE PushUnlock(t)
    <2>1. lock' = Exited(lock) /\ lock.owner = t /\ lock.count > 0
      BY <1>5 DEF PushUnlock
    <2>2. /\ lock' \in Monitor(Threads)
          /\ lock'.owner = IF lock.count = 1 THEN Nobody ELSE t
          /\ lock'.count = lock.count - 1 /\ lock'.waiting = lock.waiting
      BY <2>1, ExitedProperties
    <2>3. TypeOK'
      BY <1>5, <2>2 DEF PushUnlock
    <2>4. LockAccounting'
      BY <1>5, <2>1, <2>2 DEF PushUnlock
    <2>5. WaitDiscipline' /\ NoLostWakeup' /\ PopFindsEvent'
      BY <1>5, <2>2 DEF PushUnlock
    <2> QED BY <2>3, <2>4, <2>5
  <1> QED BY <1>1, <1>2, <1>3, <1>4, <1>5 DEF PushStep

LEMMA PopPreserves ==
  ASSUME Inv, StartPop \/ PopStep \/ PopInterrupted
  PROVE  Inv'
  <1> USE DEF Inv, TypeOK, LockAccounting, WaitDiscipline, NoLostWakeup,
              PopFindsEvent, Entries, Guarded, PushSteps, PopSteps, Monitor, Goto
  <1>1. CASE StartPop
    BY <1>1 DEF StartPop
  <1>2. CASE PopLock
    <2>1. lock' = Entered(lock, Owner) /\ CanEnter(lock, Owner)
      BY <1>2 DEF PopLock
    <2>2. /\ lock' \in Monitor(Threads) /\ lock'.owner = Owner
          /\ lock'.count = lock.count + 1 /\ lock'.waiting = lock.waiting
          /\ lock.count \in Nat /\ lock.owner \in {Nobody, Owner}
      BY <2>1, EnteredProperties DEF CanEnter, Monitor
    <2>3. TypeOK'
      BY <1>2, <2>2 DEF PopLock
    <2>4. LockAccounting'
      BY <1>2, <2>2 DEF PopLock
    <2>5. WaitDiscipline' /\ NoLostWakeup' /\ PopFindsEvent'
      BY <1>2, <2>2 DEF PopLock
    <2> QED BY <2>3, <2>4, <2>5
  <1>3. CASE PopTestFull
    BY <1>3 DEF PopTestFull
  <1>4. CASE PopTestEmpty
    BY <1>4 DEF PopTestEmpty, Waiting
  <1>5. CASE PopWake
    BY <1>5 DEF PopWake, CanReenter, Reentered
  <1>6. CASE PopInterrupted
    BY <1>6 DEF PopInterrupted, CanReenter, Reentered
  <1>7. CASE PopRemove
    BY <1>7 DEF PopRemove
  <1>8. CASE PopUnlock
    <2>1. lock' = Exited(lock) /\ lock.owner = Owner /\ lock.count > 0
      BY <1>8 DEF PopUnlock
    <2>2. /\ lock' \in Monitor(Threads)
          /\ lock'.owner = IF lock.count = 1 THEN Nobody ELSE Owner
          /\ lock'.count = lock.count - 1 /\ lock'.waiting = lock.waiting
      BY <2>1, ExitedProperties
    <2>3. TypeOK'
      BY <1>8, <2>2 DEF PopUnlock
    <2>4. LockAccounting'
      BY <1>8, <2>1, <2>2 DEF PopUnlock
    <2>5. WaitDiscipline' /\ NoLostWakeup' /\ PopFindsEvent'
      BY <1>8, <2>2 DEF PopUnlock
    <2> QED BY <2>3, <2>4, <2>5
  <1> QED BY <1>1, <1>2, <1>3, <1>4, <1>5, <1>6, <1>7, <1>8 DEF PopStep

LEMMA StutterPreserves == Inv /\ UNCHANGED vars => Inv'
  BY DEF Inv, TypeOK, LockAccounting, WaitDiscipline, NoLostWakeup,
         PopFindsEvent, Entries, Guarded, vars

LEMMA Invariance == Spec => []Inv
  <1>1. Inv /\ [Next]_vars => Inv'
    BY PushPreserves, PopPreserves, StutterPreserves DEF Next
  <1> QED BY InitInv, <1>1, PTL DEF Spec

---------------------------------------------------------------------------

\* The queue's variables keep their types.
THEOREM TypeCorrect == Spec => []TypeOK
  BY Invariance, PTL DEF Inv

\* One thread at a time is between lock() and unlock() of event_queue.lua, and
\* the entries of the monitor are those of the calls and the interrupted waits.
THEOREM LockIsAccountedFor == Spec => []LockAccounting
  BY Invariance, PTL DEF Inv

\* A pop does not sleep on an event whose broadcast is over.
THEOREM WakeupNotLost == Spec => []NoLostWakeup
  BY Invariance, PTL DEF Inv

\* The `if` around the wait of pop() is enough: it never removes from an empty
\* table, so handle_events() never indexes nil.
THEOREM PopAlwaysFindsEvent == Spec => []PopFindsEvent
  BY Invariance, PTL DEF Inv

\* Every step of the queue is a push, a pop or nothing to the channel.
THEOREM Refinement == Spec => IsChannel
  <1>1. Init => Channel!Init
    BY DEF Init, Channel!Init
  <1>2. Inv /\ [Next]_vars => [Channel!Next]_Channel!vars
    <2> SUFFICES ASSUME Inv, [Next]_vars
                 PROVE  [Channel!Next]_Channel!vars
      OBVIOUS
    <2> USE DEF Channel!Next, Channel!vars
    <2>1. ASSUME NEW t \in Threads, PushInsert(t) PROVE Channel!Next
      BY <2>1 DEF PushInsert, Goto, Channel!Push, Inv, WaitDiscipline, PushSteps
    <2>2. CASE PopRemove
      BY <2>2 DEF PopRemove, Goto, Channel!Pop, Inv, PopFindsEvent
    <2>3. ASSUME NEW t \in Threads,
                 \/ PushLock(t) \/ PushBroadcast(t) \/ PushUnlock(t)
                 \/ \E e \in Events : StartPush(t, e)
          PROVE  UNCHANGED Channel!vars
      BY <2>3 DEF PushLock, PushBroadcast, PushUnlock, StartPush
    <2>4. CASE \/ StartPop \/ PopLock \/ PopTestFull \/ PopTestEmpty
               \/ PopWake \/ PopUnlock \/ PopInterrupted
      BY <2>4 DEF StartPop, PopLock, PopTestFull, PopTestEmpty, PopWake,
                  PopUnlock, PopInterrupted
    <2>5. CASE UNCHANGED vars
      BY <2>5 DEF vars
    <2> QED BY <2>1, <2>2, <2>3, <2>4, <2>5 DEF Next, PushStep, PopStep
  <1> QED BY <1>1, <1>2, Invariance, PTL DEF Spec, IsChannel, Channel!Spec
===========================================================================

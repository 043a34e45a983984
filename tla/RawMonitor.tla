---------------------------- MODULE RawMonitor ----------------------------
(* The JVMTI raw monitors that carry every lock and every condition of the
   debugger (debug_lock, thread_resume_monitor, one lock per event queue).
   A raw monitor is re-entrant: its owner may enter again and must leave as
   often.  Waiting gives up every entry at once and takes them all back.
   The operators below are the effect of a call of lua_java/lj_raw_monitor.c
   (and of jmonitor.lua on top of it) on the monitor it is given. *)
EXTENDS Naturals

CONSTANT Nobody      \* the owner of a monitor no thread has entered

\* `waiting` holds the threads in RawMonitorWait that nobody has notified.
Monitor(T) == [owner : T \cup {Nobody}, count : Nat, waiting : SUBSET T]

FreeMonitor == [owner |-> Nobody, count |-> 0, waiting |-> {}]

CanEnter(m, t) == m.owner \in {Nobody, t}

Entered(m, t) ==
  [owner |-> t, count |-> m.count + 1, waiting |-> m.waiting]

\* Slip: the monitor is set free while entries are left.
ExitedAtOnce(m) == [m EXCEPT !.owner = Nobody, !.count = 0]

Exited(m) ==
  [owner   |-> IF m.count = 1 THEN Nobody ELSE m.owner,
   count   |-> m.count - 1,
   waiting |-> m.waiting]

\* RawMonitorWait, first half: all of t's entries are given up.
Waiting(m, t) ==
  [owner |-> Nobody, count |-> 0, waiting |-> m.waiting \cup {t}]

\* RawMonitorNotify: one waiting thread, if there is one.
Notified(m) ==
  IF m.waiting = {} THEN {m}
  ELSE {[m EXCEPT !.waiting = @ \ {t}] : t \in m.waiting}

\* RawMonitorNotifyAll
AllNotified(m) == [m EXCEPT !.waiting = {}]

\* RawMonitorWait, second half: a thread that is no longer waiting takes its
\* n entries back, whether it was notified or interrupted.
CanReenter(m) == m.owner = Nobody

\* Slip: one of the entries is not taken back.
ReenteredShort(m, t, n) ==
  [owner |-> t, count |-> n - 1, waiting |-> m.waiting \ {t}]

Reentered(m, t, n) ==
  [owner |-> t, count |-> n, waiting |-> m.waiting \ {t}]
===========================================================================

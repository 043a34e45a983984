------------------------------- MODULE Session -------------------------------
(* What cb_breakpoint, handle_events and start_cmd promise together: who is in the
   debugger, which thread the user's lines go to, and what has been handed to it.
   There are no locks here and no order of statements; DebugSession has them and
   implements this. *)
EXTENDS Integers, Sequences

CONSTANTS Threads,   \* the threads of the virtual machine
          Events,    \* what is handed to a thread in the debugger
          Nil        \* no thread

VARIABLES inside,   \* how often each thread has entered the debugger and not left it
          focus,    \* the thread the user's lines go to
          addressed,\* the thread each thread is about to hand an event to
          inbox     \* what each thread has been handed, oldest first

vars == <<inside, focus, addressed, inbox>>

Init ==
  /\ inside = [t \in Threads |-> 0]
  /\ focus = Nil
  /\ addressed = [t \in Threads |-> Nil]
  /\ inbox = [t \in Threads |-> <<>>]

\* A thread comes in when no other is, again if it is in already.
Enter(t) ==
  /\ \A u \in Threads \ {t} : inside[u] = 0
  /\ inside' = [inside EXCEPT ![t] = @ + 1]
  /\ UNCHANGED <<focus, addressed, inbox>>

\* The lines go to the thread that is inside, and never from one to another.
Focus(t) ==
  /\ inside[t] > 0 /\ focus \in {Nil, t}
  /\ focus' = t
  /\ UNCHANGED <<inside, addressed, inbox>>

Unfocus(t) ==
  /\ inside[t] > 0 /\ focus \in {Nil, t}
  /\ focus' = Nil
  /\ UNCHANGED <<inside, addressed, inbox>>

\* A thread goes when no more lines come to it.  One whose stay is broken off by
\* an error never does.
Leave(t) ==
  /\ inside[t] > 0 /\ focus = Nil
  /\ inside' = [inside EXCEPT ![t] = @ - 1]
  /\ UNCHANGED <<focus, addressed, inbox>>

\* Thread s, of a line or in a line, addresses an event to the thread inside ...
Address(s) ==
  /\ focus # Nil
  /\ addressed' = [addressed EXCEPT ![s] = focus]
  /\ UNCHANGED <<inside, focus, inbox>>

\* ... and hands it over, perhaps too late: then the addressee has gone and finds
\* it when it comes in again.
Hand(s, e) ==
  /\ addressed[s] # Nil
  /\ inbox' = [inbox EXCEPT ![addressed[s]] = Append(@, e)]
  /\ addressed' = [addressed EXCEPT ![s] = Nil]
  /\ UNCHANGED <<inside, focus>>

Take(t) ==
  /\ inside[t] > 0 /\ inbox[t] # <<>>
  /\ inbox' = [inbox EXCEPT ![t] = Tail(@)]
  /\ UNCHANGED <<inside, focus, addressed>>

Next ==
  \/ \E t \in Threads : Enter(t) \/ Focus(t) \/ Unfocus(t) \/ Leave(t) \/ Take(t) \/ Address(t)
  \/ \E s \in Threads, e \in Events : Hand(s, e)

Spec == Init /\ [][Next]_vars
===========================================================================

--------------------------- MODULE EventChannel ---------------------------
(* What the event queue of a Java thread promises to the debugger: a channel
   that any thread can push to, that one thread pops, that loses, repeats and
   reorders nothing, and whose pop never comes back without an event. *)
EXTENDS Naturals, Sequences

CONSTANTS Events,    \* what can be pushed
          Nil        \* what the receiver has before the first pop

VARIABLES channel,   \* the events pushed and not popped yet, oldest first
          received   \* the event the last pop returned

vars == <<channel, received>>

Init == channel = <<>> /\ received = Nil

Push(e) == /\ channel' = Append(channel, e)
           /\ UNCHANGED received

Pop == /\ channel # <<>>
       /\ received' = Head(channel)
       /\ channel' = Tail(channel)

Next == Pop \/ \E e \in Events : Push(e)

Spec == Init /\ [][Next]_vars
===========================================================================

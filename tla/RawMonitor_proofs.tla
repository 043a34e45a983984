------------------------- MODULE RawMonitor_proofs -------------------------
(* What entering and leaving a raw monitor does to each part of it, for the
   invariant proofs of the modules that use one. *)
EXTENDS RawMonitor, TLAPS

\* Entering adds an entry of t and wakes nobody.
LEMMA EnteredProperties ==
  ASSUME NEW T, NEW m \in Monitor(T), NEW t \in T
  PROVE  /\ Entered(m, t) \in Monitor(T)
         /\ Entered(m, t).owner = t
         /\ Entered(m, t).count = m.count + 1
         /\ Entered(m, t).waiting = m.waiting
  BY DEF Entered, Monitor

\* Leaving takes one entry away; with the last one the monitor becomes free.
LEMMA ExitedProperties ==
  ASSUME NEW T, NEW m \in Monitor(T), m.count > 0
  PROVE  /\ Exited(m) \in Monitor(T)
         /\ Exited(m).owner = IF m.count = 1 THEN Nobody ELSE m.owner
         /\ Exited(m).count = m.count - 1
         /\ Exited(m).waiting = m.waiting
  BY DEF Exited, Monitor
===========================================================================

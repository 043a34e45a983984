----------------------------- MODULE JavaBridge -----------------------------
(* What the lines of a user at the prompt of a stopped program do through the Java
   bridge: set and clear breakpoints, call methods, read fields, read and write arrays. *)
EXTENDS Breakpoints, Results, JavaArrays

vars == <<breakpoints, set, elements, outcome>>

TypeOK ==
  /\ breakpoints \in Seq(BreakpointRecords)
  /\ set \subseteq [raw : Methods, location : Nat]
  /\ DOMAIN elements = Arrays
  /\ \A a \in Arrays : /\ elements[a] \in [1..Length[a] -> Data]
                       /\ \A i \in 1..Length[a] : Has(Component(a), elements[a][i])

AtPrompt == outcome = [op |-> "none"]

Init == BreakpointsInit /\ ArraysInit /\ AtPrompt

\* The outcome is printed and the next line read.
Prompt ==
  /\ ~AtPrompt /\ ~Adding /\ ~Pending
  /\ outcome' = [op |-> "none"]
  /\ UNCHANGED <<breakpoints, set, elements>>

Next ==
  \/ AtPrompt /\ BreakpointsNext /\ UNCHANGED elements
  \/ Add /\ UNCHANGED elements
  \/ AtPrompt /\ CallNext /\ UNCHANGED <<breakpoints, set, elements>>
  \/ Return /\ UNCHANGED <<breakpoints, set, elements>>
  \/ AtPrompt /\ FieldsNext /\ UNCHANGED <<breakpoints, set, elements>>
  \/ AtPrompt /\ ArraysNext /\ UNCHANGED <<breakpoints, set>>
  \/ Prompt

Spec == Init /\ [][Next]_vars
===========================================================================

---------------------------- MODULE MCStepping ----------------------------
(* A program for TLC: main has three lines and a loop, and calls itself, work
   and a native method; work has two lines and calls main's callees. *)
EXTENDS Stepping

CONSTANTS main, work, native

Program == {main, work, native}
Last3 == [m \in Program |-> CASE m = main -> 3 [] m = work -> 1 [] OTHER -> 0]
Ways == [m \in Program |-> CASE m = main -> {<<0, 1>>, <<1, 2>>, <<2, 3>>, <<2, 1>>}
                             [] m = work -> {<<0, 1>>}
                             [] OTHER -> {}]
Uses == [m \in Program |-> CASE m = main -> Program
                             [] m = work -> {work, native}
                             [] OTHER -> {}]
Starts == [m \in Program |-> CASE m = main -> <<0, 2, 3>>
                               [] m = work -> <<0, 1>>
                               [] OTHER -> <<>>]
Set == {[method |-> main, location |-> 0], [method |-> work, location |-> 0]}
===========================================================================

-------------------------- MODULE EventCallbacks --------------------------
(* How a JVMTI event becomes a call of a Lua function (lua_jvmti_event.c).
   Every event callback does the same: it makes a Lua state of its own on the
   stack of the shared state lj_L, leaves its thread in lj_current_thread, turns
   the stepping events of the current thread off, runs the Lua function
   registered for the event, pops the state and turns stepping events on again.
   The Lua function may register and clear functions and may run Java code, in
   which further events occur; nothing keeps other threads out meanwhile.

   The callbacks (seven cb_ functions) are copies of each other; Kinds says
   which are there.  One call on lj_L is one step: what two unprotected pushes at
   the same moment would do to its stack is not modelled.

   A callback is named by its thread and its depth there.  Three variables record
   what became of the callbacks in progress, for the properties only. *)
EXTENDS Naturals, SequencesExt, FiniteSets

CONSTANTS Threads,     \* the threads of the virtual machine
          Interpreters,\* those of them that run Lua outside events: start_cmd's
          Kinds,       \* the kinds of events there are callbacks for
          Registrable, \* the kinds whose function Lua code changes
          Nil,         \* NULL
          MaxNest      \* bound: callbacks in progress on one thread

\* The events that are turned off during a callback.
Stepping == {"single_step", "method_exit"}

\* The kinds that lj_set_jvmti_callback turns on for one thread; BREAKPOINT is
\* turned on for all of them by lj_init and METHOD_ENTRY never.
PerThread == Stepping \cup {"exception_throw", "field_access", "field_modification"}

AllKinds == PerThread \cup {"breakpoint"}

ASSUME CallbacksAssumption ==
  /\ Interpreters \subseteq Threads
  /\ Nil \notin Threads
  /\ Kinds \subseteq AllKinds
  /\ "breakpoint" \in Kinds
  /\ Registrable \subseteq Kinds \cap PerThread
  /\ MaxNest \in Nat

VARIABLES frames,      \* the callbacks in progress on each thread, innermost last
          current,     \* lj_current_thread
          stack,       \* the Lua states on the stack of lj_L
          registered,  \* the kinds whose reference is not LUA_NOREF
          enabled,     \* the per-thread events that are on, for each thread
          began,       \* history: the callbacks with a state, in the order they began
          overtaken,   \* history: those during which one that began before ended
          apart        \* history: those nothing has come between so far

history == <<began, overtaken, apart>>
vars == <<frames, current, stack, registered, enabled, history>>

\* The steps of a callback; "set" and "clear" are the second halves of
\* lj_set_jvmti_callback and lj_clear_jvmti_callback, "java" is the program.
Steps == {"current", "disable_step", "disable_exit", "lua", "set", "clear",
          "pop", "enable", "java"}

\* kind is what a "set" or a "clear" is about; the callbacks are all alike.
Frames == [step : Steps, kind : Kinds \cup {Nil}]

Depth(t) == Len(frames[t])

TypeOK ==
  /\ frames \in [Threads -> Seq(Frames)]
  /\ \A t \in Threads : frames[t] # <<>>
  /\ current \in Threads \cup {Nil}
  /\ stack \in Seq(Threads \X Nat)
  /\ registered \subseteq Kinds
  /\ enabled \in [Threads -> SUBSET (Kinds \cap PerThread)]
  /\ began \in Seq(Threads \X Nat)
  /\ overtaken \subseteq Threads \X Nat
  /\ apart \subseteq Threads \X Nat

\* debuglib.lua has registered its breakpoint function.
Init ==
  /\ frames = [t \in Threads |-> <<[step |-> IF t \in Interpreters THEN "lua" ELSE "java",
                                    kind |-> Nil]>>]
  /\ current = Nil
  /\ stack = <<>>
  /\ registered = {"breakpoint"}
  /\ enabled = [t \in Threads |-> {}]
  /\ began = <<>>
  /\ overtaken = {}
  /\ apart = {}

At(t, step) == Last(frames[t]).step = step

GoOn(t, step) == frames' = [frames EXCEPT ![t][Depth(t)].step = step]

\* get_current_java_thread, called on t: what the last callback to begin left
\* in lj_current_thread goes before the thread that asks.
CurrentThread(t) == IF current = Nil THEN t ELSE current

\* The callback t is in, by name.
Innermost(t) == <<t, Depth(t)>>

\* What is left of apart when t does something that concerns the other threads.
OwnApart(t) == {c \in apart : c[1] = t}

---------------------------------------------------------------------------
(* A callback *)

\* An event of kind k occurs in the Java code t runs, and its callback has a
\* function to call.
EventOccurs(t, k) ==
  /\ At(t, "java") \/ At(t, "lua")
  /\ k \in registered
  /\ k \in PerThread => k \in enabled[t]
  /\ Depth(t) <= MaxNest
  /\ frames' = [frames EXCEPT ![t] = Append(@, [step |-> "current", kind |-> Nil])]
  /\ stack' = Append(stack, <<t, Depth(t) + 1>>)
  /\ began' = Append(began, <<t, Depth(t) + 1>>)
  /\ apart' = IF \A u \in Threads \ {t} : Depth(u) = 1
                THEN OwnApart(t) \cup {<<t, Depth(t) + 1>>}
                ELSE OwnApart(t)
  /\ UNCHANGED <<current, registered, enabled, overtaken>>

\* Slip: the thread of the first callback stays.
SetCurrentOnce(t) ==
  /\ At(t, "current")
  /\ current' = CurrentThread(t)
  /\ GoOn(t, "disable_step")
  /\ UNCHANGED <<stack, registered, enabled, history>>

SetCurrent(t) ==
  /\ At(t, "current")
  /\ current' = t
  /\ GoOn(t, "disable_step")
  /\ UNCHANGED <<stack, registered, enabled, history>>

\* disable_events_before_callback_handling
DisableSingleStep(t) ==
  /\ At(t, "disable_step")
  /\ enabled' = [enabled EXCEPT ![CurrentThread(t)] = @ \ {"single_step"}]
  /\ GoOn(t, "disable_exit")
  /\ UNCHANGED <<current, stack, registered, history>>

DisableMethodExit(t) ==
  /\ At(t, "disable_exit")
  /\ enabled' = [enabled EXCEPT ![CurrentThread(t)] = @ \ {"method_exit"}]
  /\ GoOn(t, "lua")
  /\ UNCHANGED <<current, stack, registered, history>>

\* Slip: an error leaves the state where it is.
LuaFails(t) ==
  /\ At(t, "lua")
  /\ Depth(t) > 1
  /\ GoOn(t, "enable")
  /\ UNCHANGED <<current, stack, registered, enabled, history>>

\* The Lua function returns or raises an error: lua_pcall ends either way.
LuaReturns(t) ==
  /\ At(t, "lua")
  /\ Depth(t) > 1
  /\ GoOn(t, "pop")
  /\ UNCHANGED <<current, stack, registered, enabled, history>>

\* The callback of t has popped a state: those that began after it and are still
\* there have been overtaken.
Popped(t) ==
  LET i == CHOOSE i \in DOMAIN began : began[i] = Innermost(t)
  IN  /\ began' = RemoveAt(began, i)
      /\ overtaken' = (overtaken \cup {began[j] : j \in (i + 1)..Len(began)}) \ {Innermost(t)}

\* Slip: the state at the bottom goes, as if no callback were inside another.
PopOldest(t) ==
  /\ At(t, "pop")
  /\ stack' = Tail(stack)
  /\ GoOn(t, "enable")
  /\ Popped(t)
  /\ UNCHANGED <<current, registered, enabled, apart>>

\* lua_pop(lj_L, 1) takes whatever is on top.
PopState(t) ==
  /\ At(t, "pop")
  /\ stack' = Front(stack)
  /\ GoOn(t, "enable")
  /\ Popped(t)
  /\ UNCHANGED <<current, registered, enabled, apart>>

\* enable_events_after_callback_handling: single steps, or else method exits.
ToEnable == CASE "single_step" \in registered -> {"single_step"}
              [] "method_exit" \in registered -> {"method_exit"}
              [] OTHER -> {}

\* Slip: the callback returns for its caller as well.
ReturnTwice(t) ==
  /\ At(t, "enable")
  /\ frames' = [frames EXCEPT ![t] = Front(Front(@))]
  /\ UNCHANGED <<current, stack, registered, enabled, history>>

EnableAndReturn(t) ==
  /\ At(t, "enable")
  /\ enabled' = [enabled EXCEPT ![CurrentThread(t)] = @ \cup ToEnable]
  /\ frames' = [frames EXCEPT ![t] = Front(@)]
  /\ apart' = {}
  /\ UNCHANGED <<current, stack, registered, began, overtaken>>

---------------------------------------------------------------------------
(* Lua functions change what is registered *)

\* lj_set_jvmti_callback: the event is turned on before the reference is there
SetEnables(t, k) ==
  /\ At(t, "lua")
  /\ enabled' = [enabled EXCEPT ![CurrentThread(t)] = @ \cup {k}]
  /\ frames' = [frames EXCEPT ![t] = Append(@, [step |-> "set", kind |-> k])]
  /\ apart' = {}
  /\ UNCHANGED <<current, stack, registered, began, overtaken>>

SetRegisters(t) ==
  /\ At(t, "set")
  /\ registered' = registered \cup {Last(frames[t]).kind}
  /\ frames' = [frames EXCEPT ![t] = Front(@)]
  /\ UNCHANGED <<current, stack, enabled, history>>

\* lj_clear_jvmti_callback, in the same order
ClearDisables(t, k) ==
  /\ At(t, "lua")
  /\ enabled' = [enabled EXCEPT ![CurrentThread(t)] = @ \ {k}]
  /\ frames' = [frames EXCEPT ![t] = Append(@, [step |-> "clear", kind |-> k])]
  /\ apart' = OwnApart(t)
  /\ UNCHANGED <<current, stack, registered, began, overtaken>>

ClearUnregisters(t) ==
  /\ At(t, "clear")
  /\ registered' = registered \ {Last(frames[t]).kind}
  /\ frames' = [frames EXCEPT ![t] = Front(@)]
  /\ UNCHANGED <<current, stack, enabled, history>>

---------------------------------------------------------------------------

CallbackStep(t) ==
  \/ SetCurrent(t) \/ DisableSingleStep(t) \/ DisableMethodExit(t) \/ LuaReturns(t)
  \/ PopState(t) \/ EnableAndReturn(t) \/ SetRegisters(t) \/ ClearUnregisters(t)

Next ==
  \E t \in Threads :
    \/ CallbackStep(t)
    \/ \E k \in Kinds : EventOccurs(t, k)
    \/ \E k \in Registrable : SetEnables(t, k) \/ ClearDisables(t, k)

Spec == Init /\ [][Next]_vars

---------------------------------------------------------------------------
(* Properties *)

\* The depths of the callbacks of t that have made their state and not popped
\* one yet; the Lua code at depth 1 is the interpreter's.
InCallback(t) ==
  {d \in DOMAIN frames[t] :
     \/ frames[t][d].step \in {"current", "disable_step", "disable_exit", "pop"}
     \/ frames[t][d].step = "lua" /\ d > 1}

InProgress == UNION {{t} \X InCallback(t) : t \in Threads}

\* lj_L's stack has exactly one state for each callback in progress, on all
\* threads together: no interleaving makes it grow or underflow.
StackBalanced == Len(stack) = Cardinality(InProgress)

\* The state a callback runs in stays on the stack of lj_L, out of reach of the
\* garbage collector, until the callback is "done with it".
StateAnchored == InProgress \subseteq ToSet(stack)

\* Threads share lj_L's stack, and a callback pops whatever is on top of it; but
\* a callback loses its state only when another one that began before it ended
\* before it.  Until then its state is at its own place on the stack, however many
\* callbacks begin, nest and end above it, on whatever threads.
KeptUnlessOvertaken == InProgress \ overtaken \subseteq ToSet(stack)

\* "disable events for the duration of the callback to prevent re-entering": the
\* function runs with its own thread's stepping events off, whatever thread the
\* callbacks before it left in lj_current_thread, unless something came between:
\* another thread's event or registration, a registration of its own, or a
\* callback nested in it that has turned the events on again.
NotReentered ==
  \A c \in apart :
    frames[c[1]][c[2]].step = "lua" => enabled[c[1]] \cap Stepping = {}
===========================================================================

------------------------ MODULE DebugSession_proofs ------------------------
(* Proofs about debug_lock and debug_thread, for any number of threads, any
   breakpoints and handlers, any lines typed, any nesting of callbacks and any
   number of callbacks broken off by an error.

   The properties are not inductive by themselves: what a callback gives back
   when it returns depends on what it suspended, and what bp(), bc() and g() store
   depends on the command their thread is evaluating and on what it has read.
   CommandFits and Nesting say so. *)
EXTENDS DebugSession, RawMonitor_proofs, SequenceTheorems,
        FiniteSetTheorems

USE SessionAssumption

\* A thread that is going to use its command, or what it has found, has one of
\* the right kind.
CommandFits ==
  \A t \in Threads :
    /\ pc[t] \in {"check", "push", "deliver"} => cmd[t] \in Commands
    /\ pc[t] \in {"bp", "bp_set", "bp_insert"} => cmd[t] \in [op : {"bp"}, arg : Methods]
    /\ pc[t] \in {"deliver", "g_deliver"} => found[t] \in Threads
    /\ pc[t] \in Clearing => found[t] \in Methods

\* A callback has suspended something, and what was suspended first was the
\* program or a line of the interpreter, never the handler of a callback.
Outermost(s) == s # <<>> => s[Len(s)] # "handler"

Nesting ==
  \A t \in Threads : /\ pc[t] \in Callback => suspended[t] # <<>>
                     /\ Outermost(suspended[t])

\* debug_thread is cleared before debug_lock is left.
Cleared == \A t \in Threads : pc[t] = "unlock" => debugThread = Nil

Inv == TypeOK /\ CommandFits /\ Nesting /\ LockAccounting
         /\ DebugThreadOwnsLock /\ Cleared

---------------------------------------------------------------------------
(* Data *)

\* A command names a step of its evaluation and is not the resume event.
LEMMA CommandKinds ==
  ASSUME NEW c \in Commands
  PROVE  /\ c.op \in AllOps
         /\ c # Resume
         /\ c.op = "bp" => c \in [op : {"bp"}, arg : Methods]
  BY DEF Commands, Resume, AllOps

\* Suspending Java code puts it on top and leaves the outermost one in place.
LEMMA Suspending ==
  ASSUME NEW s \in Seq(JavaCode), NEW p \in JavaCode,
         Outermost(s), s = <<>> => p # "handler"
  PROVE  /\ <<p>> \o s \in Seq(JavaCode)
         /\ Len(<<p>> \o s) = Len(s) + 1
         /\ <<p>> \o s # <<>>
         /\ Outermost(<<p>> \o s)
  <1>1. /\ <<p>> \in Seq(JavaCode) /\ Len(<<p>>) = 1 /\ <<p>>[1] = p
    OBVIOUS
  <1>2. /\ <<p>> \o s \in Seq(JavaCode)
        /\ Len(<<p>> \o s) = Len(s) + 1
        /\ \A i \in 1..(Len(s) + 1) :
             (<<p>> \o s)[i] = IF i <= 1 THEN <<p>>[i] ELSE s[i - 1]
    BY <1>1, ConcatProperties
  <1>3. Len(s) \in Nat /\ (s = <<>> <=> Len(s) = 0)
    BY EmptySeq
  <1>4. (<<p>> \o s)[Len(s) + 1] = IF Len(s) = 0 THEN p ELSE s[Len(s)]
    BY <1>1, <1>2, <1>3
  <1> QED BY <1>2, <1>3, <1>4, EmptySeq DEF Outermost

\* Going on with it takes it off again.
LEMMA Returning ==
  ASSUME NEW s \in Seq(JavaCode), s # <<>>, Outermost(s)
  PROVE  /\ Head(s) \in JavaCode
         /\ Tail(s) \in Seq(JavaCode)
         /\ Len(Tail(s)) = Len(s) - 1
         /\ Len(s) > 0
         /\ Outermost(Tail(s))
         /\ Tail(s) = <<>> => Head(s) # "handler"
  <1>1. /\ Head(s) \in JavaCode /\ Tail(s) \in Seq(JavaCode)
        /\ Len(Tail(s)) = Len(s) - 1
        /\ \A i \in 1..Len(Tail(s)) : Tail(s)[i] = s[i + 1]
    BY HeadTailProperties
  <1>2. Len(s) \in Nat /\ Len(s) > 0 /\ Head(s) = s[1]
    BY EmptySeq
  <1>3. Tail(s) = <<>> <=> Len(s) = 1
    <2>1. Tail(s) = <<>> <=> Len(Tail(s)) = 0
      BY <1>1, EmptySeq
    <2> QED BY <1>1, <1>2, <2>1
  <1> QED BY <1>1, <1>2, <1>3 DEF Outermost

---------------------------------------------------------------------------
(* Initial states *)

LEMMA InitInv == Init => Inv
  <1> SUFFICES ASSUME Init PROVE Inv
    OBVIOUS
  <1>1. TypeOK
    <2>1. Cardinality(jvmtiBps) \in Nat
      BY FS_Subset, FS_CardinalityType DEF Init
    <2>2. breakpoints \in [1..Cardinality(jvmtiBps) -> jvmtiBps]
      BY DEF Init, SetToSeqs
    <2>3. breakpoints \in Seq(Methods)
      BY <2>1, <2>2 DEF Init
    <2>4. /\ pc \in [Threads -> {"run"} \cup Interpreter \cup Callback \cup Evaluation]
          /\ suspended \in [Threads -> Seq(JavaCode)] /\ queue \in [Threads -> Seq(Events)]
      BY DEF Init, Interpreter
    <2>5. debugLock \in Monitor(Threads)
      BY DEF Init, Monitor, FreeMonitor
    <2> QED BY <2>3, <2>4, <2>5 DEF Init, TypeOK
  <1>2. CommandFits /\ Nesting /\ LockAccounting /\ DebugThreadOwnsLock /\ Cleared
    BY DEF Init, Cleared, CommandFits, Nesting, Outermost, LockAccounting, Held,
           DebugThreadOwnsLock, FreeMonitor, Callback, Clearing
  <1> QED BY <1>1, <1>2 DEF Inv

---------------------------------------------------------------------------
(* Steps by what they do to the lock and to the callbacks in progress *)

\* The entries of a thread are a number, and none is counted before it is made.
LEMMA HeldType ==
  ASSUME Inv, NEW t \in Threads
  PROVE  /\ Len(suspended[t]) \in Nat /\ aborted[t] \in Nat
         /\ Held(t) \in Nat
         /\ pc[t] \in Callback => Len(suspended[t]) > 0
         /\ pc[t] \in Callback \ {"enter"} => Held(t) > 0
  <1>1. suspended[t] \in Seq(JavaCode) /\ aborted[t] \in Nat
    BY DEF Inv, TypeOK
  <1>2. Len(suspended[t]) \in Nat /\ (suspended[t] # <<>> => Len(suspended[t]) > 0)
    BY <1>1, EmptySeq, LenProperties
  <1>3. pc[t] \in Callback => Len(suspended[t]) > 0
    BY <1>2 DEF Inv, Nesting
  <1> QED BY <1>1, <1>2, <1>3 DEF Held, Callback

\* A step inside a callback or inside the interpreter.
Inner(t) ==
  /\ pc[t] # "enter"
  /\ \E to \in {"run"} \cup Interpreter \cup Callback \cup Evaluation :
       /\ pc' = [pc EXCEPT ![t] = to]
       /\ to # "enter"
       /\ to \in Callback => suspended[t] # <<>>
  /\ UNCHANGED <<suspended, debugLock, aborted>>

LEMMA InnerPreserves ==
  ASSUME Inv, NEW t \in Threads, Inner(t)
  PROVE  Nesting' /\ LockAccounting'
  <1>1. Nesting'
    BY DEF Inner, Inv, Nesting, TypeOK
  <1>2. \A u \in Threads : Held(u)' = Held(u)
    BY DEF Inner, Inv, TypeOK, Held
  <1>3. LockAccounting'
    BY <1>2 DEF Inner, Inv, LockAccounting
  <1> QED BY <1>1, <1>3

\* A callback begins and has not got the lock yet.
LEMMA HitPreserves ==
  ASSUME Inv, NEW t \in Threads, HitBreakpoint(t)
  PROVE  /\ Nesting' /\ LockAccounting' /\ suspended' \in [Threads -> Seq(JavaCode)]
         /\ \A u \in Threads : Held(u)' = Held(u)
  <1> DEFINE s == suspended[t]
  <1>1. /\ s \in Seq(JavaCode) /\ pc[t] \in JavaCode /\ Outermost(s)
        /\ s = <<>> => pc[t] # "handler"
    BY DEF Inv, TypeOK, Nesting, HitBreakpoint, JavaCode, Callback
  <1>2. /\ <<pc[t]>> \o s \in Seq(JavaCode) /\ <<pc[t]>> \o s # <<>>
        /\ Len(<<pc[t]>> \o s) = Len(s) + 1 /\ Outermost(<<pc[t]>> \o s)
    BY <1>1, Suspending
  <1>3. /\ suspended' = [suspended EXCEPT ![t] = <<pc[t]>> \o s]
        /\ pc' = [pc EXCEPT ![t] = "enter"] /\ pc[t] # "enter"
        /\ UNCHANGED <<debugLock, aborted>>
    BY <1>1 DEF HitBreakpoint, JavaCode
  <1>4. suspended' \in [Threads -> Seq(JavaCode)]
    BY <1>2, <1>3 DEF Inv, TypeOK
  <1>5. Nesting'
    BY <1>2, <1>3 DEF Inv, TypeOK, Nesting
  <1>6. Len(s) \in Nat
    BY <1>1, LenProperties
  <1>7. \A u \in Threads : Held(u)' = Held(u)
    <2>1. Held(t)' = Len(s) + 1 - 1
      BY <1>2, <1>3 DEF Inv, TypeOK, Held
    <2>2. \A u \in Threads \ {t} : Held(u)' = Held(u)
      BY <1>3 DEF Inv, TypeOK, Held
    <2> QED BY <1>3, <1>6, <2>1, <2>2 DEF Held
  <1>8. LockAccounting'
    BY <1>3, <1>7 DEF Inv, LockAccounting
  <1> QED BY <1>4, <1>5, <1>7, <1>8

\* The lock is entered for a callback.
LEMMA EnterPreserves ==
  ASSUME Inv, NEW t \in Threads, EnterDebugger(t)
  PROVE  /\ Nesting' /\ LockAccounting' /\ debugLock' \in Monitor(Threads)
         /\ Held(t)' = Held(t) + 1
         /\ \A u \in Threads \ {t} : Held(u)' = Held(u) /\ Held(u) + aborted[u] = 0
  <1>1. /\ debugLock' \in Monitor(Threads) /\ debugLock'.owner = t
        /\ debugLock'.count = debugLock.count + 1
        /\ debugLock.owner \in {Nobody, t} /\ debugLock.count \in Nat
    <2>1. debugLock \in Monitor(Threads) /\ debugLock' = Entered(debugLock, t)
      BY DEF EnterDebugger, Inv, TypeOK
    <2> QED BY <2>1, EnteredProperties DEF EnterDebugger, CanEnter, Monitor
  <1>2. Nesting'
    BY DEF Inv, TypeOK, Nesting, EnterDebugger, Goto, Callback
  <1>3. /\ \A u \in Threads : Len(suspended[u]) \in Nat /\ aborted[u] \in Nat
        /\ Len(suspended[t]) > 0
    BY LenProperties, EmptySeq DEF Inv, TypeOK, Nesting, EnterDebugger, Goto, Callback
  <1>4. /\ Held(t)' = Held(t) + 1
        /\ \A u \in Threads \ {t} : Held(u)' = Held(u)
        /\ \A u \in Threads : Held(u) \in Int
        /\ UNCHANGED aborted
    BY <1>3 DEF Inv, TypeOK, Held, EnterDebugger, Goto
  <1>5. Held(t) >= 0
    BY <1>3 DEF Held
  <1>6. \A u \in Threads \ {t} : Held(u) + aborted[u] = 0
    BY <1>1 DEF Inv, LockAccounting, SessionAssumption
  <1>7. LockAccounting'
    <2>2. debugLock.count = Held(t) + aborted[t]
      BY <1>1 DEF Inv, LockAccounting
    <2>3. t # Nobody
      BY DEF SessionAssumption
    <2> QED BY <1>1, <1>3, <1>4, <1>5, <1>6, <2>2, <2>3 DEF LockAccounting
  <1> QED BY <1>1, <1>2, <1>4, <1>6, <1>7

\* A callback is over: properly, or broken off by an error.
LEMMA ReturnPreserves ==
  ASSUME Inv, NEW t \in Threads, ReturnToJava(t), suspended[t] # <<>>, pc[t] # "enter",
         \/ debugLock' = Exited(debugLock) /\ UNCHANGED aborted
         \/ aborted' = [aborted EXCEPT ![t] = @ + 1] /\ UNCHANGED debugLock
  PROVE  /\ Nesting' /\ LockAccounting' /\ debugLock' \in Monitor(Threads)
         /\ suspended' \in [Threads -> Seq(JavaCode)]
         /\ pc'[t] \in JavaCode /\ pc' = [pc EXCEPT ![t] = pc'[t]]
         /\ debugLock.owner = t
         /\ debugLock'.owner = Nobody => debugLock.count = 1
         /\ Held(t) > 0 /\ Held(t)' = Held(t) - 1
         /\ \A u \in Threads \ {t} : Held(u)' = Held(u)
  <1> DEFINE s == suspended[t]
  <1>1. /\ Head(s) \in JavaCode /\ Tail(s) \in Seq(JavaCode)
        /\ Len(Tail(s)) = Len(s) - 1 /\ Len(s) > 0 /\ Len(s) \in Nat
        /\ Outermost(Tail(s)) /\ (Tail(s) = <<>> => Head(s) # "handler")
    BY Returning, LenProperties DEF Inv, TypeOK, Nesting
  <1>2. /\ pc' = [pc EXCEPT ![t] = Head(s)]
        /\ suspended' = [suspended EXCEPT ![t] = Tail(s)]
    BY DEF ReturnToJava
  <1>3. /\ suspended' \in [Threads -> Seq(JavaCode)]
        /\ pc'[t] = Head(s) /\ suspended'[t] = Tail(s)
        /\ \A u \in Threads \ {t} : pc'[u] = pc[u] /\ suspended'[u] = suspended[u]
    BY <1>1, <1>2 DEF Inv, TypeOK
  <1>4. Nesting'
    BY <1>1, <1>3 DEF Inv, Nesting, JavaCode, Callback
  <1>5. \A u \in Threads : Len(suspended[u]) \in Nat /\ aborted[u] \in Nat
    BY LenProperties DEF Inv, TypeOK
  <1>6. /\ Held(t) > 0 /\ Held(t)' = Held(t) - 1
        /\ \A u \in Threads \ {t} : Held(u)' = Held(u)
        /\ \A u \in Threads : Held(u) \in Nat
    <2>1. Held(t) = Len(s) /\ Held(t)' = Len(Tail(s))
      BY <1>1, <1>3 DEF Held, JavaCode
    <2>2. \A u \in Threads \ {t} : Held(u)' = Held(u)
      BY <1>3 DEF Held
    <2> QED BY <1>1, <2>1, <2>2, HeldType
  <1>7. /\ debugLock.owner = t /\ debugLock.count = Held(t) + aborted[t]
        /\ debugLock.count > 0 /\ debugLock \in Monitor(Threads)
        /\ \A u \in Threads \ {t} : Held(u) + aborted[u] = 0
    <2>1. Held(t) > 0 /\ aborted[t] \in Nat /\ Held(t) \in Nat
      BY <1>5, <1>6
    <2>2. Held(t) + aborted[t] # 0
      BY <2>1
    <2>3. LockAccounting /\ debugLock \in Monitor(Threads)
      BY DEF Inv, TypeOK
    <2>4. debugLock.owner = t
      BY <2>2, <2>3 DEF LockAccounting
    <2> QED BY <2>3, <2>4 DEF LockAccounting
  <1>8. CASE debugLock' = Exited(debugLock) /\ UNCHANGED aborted
    <2>1. /\ debugLock' \in Monitor(Threads)
          /\ debugLock'.owner = IF debugLock.count = 1 THEN Nobody ELSE t
          /\ debugLock'.count = debugLock.count - 1
      BY <1>7, <1>8, ExitedProperties
    <2>2. LockAccounting'
      BY <1>5, <1>6, <1>7, <1>8, <2>1 DEF LockAccounting, Monitor
    <2> QED BY <1>1, <1>2, <1>3, <1>4, <1>6, <1>7, <2>1, <2>2
  <1>9. CASE aborted' = [aborted EXCEPT ![t] = @ + 1] /\ UNCHANGED debugLock
    <2>1. /\ aborted'[t] = aborted[t] + 1
          /\ \A u \in Threads \ {t} : aborted'[u] = aborted[u]
      BY <1>9 DEF Inv, TypeOK
    <2>2. LockAccounting'
      BY <1>5, <1>6, <1>7, <1>9, <2>1 DEF LockAccounting
    <2> QED BY <1>1, <1>2, <1>3, <1>4, <1>6, <1>7, <1>9, <2>2
  <1> QED BY <1>8, <1>9

---------------------------------------------------------------------------
(* Every step preserves the invariant *)

\* An inner step that leaves debug_thread alone.
LEMMA QuietPreserves ==
  ASSUME Inv, NEW t \in Threads, Inner(t), pc'[t] # "unlock", UNCHANGED debugThread,
         TypeOK', CommandFits'
  PROVE  Inv'
  <1>1. DebugThreadOwnsLock' /\ Cleared'
    BY DEF Inv, TypeOK, Inner, DebugThreadOwnsLock, Cleared
  <1> QED BY <1>1, InnerPreserves DEF Inv

\* debug_thread is set and cleared under the lock.
LEMMA SetDebugThreadPreserves ==
  ASSUME Inv, NEW t \in Threads, SetDebugThread(t)
  PROVE  Inv'
  <1>1. /\ Inner(t) /\ pc[t] = "set" /\ pc' = [pc EXCEPT ![t] = "lookup"]
        /\ debugThread' = t
    BY DEF SetDebugThread, Goto, Inner, Inv, Nesting, Callback
  <1>2. debugLock.owner = t
    BY <1>1, HeldType DEF Inv, LockAccounting, Callback
  <1>3. DebugThreadOwnsLock'
    BY <1>1, <1>2 DEF Inner, DebugThreadOwnsLock
  <1>4. \A u \in Threads : pc[u] = "unlock" => u = t
    BY <1>2, HeldType DEF Inv, LockAccounting, Callback
  <1>5. Cleared'
    BY <1>1, <1>4 DEF Inv, TypeOK, Cleared
  <1>6. TypeOK' /\ CommandFits'
    BY DEF SetDebugThread, Goto, Inv, TypeOK, CommandFits, Clearing, tableVars, Callback
  <1> QED BY <1>1, <1>3, <1>5, <1>6, InnerPreserves DEF Inv

LEMMA ClearDebugThreadPreserves ==
  ASSUME Inv, NEW t \in Threads, ClearDebugThread(t)
  PROVE  Inv'
  <1>1. Inner(t) /\ debugThread' = Nil
    BY DEF ClearDebugThread, Goto, Inner, Inv, Nesting, Callback
  <1>2. DebugThreadOwnsLock' /\ Cleared'
    BY <1>1 DEF DebugThreadOwnsLock, Cleared
  <1>3. TypeOK' /\ CommandFits'
    BY DEF ClearDebugThread, Goto, Inv, TypeOK, CommandFits, Clearing, tableVars, Callback
  <1> QED BY <1>1, <1>2, <1>3, InnerPreserves DEF Inv

LEMMA HitInv ==
  ASSUME Inv, NEW t \in Threads, HitBreakpoint(t)
  PROVE  Inv'
  <1>1. /\ pc' = [pc EXCEPT ![t] = "enter"]
        /\ \E m \in jvmtiBps : hit' = [hit EXCEPT ![t] = m]
        /\ UNCHANGED <<cmd, found, debugLock, debugThread, queue, queueHeld,
                       breakpoints, jvmtiBps, overlapped, aborted>>
    BY DEF HitBreakpoint, tableVars
  <1>2. suspended' \in [Threads -> Seq(JavaCode)]
    BY HitPreserves
  <1>3. TypeOK'
    BY <1>1, <1>2 DEF Inv, TypeOK, Callback
  <1>4. CommandFits' /\ DebugThreadOwnsLock' /\ Cleared'
    BY <1>1 DEF Inv, TypeOK, CommandFits, Clearing, DebugThreadOwnsLock, Cleared
  <1> QED BY <1>3, <1>4, HitPreserves DEF Inv

LEMMA EnterInv ==
  ASSUME Inv, NEW t \in Threads, EnterDebugger(t)
  PROVE  Inv'
  <1>1. /\ pc[t] = "enter" /\ pc' = [pc EXCEPT ![t] = "set"]
        /\ debugLock.owner \in {Nobody, t} /\ debugLock'.owner = t
        /\ UNCHANGED <<suspended, hit, cmd, found, debugThread, queue, queueHeld,
                       breakpoints, jvmtiBps, overlapped, aborted>>
    BY DEF EnterDebugger, Goto, CanEnter, Entered, tableVars
  <1>2. TypeOK'
    BY <1>1, EnterPreserves DEF Inv, TypeOK, Callback
  <1>3. CommandFits' /\ DebugThreadOwnsLock' /\ Cleared'
    BY <1>1 DEF Inv, TypeOK, CommandFits, Clearing, DebugThreadOwnsLock, Cleared
  <1> QED BY <1>2, <1>3, EnterPreserves DEF Inv

LEMMA LeaveInv ==
  ASSUME Inv, NEW t \in Threads, LeaveDebugger(t)
  PROVE  Inv'
  <1>1. /\ pc[t] = "unlock" /\ ReturnToJava(t) /\ debugLock' = Exited(debugLock)
        /\ UNCHANGED <<hit, cmd, found, debugThread, queue, queueHeld, breakpoints,
                       jvmtiBps, overlapped, aborted>>
    BY DEF LeaveDebugger, tableVars
  <1>2. suspended[t] # <<>> /\ debugThread = Nil
    BY <1>1 DEF Inv, Nesting, Callback, Cleared
  <1>3. /\ Nesting' /\ LockAccounting' /\ debugLock' \in Monitor(Threads)
        /\ suspended' \in [Threads -> Seq(JavaCode)]
        /\ pc'[t] \in JavaCode /\ pc' = [pc EXCEPT ![t] = pc'[t]]
    BY <1>1, <1>2, ReturnPreserves
  <1>4. TypeOK'
    BY <1>1, <1>3 DEF Inv, TypeOK, JavaCode, Callback, Evaluation, AllOps
  <1>5. CommandFits' /\ DebugThreadOwnsLock' /\ Cleared'
    BY <1>1, <1>2, <1>3 DEF Inv, TypeOK, CommandFits, Clearing, DebugThreadOwnsLock, Cleared,
       JavaCode
  <1> QED BY <1>3, <1>4, <1>5 DEF Inv

\* The four ways a callback is broken off.
LEMMA AbortInv ==
  ASSUME Inv, NEW t \in Threads,
         LookupFails(t) \/ StopFails(t) \/ WaitInterrupted(t) \/ EvaluationFails(t)
  PROVE  Inv'
  <1>1. /\ Abort(t) /\ pc[t] # "enter" /\ suspended[t] # <<>>
        /\ hit' \in [Threads -> Methods \cup {Nil}]
        /\ cmd' \in [Threads -> Commands \cup {Nil}]
        /\ queueHeld' \in [Threads -> Nat]
        /\ \A u \in Threads \ {t} : cmd'[u] = cmd[u]
        /\ UNCHANGED found
    <2> USE DEF Inv, TypeOK
    <2>1. CASE LookupFails(t)
      BY <2>1 DEF Nesting, Callback, LookupFails
    <2>2. CASE WaitInterrupted(t)
      BY <2>2 DEF Nesting, Callback, WaitInterrupted
    <2>3. CASE EvaluationFails(t)
      BY <2>3 DEF EvaluationFails
    <2>4. CASE StopFails(t)
      BY <2>4 DEF Nesting, Callback, StopFails
    <2> QED BY <2>1, <2>2, <2>3, <2>4
  <1>2. /\ ReturnToJava(t) /\ aborted' = [aborted EXCEPT ![t] = @ + 1]
        /\ UNCHANGED <<debugLock, debugThread, queue, breakpoints, jvmtiBps, overlapped>>
    BY <1>1 DEF Abort, tableVars
  <1>3. /\ Nesting' /\ LockAccounting' /\ debugLock' \in Monitor(Threads)
        /\ suspended' \in [Threads -> Seq(JavaCode)]
        /\ pc'[t] \in JavaCode /\ pc' = [pc EXCEPT ![t] = pc'[t]]
    BY <1>1, <1>2, ReturnPreserves
  <1>4. TypeOK'
    <2>1. pc'[t] \in {"run"} \cup Callback \cup Evaluation
      BY <1>3 DEF JavaCode, Callback, Evaluation, AllOps
    <2>2. pc' \in [Threads -> {"run"} \cup Interpreter \cup Callback \cup Evaluation]
      BY <1>3, <2>1 DEF Inv, TypeOK
    <2>3. aborted' \in [Threads -> Nat]
      BY <1>2 DEF Inv, TypeOK
    <2> QED BY <1>1, <1>2, <1>3, <2>2, <2>3 DEF Inv, TypeOK
  <1>5. CommandFits'
    BY <1>1, <1>3 DEF Inv, TypeOK, CommandFits, Clearing, JavaCode
  <1>6. DebugThreadOwnsLock' /\ Cleared'
    BY <1>2, <1>3 DEF Inv, TypeOK, DebugThreadOwnsLock, Cleared, JavaCode
  <1> QED BY <1>3, <1>4, <1>5, <1>6 DEF Inv

\* Steps of the callback and its event loop.
LEMMA EventInv ==
  ASSUME Inv, NEW t \in Threads,
         \/ Lookup(t) \/ HandlerReturns(t) \/ BeginWait(t) \/ PopResume(t) \/ PopCommand(t)
  PROVE  Inv'
  <1> USE DEF Inv, TypeOK, CommandFits, Clearing, Nesting, Goto, Callback, Interpreter,
              Evaluation, AllOps, tableVars
  <1>1. CASE Lookup(t)
    <2>1. Inner(t) /\ pc'[t] # "unlock" /\ UNCHANGED debugThread
      BY <1>1 DEF Lookup, Inner
    <2>2. TypeOK'
      BY <1>1 DEF Lookup
    <2>3. CommandFits'
      BY <1>1 DEF Lookup
    <2> QED BY <2>1, <2>2, <2>3, QuietPreserves
  <1>2. CASE HandlerReturns(t)
    <2>1. Inner(t) /\ pc'[t] # "unlock" /\ UNCHANGED debugThread
      BY <1>2 DEF HandlerReturns, Inner
    <2>2. TypeOK'
      BY <1>2 DEF HandlerReturns
    <2>3. CommandFits'
      BY <1>2 DEF HandlerReturns
    <2> QED BY <2>1, <2>2, <2>3, QuietPreserves
  <1>3. CASE PopResume(t)
    <2>0. Tail(queue[t]) \in Seq(Events)
      BY <1>3, HeadTailProperties DEF PopResume, Pops
    <2>1. Inner(t) /\ pc'[t] # "unlock" /\ UNCHANGED debugThread
      BY <1>3, <2>0 DEF PopResume, Pops, Inner
    <2>2. TypeOK'
      BY <1>3, <2>0 DEF PopResume, Pops
    <2>3. CommandFits'
      BY <1>3, <2>0 DEF PopResume, Pops
    <2> QED BY <2>1, <2>2, <2>3, QuietPreserves
  <1>4. CASE PopCommand(t)
    <2>0. /\ queue[t] \in Seq(Events) /\ queue[t] # <<>>
          /\ Head(queue[t]) \in Commands /\ Tail(queue[t]) \in Seq(Events)
          /\ Head(queue[t]).op \in AllOps
          /\ Head(queue[t]).op = "bp" => Head(queue[t]) \in [op : {"bp"}, arg : Methods]
      BY <1>4, HeadTailProperties, CommandKinds DEF PopCommand, Pops, Events
    <2>1. Inner(t) /\ pc'[t] # "unlock" /\ UNCHANGED debugThread
      BY <1>4, <2>0 DEF PopCommand, Pops, Inner
    <2>2. TypeOK'
      BY <1>4, <2>0 DEF PopCommand, Pops
    <2>3. CommandFits'
      BY <1>4, <2>0 DEF PopCommand, Pops
    <2> QED BY <2>1, <2>2, <2>3, QuietPreserves
  <1>5. CASE BeginWait(t)
    <2>1. Inner(t) /\ pc'[t] # "unlock" /\ UNCHANGED debugThread
      BY <1>5 DEF BeginWait, Inner
    <2>2. TypeOK'
      BY <1>5 DEF BeginWait
    <2>3. CommandFits'
      BY <1>5 DEF BeginWait
    <2> QED BY <2>1, <2>2, <2>3, QuietPreserves
  <1> QED BY <1>1, <1>2, <1>3, <1>4, <1>5

\* The end of an evaluation, whatever it did to the queues and the tables.
LEMMA EvaluatedPreserves ==
  ASSUME Inv, NEW t \in Threads, NEW from \in Evaluation, Evaluated(t, from),
         queue' \in [Threads -> Seq(Events)],
         breakpoints' \in Seq(Methods), jvmtiBps' \subseteq Methods, overlapped' \in BOOLEAN
  PROVE  Inv'
  <1> DEFINE to == IF suspended[t] = <<>> THEN "read" ELSE "events"
  <1>1. /\ pc[t] = from /\ pc' = [pc EXCEPT ![t] = to]
        /\ cmd' = [cmd EXCEPT ![t] = Nil] /\ found' = [found EXCEPT ![t] = Nil]
        /\ UNCHANGED <<suspended, hit, debugLock, debugThread, queueHeld, aborted>>
    BY DEF Evaluated, Goto
  <1>2. /\ to \in Interpreter \cup Callback /\ to \in {"read", "events"}
        /\ to \in Callback => suspended[t] # <<>>
    BY DEF Interpreter, Callback
  <1> HIDE DEF to
  <1>3. pc[t] # "enter"
    BY <1>1 DEF Evaluation, AllOps
  <1>4. Inner(t)
    BY <1>1, <1>2, <1>3 DEF Inner
  <1>5. TypeOK'
    BY <1>1, <1>2 DEF Inv, TypeOK
  <1>6. CommandFits' /\ pc'[t] # "unlock"
    BY <1>1, <1>2 DEF Inv, TypeOK, CommandFits, Clearing
  <1> QED BY <1>1, <1>4, <1>5, <1>6, QuietPreserves

\* One step of an evaluation that has another one.
LEMMA ProceedPreserves ==
  ASSUME Inv, NEW t \in Threads, NEW from \in Evaluation, NEW to \in Evaluation,
         Proceed(t, from, to), to \in {"bp_set", "bp_insert"} => from \in {"bp", "bp_set"},
         to # "bp", found' = [found EXCEPT ![t] = found'[t]],
         found'[t] \in Threads \cup Methods \cup {Nil},
         to = "g_deliver" => found'[t] \in Threads, to \in Clearing => found'[t] \in Methods,
         breakpoints' \in Seq(Methods), jvmtiBps' \subseteq Methods, overlapped' \in BOOLEAN
  PROVE  Inv'
  <1>1. /\ pc[t] = from /\ pc' = [pc EXCEPT ![t] = to]
        /\ UNCHANGED <<suspended, hit, cmd, debugLock, debugThread, queue, queueHeld,
                       aborted>>
    BY DEF Proceed, Goto
  <1>2. {from, to} \cap (Callback \cup {"check", "push", "deliver"}) = {}
    BY DEF Evaluation, AllOps, Callback
  <1>3. Inner(t)
    BY <1>1, <1>2 DEF Inner, Callback
  <1>4. TypeOK'
    BY <1>1 DEF Inv, TypeOK
  <1>5. CommandFits' /\ pc'[t] # "unlock"
    BY <1>1, <1>2 DEF Inv, TypeOK, CommandFits, Clearing, Callback
  <1> QED BY <1>1, <1>3, <1>4, <1>5, QuietPreserves

\* Taking an element out of a sequence leaves a sequence.
LEMMA Removing ==
  ASSUME NEW S, NEW s \in Seq(S), NEW i \in 1..Len(s)
  PROVE  RemoveAt(s, i) \in Seq(S)
  <1>1. SubSeq(s, 1, i - 1) \in Seq(S) /\ SubSeq(s, i + 1, Len(s)) \in Seq(S)
    BY SubSeqProperties, LenProperties
  <1> QED BY <1>1, ConcatProperties DEF RemoveAt

\* Steps of the evaluation of a command.
LEMMA EvaluationInv ==
  ASSUME Inv, NEW t \in Threads,
         \/ GNotifies(t) \/ GChecks(t) \/ GFindsNobody(t) \/ GReads(t) \/ GPushes(t)
         \/ BpExists(t) \/ BpSearches(t) \/ BpRefused(t) \/ BpSets(t) \/ BpInserts(t)
         \/ BcUnknown(t) \/ BcReads(t) \/ BcRefused(t) \/ BcClears(t) \/ BcRemoves(t)
         \/ CallReturns(t)
  PROVE  Inv'
  <1>1. /\ queue \in [Threads -> Seq(Events)] /\ debugThread \in Threads \cup {Nil}
        /\ breakpoints \in Seq(Methods) /\ jvmtiBps \subseteq Methods
        /\ overlapped \in BOOLEAN
        /\ found \in [Threads -> Threads \cup Methods \cup {Nil}]
        /\ found[t] \in Threads \cup Methods \cup {Nil}
        /\ UNCHANGED found => found' = [found EXCEPT ![t] = found'[t]]
    BY DEF Inv, TypeOK
  <1>2. /\ AllOps \subseteq Evaluation
        /\ {"g", "g_push", "g_deliver", "bp", "bp_set", "bp_insert",
            "bc", "bc_clear", "bc_remove", "call"} \subseteq Evaluation
    BY DEF Evaluation, AllOps
  <1>3. CASE \/ GNotifies(t) \/ GFindsNobody(t) \/ BpExists(t) \/ BpRefused(t)
             \/ BcUnknown(t) \/ BcRefused(t) \/ CallReturns(t)
    <2>1. UNCHANGED <<queue, tableVars>> /\ \E from \in Evaluation : Evaluated(t, from)
      BY <1>2, <1>3 DEF GNotifies, GFindsNobody, BpExists, BpRefused, BcUnknown, BcRefused,
         CallReturns
    <2> QED BY <1>1, <2>1, EvaluatedPreserves DEF tableVars
  <1>4. CASE GChecks(t)
    <2>1. Proceed(t, "g", "g_push") /\ UNCHANGED <<found, breakpoints, jvmtiBps, overlapped>>
      BY <1>4 DEF GChecks, tableVars
    <2> QED BY <1>1, <1>2, <2>1, ProceedPreserves DEF Clearing
  <1>5. CASE GReads(t)
    <2>1. debugThread \in Threads
      BY <1>1, <1>5 DEF GReads, CanAddress
    <2>2. /\ Proceed(t, "g_push", "g_deliver") /\ UNCHANGED <<breakpoints, jvmtiBps, overlapped>>
          /\ found' = [found EXCEPT ![t] = debugThread] /\ found'[t] = debugThread
      BY <1>1, <1>5 DEF GReads, tableVars
    <2> QED BY <1>1, <1>2, <2>1, <2>2, ProceedPreserves DEF Clearing
  <1>6. CASE GPushes(t)
    <2>1. found[t] \in Threads
      BY <1>6 DEF GPushes, Evaluated, Goto, Inv, CommandFits
    <2>2. Append(queue[found[t]], Resume) \in Seq(Events)
      BY <1>1, <2>1, AppendProperties DEF Events
    <2>3. queue' \in [Threads -> Seq(Events)]
      BY <1>1, <1>6, <2>2 DEF GPushes
    <2> QED BY <1>1, <1>2, <1>6, <2>3, EvaluatedPreserves DEF GPushes, tableVars
  <1>7. CASE BpSearches(t)
    <2>1. Proceed(t, "bp", "bp_set") /\ UNCHANGED <<found, breakpoints, jvmtiBps, overlapped>>
      BY <1>7 DEF BpSearches, tableVars
    <2> QED BY <1>1, <1>2, <2>1, ProceedPreserves DEF Clearing
  <1>8. CASE BpSets(t)
    <2>1. cmd[t].arg \in Methods
      BY <1>8 DEF BpSets, Inv, CommandFits
    <2>2. /\ Proceed(t, "bp_set", "bp_insert") /\ UNCHANGED <<found, breakpoints, overlapped>>
          /\ jvmtiBps' = jvmtiBps \cup {cmd[t].arg}
      BY <1>8 DEF BpSets
    <2>3. jvmtiBps' \subseteq Methods
      BY <1>1, <2>1, <2>2
    <2> QED BY <1>1, <1>2, <2>2, <2>3, ProceedPreserves DEF Clearing
  <1>9. CASE BpInserts(t)
    <2>1. cmd[t].arg \in Methods
      BY <1>9 DEF BpInserts, Evaluated, Goto, Inv, CommandFits
    <2>2. Append(breakpoints, cmd[t].arg) \in Seq(Methods)
      BY <1>1, <2>1, AppendProperties
    <2> QED BY <1>1, <1>2, <1>9, <2>2, EvaluatedPreserves DEF BpInserts
  <1>10. CASE BcReads(t)
    <2>1. breakpoints[cmd[t].arg] \in Methods
      BY <1>1, <1>10, ElementOfSeq, LenProperties DEF BcReads
    <2>2. /\ Proceed(t, "bc", "bc_clear") /\ UNCHANGED <<breakpoints, jvmtiBps>>
          /\ found' = [found EXCEPT ![t] = breakpoints[cmd[t].arg]]
          /\ found'[t] = breakpoints[cmd[t].arg] /\ overlapped' \in BOOLEAN
      BY <1>1, <1>10 DEF BcReads
    <2> QED BY <1>1, <1>2, <2>1, <2>2, ProceedPreserves DEF Clearing
  <1>11. CASE BcClears(t)
    <2>1. found[t] \in Methods
      BY <1>11 DEF BcClears, Inv, CommandFits, Clearing
    <2>2. /\ Proceed(t, "bc_clear", "bc_remove") /\ UNCHANGED <<found, breakpoints, overlapped>>
          /\ jvmtiBps' \subseteq Methods
      BY <1>1, <1>11 DEF BcClears
    <2> QED BY <1>1, <1>2, <2>1, <2>2, ProceedPreserves DEF Clearing
  <1>12. CASE BcRemoves(t)
    <2>1. breakpoints' \in Seq(Methods)
      <3>1. CASE cmd[t].arg \in DOMAIN breakpoints
        <4>1. cmd[t].arg \in 1..Len(breakpoints)
          BY <1>1, <3>1, LenProperties
        <4> QED BY <1>1, <1>12, <3>1, <4>1, Removing DEF BcRemoves
      <3>2. CASE cmd[t].arg \notin DOMAIN breakpoints
        BY <1>1, <1>12, <3>2 DEF BcRemoves
      <3> QED BY <3>1, <3>2
    <2> QED BY <1>1, <1>2, <1>12, <2>1, EvaluatedPreserves DEF BcRemoves
  <1> QED BY <1>3, <1>4, <1>5, <1>6, <1>7, <1>8, <1>9, <1>10, <1>11, <1>12

\* Steps of the interpreter.
LEMMA InterpreterInv ==
  ASSUME Inv,
         \/ CheckEvaluates \/ CheckPushes \/ PushReads \/ PushDelivers \/ PushToNobody
         \/ InterpreterRaises \/ InterpreterPrintFails \/ \E c \in Commands : ReadLine(c)
  PROVE  Inv'
  <1> USE DEF Inv, TypeOK, CommandFits, Clearing, Nesting, Goto, Callback, Interpreter,
              Evaluation, AllOps, tableVars
  <1>1. CASE CheckEvaluates
    <2>0. /\ CMD \in Threads /\ cmd[CMD] \in Commands
          /\ cmd[CMD].op \in AllOps
          /\ cmd[CMD].op = "bp" => cmd[CMD] \in [op : {"bp"}, arg : Methods]
      BY <1>1, CommandKinds DEF CheckEvaluates, Threads
    <2>1. Inner(CMD) /\ pc'[CMD] # "unlock" /\ UNCHANGED debugThread
      BY <1>1, <2>0 DEF CheckEvaluates, Inner, Threads
    <2>2. TypeOK'
      BY <1>1, <2>0 DEF CheckEvaluates, Threads
    <2>3. CommandFits'
      BY <1>1, <2>0 DEF CheckEvaluates, Threads
    <2> QED BY <2>1, <2>2, <2>3, QuietPreserves DEF Threads
  <1>2. CASE CheckPushes
    <2>1. Inner(CMD) /\ pc'[CMD] # "unlock" /\ UNCHANGED debugThread
      BY <1>2 DEF CheckPushes, Inner, Threads
    <2>2. TypeOK'
      BY <1>2 DEF CheckPushes, Threads
    <2>3. CommandFits'
      BY <1>2 DEF CheckPushes, Threads
    <2> QED BY <2>1, <2>2, <2>3, QuietPreserves DEF Threads
  <1>3. CASE PushDelivers
    <2>0. cmd[CMD] \in Events /\ found[CMD] \in Threads
      BY <1>3 DEF PushDelivers, Events, Threads
    <2>1. Inner(CMD) /\ pc'[CMD] # "unlock" /\ UNCHANGED debugThread
      BY <1>3, <2>0 DEF PushDelivers, Inner, Threads
    <2>2. TypeOK'
      BY <1>3, <2>0 DEF PushDelivers, Threads
    <2>3. CommandFits'
      BY <1>3, <2>0 DEF PushDelivers, Threads
    <2> QED BY <2>1, <2>2, <2>3, QuietPreserves DEF Threads
  <1>4. CASE PushToNobody
    <2>1. Inner(CMD) /\ pc'[CMD] # "unlock" /\ UNCHANGED debugThread
      BY <1>4 DEF PushToNobody, Inner, Threads
    <2>2. TypeOK'
      BY <1>4 DEF PushToNobody, Threads
    <2>3. CommandFits'
      BY <1>4 DEF PushToNobody, Threads
    <2> QED BY <2>1, <2>2, <2>3, QuietPreserves DEF Threads
  <1>5. CASE InterpreterRaises
    <2>1. Inner(CMD) /\ pc'[CMD] # "unlock" /\ UNCHANGED debugThread
      BY <1>5 DEF InterpreterRaises, Evaluated, Inner, Threads
    <2>2. TypeOK'
      BY <1>5 DEF InterpreterRaises, Evaluated, Threads
    <2>3. CommandFits'
      BY <1>5 DEF InterpreterRaises, Evaluated, Threads
    <2> QED BY <2>1, <2>2, <2>3, QuietPreserves DEF Threads
  <1>6. CASE InterpreterPrintFails
    <2>1. Inner(CMD) /\ pc'[CMD] # "unlock" /\ UNCHANGED debugThread
      BY <1>6 DEF InterpreterPrintFails, Inner, Threads
    <2>2. TypeOK'
      BY <1>6 DEF InterpreterPrintFails, Threads
    <2>3. CommandFits'
      BY <1>6 DEF InterpreterPrintFails, Threads
    <2> QED BY <2>1, <2>2, <2>3, QuietPreserves DEF Threads
  <1>7. ASSUME NEW c \in Commands, ReadLine(c) PROVE Inv'
    <2>1. Inner(CMD) /\ pc'[CMD] # "unlock" /\ UNCHANGED debugThread
      BY <1>7 DEF ReadLine, Inner, Threads
    <2>2. TypeOK'
      BY <1>7 DEF ReadLine, Threads
    <2>3. CommandFits'
      BY <1>7 DEF ReadLine, Threads
    <2> QED BY <2>1, <2>2, <2>3, QuietPreserves DEF Threads
  <1>8. CASE PushReads
    <2>0. CMD \in Threads /\ debugThread \in Threads
      BY <1>8 DEF PushReads, CanAddress, Threads
    <2>1. Inner(CMD) /\ pc'[CMD] # "unlock" /\ UNCHANGED debugThread
      BY <1>8, <2>0 DEF PushReads, Inner
    <2>2. TypeOK'
      BY <1>8, <2>0 DEF PushReads
    <2>3. CommandFits'
      BY <1>8, <2>0 DEF PushReads
    <2> QED BY <2>0, <2>1, <2>2, <2>3, QuietPreserves
  <1> QED BY <1>1, <1>2, <1>3, <1>4, <1>5, <1>6, <1>7, <1>8

---------------------------------------------------------------------------
(* Theorems *)

LEMMA Invariance == Spec => []Inv
  <1>1. ASSUME Inv, [Next]_vars PROVE Inv'
    <2>1. CASE UNCHANGED vars
      BY <1>1, <2>1 DEF vars, threadVars, tableVars, Inv, TypeOK, CommandFits, Clearing, Nesting,
           LockAccounting, Held, DebugThreadOwnsLock, Cleared
    <2>2. ASSUME NEW t \in Threads,
                 \/ HitBreakpoint(t) \/ EnterDebugger(t) \/ CallbackStep(t)
                 \/ WaitInterrupted(t) \/ EvaluationStep(t)
          PROVE  Inv'
      BY <1>1, <2>2, HitInv, EnterInv, LeaveInv, AbortInv, EventInv, EvaluationInv,
         SetDebugThreadPreserves, ClearDebugThreadPreserves
         DEF CallbackStep, EvaluationStep
    <2>3. CASE (\E c \in Commands : ReadLine(c)) \/ InterpreterStep
      BY <1>1, <2>3, InterpreterInv DEF InterpreterStep
    <2> QED BY <1>1, <2>1, <2>2, <2>3 DEF Next
  <1> QED BY <1>1, InitInv, PTL DEF Spec

\* Every variable keeps its type, whatever the errors and the interruptions.
THEOREM TypeCorrect == Spec => []TypeOK
  BY Invariance, PTL DEF Inv

\* cb_breakpoint enters debug_lock once per callback in progress, an error that
\* breaks a callback off leaves exactly one entry behind, nothing else does.
THEOREM LockIsAccountedFor == Spec => []LockAccounting
  BY Invariance, PTL DEF Inv

\* However callbacks nest and break off, debug_thread is nil or the owner of
\* debug_lock.
THEOREM DebugThreadIsOwner == Spec => []DebugThreadOwnsLock
  BY Invariance, PTL DEF Inv

---------------------------------------------------------------------------
(* What the debugger promises: it implements Session *)

\* What an inner step leaves alone.
LEMMA InnerKeepsEntries ==
  ASSUME Inv, NEW t \in Threads, Inner(t)
  PROVE  Entries' = Entries
  <1>1. \A u \in Threads : Held(u)' = Held(u)
    BY DEF Inner, Inv, TypeOK, Held
  <1> QED BY <1>1 DEF Entries, Inner

\* The steps of a thread that is about to put an event in a queue.
Delivering == {"deliver", "g_deliver"}

\* A step of one thread that is not about to hand anything over, before or after.
LEMMA NothingAddressed ==
  ASSUME Inv, NEW t \in Threads, pc[t] \notin Delivering, pc'[t] \notin Delivering,
         \A u \in Threads \ {t} : pc'[u] = pc[u] /\ found'[u] = found[u]
  PROVE  UNCHANGED Addressed
  BY DEF Addressed, Delivering

\* The steps of an evaluation are inner ones.
LEMMA EvaluationIsInner ==
  ASSUME Inv, NEW t \in Threads, NEW from \in Evaluation,
         \/ Evaluated(t, from)
         \/ \E to \in Evaluation : Proceed(t, from, to)
  PROVE  /\ Inner(t) /\ UNCHANGED debugThread
         /\ \A u \in Threads \ {t} : pc'[u] = pc[u]
  <1>1. from # "enter" /\ Evaluation \cap Callback = {}
    BY DEF Evaluation, AllOps, Callback
  <1>2. CASE Evaluated(t, from)
    <2> DEFINE to == IF suspended[t] = <<>> THEN "read" ELSE "events"
    <2>1. /\ pc[t] = from /\ pc' = [pc EXCEPT ![t] = to]
          /\ UNCHANGED <<suspended, debugLock, debugThread, aborted>>
      BY <1>2 DEF Evaluated, Goto
    <2>2. /\ to \in Interpreter \cup Callback /\ to # "enter"
          /\ to \in Callback => suspended[t] # <<>>
      BY DEF Interpreter, Callback
    <2> HIDE DEF to
    <2> QED BY <1>1, <2>1, <2>2 DEF Inner, Inv, TypeOK
  <1>3. CASE \E to \in Evaluation : Proceed(t, from, to)
    BY <1>1, <1>3 DEF Proceed, Goto, Inner, Callback, Inv, TypeOK
  <1> QED BY <1>2, <1>3

\* A callback broken off by an error keeps its entry.
LEMMA AbortKeepsEntries ==
  ASSUME Inv, NEW t \in Threads,
         LookupFails(t) \/ StopFails(t) \/ WaitInterrupted(t) \/ EvaluationFails(t)
  PROVE  Entries' = Entries /\ UNCHANGED <<debugThread, queue, Addressed>>
  <1>1. Abort(t) /\ pc[t] # "enter" /\ suspended[t] # <<>>
    BY DEF Inv, Nesting, Callback, LookupFails, StopFails, WaitInterrupted, EvaluationFails
  <1>2. /\ ReturnToJava(t) /\ aborted' = [aborted EXCEPT ![t] = @ + 1]
        /\ UNCHANGED <<debugLock, debugThread, queue>>
    BY <1>1 DEF Abort
  <1>3. Held(t)' = Held(t) - 1 /\ \A u \in Threads \ {t} : Held(u)' = Held(u)
    BY <1>1, <1>2, ReturnPreserves
  <1>4. \A u \in Threads : Held(u) \in Nat /\ aborted[u] \in Nat
    BY HeldType
  <1>5. \A u \in Threads : Held(u)' + aborted'[u] = Held(u) + aborted[u]
    <2>1. aborted'[t] = aborted[t] + 1 /\ \A u \in Threads \ {t} : aborted'[u] = aborted[u]
      BY <1>2 DEF Inv, TypeOK
    <2>2. Held(t)' + aborted'[t] = Held(t) + aborted[t]
      BY <1>3, <1>4, <2>1
    <2> QED BY <1>3, <2>1, <2>2
  <1>6. UNCHANGED Addressed
    <2>1. pc'[t] \in JavaCode /\ \A u \in Threads \ {t} : pc'[u] = pc[u]
      BY <1>1, <1>2, ReturnPreserves DEF Inv, TypeOK
    <2>2. UNCHANGED found
      BY DEF LookupFails, StopFails, WaitInterrupted, EvaluationFails
    <2>3. pc[t] \notin Delivering
      BY DEF LookupFails, StopFails, WaitInterrupted, EvaluationFails, Delivering
    <2> QED BY <2>1, <2>2, <2>3, NothingAddressed DEF JavaCode, Delivering
  <1> QED BY <1>2, <1>5, <1>6 DEF Entries

\* A thread inside a callback has entered the debugger and nobody else is there.
LEMMA InsideIsAlone ==
  ASSUME Inv, NEW t \in Threads, pc[t] \in Callback \ {"enter"}
  PROVE  Entries[t] > 0 /\ debugThread \in {Nil, t}
  <1>1. Held(t) > 0 /\ Held(t) \in Nat /\ aborted[t] \in Nat
    BY HeldType
  <1>2. debugLock.owner = t
    BY <1>1 DEF Inv, LockAccounting
  <1> QED BY <1>1, <1>2 DEF Entries, Inv, DebugThreadOwnsLock

\* Every step of a callback is one of Session's or nothing to it.
LEMMA CallbackIsPromised ==
  ASSUME Inv, NEW t \in Threads,
         HitBreakpoint(t) \/ EnterDebugger(t) \/ CallbackStep(t) \/ WaitInterrupted(t)
  PROVE  [Promise!Next]_Promise!vars
  <1> USE DEF Promise!Next, Promise!vars
  <1>0. \A u \in Threads : Held(u) \in Nat /\ aborted[u] \in Nat
    BY HeldType
  <1>9. ASSUME UNCHANGED found, pc[t] \notin Delivering, pc'[t] \notin Delivering,
               \E to : pc' = [pc EXCEPT ![t] = to]
        PROVE  UNCHANGED Addressed
    BY <1>9, NothingAddressed DEF Inv, TypeOK
  <1>1. CASE HitBreakpoint(t)
    <2>1. Entries' = Entries
      BY <1>1, HitPreserves DEF HitBreakpoint, Entries
    <2>2. UNCHANGED Addressed
      BY <1>1, <1>9 DEF HitBreakpoint, JavaCode, Delivering, Inv, TypeOK
    <2> QED BY <1>1, <2>1, <2>2 DEF HitBreakpoint
  <1>2. CASE EnterDebugger(t)
    <2>1. Held(t)' = Held(t) + 1 /\ aborted' = aborted
          /\ \A u \in Threads \ {t} : Held(u)' = Held(u) /\ Held(u) + aborted[u] = 0
      BY <1>2, EnterPreserves DEF EnterDebugger
    <2>2. Entries' = [Entries EXCEPT ![t] = @ + 1]
      <3>1. Held(t)' + aborted'[t] = (Held(t) + aborted[t]) + 1
        BY <1>0, <2>1
      <3>2. \A u \in Threads \ {t} : Held(u)' + aborted'[u] = Held(u) + aborted[u]
        BY <2>1
      <3> QED BY <3>1, <3>2 DEF Entries
    <2>3. UNCHANGED Addressed
      BY <1>2, <1>9 DEF EnterDebugger, Goto, Delivering, Inv, TypeOK
    <2>4. Promise!Enter(t)
      BY <1>2, <2>1, <2>2, <2>3 DEF Promise!Enter, Entries, EnterDebugger
    <2> QED BY <2>4
  <1>3. CASE SetDebugThread(t)
    <2>1. Inner(t) /\ pc[t] = "set"
      BY <1>3 DEF SetDebugThread, Goto, Inner, Inv, Nesting, Callback
    <2>2. UNCHANGED Addressed
      BY <1>3, <1>9 DEF SetDebugThread, Goto, Delivering, Inv, TypeOK
    <2>3. Promise!Focus(t)
      BY <1>3, <2>1, <2>2, InnerKeepsEntries, InsideIsAlone DEF SetDebugThread, Promise!Focus, Callback
    <2> QED BY <2>3
  <1>4. CASE ClearDebugThread(t)
    <2>1. Inner(t) /\ pc[t] = "clear"
      BY <1>4 DEF ClearDebugThread, Goto, Inner, Inv, Nesting, Callback
    <2>2. UNCHANGED Addressed
      BY <1>4, <1>9 DEF ClearDebugThread, Goto, Delivering, Inv, TypeOK
    <2>3. Promise!Unfocus(t)
      BY <1>4, <2>1, <2>2, InnerKeepsEntries, InsideIsAlone DEF ClearDebugThread, Promise!Unfocus, Callback
    <2> QED BY <2>3
  <1>5. CASE LeaveDebugger(t)
    <2>1. /\ pc[t] = "unlock" /\ ReturnToJava(t) /\ suspended[t] # <<>>
          /\ debugLock' = Exited(debugLock) /\ UNCHANGED <<aborted, debugThread, queue>>
      BY <1>5 DEF LeaveDebugger, Inv, Nesting, Callback
    <2>2. Held(t)' = Held(t) - 1 /\ \A u \in Threads \ {t} : Held(u)' = Held(u)
      BY <2>1, ReturnPreserves
    <2>3. Entries' = [Entries EXCEPT ![t] = @ - 1]
      <3>1. Held(t)' + aborted'[t] = (Held(t) + aborted[t]) - 1
        BY <1>0, <2>1, <2>2
      <3>2. \A u \in Threads \ {t} : Held(u)' + aborted'[u] = Held(u) + aborted[u]
        BY <2>1, <2>2
      <3> QED BY <3>1, <3>2 DEF Entries
    <2>4. UNCHANGED Addressed
      <3>1. pc'[t] \in JavaCode /\ pc' = [pc EXCEPT ![t] = pc'[t]]
        BY <2>1, ReturnPreserves
      <3> QED BY <1>5, <1>9, <2>1, <3>1 DEF LeaveDebugger, JavaCode, Delivering
    <2>5. Promise!Leave(t)
      BY <2>1, <2>3, <2>4, InsideIsAlone DEF Promise!Leave, Inv, Cleared, Callback
    <2> QED BY <2>5
  <1>6. CASE PopResume(t) \/ PopCommand(t)
    <2>1. /\ pc[t] \in {"events", "waiting"} /\ queue[t] # <<>>
          /\ queue' = [queue EXCEPT ![t] = Tail(@)]
          /\ UNCHANGED <<debugThread, found>>
      BY <1>6 DEF PopResume, PopCommand, Pops, Goto
    <2>2. Inner(t) /\ UNCHANGED Addressed
      <3>1. PICK to \in AllOps \cup {"clear"} : pc' = [pc EXCEPT ![t] = to]
        <4>1. Head(queue[t]) \in Events
          BY <2>1, HeadTailProperties DEF Inv, TypeOK
        <4>2. Head(queue[t]) # Resume => Head(queue[t]).op \in AllOps
          BY <4>1, CommandKinds DEF Events
        <4> QED BY <1>6, <4>2 DEF PopResume, PopCommand, Pops, Goto
      <3>2. /\ to \in Callback \cup Evaluation /\ to # "enter" /\ suspended[t] # <<>>
        BY <2>1 DEF Callback, Evaluation, AllOps, Inv, Nesting
      <3>3. Inner(t)
        BY <1>6, <2>1, <3>1, <3>2 DEF Inner, PopResume, PopCommand
      <3>4. UNCHANGED Addressed
        BY <1>9, <2>1, <3>1 DEF Delivering, AllOps, Inv, TypeOK
      <3> QED BY <3>3, <3>4
    <2>3. Promise!Take(t)
      BY <2>1, <2>2, InnerKeepsEntries, InsideIsAlone DEF Promise!Take, Callback
    <2> QED BY <2>3
  <1>7. CASE Lookup(t) \/ HandlerReturns(t) \/ BeginWait(t)
    <2>1. Inner(t) /\ UNCHANGED <<debugThread, queue>>
      BY <1>7 DEF Lookup, HandlerReturns, BeginWait, Goto, Inner, Inv, Nesting, Callback
    <2>2. UNCHANGED Addressed
      BY <1>7, <1>9 DEF Lookup, HandlerReturns, BeginWait, Goto, Delivering, Inv, TypeOK
    <2> QED BY <2>1, <2>2, InnerKeepsEntries
  <1>8. CASE LookupFails(t) \/ StopFails(t) \/ WaitInterrupted(t)
    BY <1>8, AbortKeepsEntries
  <1> QED BY <1>1, <1>2, <1>3, <1>4, <1>5, <1>6, <1>7, <1>8 DEF CallbackStep

\* Every step of the evaluation of a line addresses something, hands it over or is
\* nothing to it.
LEMMA EvaluationIsPromised ==
  ASSUME Inv, NEW t \in Threads, EvaluationStep(t)
  PROVE  [Promise!Next]_Promise!vars
  <1> USE DEF Promise!Next, Promise!vars
  <1>1. /\ {"g", "g_push", "g_deliver", "bp", "bp_set", "bp_insert",
            "bc", "bc_clear", "bc_remove", "call"} \subseteq Evaluation
        /\ found \in [Threads -> Threads \cup Methods \cup {Nil}]
        /\ pc \in [Threads -> {"run"} \cup Interpreter \cup Callback \cup Evaluation]
    BY DEF Evaluation, AllOps, Inv, TypeOK
  <1>2. CASE GPushes(t)
    <2>1. Entries' = Entries /\ UNCHANGED debugThread /\ \A u \in Threads \ {t} : pc'[u] = pc[u]
      BY <1>1, <1>2, EvaluationIsInner, InnerKeepsEntries DEF GPushes
    <2>2. /\ pc[t] = "g_deliver" /\ pc'[t] \notin Delivering
          /\ found' = [found EXCEPT ![t] = Nil]
          /\ queue' = [queue EXCEPT ![found[t]] = Append(@, Resume)]
      BY <1>1, <1>2 DEF GPushes, Evaluated, Goto, Delivering
    <2>3. found[t] \in Threads /\ Addressed[t] = found[t]
      BY <2>2 DEF Addressed, Inv, CommandFits
    <2>4. Addressed' = [Addressed EXCEPT ![t] = Nil]
      BY <1>1, <2>1, <2>2 DEF Addressed, Delivering
    <2>5. Promise!Hand(t, Resume)
      BY <2>1, <2>2, <2>3, <2>4 DEF Promise!Hand, SessionAssumption
    <2> QED BY <2>5 DEF Events
  <1>3. CASE GReads(t)
    <2>1. Entries' = Entries /\ UNCHANGED debugThread /\ \A u \in Threads \ {t} : pc'[u] = pc[u]
      BY <1>1, <1>3, EvaluationIsInner, InnerKeepsEntries DEF GReads
    <2>2. /\ pc'[t] = "g_deliver" /\ found' = [found EXCEPT ![t] = debugThread]
          /\ debugThread # Nil /\ UNCHANGED queue
      BY <1>1, <1>3 DEF GReads, CanAddress, Proceed, Goto
    <2>3. Addressed' = [Addressed EXCEPT ![t] = debugThread]
      BY <1>1, <2>1, <2>2 DEF Addressed
    <2>4. Promise!Address(t)
      BY <2>1, <2>2, <2>3 DEF Promise!Address
    <2> QED BY <2>4
  <1>4. CASE \/ GNotifies(t) \/ GFindsNobody(t) \/ BpExists(t) \/ BpRefused(t) \/ BpInserts(t)
             \/ BcUnknown(t) \/ BcRefused(t) \/ BcRemoves(t) \/ CallReturns(t)
    <2>1. PICK from \in Evaluation \ Delivering : Evaluated(t, from) /\ UNCHANGED queue
      BY <1>1, <1>4 DEF GNotifies, GFindsNobody, BpExists, BpRefused, BpInserts, BcUnknown,
         BcRefused, BcRemoves, CallReturns, Delivering
    <2>2. /\ pc[t] \notin Delivering /\ pc'[t] \notin Delivering
          /\ \A u \in Threads \ {t} : found'[u] = found[u]
      BY <1>1, <2>1 DEF Evaluated, Goto, Delivering
    <2> QED BY <2>1, <2>2, NothingAddressed, EvaluationIsInner, InnerKeepsEntries
  <1>5. CASE GChecks(t) \/ BpSearches(t) \/ BpSets(t) \/ BcReads(t) \/ BcClears(t)
    <2>1. /\ \E from, to \in Evaluation \ Delivering : Proceed(t, from, to)
          /\ \A u \in Threads \ {t} : found'[u] = found[u]
      BY <1>1, <1>5 DEF GChecks, BpSearches, BpSets, BcReads, BcClears, Delivering
    <2>2. pc[t] \notin Delivering /\ pc'[t] \notin Delivering /\ UNCHANGED queue
      BY <1>1, <2>1 DEF Proceed, Goto
    <2> QED BY <2>1, <2>2, NothingAddressed, EvaluationIsInner, InnerKeepsEntries
  <1>6. CASE EvaluationFails(t)
    BY <1>6, AbortKeepsEntries
  <1> QED BY <1>2, <1>3, <1>4, <1>5, <1>6 DEF EvaluationStep

\* And every step of the interpreter.
LEMMA InterpreterIsPromised ==
  ASSUME Inv, InterpreterStep \/ \E c \in Commands : ReadLine(c)
  PROVE  [Promise!Next]_Promise!vars
  <1> USE DEF Promise!Next, Promise!vars
  <1>1. /\ CMD \in Threads
        /\ found \in [Threads -> Threads \cup Methods \cup {Nil}]
        /\ pc \in [Threads -> {"run"} \cup Interpreter \cup Callback \cup Evaluation]
    BY DEF Threads, Inv, TypeOK
  <1>2. Inner(CMD) /\ UNCHANGED debugThread
    <2>1. CASE CheckEvaluates
      <3>1. cmd[CMD] \in Commands
        BY <1>1, <2>1 DEF CheckEvaluates, Goto, Inv, CommandFits
      <3>2. cmd[CMD].op \in Evaluation /\ cmd[CMD].op \notin Callback
        BY <3>1, CommandKinds DEF Evaluation, AllOps, Callback
      <3> QED BY <2>1, <3>2 DEF CheckEvaluates, Goto, Inner, Callback
    <2>2. CASE \/ CheckPushes \/ PushReads \/ PushDelivers \/ PushToNobody
               \/ InterpreterPrintFails
      BY <2>2 DEF CheckPushes, PushReads, PushDelivers, PushToNobody, InterpreterPrintFails,
                  Goto, Inner, Interpreter, Callback
    <2>3. CASE InterpreterRaises
      BY <1>1, <2>3, EvaluationIsInner DEF InterpreterRaises, Evaluation, AllOps
    <2>4. CASE \E c \in Commands : ReadLine(c)
      <3>1. /\ pc[CMD] = "read" /\ pc' = [pc EXCEPT ![CMD] = "check"]
            /\ UNCHANGED <<suspended, debugLock, debugThread, aborted>>
        BY <2>4 DEF ReadLine, Goto
      <3>2. "check" \in Interpreter /\ "check" \notin Callback
        BY DEF Interpreter, Callback
      <3> QED BY <3>1, <3>2 DEF Inner
    <2> QED BY <2>1, <2>2, <2>3, <2>4 DEF InterpreterStep
  <1>3. Entries' = Entries
    BY <1>1, <1>2, InnerKeepsEntries
  <1>4. CASE PushReads
    <2>1. /\ pc' = [pc EXCEPT ![CMD] = "deliver"] /\ found' = [found EXCEPT ![CMD] = debugThread]
          /\ debugThread # Nil /\ UNCHANGED queue
      BY <1>4 DEF PushReads, CanAddress, Goto
    <2>2. Addressed' = [Addressed EXCEPT ![CMD] = debugThread]
      BY <1>1, <2>1 DEF Addressed
    <2>3. Promise!Address(CMD)
      BY <1>2, <1>3, <2>1, <2>2 DEF Promise!Address
    <2> QED BY <1>1, <2>3
  <1>5. CASE PushDelivers
    <2>1. /\ cmd[CMD] \in Events /\ found[CMD] \in Threads
          /\ pc[CMD] = "deliver" /\ pc' = [pc EXCEPT ![CMD] = "read"]
          /\ found' = [found EXCEPT ![CMD] = Nil]
          /\ queue' = [queue EXCEPT ![found[CMD]] = Append(@, cmd[CMD])]
      BY <1>1, <1>5 DEF PushDelivers, Goto, Inv, CommandFits, Events
    <2>2. Addressed[CMD] = found[CMD] /\ Addressed' = [Addressed EXCEPT ![CMD] = Nil]
      BY <1>1, <2>1 DEF Addressed
    <2>3. Promise!Hand(CMD, cmd[CMD])
      BY <1>2, <1>3, <2>1, <2>2 DEF Promise!Hand, SessionAssumption
    <2> QED BY <1>1, <2>1, <2>3
  <1>6. CASE ~PushReads /\ ~PushDelivers
    <2>1. UNCHANGED queue /\ \A u \in Threads \ {CMD} : found'[u] = found[u] /\ pc'[u] = pc[u]
      BY <1>1, <1>6 DEF InterpreterStep, CheckEvaluates, CheckPushes, PushToNobody, Goto,
                  InterpreterRaises, InterpreterPrintFails, Evaluated, ReadLine
    <2>2. pc[CMD] \notin Delivering /\ pc'[CMD] \notin Delivering
      <3>1. CASE CheckEvaluates
        <4>1. cmd[CMD].op \in AllOps
          BY <1>1, <3>1, CommandKinds DEF CheckEvaluates, Goto, Inv, CommandFits
        <4> QED BY <1>1, <3>1, <4>1 DEF CheckEvaluates, Goto, Delivering, AllOps
      <3>2. CASE ~CheckEvaluates
        BY <1>1, <1>6, <3>2 DEF InterpreterStep, CheckPushes, PushToNobody, Goto, Delivering,
                  InterpreterRaises, InterpreterPrintFails, Evaluated, ReadLine
      <3> QED BY <3>1, <3>2
    <2>3. UNCHANGED Addressed
      BY <1>1, <2>1, <2>2, NothingAddressed
    <2> QED BY <1>2, <1>3, <2>1, <2>3
  <1> QED BY <1>4, <1>5, <1>6

\* The debugger is in the hands of one thread at a time, the lines go to that
\* thread and to no other, and change hands only when nobody is there.
THEOREM KeepsItsPromise == Spec => IsSession
  <1>1. Init => Promise!Init
    <2>1. \A t \in Threads : Init => Held(t) = 0
      BY DEF Init, Held
    <2>2. Init => Addressed = [t \in Threads |-> Nil]
      BY DEF Init, Addressed
    <2> QED BY <2>1, <2>2 DEF Init, Promise!Init, Entries
  <1>2. Inv /\ [Next]_vars => [Promise!Next]_Promise!vars
    <2> SUFFICES ASSUME Inv, [Next]_vars PROVE [Promise!Next]_Promise!vars
      OBVIOUS
    <2>1. CASE UNCHANGED vars
      BY <2>1 DEF vars, threadVars, Promise!vars, Entries, Held, Addressed
    <2>2. CASE Next
      BY <2>2, CallbackIsPromised, EvaluationIsPromised, InterpreterIsPromised DEF Next
    <2> QED BY <2>1, <2>2
  <1> QED BY <1>1, <1>2, Invariance, PTL DEF Spec, IsSession, Promise!Spec

---------------------------------------------------------------------------
(* The list of breakpoints and the virtual machine *)

\* Where something is in a sequence.
Positions(s, x) == {i \in DOMAIN s : s[i] = x}

LEMMA PositionsFinite ==
  ASSUME NEW S, NEW s \in Seq(S), NEW x
  PROVE  IsFiniteSet(Positions(s, x)) /\ Cardinality(Positions(s, x)) \in Nat
  <1>1. DOMAIN s = 1..Len(s) /\ Len(s) \in Nat
    BY LenProperties
  <1>2. IsFiniteSet(1..Len(s)) /\ Positions(s, x) \subseteq 1..Len(s)
    BY <1>1, FS_Interval DEF Positions
  <1> QED BY <1>2, FS_Subset, FS_CardinalityType

\* Appending an element adds one position of it and none of another.
LEMMA AppendCounts ==
  ASSUME NEW S, NEW s \in Seq(S), NEW new \in S, NEW x
  PROVE  /\ Cardinality(Positions(Append(s, new), x))
              = Cardinality(Positions(s, x)) + (IF x = new THEN 1 ELSE 0)
         /\ DOMAIN s \subseteq DOMAIN Append(s, new)
         /\ \A i \in DOMAIN s : Append(s, new)[i] = s[i]
  <1> DEFINE a == Append(s, new)
             n == Len(s) + 1
  <1>1. /\ a \in Seq(S) /\ Len(a) = n
        /\ \A i \in 1..Len(s) : a[i] = s[i]
        /\ a[n] = new
    BY AppendProperties
  <1> HIDE DEF a
  <1>2. DOMAIN a = 1..n /\ DOMAIN s = 1..Len(s) /\ Len(s) \in Nat
    BY <1>1, LenProperties
  <1>3. n \notin Positions(s, x)
    BY <1>2 DEF Positions
  <1>4. Positions(a, x) = IF x = new THEN Positions(s, x) \cup {n} ELSE Positions(s, x)
    <2>1. \A i \in 1..n : i \in 1..Len(s) \/ i = n
      BY <1>2
    <2>2. 1..Len(s) \subseteq 1..n /\ n \in 1..n
      BY <1>2
    <2>3. \A i \in 1..n : i \in Positions(a, x) <=> (i \in Positions(s, x) \/ (i = n /\ x = new))
      BY <1>1, <1>2, <2>1, <2>2 DEF Positions
    <2>4. Positions(a, x) \subseteq 1..n /\ Positions(s, x) \subseteq 1..n
      BY <1>2, <2>2 DEF Positions
    <2> QED BY <2>2, <2>3, <2>4
  <1>5. IsFiniteSet(Positions(s, x)) /\ Cardinality(Positions(s, x)) \in Nat
    BY PositionsFinite
  <1>6. Cardinality(Positions(s, x) \cup {n}) = Cardinality(Positions(s, x)) + 1
    BY <1>3, <1>5, FS_AddElement
  <1>7. Cardinality(Positions(a, x)) = Cardinality(Positions(s, x)) + (IF x = new THEN 1 ELSE 0)
    BY <1>4, <1>5, <1>6
  <1>8. DOMAIN s \subseteq DOMAIN a /\ \A i \in DOMAIN s : a[i] = s[i]
    BY <1>1, <1>2
  <1> QED BY <1>7, <1>8 DEF a

\* What is left of a sequence when one element is taken out, by position.
LEMMA RemoveByPosition ==
  ASSUME NEW S, NEW s \in Seq(S), NEW i \in 1..Len(s)
  PROVE  /\ DOMAIN RemoveAt(s, i) = 1..(Len(s) - 1)
         /\ \A j \in 1..(Len(s) - 1) :
              RemoveAt(s, i)[j] = IF j < i THEN s[j] ELSE s[j + 1]
  <1> DEFINE a == SubSeq(s, 1, i - 1)
             b == SubSeq(s, i + 1, Len(s))
  <1>1. Len(s) \in Nat /\ i \in Nat /\ 1 <= i /\ i <= Len(s)
        /\ \A j \in 1..Len(s) : s[j] \in S
    BY LenProperties
  <1>2. /\ a \in Seq(S) /\ Len(a) = i - 1
        /\ \A j \in 1..(i - 1) : a[j] = s[j]
    <2>1. \A j \in 1..(i - 1) : s[j] \in S
      BY <1>1
    <2>2. 1 \in Int /\ i - 1 \in Int
      BY <1>1
    <2>3. /\ a \in Seq(S) /\ Len(a) = IF 1 <= i - 1 THEN (i - 1) - 1 + 1 ELSE 0
          /\ \A j \in 1..((i - 1) - 1 + 1) : a[j] = s[1 + j - 1]
      BY <2>1, <2>2, SubSeqProperties
    <2> HIDE DEF a
    <2> QED BY <1>1, <2>3
  <1>3. /\ b \in Seq(S) /\ Len(b) = Len(s) - i
        /\ \A j \in 1..(Len(s) - i) : b[j] = s[j + i]
    <2>1. \A j \in (i + 1)..Len(s) : s[j] \in S
      BY <1>1
    <2>2. i + 1 \in Int /\ Len(s) \in Int
      BY <1>1
    <2>3. /\ b \in Seq(S) /\ Len(b) = IF i + 1 <= Len(s) THEN Len(s) - (i + 1) + 1 ELSE 0
          /\ \A j \in 1..(Len(s) - (i + 1) + 1) : b[j] = s[(i + 1) + j - 1]
      BY <2>1, <2>2, SubSeqProperties
    <2> HIDE DEF b
    <2> QED BY <1>1, <2>3
  <1> HIDE DEF a, b
  <1>4. /\ a \o b \in Seq(S) /\ Len(a \o b) = Len(a) + Len(b)
        /\ \A j \in 1..(Len(a) + Len(b)) : (a \o b)[j] = IF j <= Len(a) THEN a[j] ELSE b[j - Len(a)]
    BY <1>2, <1>3, ConcatProperties
  <1>5. DOMAIN (a \o b) = 1..Len(a \o b)
    BY <1>4, LenProperties
  <1> DEFINE c == a \o b
  <1>6. RemoveAt(s, i) = c
    BY DEF RemoveAt, a, b
  <1> HIDE DEF c
  <1>7. DOMAIN c = 1..(Len(s) - 1)
    BY <1>1, <1>2, <1>3, <1>4, <1>5 DEF c
  <1>8. ASSUME NEW j \in 1..(Len(s) - 1)
        PROVE  c[j] = IF j < i THEN s[j] ELSE s[j + 1]
    <2>1. c[j] = IF j <= i - 1 THEN a[j] ELSE b[j - (i - 1)]
      BY <1>1, <1>2, <1>3, <1>4 DEF c
    <2>2. CASE j < i
      BY <1>1, <1>2, <2>1, <2>2
    <2>3. CASE ~(j < i)
      <3>1. j - (i - 1) \in 1..(Len(s) - i)
        BY <1>1, <2>3
      <3>2. b[j - (i - 1)] = s[(j - (i - 1)) + i]
        BY <1>3, <3>1
      <3> QED BY <1>1, <2>1, <2>3, <3>2
    <2> QED BY <2>2, <2>3
  <1> QED BY <1>6, <1>7, <1>8
\* Removing an element takes one position of it away and none of another.
LEMMA RemoveCounts ==
  ASSUME NEW S, NEW s \in Seq(S), NEW i \in 1..Len(s), NEW x
  PROVE  Cardinality(Positions(RemoveAt(s, i), x))
           = Cardinality(Positions(s, x)) - (IF x = s[i] THEN 1 ELSE 0)
  <1> DEFINE r == RemoveAt(s, i)
             P == Positions(r, x)
             Q == Positions(s, x) \ {i}
             old == [j \in P |-> IF j < i THEN j ELSE j + 1]
  <1>1. /\ DOMAIN r = 1..(Len(s) - 1)
        /\ \A j \in 1..(Len(s) - 1) : r[j] = IF j < i THEN s[j] ELSE s[j + 1]
        /\ r \in Seq(S)
    BY RemoveByPosition, Removing
  <1>2. DOMAIN s = 1..Len(s) /\ Len(s) \in Nat /\ i \in DOMAIN s
    BY LenProperties
  <1> HIDE DEF r
  <1>3. old \in [P -> Q]
    <2> SUFFICES ASSUME NEW j \in P PROVE (IF j < i THEN j ELSE j + 1) \in Q
      OBVIOUS
    <2> QED BY <1>1, <1>2 DEF Positions
  <1>4. \A j, k \in P : old[j] = old[k] => j = k
    BY <1>1, <1>2 DEF Positions
  <1>5. \A k \in Q : \E j \in P : old[j] = k
    <2> SUFFICES ASSUME NEW k \in Q PROVE \E j \in P : old[j] = k
      OBVIOUS
    <2>1. k \in 1..Len(s) /\ s[k] = x /\ k # i
      BY <1>2 DEF Positions
    <2>2. CASE k < i
      <3>1. k \in P
        BY <1>1, <1>2, <2>1, <2>2 DEF Positions
      <3> QED BY <2>2, <3>1
    <2>3. CASE k > i
      <3>1. k - 1 \in P /\ ~(k - 1 < i) /\ (k - 1) + 1 = k
        BY <1>1, <1>2, <2>1, <2>3 DEF Positions
      <3> QED BY <3>1
    <2> QED BY <1>2, <2>1, <2>2, <2>3
  <1>6. old \in Bijection(P, Q)
    BY <1>3, <1>4, <1>5 DEF Bijection, Injection, Surjection, IsInjective
  <1>7. ExistsBijection(P, Q)
    BY <1>6 DEF ExistsBijection
  <1> HIDE DEF P, Q, old
  <1>8. IsFiniteSet(P) /\ Cardinality(Q) = Cardinality(P)
    <2>1. IsFiniteSet(P)
      BY <1>1, PositionsFinite DEF P
    <2> QED BY <1>7, <2>1, FS_Bijection
  <1>9. IsFiniteSet(Positions(s, x)) /\ Cardinality(Positions(s, x)) \in Nat
    BY PositionsFinite
  <1>10. Cardinality(Q) = IF i \in Positions(s, x) THEN Cardinality(Positions(s, x)) - 1
                          ELSE Cardinality(Positions(s, x))
    BY <1>9, FS_RemoveElement DEF Q
  <1>11. i \in Positions(s, x) <=> x = s[i]
    BY <1>2 DEF Positions
  <1> QED BY <1>8, <1>9, <1>10, <1>11 DEF P, r

\* A thread in bc() alone still finds under its number what it has read.
AloneInBc ==
  ~overlapped =>
    /\ \A t, u \in Threads : pc[t] \in Clearing /\ pc[u] \in Clearing => t = u
    /\ \A t \in Threads : pc[t] \in Clearing =>
         cmd[t].arg \in DOMAIN breakpoints /\ breakpoints[cmd[t].arg] = found[t]

Tables == ListAccounting /\ AloneInBc

\* The threads are finitely many, and the list is a sequence.
LEMMA Countable ==
  ASSUME Inv, NEW m
  PROVE  /\ Cardinality(Listed(m)) \in Nat
         /\ IsFiniteSet(Listing(m)) /\ Cardinality(Listing(m)) \in Nat
         /\ IsFiniteSet(Unlisting(m)) /\ Cardinality(Unlisting(m)) \in Nat
  <1>1. IsFiniteSet(Threads)
    BY FS_AddElement DEF Threads
  <1>2. Listing(m) \subseteq Threads /\ Unlisting(m) \subseteq Threads
    BY DEF Listing, Unlisting
  <1>3. Cardinality(Positions(breakpoints, m)) \in Nat
    BY PositionsFinite DEF Inv, TypeOK
  <1>4. Cardinality(Listed(m)) \in Nat
    BY <1>3 DEF Listed, Positions
  <1> QED BY <1>1, <1>2, <1>4, FS_Subset, FS_CardinalityType

\* Steps that change no table, begin and end no insertion and no removal, and do not
\* begin to clear anything.
LEMMA TablesKept ==
  ASSUME Tables, UNCHANGED tableVars,
         \A u \in Threads :
           /\ pc'[u] = "bp_insert" <=> pc[u] = "bp_insert"
           /\ pc'[u] = "bc_remove" <=> pc[u] = "bc_remove"
           /\ pc'[u] \in Clearing => pc[u] \in Clearing
           /\ pc'[u] \in Clearing \cup {"bp_insert"} => cmd'[u] = cmd[u] /\ found'[u] = found[u]
  PROVE  Tables'
  <1>1. \A m \in Methods : Listed(m)' = Listed(m) /\ Listing(m)' = Listing(m)
                             /\ Unlisting(m)' = Unlisting(m)
    BY DEF Listed, Listing, Unlisting, Clearing, tableVars
  <1>2. ListAccounting'
    BY <1>1 DEF Tables, ListAccounting, tableVars
  <1>3. AloneInBc'
    BY DEF Tables, AloneInBc, tableVars
  <1> QED BY <1>2, <1>3 DEF Tables

\* A thread comes to insert, or to remove, or has done so.
LEMMA OneMore ==
  ASSUME NEW S, IsFiniteSet(S), NEW x, x \notin S
  PROVE  Cardinality(S \cup {x}) = Cardinality(S) + 1
  BY FS_AddElement

LEMMA OneLess ==
  ASSUME NEW S, IsFiniteSet(S), NEW x \in S
  PROVE  Cardinality(S \ {x}) = Cardinality(S) - 1
  BY FS_RemoveElement

\* bp() tells the virtual machine.
LEMMA SettingKeepsTables ==
  ASSUME Inv, Tables, NEW t \in Threads, BpSets(t)
  PROVE  Tables'
  <1>1. /\ UNCHANGED <<breakpoints, cmd, found, overlapped>> /\ pc[t] = "bp_set"
        /\ pc' = [pc EXCEPT ![t] = "bp_insert"] /\ jvmtiBps' = jvmtiBps \cup {cmd[t].arg}
        /\ cmd[t].arg \notin jvmtiBps
        /\ pc \in [Threads -> {"run"} \cup Interpreter \cup Callback \cup Evaluation]
    BY DEF BpSets, Proceed, Goto, Inv, TypeOK
  <1>2. AloneInBc'
    BY <1>1 DEF Tables, AloneInBc, Clearing
  <1>3. ASSUME NEW m \in Methods
        PROVE  /\ Listed(m)' = Listed(m) /\ Unlisting(m)' = Unlisting(m)
               /\ t \notin Listing(m)
               /\ Listing(m)' = IF m = cmd[t].arg THEN Listing(m) \cup {t} ELSE Listing(m)
    BY <1>1 DEF Listed, Listing, Unlisting
  <1>4. ASSUME ~overlapped, NEW m \in Methods
        PROVE  Cardinality(Listed(m)') + Cardinality(Listing(m)')
                 = (IF m \in jvmtiBps' THEN 1 ELSE 0) + Cardinality(Unlisting(m)')
    <2>1. Cardinality(Listed(m)) + Cardinality(Listing(m))
            = (IF m \in jvmtiBps THEN 1 ELSE 0) + Cardinality(Unlisting(m))
      BY <1>4 DEF Tables, ListAccounting
    <2>2. /\ Cardinality(Listed(m)) \in Nat /\ Cardinality(Listing(m)) \in Nat
          /\ Cardinality(Unlisting(m)) \in Nat /\ IsFiniteSet(Listing(m))
      BY Countable
    <2>3. Cardinality(Listing(m)')
            = IF m = cmd[t].arg THEN Cardinality(Listing(m)) + 1 ELSE Cardinality(Listing(m))
      BY <1>3, <2>2, OneMore
    <2> QED BY <1>1, <1>3, <2>1, <2>2, <2>3
  <1> QED BY <1>1, <1>2, <1>4 DEF Tables, ListAccounting

\* bp() lists what it has set.
LEMMA InsertingKeepsTables ==
  ASSUME Inv, Tables, NEW t \in Threads, BpInserts(t)
  PROVE  Tables'
  <1>1. /\ pc[t] = "bp_insert" /\ pc'[t] \in {"read", "events"}
        /\ \A u \in Threads \ {t} : pc'[u] = pc[u] /\ cmd'[u] = cmd[u] /\ found'[u] = found[u]
        /\ breakpoints' = Append(breakpoints, cmd[t].arg) /\ UNCHANGED <<jvmtiBps, overlapped>>
        /\ breakpoints \in Seq(Methods) /\ cmd[t].arg \in Methods
    BY DEF BpInserts, Evaluated, Goto, Inv, TypeOK, CommandFits
  <1>2. /\ DOMAIN breakpoints \subseteq DOMAIN breakpoints'
        /\ \A i \in DOMAIN breakpoints : breakpoints'[i] = breakpoints[i]
        /\ \A m \in Methods : Cardinality(Positions(breakpoints', m))
             = Cardinality(Positions(breakpoints, m)) + (IF m = cmd[t].arg THEN 1 ELSE 0)
    BY <1>1, AppendCounts
  <1>3. AloneInBc'
    BY <1>1, <1>2 DEF Tables, AloneInBc, Clearing
  <1>4. ASSUME NEW m \in Methods
        PROVE  /\ Unlisting(m)' = Unlisting(m)
               /\ m = cmd[t].arg => t \in Listing(m)
               /\ Listing(m)' = IF m = cmd[t].arg THEN Listing(m) \ {t} ELSE Listing(m)
    BY <1>1 DEF Listing, Unlisting
  <1>5. ASSUME ~overlapped, NEW m \in Methods
        PROVE  Cardinality(Listed(m)') + Cardinality(Listing(m)')
                 = (IF m \in jvmtiBps' THEN 1 ELSE 0) + Cardinality(Unlisting(m)')
    <2>1. Cardinality(Listed(m)) + Cardinality(Listing(m))
            = (IF m \in jvmtiBps THEN 1 ELSE 0) + Cardinality(Unlisting(m))
      BY <1>5 DEF Tables, ListAccounting
    <2>2. /\ Cardinality(Listed(m)) \in Nat /\ Cardinality(Listing(m)) \in Nat
          /\ Cardinality(Unlisting(m)) \in Nat /\ IsFiniteSet(Listing(m))
      BY Countable
    <2>3. Cardinality(Listing(m)')
            = IF m = cmd[t].arg THEN Cardinality(Listing(m)) - 1 ELSE Cardinality(Listing(m))
      BY <1>4, <2>2, OneLess
    <2>4. Cardinality(Listed(m)') = Cardinality(Listed(m)) + (IF m = cmd[t].arg THEN 1 ELSE 0)
      BY <1>2 DEF Listed, Positions
    <2> QED BY <1>1, <1>4, <2>1, <2>2, <2>3, <2>4
  <1> QED BY <1>1, <1>3, <1>5 DEF Tables, ListAccounting

\* bc() reads the entry it is to clear.
LEMMA ReadingKeepsTables ==
  ASSUME Inv, Tables, NEW t \in Threads, BcReads(t)
  PROVE  Tables'
  <1>1. /\ pc[t] = "bc" /\ pc' = [pc EXCEPT ![t] = "bc_clear"]
        /\ UNCHANGED <<breakpoints, jvmtiBps, cmd>>
        /\ found' = [found EXCEPT ![t] = breakpoints[cmd[t].arg]]
        /\ cmd[t].arg \in DOMAIN breakpoints
        /\ overlapped' = (overlapped \/ \E u \in Threads : pc[u] \in Clearing)
        /\ pc \in [Threads -> {"run"} \cup Interpreter \cup Callback \cup Evaluation]
        /\ found \in [Threads -> Threads \cup Methods \cup {Nil}]
    BY DEF BcReads, Proceed, Goto, Inv, TypeOK
  <1>2. \A m \in Methods : Listed(m)' = Listed(m) /\ Listing(m)' = Listing(m)
                             /\ Unlisting(m)' = Unlisting(m)
    BY <1>1 DEF Listed, Listing, Unlisting
  <1>3. ListAccounting'
    BY <1>1, <1>2 DEF Tables, ListAccounting
  <1>4. ASSUME ~overlapped' PROVE \A u \in Threads \ {t} : pc'[u] \notin Clearing
    BY <1>1, <1>4
  <1>5. found'[t] = breakpoints[cmd[t].arg]
    BY <1>1
  <1>6. AloneInBc'
    BY <1>1, <1>4, <1>5 DEF AloneInBc
  <1> QED BY <1>3, <1>6 DEF Tables

\* bc() tells the virtual machine.
LEMMA ClearingKeepsTables ==
  ASSUME Inv, Tables, NEW t \in Threads, BcClears(t)
  PROVE  Tables'
  <1>1. /\ UNCHANGED <<breakpoints, cmd, found, overlapped>> /\ pc[t] = "bc_clear"
        /\ pc' = [pc EXCEPT ![t] = "bc_remove"] /\ jvmtiBps' = jvmtiBps \ {found[t]}
        /\ found[t] \in jvmtiBps
        /\ pc \in [Threads -> {"run"} \cup Interpreter \cup Callback \cup Evaluation]
    BY DEF BcClears, Proceed, Goto, Inv, TypeOK
  <1>2. AloneInBc'
    BY <1>1 DEF Tables, AloneInBc, Clearing
  <1>3. ASSUME NEW m \in Methods
        PROVE  /\ Listed(m)' = Listed(m) /\ Listing(m)' = Listing(m)
               /\ t \notin Unlisting(m)
               /\ Unlisting(m)' = IF m = found[t] THEN Unlisting(m) \cup {t} ELSE Unlisting(m)
    BY <1>1 DEF Listed, Listing, Unlisting
  <1>4. ASSUME ~overlapped, NEW m \in Methods
        PROVE  Cardinality(Listed(m)') + Cardinality(Listing(m)')
                 = (IF m \in jvmtiBps' THEN 1 ELSE 0) + Cardinality(Unlisting(m)')
    <2>1. Cardinality(Listed(m)) + Cardinality(Listing(m))
            = (IF m \in jvmtiBps THEN 1 ELSE 0) + Cardinality(Unlisting(m))
      BY <1>4 DEF Tables, ListAccounting
    <2>2. /\ Cardinality(Listed(m)) \in Nat /\ Cardinality(Listing(m)) \in Nat
          /\ Cardinality(Unlisting(m)) \in Nat /\ IsFiniteSet(Unlisting(m))
      BY Countable
    <2>3. Cardinality(Unlisting(m)')
            = IF m = found[t] THEN Cardinality(Unlisting(m)) + 1 ELSE Cardinality(Unlisting(m))
      BY <1>3, <2>2, OneMore
    <2> QED BY <1>1, <1>3, <2>1, <2>2, <2>3
  <1> QED BY <1>1, <1>2, <1>4 DEF Tables, ListAccounting

\* bc() removes the entry with its number, which is the one it has cleared.
LEMMA RemovingKeepsTables ==
  ASSUME Inv, Tables, NEW t \in Threads, BcRemoves(t)
  PROVE  Tables'
  <1>1. /\ pc[t] = "bc_remove" /\ pc'[t] \in {"read", "events"}
        /\ \A u \in Threads \ {t} : pc'[u] = pc[u] /\ cmd'[u] = cmd[u] /\ found'[u] = found[u]
        /\ breakpoints' = IF cmd[t].arg \in DOMAIN breakpoints
                          THEN RemoveAt(breakpoints, cmd[t].arg) ELSE breakpoints
        /\ UNCHANGED <<jvmtiBps, overlapped>> /\ breakpoints \in Seq(Methods)
    BY DEF BcRemoves, Evaluated, Goto, Inv, TypeOK
  <1> SUFFICES ASSUME ~overlapped PROVE Tables'
    BY <1>1 DEF Tables, ListAccounting, AloneInBc
  <1>2. /\ cmd[t].arg \in DOMAIN breakpoints /\ breakpoints[cmd[t].arg] = found[t]
        /\ \A u \in Threads \ {t} : pc[u] \notin Clearing
    BY <1>1 DEF Tables, AloneInBc, Clearing
  <1>3. AloneInBc'
    BY <1>1, <1>2 DEF AloneInBc, Clearing
  <1>4. \A m \in Methods : Cardinality(Positions(breakpoints', m))
             = Cardinality(Positions(breakpoints, m)) - (IF m = found[t] THEN 1 ELSE 0)
    <2>1. cmd[t].arg \in 1..Len(breakpoints)
      BY <1>1, <1>2, LenProperties
    <2> QED BY <1>1, <1>2, <2>1, RemoveCounts
  <1>5. ASSUME NEW m \in Methods
        PROVE  /\ Listing(m)' = Listing(m)
               /\ m = found[t] => t \in Unlisting(m)
               /\ Unlisting(m)' = IF m = found[t] THEN Unlisting(m) \ {t} ELSE Unlisting(m)
    BY <1>1 DEF Listing, Unlisting
  <1>6. ASSUME NEW m \in Methods
        PROVE  Cardinality(Listed(m)') + Cardinality(Listing(m)')
                 = (IF m \in jvmtiBps' THEN 1 ELSE 0) + Cardinality(Unlisting(m)')
    <2>1. Cardinality(Listed(m)) + Cardinality(Listing(m))
            = (IF m \in jvmtiBps THEN 1 ELSE 0) + Cardinality(Unlisting(m))
      BY DEF Tables, ListAccounting
    <2>2. /\ Cardinality(Listed(m)) \in Nat /\ Cardinality(Listing(m)) \in Nat
          /\ Cardinality(Unlisting(m)) \in Nat /\ IsFiniteSet(Unlisting(m))
      BY Countable
    <2>3. Cardinality(Unlisting(m)')
            = IF m = found[t] THEN Cardinality(Unlisting(m)) - 1 ELSE Cardinality(Unlisting(m))
      BY <1>5, <2>2, OneLess
    <2>4. Cardinality(Listed(m)') = Cardinality(Listed(m)) - (IF m = found[t] THEN 1 ELSE 0)
      BY <1>4 DEF Listed, Positions
    <2> QED BY <1>1, <1>5, <2>1, <2>2, <2>3, <2>4
  <1> QED BY <1>3, <1>6 DEF Tables, ListAccounting

\* The commands that are read as steps of their own.
BpBcSteps == Clearing \cup {"bp_insert"}

\* A step of one thread that neither is nor comes where the tables are changed.
LEMMA TablesAside ==
  ASSUME Inv, Tables, NEW t \in Threads, UNCHANGED tableVars,
         pc[t] \notin {"bp_insert", "bc_remove"}, pc'[t] \notin BpBcSteps,
         \A u \in Threads \ {t} : pc'[u] = pc[u] /\ cmd'[u] = cmd[u] /\ found'[u] = found[u]
  PROVE  Tables'
  BY TablesKept DEF BpBcSteps, Clearing

LEMMA TablesStep ==
  ASSUME Inv, Tables, [Next]_vars
  PROVE  Tables'
  <1> USE DEF Goto
  <1>0. /\ pc \in [Threads -> {"run"} \cup Interpreter \cup Callback \cup Evaluation]
        /\ suspended \in [Threads -> Seq(JavaCode)]
        /\ cmd \in [Threads -> Commands \cup {Nil}]
        /\ found \in [Threads -> Threads \cup Methods \cup {Nil}]
    BY DEF Inv, TypeOK
  <1>1. CASE UNCHANGED vars
    BY <1>1, TablesKept DEF vars, threadVars
  <1>2. ASSUME NEW t \in Threads, HitBreakpoint(t) \/ EnterDebugger(t) PROVE Tables'
    BY <1>0, <1>2, TablesAside DEF HitBreakpoint, EnterDebugger, JavaCode, BpBcSteps, Clearing
  <1>3. ASSUME NEW t \in Threads,
               \/ SetDebugThread(t) \/ Lookup(t) \/ HandlerReturns(t) \/ BeginWait(t)
               \/ ClearDebugThread(t) \/ PopResume(t)
        PROVE  Tables'
    BY <1>0, <1>3, TablesAside DEF SetDebugThread, Lookup, HandlerReturns, BeginWait,
       ClearDebugThread, PopResume, Pops, BpBcSteps, Clearing
  <1>4. ASSUME NEW t \in Threads,
               \/ LookupFails(t) \/ StopFails(t) \/ LeaveDebugger(t) \/ WaitInterrupted(t)
               \/ EvaluationFails(t)
        PROVE  Tables'
    <2>1. suspended[t] # <<>> /\ pc[t] \notin {"bp_insert", "bc_remove"}
      BY <1>4 DEF Inv, Nesting, Callback, LookupFails, StopFails, LeaveDebugger, WaitInterrupted,
         EvaluationFails
    <2>2. Head(suspended[t]) \in JavaCode
      BY <1>0, <2>1, HeadTailProperties
    <2>3. /\ pc' = [pc EXCEPT ![t] = Head(suspended[t])]
          /\ UNCHANGED <<tableVars, found>>
          /\ \A u \in Threads \ {t} : cmd'[u] = cmd[u]
      BY <1>0, <1>4 DEF LookupFails, StopFails, LeaveDebugger, WaitInterrupted, EvaluationFails,
         Abort, ReturnToJava
    <2> QED BY <1>0, <2>1, <2>2, <2>3, TablesAside DEF JavaCode, BpBcSteps, Clearing
  <1>5. ASSUME NEW t \in Threads, PopCommand(t) PROVE Tables'
    <2>1. Head(queue[t]) \in Commands
      BY <1>5, HeadTailProperties DEF PopCommand, Pops, Events, Inv, TypeOK
    <2>2. Head(queue[t]).op \notin BpBcSteps
      BY <2>1, CommandKinds DEF AllOps, BpBcSteps, Clearing
    <2> QED BY <1>0, <1>5, <2>2, TablesAside DEF PopCommand, Pops
  <1>6. ASSUME NEW t \in Threads,
               \/ GNotifies(t) \/ GFindsNobody(t) \/ GPushes(t) \/ BpExists(t) \/ BpRefused(t)
               \/ BcUnknown(t) \/ BcRefused(t) \/ CallReturns(t)
        PROVE  Tables'
    <2>1. /\ UNCHANGED tableVars
          /\ \E from \in Evaluation \ {"bp_insert", "bc_remove"} : Evaluated(t, from)
      BY <1>6 DEF GNotifies, GFindsNobody, GPushes, BpExists, BpRefused, BcUnknown, BcRefused,
         CallReturns, Evaluation, AllOps
    <2>2. /\ pc[t] \notin {"bp_insert", "bc_remove"} /\ pc'[t] \in {"read", "events"}
          /\ \A u \in Threads \ {t} : pc'[u] = pc[u] /\ cmd'[u] = cmd[u] /\ found'[u] = found[u]
      BY <1>0, <2>1 DEF Evaluated
    <2> QED BY <2>1, <2>2, TablesAside DEF BpBcSteps, Clearing
  <1>7. ASSUME NEW t \in Threads, GChecks(t) \/ GReads(t) \/ BpSearches(t) PROVE Tables'
    BY <1>0, <1>7, TablesAside DEF GChecks, GReads, BpSearches, Proceed, BpBcSteps, Clearing
  <1>8. ASSUME NEW t \in Threads,
               BpSets(t) \/ BpInserts(t) \/ BcReads(t) \/ BcClears(t) \/ BcRemoves(t)
        PROVE  Tables'
    BY <1>8, SettingKeepsTables, InsertingKeepsTables, ReadingKeepsTables, ClearingKeepsTables,
       RemovingKeepsTables
  <1>9. CASE (\E c \in Commands : ReadLine(c)) \/ InterpreterStep
    <2>1. CMD \in Threads
      BY DEF Threads
    <2>2. CASE CheckEvaluates
      <3>1. cmd[CMD] \in Commands
        BY <2>1, <2>2 DEF CheckEvaluates, Inv, CommandFits
      <3>2. cmd[CMD].op \notin BpBcSteps
        BY <3>1, CommandKinds DEF AllOps, BpBcSteps, Clearing
      <3> QED BY <1>0, <2>1, <2>2, <3>2, TablesAside DEF CheckEvaluates
    <2>3. CASE ~CheckEvaluates
      <3>1. /\ UNCHANGED tableVars /\ pc[CMD] \notin {"bp_insert", "bc_remove"}
            /\ pc'[CMD] \notin BpBcSteps
            /\ \A u \in Threads \ {CMD} : pc'[u] = pc[u] /\ cmd'[u] = cmd[u] /\ found'[u] = found[u]
        BY <1>0, <1>9, <2>1, <2>3 DEF ReadLine, InterpreterStep, CheckPushes, PushReads,
           PushDelivers, PushToNobody, InterpreterRaises, InterpreterPrintFails, Evaluated,
           BpBcSteps, Clearing
      <3> QED BY <2>1, <3>1, TablesAside
    <2> QED BY <2>2, <2>3
  <1> QED BY <1>1, <1>2, <1>3, <1>4, <1>5, <1>6, <1>7, <1>8, <1>9
          DEF Next, CallbackStep, EvaluationStep

\* When the program begins every breakpoint that is set is listed once.
LEMMA TablesInit == Init => Tables
  <1> SUFFICES ASSUME Init PROVE Tables
    OBVIOUS
  <1> DEFINE n == Cardinality(jvmtiBps)
             D == 1..n
  <1>1. IsFiniteSet(jvmtiBps) /\ n \in Nat /\ jvmtiBps \subseteq Methods
    BY FS_Subset, FS_CardinalityType DEF Init
  <1>2. /\ breakpoints \in [D -> jvmtiBps]
        /\ \A i, j \in D : i # j => breakpoints[i] # breakpoints[j]
    BY DEF Init, SetToSeqs
  <1>3. breakpoints \in Injection(D, jvmtiBps)
    BY <1>2 DEF Injection, IsInjective
  <1>4. Cardinality(D) = n
    BY <1>1, FS_Interval
  <1>5. breakpoints \in Surjection(D, jvmtiBps)
    BY <1>1, <1>3, <1>4, FS_Injection
  <1>6. ASSUME NEW m \in Methods
        PROVE  Cardinality(Listed(m)) = IF m \in jvmtiBps THEN 1 ELSE 0
    <2>1. CASE m \in jvmtiBps
      <3>1. PICK i \in D : breakpoints[i] = m
        BY <1>5, <2>1 DEF Surjection
      <3>2. Listed(m) = {i}
        BY <1>2, <3>1 DEF Listed
      <3> QED BY <2>1, <3>2, FS_Singleton
    <2>2. CASE m \notin jvmtiBps
      <3>1. Listed(m) = {}
        BY <1>2, <2>2 DEF Listed
      <3> QED BY <2>2, <3>1, FS_EmptySet
    <2> QED BY <2>1, <2>2
  <1>7. \A m \in Methods : Listing(m) = {} /\ Unlisting(m) = {}
    BY DEF Init, Listing, Unlisting
  <1>8. ListAccounting
    BY <1>6, <1>7, FS_EmptySet DEF ListAccounting
  <1>9. AloneInBc
    BY DEF Init, AloneInBc, Clearing
  <1> QED BY <1>8, <1>9 DEF Tables

\* As long as no two threads are inside bc() at once, the list says what the virtual
\* machine stops at: a breakpoint is listed as often as it is set, the insertions and
\* removals under way counted in, however many threads are inside bp() and between
\* which of its steps.
THEOREM ListAgrees == Spec => []ListAccounting
  <1>1. Inv /\ Tables /\ [Next]_vars => Tables'
    BY TablesStep
  <1>2. Tables => ListAccounting
    BY DEF Tables
  <1> QED BY <1>1, <1>2, TablesInit, Invariance, PTL DEF Spec

---------------------------------------------------------------------------
(* A thread that is stopped is the one lines are handed to, where no callback
   begins within another on the same thread. *)

\* The steps of a callback before it has become debug_thread and after.
Aside == {"enter", "set", "clear", "unlock"}

\* A thread in between is debug_thread; no thread has two callbacks in progress.
Focused ==
  \A t \in Threads : /\ Len(suspended[t]) <= 1
                     /\ suspended[t] # <<>> /\ pc[t] \notin Aside => debugThread = t

\* A step of one thread that leaves debug_thread alone.
LEMMA FocusKept ==
  ASSUME Inv, Focused, NEW t \in Threads,
         \A u \in Threads \ {t} : pc'[u] = pc[u] /\ suspended'[u] = suspended[u],
         UNCHANGED debugThread,
         \/ suspended'[t] = <<>>
         \/ pc'[t] \in Aside /\ Len(suspended'[t]) <= 1
         \/ pc[t] \notin Aside /\ suspended'[t] = suspended[t]
  PROVE  Focused'
  <1>1. suspended'[t] = <<>> => Len(suspended'[t]) <= 1
    BY EmptySeq
  <1> QED BY <1>1 DEF Focused

LEMMA FocusedNext ==
  ASSUME MaxNest <= 1, Inv, Focused, [Next]_vars
  PROVE  Focused'
  <1>1. CASE UNCHANGED vars
    BY <1>1 DEF vars, threadVars, Focused
  <1>2. ASSUME NEW t \in Threads, HitBreakpoint(t) PROVE Focused'
    <2>1. /\ suspended[t] \in Seq(JavaCode) /\ Len(suspended[t]) \in Nat /\ Len(suspended[t]) < 1
          /\ pc[t] \in JavaCode /\ suspended' = [suspended EXCEPT ![t] = <<pc[t]>> \o @]
          /\ pc' = [pc EXCEPT ![t] = "enter"] /\ UNCHANGED debugThread
      BY <1>2, LenProperties DEF HitBreakpoint, Inv, TypeOK, SessionAssumption, JavaCode
    <2>2. Len(suspended'[t]) = 1
      BY <2>1, ConcatProperties DEF Inv, TypeOK
    <2> QED BY <2>1, <2>2, FocusKept DEF Inv, TypeOK, Aside
  <1>3. ASSUME NEW t \in Threads, EnterDebugger(t) PROVE Focused'
    BY <1>3, FocusKept DEF EnterDebugger, Goto, Inv, TypeOK, Aside, Focused
  <1>4. ASSUME NEW t \in Threads, SetDebugThread(t) \/ ClearDebugThread(t) PROVE Focused'
    <2>1. /\ pc[t] \in {"set", "clear"} /\ UNCHANGED suspended
          /\ \/ pc' = [pc EXCEPT ![t] = "lookup"] /\ debugThread' = t
             \/ pc' = [pc EXCEPT ![t] = "unlock"]
      BY <1>4 DEF SetDebugThread, ClearDebugThread, Goto
    <2>2. \A u \in Threads \ {t} : suspended[u] # <<>> => pc[u] = "enter"
      <3>1. debugLock.owner = t
        BY <2>1, HeldType DEF Inv, LockAccounting, Callback
      <3>2. ASSUME NEW u \in Threads \ {t}, suspended[u] # <<>>, pc[u] # "enter" PROVE FALSE
        <4>1. Held(u) > 0
          BY <3>2, EmptySeq, LenProperties DEF Held, Inv, TypeOK
        <4> QED BY <3>1, <4>1, HeldType DEF Inv, LockAccounting
      <3> QED BY <3>2
    <2> QED BY <2>1, <2>2 DEF Focused, Inv, TypeOK, Aside
  <1>5. ASSUME NEW t \in Threads, ReturnToJava(t), suspended[t] # <<>>, UNCHANGED debugThread
        PROVE  Focused'
    <2>1. Len(Tail(suspended[t])) <= 0 /\ Tail(suspended[t]) \in Seq(JavaCode)
      BY <1>5, HeadTailProperties, LenProperties DEF Focused, Inv, TypeOK
    <2>2. Tail(suspended[t]) = <<>>
      BY <2>1, EmptySeq, LenProperties
    <2> QED BY <1>5, <2>2, FocusKept DEF ReturnToJava, Inv, TypeOK
  <1>6. ASSUME NEW t \in Threads,
               \/ LeaveDebugger(t) \/ LookupFails(t) \/ StopFails(t)
               \/ WaitInterrupted(t) \/ EvaluationFails(t)
        PROVE  Focused'
    BY <1>5, <1>6 DEF LeaveDebugger, LookupFails, StopFails, WaitInterrupted, EvaluationFails,
       Abort, Inv, Nesting, Callback
  <1>7. ASSUME NEW t \in Threads, UNCHANGED <<suspended, debugThread>>, pc[t] \notin Aside,
               \E to : pc' = [pc EXCEPT ![t] = to]
        PROVE  Focused'
    BY <1>7, FocusKept DEF Inv, TypeOK
  <1>8. ASSUME NEW t \in Threads,
               \/ Lookup(t) \/ HandlerReturns(t) \/ BeginWait(t) \/ PopResume(t) \/ PopCommand(t)
        PROVE  Focused'
    BY <1>7, <1>8 DEF Lookup, HandlerReturns, BeginWait, PopResume, PopCommand, Pops, Goto, Aside
  <1>9. ASSUME NEW t \in Threads,
               \/ GNotifies(t) \/ GChecks(t) \/ GFindsNobody(t) \/ GReads(t) \/ GPushes(t)
               \/ BpExists(t) \/ BpSearches(t) \/ BpRefused(t) \/ BpSets(t) \/ BpInserts(t)
               \/ BcUnknown(t) \/ BcReads(t) \/ BcRefused(t) \/ BcClears(t) \/ BcRemoves(t)
               \/ CallReturns(t)
        PROVE  Focused'
    <2>1. PICK from \in Evaluation : Evaluated(t, from) \/ \E to \in Evaluation : Proceed(t, from, to)
      BY <1>9 DEF GNotifies, GChecks, GFindsNobody, GReads, GPushes, BpExists, BpSearches,
         BpRefused, BpSets, BpInserts, BcUnknown, BcReads, BcRefused, BcClears, BcRemoves,
         CallReturns, Evaluation, AllOps
    <2> QED BY <1>7, <2>1 DEF Evaluated, Proceed, Goto, Evaluation, AllOps, Aside
  <1>10. CASE (\E c \in Commands : ReadLine(c)) \/ InterpreterStep
    BY <1>7, <1>10 DEF ReadLine, InterpreterStep, CheckEvaluates, CheckPushes, PushReads, PushDelivers,
       PushToNobody, InterpreterRaises, InterpreterPrintFails, Evaluated, Goto, Threads, Aside
  <1> QED BY <1>1, <1>2, <1>3, <1>4, <1>6, <1>8, <1>9, <1>10
          DEF Next, CallbackStep, EvaluationStep

\* The thread that waits for lines, or evaluates one, is the one g() resumes, as
\* long as no line and no handler runs into a breakpoint itself: whatever else is
\* typed, and whatever errors and interruptions leave behind.
THEOREM StoppedIsFocus ==
  ASSUME MaxNest <= 1
  PROVE  Spec => []StoppedIsDebugThread
  <1>1. Init => Focused
    BY EmptySeq DEF Init, Focused
  <1>2. Inv /\ Focused /\ [Next]_vars => Focused'
    BY FocusedNext
  <1>3. Focused => StoppedIsDebugThread
    BY DEF Focused, StoppedIsDebugThread, Aside, Evaluation, AllOps
  <1> QED BY <1>1, <1>2, <1>3, Invariance, PTL DEF Spec
===========================================================================

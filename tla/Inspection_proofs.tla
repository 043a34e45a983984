------------------------- MODULE Inspection_proofs -------------------------
(* For any number of threads and names, any methods and any bounds: what the
   state of Inspection can be; that the selected frame exists; that a callback of
   debuglib stops its thread except in the cases StopsItsThread names; that a
   Frame the user keeps is what it says, and what force_return() returns from, as
   long as its stop lasts; and that the variables he reads are those of the frame.

   The first needs that whoever is inside Frame.create finds a frame in `self`
   (TInv).  The next two need that debug_lock lets one thread in at a time, and
   that this thread finds its own frame in `self` unless the interpreter is there
   as well (IInv).  The next two need that the interpreter is not, from the first
   line the thread evaluates until it is resumed (FInv), the last that what is
   shown was read by the thread that is inside (LInv). *)
EXTENDS Inspection, SequenceTheorems, FiniteSetTheorems, TLAPS

Executors == Threads \cup {CMD}

StackFrame == [method : Methods, location : Nat]

\* Who is inside Frame.create finds a frame in `self`.
Making ==
  \A e \in Executors : pc[e] = "creating" => self \in Frame /\ todo[e] \in Threads \X Purpose

AliasHolds == kept = Alias => self \in Frame

\* A thread in a callback has noted a thread in lj_current_thread.
Noted ==
  \A t \in Threads : pc[t] \in {"enter", "print", "stopped", "creating"} => current \in Threads

TInv == TypeOK /\ Making /\ AliasHolds /\ Noted

---------------------------------------------------------------------------
(* What the state can be *)

LEMMA StackTypes ==
  ASSUME TypeOK, NEW t \in Threads
  PROVE  /\ stack[t] \in Seq(StackFrame)
         /\ Len(stack[t]) \in 0..MaxFrames
         /\ stack[t] = <<>> <=> pc[t] = "ended"
         /\ \A i \in 1..Len(stack[t]) : stack[t][i] \in StackFrame
  <1>1. stack[t] \in Seq(StackFrame)
    BY DEF TypeOK, StackFrame
  <1>2. Len(stack[t]) \in Nat /\ Len(stack[t]) <= MaxFrames
    BY <1>1 DEF TypeOK
  <1>3. \A i \in 1..Len(stack[t]) : stack[t][i] \in StackFrame
    BY <1>1
  <1> QED  BY <1>1, <1>2, <1>3, InspectionAssumption DEF TypeOK

LEMMA CurrentThreadTypes ==
  ASSUME TypeOK, NEW t \in Threads
  PROVE  CurrentThread(t) \in Threads
  BY DEF TypeOK, CurrentThread

LEMMA HeldFrames ==
  ASSUME TypeOK, NEW t \in Threads, NEW n \in Int, HasFrame(t, n)
  PROVE  n \in Depths /\ stack[t][Position(t, n)] \in StackFrame
  BY StackTypes, InspectionAssumption DEF HasFrame, Position, Depths

LEMMA CreateTypes ==
  ASSUME TInv, NEW e \in Executors, NEW w \in Threads, NEW n \in Int,
         NEW purpose \in Purpose, CreateFrame(e, w, n, purpose)
  PROVE  /\ self' \in Frame /\ self'.by = e
         /\ kept' \in Frame \cup {Nil, Alias}
         /\ todo' \in [Executors -> (Threads \X Purpose) \cup {Nil}]
         /\ todo' = [todo EXCEPT ![e] = <<w, purpose>>]
  <1>1. n \in Depths /\ stack[w][Position(w, n)] \in StackFrame
    BY HeldFrames DEF CreateFrame, TInv
  <1>2. self' \in Frame /\ self'.by = e
    BY <1>1 DEF CreateFrame, Frame, StackFrame, Executors
  <1>3. kept' \in Frame \cup {Nil, Alias}
    BY DEF CreateFrame, TInv, TypeOK, AliasHolds
  <1>4. <<w, purpose>> \in Threads \X Purpose
    OBVIOUS
  <1> QED  BY <1>2, <1>3, <1>4 DEF CreateFrame, TInv, TypeOK, Executors

LEMMA FinishTypes ==
  ASSUME TInv, NEW e \in Executors, NEW op, FinishFrame(e, op)
  PROVE  /\ todo[e] \in Threads \X Purpose /\ todo[e][2] \in Purpose /\ todo[e][2][1] = op
         /\ Created(e) \in Frame
         /\ self' \in Frame \cup {Nil}
         /\ op = "keep" \/ kept = Alias => self' \in Frame
         /\ \A c \in Executors \ {e} : pc[c] = "creating" => self' \in Frame
         /\ todo' \in [Executors -> (Threads \X Purpose) \cup {Nil}]
         /\ todo' = [todo EXCEPT ![e] = Nil]
  <1>1. pc[e] = "creating" /\ self \in Frame /\ todo[e] \in Threads \X Purpose
    BY DEF FinishFrame, TInv, Making
  <1>2. Created(e) \in Frame
    <2>1. todo[e][1] \in Threads
      BY <1>1
    <2>2. \A p, q \in BOOLEAN : (p \/ q) \in BOOLEAN
      OBVIOUS
    <2>3. self.complete \in BOOLEAN /\ (self.by = e) \in BOOLEAN
      BY <1>1 DEF Frame
    <2>4. (self.complete \/ self.by = e) \in BOOLEAN
      BY <2>2, <2>3, Zenon
    <2> QED  BY <1>1, <2>1, <2>4, <2>4, Zenon DEF Created, Frame
  <1>3. DOMAIN pc = Executors
    BY DEF TInv, TypeOK, Executors
  <1> QED  BY <1>1, <1>2, <1>3 DEF FinishFrame, TInv, TypeOK, Executors

\* The virtual machine has a variable, nothing, or an error to offer.
LEMMA LocalTypes ==
  ASSUME TypeOK, NEW t \in Threads, NEW n \in Int, NEW slot \in Nat, NEW kind
  PROVE  GetLocal(t, n, slot, kind) \in (Threads \X (0..MaxFrames) \X Nat) \cup {Nil, Raised}
  <1>1. n \in 1..Len(stack[t]) => Len(stack[t]) - n \in 0..MaxFrames
    BY StackTypes, InspectionAssumption
  <1> QED  BY <1>1 DEF GetLocal

\* A variable is read only from a slot that some method has.
LEMMA LocalOfTypes ==
  ASSUME TypeOK, current \in Threads, NEW f \in Frame, NEW k
  PROVE  LocalOf(f, k) \in (Threads \X (0..MaxFrames) \X Nat) \cup {Nil, Raised}
  <1> DEFINE v == VariableNamed(f.method, k)
             n == f.depth
  <1>1. n \in Int
    BY InspectionAssumption DEF Frame, Depths
  <1>2. n \in 1..Len(stack[current]) =>
          /\ Len(stack[current]) - n \in 0..MaxFrames
          /\ stack[current][n].method \in Methods
    <2>1. Len(stack[current]) \in 0..MaxFrames
      BY StackTypes
    <2>2. n \in 1..Len(stack[current]) => stack[current][n] \in StackFrame
      BY StackTypes
    <2> QED  BY <1>1, <2>1, <2>2, InspectionAssumption DEF StackFrame
  <1>3. \A m \in Methods : Entries(m) \subseteq Entry
    BY InspectionAssumption DEF Entries
  <1>4. ASSUME n \in 1..Len(stack[current]),
               \E u \in Alive(stack[current][n]) : u.slot = v.slot /\ u.kind = v.kind
        PROVE  v.slot \in Nat
    BY <1>2, <1>3, <1>4 DEF Alive, Entry
  <1> HIDE DEF v, n
  <1>5. GetLocal(current, n, v.slot, v.kind)
          \in (Threads \X (0..MaxFrames) \X Nat) \cup {Nil, Raised}
    BY <1>2, <1>4 DEF GetLocal
  <1> QED  BY <1>5 DEF LocalOf, v, n

LEMMA ShowTypes ==
  ASSUME current \in Threads, NEW f \in Frame, NEW k \in Names,
         NEW value \in (Threads \X (0..MaxFrames) \X Nat) \cup {Nil, Raised},
         Show(f, k, value)
  PROVE  shown' \in Shown \cup {Nil}
  BY DEF Show, Shown

LEMMA InitTypes == Init => TInv
  <1> SUFFICES ASSUME Init PROVE TInv
    OBVIOUS
  <1>1. 1 \in Depths
    BY InspectionAssumption DEF Depths
  <1>2. \A t \in Threads : /\ stack[t] \in Seq(StackFrame)
                           /\ Len(stack[t]) = 1
                           /\ stack[t] # <<>>
    BY InspectionAssumption DEF Init, StackFrame
  <1>3. stack \in [Threads -> Seq(StackFrame)]
    BY <1>2 DEF Init
  <1>4. /\ \A t \in Threads : pc[t] = "run"
        /\ pc[CMD] = "read"
        /\ pc \in [Threads \cup {CMD} ->
                   {"run", "enter", "print", "stopped", "ended", "read", "evaluate", "creating"}]
    BY InspectionAssumption DEF Init
  <1>5. TypeOK
    <2>1. \A t \in Threads : Len(stack[t]) <= MaxFrames /\ (stack[t] = <<>> <=> pc[t] = "ended")
      <3>1. MaxFrames \in Nat /\ 1 <= MaxFrames
        BY InspectionAssumption
      <3> QED  BY <1>2, <1>4, <3>1
    <2>2. /\ early \in [Threads -> Results \cup {Nil}]
          /\ why \in [Threads -> {"breakpoint", "step"}]
          /\ threads \in [ThreadNames -> Threads \cup {Nil}]
          /\ todo \in [Threads \cup {CMD} -> (Threads \X Purpose) \cup {Nil}]
      BY DEF Init
    <2>3. callbacks \in 0..MaxCallbacks /\ lines \in 0..MaxLines
      BY InspectionAssumption DEF Init
    <2> QED  BY <1>1, <1>3, <1>4, <2>1, <2>2, <2>3 DEF Init, TypeOK, StackFrame
  <1>6. Making /\ Noted
    BY <1>4 DEF Making, Noted, Executors
  <1>7. AliasHolds
    BY InspectionAssumption DEF Init, AliasHolds
  <1> QED  BY <1>5, <1>6, <1>7 DEF TInv

LEMMA RunProgramTypes ==
  ASSUME TInv, NEW t \in Threads, RunProgram(t)
  PROVE  TInv'
  <1> USE DEF TInv
  <1>1. /\ stack[t] \in Seq(StackFrame) /\ stack[t] # <<>>
        /\ Len(stack[t]) \in 1..MaxFrames /\ stack[t][1] \in StackFrame
    BY StackTypes DEF RunProgram, Goto
  <1>2. /\ stack' = [stack EXCEPT ![t] = stack'[t]]
        /\ stack'[t] \in Seq(StackFrame)
        /\ Len(stack'[t]) <= MaxFrames
    <2>1. CASE \E m \in Methods : /\ Len(stack[t]) < MaxFrames
                 /\ stack' = [stack EXCEPT ![t] = <<[method |-> m, location |-> 0]>> \o @]
      <3> PICK m \in Methods : /\ Len(stack[t]) < MaxFrames
                 /\ stack' = [stack EXCEPT ![t] = <<[method |-> m, location |-> 0]>> \o @]
        BY <2>1
      <3> DEFINE new == <<[method |-> m, location |-> 0]>>
      <3>1. new \in Seq(StackFrame) /\ Len(new) = 1
        BY DEF StackFrame
      <3>2. stack'[t] = new \o stack[t]
        BY DEF TypeOK
      <3> HIDE DEF new
      <3>3. stack'[t] \in Seq(StackFrame) /\ Len(stack'[t]) = 1 + Len(stack[t])
        BY <1>1, <3>1, <3>2, ConcatProperties
      <3> QED  BY <1>1, <3>3, InspectionAssumption DEF TypeOK, new
    <2>2. CASE stack' = [stack EXCEPT ![t][1].location = @ + 1]
      <3> DEFINE new == [stack[t][1] EXCEPT !.location = @ + 1]
      <3>1. new \in StackFrame
        BY <1>1 DEF StackFrame
      <3>2. stack'[t] = [stack[t] EXCEPT ![1] = new]
        BY <2>2, Zenon DEF TypeOK
      <3> HIDE DEF new
      <3>3. stack'[t] \in Seq(StackFrame) /\ Len(stack'[t]) = Len(stack[t])
        BY <1>1, <3>1, <3>2, ExceptSeq
      <3> QED  BY <1>1, <2>2, <3>3 DEF TypeOK
    <2>3. CASE stack' = [stack EXCEPT ![t] = Tail(@)]
      <3>1. stack'[t] = Tail(stack[t])
        BY <2>3 DEF TypeOK
      <3>2. stack'[t] \in Seq(StackFrame) /\ Len(stack'[t]) = Len(stack[t]) - 1
        BY <1>1, <3>1
      <3>3. Len(stack'[t]) <= MaxFrames
        BY <1>1, <3>2, InspectionAssumption
      <3>4. stack' = [stack EXCEPT ![t] = stack'[t]]
        BY <2>3, <3>1
      <3> QED  BY <3>2, <3>3, <3>4
    <2> QED  BY <2>1, <2>2, <2>3 DEF RunProgram
  <1>3. /\ pc' = [pc EXCEPT ![t] = IF stack'[t] = <<>> THEN "ended" ELSE "run"]
        /\ UNCHANGED <<name, early, session, depth, self, todo, kept, shown, history>>
    BY DEF RunProgram, Goto
  <1>4. TypeOK'
    BY <1>2, <1>3 DEF TypeOK, StackFrame, session, history
  <1> QED  BY <1>3, <1>4 DEF TypeOK, Making, AliasHolds, Noted, Executors, session

LEMMA CallbackTypes ==
  ASSUME TInv, NEW t \in Threads, NEW reason \in {"breakpoint", "step"}, Callback(t, reason)
  PROVE  TInv'
  <1>1. TypeOK'
    <2>1. callbacks' \in 0..MaxCallbacks
      BY InspectionAssumption DEF TInv, TypeOK, Callback
    <2>2. why' \in [Threads -> {"breakpoint", "step"}]
      BY DEF TInv, TypeOK, Callback
    <2> QED  BY <2>1, <2>2 DEF TInv, Callback, Goto, TypeOK, program
  <1> QED  BY <1>1 DEF TInv, Callback, Goto, TypeOK, program, Making, AliasHolds, Noted, Executors

LEMMA EnterTypes ==
  ASSUME TInv, NEW t \in Threads, EnterDebugger(t)
  PROVE  TInv'
  <1>1. CurrentThread(t) \in Threads /\ 1 \in Depths
    BY CurrentThreadTypes, InspectionAssumption DEF TInv, Depths
  <1>2. TypeOK'
    BY <1>1 DEF TInv, EnterDebugger, Goto, TypeOK, program, history
  <1> QED  BY <1>2 DEF TInv, EnterDebugger, Goto, TypeOK, Making, AliasHolds, Noted, Executors

\* What a step that begins Frame.create leaves to show.
LEMMA BeginTypes ==
  ASSUME TInv, NEW e \in Executors, NEW w \in Threads, NEW n \in Int,
         NEW purpose \in Purpose, CreateFrame(e, w, n, purpose),
         pc' = [pc EXCEPT ![e] = "creating"], pc[e] # "ended",
         e \in Threads => current \in Threads,
         UNCHANGED <<program, session, depth, shown, aborted, callbacks>>,
         fresh' \in BOOLEAN, lines' \in 0..MaxLines
  PROVE  TInv'
  <1>1. /\ self' \in Frame
        /\ kept' \in Frame \cup {Nil, Alias}
        /\ todo' \in [Executors -> (Threads \X Purpose) \cup {Nil}]
        /\ todo' = [todo EXCEPT ![e] = <<w, purpose>>]
    BY CreateTypes
  <1>2. TypeOK'
    BY <1>1 DEF TInv, TypeOK, program, session, Executors
  <1>3. Making'
    BY <1>1 DEF TInv, TypeOK, Making, Executors
  <1> QED  BY <1>1, <1>2, <1>3 DEF TInv, TypeOK, AliasHolds, Noted, session, Executors

\* What a step that ends Frame.create leaves to show.
LEMMA EndTypes ==
  ASSUME TInv, NEW e \in Executors, NEW op, FinishFrame(e, op),
         NEW to \in {"run", "stopped", "read"}, pc' = [pc EXCEPT ![e] = to],
         UNCHANGED <<program, session, callbacks, lines>>,
         depth' \in Depths, shown' \in Shown \cup {Nil}, fresh' \in BOOLEAN,
         aborted' \subseteq Threads,
         kept' = kept \/ (op = "keep" /\ kept' = Alias)
  PROVE  TInv'
  <1>1. /\ self' \in Frame \cup {Nil}
        /\ op = "keep" \/ kept = Alias => self' \in Frame
        /\ \A c \in Executors \ {e} : pc[c] = "creating" => self' \in Frame
        /\ todo' \in [Executors -> (Threads \X Purpose) \cup {Nil}]
        /\ todo' = [todo EXCEPT ![e] = Nil]
    BY FinishTypes
  <1>2. TypeOK'
    BY <1>1 DEF TInv, TypeOK, program, session, Executors, FinishFrame
  <1>3. Making'
    BY <1>1 DEF TInv, TypeOK, Making, Executors
  <1> QED  BY <1>1, <1>2, <1>3 DEF TInv, TypeOK, AliasHolds, Noted, session, Executors, FinishFrame

\* The virtual machine is asked for what the innermost method returns.
LEMMA ForceTypes ==
  ASSUME TypeOK, NEW t \in Threads, NEW m \in Methods, NEW val,
         MayForce(t, Forced(m, val)), stack[t] # <<>>
  PROVE  Forced(m, val) \in Results
  <1>1. stack[t][1] \in StackFrame
    <2>1. Len(stack[t]) \in 1..MaxFrames
      BY StackTypes, EmptySeq
    <2> QED  BY <2>1, StackTypes
  <1> QED  BY <1>1, InspectionAssumption DEF MayForce, StackFrame

LEMMA ThreadActionTypes ==
  ASSUME TInv, NEW t \in Threads
  PROVE  /\ PrintFrame(t) => TInv'
         /\ PrintNothing(t) => TInv'
         /\ FramePrinted(t) => TInv'
         /\ PrintFails(t) => TInv'
         /\ NoStack(t) => TInv'
  <1>1. CurrentThread(t) \in Threads /\ depth \in Depths /\ depth \in Int /\ t \in Executors
    <2>1. CurrentThread(t) \in Threads /\ t \in Executors
      BY CurrentThreadTypes DEF TInv, Executors
    <2>2. depth \in Depths /\ depth \in Int
      BY InspectionAssumption DEF TInv, TypeOK, Depths
    <2> QED  BY <2>1, <2>2
  <1>2. fresh \in BOOLEAN /\ lines \in 0..MaxLines
    BY DEF TInv, TypeOK
  <1>3. ASSUME PrintFrame(t) PROVE TInv'
    <2>1. <<"print", Nil>> \in Purpose
      BY DEF Purpose
    <2>2. current \in Threads /\ pc[t] # "ended" /\ pc' = [pc EXCEPT ![t] = "creating"]
      BY <1>3 DEF PrintFrame, Goto, TInv, Noted
    <2> QED  BY <1>1, <1>2, <1>3, <2>1, <2>2, BeginTypes DEF PrintFrame, history
  <1>4. ASSUME PrintNothing(t) PROVE TInv'
    <2>1. TypeOK'
      BY <1>4 DEF PrintNothing, Goto, TInv, TypeOK, program, session, history
    <2> QED  BY <1>4, <2>1 DEF PrintNothing, Goto, TInv, TypeOK, Making, AliasHolds, Noted,
                               session, Executors
  <1>5. ASSUME FramePrinted(t) PROVE TInv'
    BY <1>1, <1>2, <1>5, EndTypes DEF FramePrinted, Goto, TInv, TypeOK, history
  <1>6. ASSUME PrintFails(t) PROVE TInv'
    BY <1>1, <1>2, <1>6, EndTypes DEF PrintFails, BreakOff, TInv, TypeOK
  <1>7. ASSUME NoStack(t) PROVE TInv'
    <2>1. pc[t] = "print" /\ pc' = [pc EXCEPT ![t] = "run"] /\ aborted' \subseteq Threads
          /\ UNCHANGED <<program, session, depth, shown, fresh, callbacks, lines, self, todo, kept>>
      BY <1>7 DEF NoStack, BreakOff, TInv, TypeOK
    <2>2. TypeOK'
      BY <2>1 DEF TInv, TypeOK, program, session
    <2> QED  BY <2>1, <2>2 DEF TInv, TypeOK, Making, AliasHolds, Noted, session, Executors
  <1> QED  BY <1>3, <1>4, <1>5, <1>6, <1>7

LEMMA ResumeTypes ==
  ASSUME TInv, NEW t \in Threads, Resume(t)
  PROVE  TInv'
  <1> DEFINE rest == IF early[t] = Nil THEN stack[t] ELSE Tail(stack[t])
  <1>1. stack[t] \in Seq(StackFrame) /\ Len(stack[t]) \in 1..MaxFrames
    <2>1. stack[t] \in Seq(StackFrame) /\ Len(stack[t]) \in 0..MaxFrames /\ stack[t] # <<>>
      BY StackTypes DEF Resume, TInv
    <2> QED  BY <2>1, EmptySeq
  <1>2. rest \in Seq(StackFrame) /\ Len(rest) <= MaxFrames
    <2>1. Tail(stack[t]) \in Seq(StackFrame) /\ Len(Tail(stack[t])) = Len(stack[t]) - 1
      BY <1>1
    <2> QED  BY <1>1, <2>1, InspectionAssumption
  <1>3. stack' = [stack EXCEPT ![t] = rest] /\ stack'[t] = rest
    BY DEF Resume, TInv, TypeOK
  <1> HIDE DEF rest
  <1>4. /\ pc[t] = "stopped"
        /\ pc' = [pc EXCEPT ![t] = IF rest = <<>> THEN "ended" ELSE "run"]
        /\ early' = [early EXCEPT ![t] = Nil] /\ why' = [why EXCEPT ![t] = "breakpoint"]
        /\ debugThread' = Nil /\ owner' \in {t, Nil} /\ shown' = Nil /\ fresh' = FALSE
        /\ UNCHANGED <<name, current, threads, depth, self, todo, kept, aborted, callbacks, lines>>
    BY <1>3 DEF Resume
  <1>5. TypeOK'
    BY <1>2, <1>3, <1>4 DEF TInv, TypeOK, StackFrame
  <1> QED  BY <1>4, <1>5 DEF TInv, TypeOK, Making, AliasHolds, Noted, Executors

\* A line that needs a frame begins.
LEMMA EvaluateTypes ==
  ASSUME TInv, NEW t \in Threads, NEW n \in Depths, NEW purpose \in Purpose,
         Evaluate(t, n, purpose)
  PROVE  TInv'
  <1>1. CurrentThread(t) \in Threads /\ n \in Int /\ t \in Executors
    <2>1. CurrentThread(t) \in Threads /\ t \in Executors
      BY CurrentThreadTypes DEF TInv, Executors
    <2>2. n \in Int
      BY InspectionAssumption DEF Depths
    <2> QED  BY <2>1, <2>2
  <1>2. fresh' \in BOOLEAN /\ lines' \in 0..MaxLines
    BY InspectionAssumption DEF Evaluate, NextLine, TInv, TypeOK
  <1>3. current \in Threads /\ pc[t] # "ended" /\ pc' = [pc EXCEPT ![t] = "creating"]
    BY DEF Evaluate, Goto, TInv, Noted
  <1> QED  BY <1>1, <1>2, <1>3, BeginTypes DEF Evaluate

LEMMA CommandTypes ==
  ASSUME TInv, NEW t \in Threads
  PROVE  /\ \A num \in Int : SelectFrame(t, num) => TInv'
         /\ FrameSelected(t) => TInv'
         /\ KeepFrame(t) => TInv'
         /\ FrameKept(t) => TInv'
         /\ \A k \in Names : ReadName(t, k) => TInv'
         /\ NameRead(t) => TInv'
  <1>1. depth \in Depths /\ shown \in Shown \cup {Nil} /\ fresh \in BOOLEAN /\ aborted \subseteq Threads
    BY DEF TInv, TypeOK
  <1>2. t \in Executors
    BY DEF Executors
  <1>3. ASSUME NEW num \in Int, SelectFrame(t, num) PROVE TInv'
    <2>1. num \in Depths /\ <<"select", num>> \in Purpose
      BY <1>3 DEF SelectFrame, Purpose
    <2> QED  BY <1>3, <2>1, EvaluateTypes DEF SelectFrame
  <1>4. ASSUME FrameSelected(t) PROVE TInv'
    <2>1. todo[t][2] \in Purpose /\ todo[t][2][1] = "select"
      BY <1>2, <1>4, FinishTypes DEF FrameSelected
    <2>2. todo[t][2][2] \in Depths
      BY <2>1 DEF Purpose
    <2> QED  BY <1>1, <1>2, <1>4, <2>2, EndTypes DEF FrameSelected, Goto, history
  <1>5. ASSUME KeepFrame(t) PROVE TInv'
    <2>1. <<"keep", Nil>> \in Purpose
      BY DEF Purpose
    <2> QED  BY <1>1, <1>5, <2>1, EvaluateTypes DEF KeepFrame
  <1>6. ASSUME FrameKept(t) PROVE TInv'
    BY <1>1, <1>2, <1>6, EndTypes DEF FrameKept, Goto
  <1>7. ASSUME NEW k \in Names, ReadName(t, k) PROVE TInv'
    <2>1. <<"read", k>> \in Purpose
      BY DEF Purpose
    <2> QED  BY <1>1, <1>7, <2>1, EvaluateTypes DEF ReadName
  <1>8. ASSUME NameRead(t) PROVE TInv'
    <2>1. todo[t][2] \in Purpose /\ todo[t][2][1] = "read" /\ Created(t) \in Frame
      BY <1>2, <1>8, FinishTypes DEF NameRead
    <2>2. todo[t][2][2] \in Names
      BY <2>1 DEF Purpose
    <2>3. current \in Threads /\ TypeOK
      BY <1>8 DEF NameRead, Goto, TInv, Noted
    <2> DEFINE f == Created(t)
               k == todo[t][2][2]
    <2>4. shown' \in Shown \cup {Nil}
      <3>1. f.depth \in Int
        BY <2>1, InspectionAssumption DEF Frame, Depths
      <3>2. ASSUME Show(f, k, GetLocal(current, f.depth, 0, "object"))
            PROVE  shown' \in Shown \cup {Nil}
        BY <2>1, <2>2, <2>3, <3>1, <3>2, LocalTypes, ShowTypes
      <3>3. ASSUME Show(f, k, LocalOf(f, k)) PROVE shown' \in Shown \cup {Nil}
        BY <2>1, <2>2, <2>3, <3>3, LocalOfTypes, ShowTypes
      <3>4. \/ Show(f, k, GetLocal(current, f.depth, 0, "object"))
            \/ Show(f, k, LocalOf(f, k))
            \/ shown' = Nil
        BY <1>8 DEF NameRead
      <3> HIDE DEF f, k
      <3> QED  BY <3>2, <3>3, <3>4
    <2> QED  BY <1>1, <1>2, <1>8, <2>4, EndTypes DEF NameRead, Goto, history
  <1> QED  BY <1>3, <1>4, <1>5, <1>6, <1>7, <1>8

\* The Frame in the user's variable.
LEMMA KeptTypes ==
  ASSUME TInv, KeptFrame # Nil
  PROVE  KeptFrame \in Frame
  BY DEF TInv, TypeOK, AliasHolds, KeptFrame

LEMMA ThroughFrameTypes ==
  ASSUME TInv, NEW t \in Threads
  PROVE  /\ \A k \in Names : ReadThroughFrame(t, k) => TInv'
         /\ \A val : ForceReturn(t, val) => TInv'
  <1>1. ASSUME NEW k \in Names, ReadThroughFrame(t, k) PROVE TInv'
    <2>1. current \in Threads /\ TypeOK /\ KeptFrame \in Frame
      BY <1>1, KeptTypes DEF ReadThroughFrame, TInv, Noted
    <2>2. shown' \in Shown \cup {Nil}
      BY <1>1, <2>1, LocalOfTypes, ShowTypes DEF ReadThroughFrame
    <2>3. lines' \in 0..MaxLines
      BY <1>1, InspectionAssumption DEF ReadThroughFrame, NextLine, TInv, TypeOK
    <2> QED  BY <1>1, <2>2, <2>3 DEF ReadThroughFrame, TInv, TypeOK, Making, AliasHolds, Noted,
                                     program, session, Executors
  <1>2. ASSUME NEW val, ForceReturn(t, val) PROVE TInv'
    <2>1. KeptFrame \in Frame /\ stack[t] # <<>>
      BY <1>2, KeptTypes DEF ForceReturn, TInv, TypeOK
    <2>2. Forced(KeptFrame.method, val) \in Results
      BY <1>2, <2>1, ForceTypes DEF ForceReturn, TInv, Frame
    <2>3. early' \in [Threads -> Results \cup {Nil}]
      BY <1>2, <2>2 DEF ForceReturn, TInv, TypeOK
    <2>4. lines' \in 0..MaxLines
      BY <1>2, InspectionAssumption DEF ForceReturn, NextLine, TInv, TypeOK
    <2> QED  BY <1>2, <2>3, <2>4 DEF ForceReturn, TInv, TypeOK, Making, AliasHolds, Noted,
                                     session, Executors
  <1> QED  BY <1>1, <1>2

LEMMA InterpreterTypes ==
  ASSUME TInv
  PROVE  /\ CheckEvaluates => TInv'
         /\ OtherLine => TInv'
         /\ \A w \in Threads, n \in 1..MaxFrames : InspectThread(w, n) => TInv'
         /\ ThreadInspected => TInv'
  <1>1. CMD \in Executors /\ CMD \notin Threads
    BY InspectionAssumption DEF Executors
  <1>2. ASSUME CheckEvaluates PROVE TInv'
    BY <1>1, <1>2 DEF CheckEvaluates, Goto, InterpreterOnly, TInv, TypeOK, Making, AliasHolds, Noted,
                      program, session, Executors
  <1>3. ASSUME OtherLine PROVE TInv'
    BY <1>1, <1>3 DEF OtherLine, Goto, InterpreterOnly, TInv, TypeOK, Making, AliasHolds, Noted,
                      program, session, Executors
  <1>4. ASSUME NEW w \in Threads, NEW n \in 1..MaxFrames, InspectThread(w, n) PROVE TInv'
    <2>1. <<"keep", Nil>> \in Purpose /\ n \in Int
      BY DEF Purpose
    <2>2. lines' \in 0..MaxLines /\ fresh' \in BOOLEAN
      BY <1>4, InspectionAssumption DEF InspectThread, NextLine, TInv, TypeOK
    <2> QED  BY <1>1, <1>4, <2>1, <2>2, BeginTypes DEF InspectThread, Goto, InterpreterOnly
  <1>5. ASSUME ThreadInspected PROVE TInv'
    BY <1>1, <1>5, EndTypes DEF ThreadInspected, Goto, InterpreterOnly, TInv, TypeOK
  <1> QED  BY <1>2, <1>3, <1>4, <1>5

LEMMA TypeStep == TInv /\ [Next]_vars => TInv'
  <1> SUFFICES ASSUME TInv, [Next]_vars PROVE TInv'
    OBVIOUS
  <1>1. ASSUME NEW t \in Threads,
               RunProgram(t) \/ Callback(t, "breakpoint") \/ Callback(t, "step")
                 \/ EnterDebugger(t) \/ Resume(t)
        PROVE  TInv'
    BY <1>1, RunProgramTypes, CallbackTypes, EnterTypes, ResumeTypes
  <1>2. depth + 1 \in Int /\ depth - 1 \in Int
    BY InspectionAssumption DEF TInv, TypeOK, Depths
  <1>3. ASSUME UNCHANGED vars PROVE TInv'
    BY <1>3 DEF vars, program, session, history, TInv, TypeOK, Making, AliasHolds, Noted
  <1> QED  BY <1>1, <1>2, <1>3, ThreadActionTypes, CommandTypes, ThroughFrameTypes,
              InterpreterTypes DEF Next

\* Types of the state of a stopped program and of what the user keeps of it, for
\* any program, whatever is typed and whichever callbacks come in between.
THEOREM TypeCorrect == Spec => []TypeOK
  <1>1. TInv => TypeOK
    BY DEF TInv
  <1> QED  BY <1>1, InitTypes, TypeStep, PTL DEF Spec

---------------------------------------------------------------------------
(* One thread at a time, and its own frame *)

\* A thread that looks at frames owns debug_lock.
Inside == \A t \in Threads : pc[t] \in {"print", "stopped", "creating"} => owner = t

\* The object in `threads` is of a thread that has the name it is found under.
KeyIsName == \A n \in ThreadNames : threads[n] # Nil => name[threads[n]] = n

\* A thread inside Frame.create finds its own frame in `self`, or one that the
\* interpreter has put there since and, if it has finished, completed.
Maker ==
  \A t \in Threads : pc[t] = "creating" =>
    self.by = t \/ (self.by = CMD /\ (pc[CMD] = "creating" \/ self.complete))

\* Threads that have found their own object look at their own stack.
Looking(t) == CurrentThread(t) = t /\ why[t] = "breakpoint"

\* Where the selected frame is before it is selected.
Selecting(t) ==
  Looking(t) =>
    /\ pc[t] = "print" => depth = 1
    /\ pc[t] = "creating" /\ todo[t][2][1] = "select" => HasFrame(t, todo[t][2][2])

Selected(t) == Looking(t) /\ InDebugger(t) => HasFrame(t, depth)

Selection == \A t \in Threads : Selecting(t) /\ Selected(t)

IInv == Inside /\ KeyIsName /\ Maker /\ Selection

\* What the steps of the interpreter and of other threads leave as it is for a
\* thread inside the debugger.
Untouched(t) ==
  /\ UNCHANGED <<name, depth>>
  /\ pc'[t] = pc[t] /\ stack'[t] = stack[t] /\ why'[t] = why[t] /\ todo'[t] = todo[t]
  /\ threads'[name[t]] = threads[name[t]]

LEMMA UntouchedSelection ==
  ASSUME NEW t \in Threads, Untouched(t), Selecting(t), Selected(t)
  PROVE  Selecting(t)' /\ Selected(t)'
  <1>1. Looking(t)' => Looking(t)
    BY DEF Untouched, Looking, CurrentThread
  <1>2. \A n : HasFrame(t, n) => HasFrame(t, n)'
    BY DEF Untouched, HasFrame, Position
  <1>3. Selecting(t)'
    BY <1>1, <1>2 DEF Untouched, Selecting
  <1>4. Selected(t)'
    BY <1>1, <1>2 DEF Untouched, Selected, InDebugger
  <1> QED  BY <1>3, <1>4

\* A thread outside the debugger selects nothing.
LEMMA OutsideSelection ==
  ASSUME NEW t \in Threads, pc[t] \notin {"print", "stopped", "creating"}
  PROVE  Selecting(t) /\ Selected(t)
  BY DEF Selecting, Selected, InDebugger

LEMMA InitSelection == Init => IInv
  <1> SUFFICES ASSUME Init PROVE IInv
    OBVIOUS
  <1>1. \A t \in Threads : pc[t] = "run"
    BY InspectionAssumption DEF Init
  <1>2. Selection
    BY <1>1, OutsideSelection DEF Selection
  <1> QED  BY <1>1, <1>2 DEF Init, IInv, Inside, KeyIsName, Maker

\* debug_lock keeps the other threads out.
LEMMA Alone ==
  ASSUME IInv, NEW t \in Threads, owner \in {t, Nil}
  PROVE  \A u \in Threads \ {t} : pc[u] \notin {"print", "stopped", "creating"}
  BY InspectionAssumption DEF IInv, Inside

\* A step of the thread that is, or comes, inside.
LEMMA InsideStep ==
  ASSUME TypeOK, IInv, NEW t \in Threads, owner \in {t, Nil}, KeyIsName',
         NEW to, pc' = [pc EXCEPT ![t] = to],
         to \in {"print", "stopped", "creating"} => owner' = t,
         to = "creating" => self'.by = t,
         Selecting(t)', Selected(t)'
  PROVE  IInv'
  <1>1. \A u \in Threads \ {t} : pc'[u] \notin {"print", "stopped", "creating"}
    BY Alone DEF TypeOK
  <1>2. pc'[t] = to
    BY DEF TypeOK
  <1>3. Selection'
    <2>1. ASSUME NEW u \in Threads \ {t} PROVE Selecting(u)' /\ Selected(u)'
      BY <1>1, <2>1 DEF Selecting, Selected, InDebugger
    <2> QED  BY <2>1 DEF Selection
  <1>4. Inside' /\ Maker'
    BY <1>1, <1>2 DEF Inside, Maker
  <1> QED  BY <1>3, <1>4 DEF IInv

\* A thread gets debug_lock.
LEMMA EnterSelection ==
  ASSUME TInv, IInv, NEW t \in Threads, EnterDebugger(t)
  PROVE  IInv'
  <1>1. /\ owner \in {t, Nil} /\ owner' = t /\ pc' = [pc EXCEPT ![t] = "print"]
        /\ pc'[t] = "print" /\ why' = why /\ name' = name
        /\ why[t] = "breakpoint" => depth' = 1
    BY DEF EnterDebugger, Goto, TInv, TypeOK, program
  <1>2. KeyIsName'
    <2>1. CurrentThread(t) \in Threads /\ name[CurrentThread(t)] = name[t]
      BY DEF TInv, TypeOK, IInv, KeyIsName, CurrentThread
    <2>2. threads' = [threads EXCEPT ![name[t]] = CurrentThread(t)]
      BY DEF EnterDebugger
    <2> QED  BY <1>1, <2>1, <2>2 DEF TInv, TypeOK, IInv, KeyIsName
  <1>3. Selecting(t)' /\ Selected(t)'
    BY <1>1 DEF Selecting, Selected, InDebugger, Looking
  <1> QED  BY <1>1, <1>2, <1>3, InsideStep DEF TInv

\* Everything a step inside the debugger reads and leaves alone.
LEMMA InsideFacts ==
  ASSUME TInv, IInv, NEW t \in Threads, pc[t] \in {"print", "stopped", "creating"},
         UNCHANGED <<program, session>>
  PROVE  /\ owner = t /\ owner' = t /\ KeyIsName'
         /\ Looking(t)' = Looking(t)
         /\ \A n : HasFrame(t, n)' = HasFrame(t, n)
         /\ Selecting(t) /\ Selected(t)
  BY DEF IInv, Inside, KeyIsName, Selection, Looking, CurrentThread, HasFrame, Position, program, session

LEMMA PrintSelection ==
  ASSUME TInv, IInv, NEW t \in Threads
  PROVE  /\ PrintFrame(t) => IInv'
         /\ PrintNothing(t) => IInv'
         /\ PrintFails(t) => IInv'
         /\ NoStack(t) => IInv'
  <1>1. ASSUME PrintFrame(t) PROVE IInv'
    <2>1. /\ pc[t] = "print" /\ pc' = [pc EXCEPT ![t] = "creating"]
          /\ UNCHANGED <<program, session>> /\ depth' = depth
          /\ CreateFrame(t, CurrentThread(t), depth, <<"print", Nil>>)
      BY <1>1 DEF PrintFrame, Goto
    <2>2. self'.by = t /\ todo'[t][2][1] = "print"
      BY <2>1 DEF CreateFrame, TInv, TypeOK
    <2>3. HasFrame(CurrentThread(t), depth)
      BY <2>1 DEF CreateFrame
    <2>4. Selecting(t)' /\ Selected(t)'
      <3>1. pc'[t] = "creating"
        BY <2>1 DEF TInv, TypeOK
      <3>2. Selecting(t)'
        BY <2>2, <3>1 DEF Selecting
      <3>3. Looking(t)' => HasFrame(t, depth)
        BY <2>1, <2>3, InsideFacts DEF Looking
      <3>4. Looking(t)' => HasFrame(t, depth)'
        BY <2>1, <3>3, InsideFacts DEF HasFrame, Position, program
      <3> QED  BY <3>2, <3>4 DEF Selected
    <2> QED  BY <2>1, <2>2, <2>4, InsideFacts, InsideStep DEF TInv
  <1>2. ASSUME PrintNothing(t) PROVE IInv'
    <2>1. /\ pc[t] = "print" /\ pc' = [pc EXCEPT ![t] = "stopped"] /\ pc'[t] = "stopped"
          /\ UNCHANGED <<program, session>> /\ depth' = depth
          /\ ~HasFrame(CurrentThread(t), depth)
      BY <1>2 DEF PrintNothing, Goto, TInv, TypeOK
    <2>2. HasFrame(t, 1)
      <3>1. stack[t] # <<>> /\ stack[t] \in Seq(StackFrame)
        BY <2>1, StackTypes DEF TInv
      <3> QED  BY <3>1, EmptySeq DEF HasFrame, Position
    <2>3. ~Looking(t)
      BY <2>1, <2>2, InsideFacts DEF Selecting, Looking
    <2>4. Selecting(t)' /\ Selected(t)'
      BY <2>1, <2>3, InsideFacts DEF Selecting, Selected
    <2> QED  BY <2>1, <2>4, InsideFacts, InsideStep DEF TInv
  <1>3. ASSUME PrintFails(t) PROVE IInv'
    <2>1. /\ pc[t] = "creating" /\ pc' = [pc EXCEPT ![t] = "run"] /\ pc'[t] = "run"
          /\ UNCHANGED <<program, session>>
      BY <1>3 DEF PrintFails, FinishFrame, BreakOff, TInv, TypeOK
    <2>2. Selecting(t)' /\ Selected(t)'
      BY <2>1 DEF Selecting, Selected, InDebugger
    <2> QED  BY <2>1, <2>2, InsideFacts, InsideStep DEF TInv
  <1>4. ASSUME NoStack(t) PROVE IInv'
    <2>1. /\ pc[t] = "print" /\ pc' = [pc EXCEPT ![t] = "run"] /\ pc'[t] = "run"
          /\ UNCHANGED <<program, session>>
      BY <1>4 DEF NoStack, BreakOff, TInv, TypeOK
    <2>2. Selecting(t)' /\ Selected(t)'
      BY <2>1 DEF Selecting, Selected, InDebugger
    <2> QED  BY <2>1, <2>2, InsideFacts, InsideStep DEF TInv
  <1> QED  BY <1>1, <1>2, <1>3, <1>4

LEMMA EvaluateSelection ==
  ASSUME TInv, IInv, NEW t \in Threads, NEW n \in Depths, NEW purpose \in Purpose,
         Evaluate(t, n, purpose), purpose[1] = "select" => purpose[2] = n
  PROVE  IInv'
  <1>1. /\ pc[t] = "stopped" /\ pc' = [pc EXCEPT ![t] = "creating"] /\ pc'[t] = "creating"
        /\ UNCHANGED <<program, session>> /\ depth' = depth
        /\ CreateFrame(t, CurrentThread(t), n, purpose)
    BY DEF Evaluate, Goto, TInv, TypeOK
  <1>2. self'.by = t /\ todo'[t] = <<CurrentThread(t), purpose>> /\ HasFrame(CurrentThread(t), n)
    BY <1>1 DEF CreateFrame, TInv, TypeOK
  <1>3. Selecting(t)'
    <2>1. Looking(t)' => HasFrame(t, n)'
      BY <1>1, <1>2, InsideFacts DEF Looking
    <2>2. todo'[t][2] = purpose
      BY <1>2
    <2> QED  BY <1>1, <2>1, <2>2 DEF Selecting
  <1>4. Selected(t)'
    <2>1. Looking(t)' => HasFrame(t, depth)
      BY <1>1, InsideFacts DEF Selected, InDebugger
    <2>2. Looking(t)' => HasFrame(t, depth)'
      BY <1>1, <2>1, InsideFacts DEF HasFrame, Position, program
    <2> QED  BY <2>2 DEF Selected
  <1> QED  BY <1>1, <1>2, <1>3, <1>4, InsideFacts, InsideStep DEF TInv

\* A line is over and the same frame, or the one the line asked for, is selected.
LEMMA LineOver ==
  ASSUME TInv, IInv, NEW t \in Threads, pc[t] = "creating",
         pc' = [pc EXCEPT ![t] = "stopped"], UNCHANGED <<program, session>>,
         \/ depth' = depth
         \/ todo[t][2][1] = "select" /\ depth' = todo[t][2][2]
  PROVE  IInv'
  <1>1. pc'[t] = "stopped"
    BY DEF TInv, TypeOK
  <1>2. Selecting(t)'
    BY <1>1 DEF Selecting
  <1>3. Selected(t)'
    <2>1. \A n : Looking(t) /\ HasFrame(t, n) /\ depth' = n => HasFrame(t, depth)'
      BY DEF HasFrame, Position, program
    <2>2. Looking(t)' => Looking(t)
      BY InsideFacts
    <2>3. Looking(t) => HasFrame(t, depth)
      BY InsideFacts DEF Selected, InDebugger
    <2>4. Looking(t) /\ todo[t][2][1] = "select" => HasFrame(t, todo[t][2][2])
      BY InsideFacts DEF Selecting
    <2> QED  BY <2>1, <2>2, <2>3, <2>4 DEF Selected
  <1> QED  BY <1>1, <1>2, <1>3, InsideFacts, InsideStep DEF TInv

LEMMA ResumeSelection ==
  ASSUME TInv, IInv, NEW t \in Threads, Resume(t)
  PROVE  IInv'
  <1>1. PICK to \in {"ended", "run"} : pc' = [pc EXCEPT ![t] = to]
    BY DEF Resume
  <1>2. owner = t /\ pc'[t] \in {"ended", "run"}
    BY <1>1 DEF Resume, IInv, Inside, TInv, TypeOK
  <1>3. Selecting(t)' /\ Selected(t)'
    BY <1>2 DEF Selecting, Selected, InDebugger
  <1>4. KeyIsName'
    BY DEF Resume, IInv, KeyIsName
  <1> QED  BY <1>1, <1>2, <1>3, <1>4, InsideStep DEF TInv

\* The steps of threads outside, and those that leave every thread where it is.
LEMMA OutsideStep ==
  ASSUME TypeOK, IInv, UNCHANGED <<name, depth, owner, threads>>,
         \A u \in Threads : \/ Untouched(u)
                            \/ pc'[u] \notin {"print", "stopped", "creating"},
         Maker'
  PROVE  IInv'
  <1>1. Inside' /\ KeyIsName'
    BY DEF IInv, Inside, KeyIsName, Untouched
  <1>2. ASSUME NEW u \in Threads PROVE Selecting(u)' /\ Selected(u)'
    <2>1. CASE Untouched(u)
      BY <2>1, UntouchedSelection DEF IInv, Selection
    <2>2. CASE pc'[u] \notin {"print", "stopped", "creating"}
      BY <2>2 DEF Selecting, Selected, InDebugger
    <2> QED  BY <2>1, <2>2
  <1> QED  BY <1>1, <1>2 DEF IInv, Selection

LEMMA ProgramSelection ==
  ASSUME TInv, IInv, NEW t \in Threads,
         RunProgram(t) \/ \E reason \in {"breakpoint", "step"} : Callback(t, reason)
  PROVE  IInv'
  <1>1. \A u \in Threads : u # t => /\ pc'[u] = pc[u] /\ stack'[u] = stack[u] /\ why'[u] = why[u]
                                    /\ todo' = todo
    BY DEF RunProgram, Callback, Goto, TInv, TypeOK, program, session
  <1>2. pc'[t] \in {"ended", "run", "enter"} /\ pc'[CMD] = pc[CMD]
    BY InspectionAssumption DEF RunProgram, Callback, Goto, TInv, TypeOK
  <1>3. UNCHANGED <<name, depth, owner, threads, self>>
    BY DEF RunProgram, Callback, program, session
  <1>4. \A u \in Threads : Untouched(u) \/ pc'[u] \notin {"print", "stopped", "creating"}
    BY <1>1, <1>2, <1>3 DEF Untouched
  <1>5. Maker'
    BY <1>1, <1>2, <1>3 DEF IInv, Maker
  <1> QED  BY <1>3, <1>4, <1>5, OutsideStep DEF TInv

LEMMA InterpreterSelection ==
  ASSUME TInv, IInv,
         \/ CheckEvaluates \/ OtherLine \/ ThreadInspected
         \/ \E w \in Threads, n \in 1..MaxFrames : InspectThread(w, n)
  PROVE  IInv'
  <1>1. /\ UNCHANGED <<name, depth, owner, threads, stack, why>>
        /\ \A u \in Threads : pc'[u] = pc[u]
    BY InspectionAssumption DEF CheckEvaluates, OtherLine, ThreadInspected, InspectThread,
         InterpreterOnly, Goto, TInv, TypeOK, program, session
  <1>2. \A u \in Threads : todo'[u] = todo[u]
    BY InspectionAssumption DEF CheckEvaluates, OtherLine, ThreadInspected, InspectThread,
         CreateFrame, FinishFrame, TInv, TypeOK
  <1>3. \A u \in Threads : Untouched(u)
    BY <1>1, <1>2 DEF Untouched
  <1>4. Maker'
    <2>1. CASE CheckEvaluates \/ OtherLine
      BY <1>1, <2>1 DEF CheckEvaluates, OtherLine, Goto, TInv, TypeOK, IInv, Maker
    <2>2. CASE \E w \in Threads, n \in 1..MaxFrames : InspectThread(w, n)
      BY <2>2 DEF InspectThread, CreateFrame, Goto, TInv, TypeOK, Maker
    <2>3. CASE ThreadInspected
      <3>1. self' = Created(CMD) /\ self \in Frame
        BY <2>3 DEF ThreadInspected, FinishFrame, Goto, TInv, Making, Executors
      <3>2. self'.by = self.by /\ (self.by = CMD => self'.complete)
        BY <3>1, Zenon DEF Created, Frame
      <3> QED  BY <1>1, <3>2 DEF IInv, Maker
    <2> QED  BY <2>1, <2>2, <2>3
  <1> QED  BY <1>1, <1>3, <1>4, OutsideStep DEF TInv

LEMMA CommandSelection ==
  ASSUME TInv, IInv, NEW t \in Threads
  PROVE  /\ FramePrinted(t) \/ FrameKept(t) \/ NameRead(t) \/ FrameSelected(t) => IInv'
         /\ \A num \in Int : SelectFrame(t, num) => IInv'
         /\ KeepFrame(t) => IInv'
         /\ \A k \in Names : ReadName(t, k) \/ ReadThroughFrame(t, k) => IInv'
         /\ \A val : ForceReturn(t, val) => IInv'
  <1>1. depth \in Depths
    BY DEF TInv, TypeOK
  <1>2. ASSUME FramePrinted(t) \/ FrameKept(t) \/ NameRead(t) \/ FrameSelected(t) PROVE IInv'
    BY <1>2, LineOver DEF FramePrinted, FrameKept, NameRead, FrameSelected, FinishFrame, Goto
  <1>3. ASSUME NEW num \in Int, SelectFrame(t, num) PROVE IInv'
    <2> DEFINE purpose == <<"select", num>>
    <2>1. num \in Depths /\ Evaluate(t, num, purpose)
      BY <1>3 DEF SelectFrame
    <2>2. purpose \in Purpose /\ purpose[2] = num
      BY <2>1 DEF Purpose
    <2> HIDE DEF purpose
    <2> QED  BY <2>1, <2>2, EvaluateSelection
  <1>4. ASSUME KeepFrame(t) PROVE IInv'
    <2> DEFINE purpose == <<"keep", Nil>>
    <2>1. purpose \in Purpose /\ purpose[1] # "select"
      BY DEF Purpose
    <2>2. Evaluate(t, depth, purpose)
      BY <1>4 DEF KeepFrame
    <2> HIDE DEF purpose
    <2> QED  BY <1>1, <2>1, <2>2, EvaluateSelection
  <1>5. ASSUME NEW k \in Names, ReadName(t, k) PROVE IInv'
    <2> DEFINE purpose == <<"read", k>>
    <2>1. purpose \in Purpose /\ purpose[1] # "select"
      BY DEF Purpose
    <2>2. Evaluate(t, depth, purpose)
      BY <1>5 DEF ReadName
    <2> HIDE DEF purpose
    <2> QED  BY <1>1, <2>1, <2>2, EvaluateSelection
  <1>6. ASSUME \/ \E k \in Names : ReadThroughFrame(t, k)
               \/ \E val : ForceReturn(t, val)
        PROVE  IInv'
    <2>1. UNCHANGED <<name, stack, pc, session, depth, self, todo>>
      BY <1>6 DEF ReadThroughFrame, ForceReturn, program
    <2>2. \A u \in Threads : Untouched(u)
      BY <2>1 DEF Untouched, session
    <2>3. Maker'
      BY <2>1 DEF IInv, Maker
    <2> QED  BY <2>1, <2>2, <2>3, OutsideStep DEF TInv, session
  <1> QED  BY <1>2, <1>3, <1>4, <1>5, <1>6

LEMMA SelectionStep == TInv /\ IInv /\ [Next]_vars => IInv'
  <1> SUFFICES ASSUME TInv, IInv, [Next]_vars PROVE IInv'
    OBVIOUS
  <1>1. depth + 1 \in Int /\ depth - 1 \in Int
    BY InspectionAssumption DEF TInv, TypeOK, Depths
  <1>2. ASSUME NEW t \in Threads,
               \/ RunProgram(t) \/ Callback(t, "breakpoint") \/ Callback(t, "step")
               \/ EnterDebugger(t) \/ PrintFrame(t) \/ PrintNothing(t)
               \/ PrintFails(t) \/ NoStack(t) \/ Resume(t)
        PROVE  IInv'
    BY <1>2, ProgramSelection, EnterSelection, PrintSelection, ResumeSelection
  <1>3. ASSUME UNCHANGED vars PROVE IInv'
    <2>1. \A u \in Threads : Untouched(u)
      BY <1>3 DEF vars, program, session, Untouched
    <2>2. Maker'
      BY <1>3 DEF vars, IInv, Maker
    <2> QED  BY <1>3, <2>1, <2>2, OutsideStep DEF vars, program, session, TInv
  <1> QED  BY <1>1, <1>2, <1>3, CommandSelection, InterpreterSelection DEF Next

\* A breakpoint, up(), down() and frame() select frames that exist, whatever the
\* other threads, which share `depth`, do meanwhile.
THEOREM SelectedFrameIsThere == Spec => []SelectedFrameExists
  <1>1. IInv => SelectedFrameExists
    BY DEF IInv, Selection, Selected, Looking, SelectedFrameExists
  <1> QED  BY <1>1, InitTypes, TypeStep, InitSelection, SelectionStep, PTL DEF Spec

\* An error breaks the callback off only in the two cases StopsItsThread names: a
\* namesake that has ended, or the interpreter inside Frame.create.
THEOREM ThreadIsStopped == Spec => StopsItsThread
  <1> DEFINE A == \A t \in aborted' \ aborted :
                    \/ \E u \in Threads \ {t} : name[u] = name[t] /\ pc[u] = "ended"
                    \/ pc[CMD] = "creating"
  <1>1. ASSUME TInv, IInv, [Next]_vars PROVE [A]_vars
    <2>1. ASSUME NEW t \in Threads, NoStack(t) PROVE A
      <3>1. pc[t] = "print" /\ pc[CurrentThread(t)] = "ended" /\ aborted' = aborted \cup {t}
        BY <2>1 DEF NoStack, BreakOff
      <3>2. CurrentThread(t) \in Threads \ {t} /\ name[CurrentThread(t)] = name[t]
        BY <3>1, <1>1 DEF TInv, TypeOK, IInv, KeyIsName, CurrentThread
      <3> QED  BY <3>1, <3>2
    <2>2. ASSUME NEW t \in Threads, PrintFails(t) PROVE A
      <3>1. pc[t] = "creating" /\ ~Created(t).complete /\ aborted' = aborted \cup {t}
        BY <2>2 DEF PrintFails, FinishFrame, BreakOff
      <3>2. self \in Frame
        BY <3>1, <1>1 DEF TInv, Making, Executors
      <3>3. self.by = t \/ self.complete => Created(t).complete
        BY <3>2, Zenon DEF Created, Frame
      <3>4. pc[CMD] = "creating"
        BY <3>1, <3>3, <1>1 DEF IInv, Maker
      <3> QED  BY <3>4
    <2>3. ASSUME aborted' = aborted PROVE A
      BY <2>3
    <2>4. \/ \E t \in Threads : NoStack(t) \/ PrintFails(t)
          \/ aborted' = aborted
      <3>1. ASSUME NEW t \in Threads,
                   \/ RunProgram(t) \/ Callback(t, "breakpoint") \/ Callback(t, "step")
                   \/ EnterDebugger(t) \/ PrintFrame(t) \/ PrintNothing(t)
                   \/ FramePrinted(t) \/ Resume(t)
                   \/ SelectFrame(t, depth + 1) \/ SelectFrame(t, depth - 1) \/ FrameSelected(t)
                   \/ KeepFrame(t) \/ FrameKept(t) \/ NameRead(t)
                   \/ \E k \in Names : ReadName(t, k) \/ ReadThroughFrame(t, k)
                   \/ \E val \in {"String", "object", "lua"} : ForceReturn(t, val)
            PROVE  aborted' = aborted
        BY <3>1 DEF RunProgram, Callback, EnterDebugger, PrintFrame, PrintNothing, FramePrinted,
             Resume, SelectFrame, Evaluate, FrameSelected, KeepFrame, FrameKept, NameRead, ReadName,
             ReadThroughFrame, ForceReturn, history
      <3>2. ASSUME \/ CheckEvaluates \/ OtherLine \/ ThreadInspected
                   \/ \E w \in Threads, n \in 1..MaxFrames : InspectThread(w, n)
            PROVE  aborted' = aborted
        BY <3>2 DEF CheckEvaluates, OtherLine, ThreadInspected, InspectThread, InterpreterOnly
      <3>3. UNCHANGED vars => aborted' = aborted
        BY DEF vars, history
      <3> QED  BY <1>1, <3>1, <3>2, <3>3 DEF Next
    <2> QED  BY <2>1, <2>2, <2>3, <2>4
  <1> QED  BY <1>1, InitTypes, TypeStep, InitSelection, SelectionStep, PTL DEF Spec, StopsItsThread

---------------------------------------------------------------------------
(* The Frame the user keeps *)

\* A Frame says of its thread what the stack of that thread says.
Describes(f, t) ==
  /\ HasFrame(t, f.depth)
  /\ LET at == stack[t][Position(t, f.depth)]
     IN  at.method = f.method /\ at.location = f.location

\* While a thread is inside, the interpreter hands every line over.
Led == \A t \in Threads : pc[t] \in {"print", "stopped", "creating"} => debugThread # Nil

\* A line that needs a Frame makes it undisturbed, and next to the one kept.
Line ==
  \A t \in Threads : pc[t] = "creating" =>
    IF todo[t][2][1] = "print" THEN ~fresh
    ELSE /\ pc[CMD] = "read" /\ kept # Alias /\ self \in Frame
         /\ todo[t][1] = t => Describes(self, t)

KeptWell(t) ==
  /\ InDebugger(t) /\ pc[CMD] = "read"
  /\ KeptFrame \in Frame
  /\ KeptFrame.thread = t => Describes(KeptFrame, t)

Fresh == fresh => \E t \in Threads : KeptWell(t)

FInv == Led /\ Line /\ Fresh

LEMMA InitKept == Init => FInv
  BY InspectionAssumption DEF Init, FInv, Led, Line, Fresh

\* A Frame that is being kept was kept by the thread that is inside.
LEMMA KeptByOwner ==
  ASSUME IInv, FInv, NEW t \in Threads, owner \in {t, Nil}, fresh
  PROVE  KeptWell(t)
  BY Alone DEF FInv, Fresh, KeptWell, InDebugger

\* A step of the thread that is, or comes, inside.
LEMMA InsideKept ==
  ASSUME TypeOK, IInv, FInv, NEW t \in Threads, owner \in {t, Nil},
         NEW to, pc' = [pc EXCEPT ![t] = to],
         to \in {"print", "stopped", "creating"} => debugThread' # Nil,
         to # "creating",
         fresh' => KeptWell(t)'
  PROVE  FInv'
  <1>1. \A u \in Threads \ {t} : pc'[u] \notin {"print", "stopped", "creating"}
    BY Alone DEF TypeOK
  <1>2. pc'[t] = to
    BY DEF TypeOK
  <1> QED  BY <1>1, <1>2 DEF FInv, Led, Line, Fresh

\* A step that begins Frame.create on the thread inside.
LEMMA BeginKept ==
  ASSUME TInv, IInv, FInv, NEW t \in Threads, pc[t] \in {"print", "stopped"},
         pc' = [pc EXCEPT ![t] = "creating"], UNCHANGED <<program, session, fresh>>,
         NEW w \in Threads, NEW n \in Depths, NEW purpose \in Purpose,
         CreateFrame(t, w, n, purpose),
         purpose[1] = "print" => ~fresh,
         purpose[1] # "print" => pc[CMD] = "read"
  PROVE  FInv'
  <1>1. owner = t /\ debugThread' # Nil
    BY DEF IInv, Inside, FInv, Led, session
  <1>2. /\ pc'[t] = "creating" /\ pc'[CMD] = pc[CMD]
        /\ \A u \in Threads \ {t} : pc'[u] \notin {"print", "stopped", "creating"}
    BY <1>1, Alone, InspectionAssumption DEF TInv, TypeOK
  <1>3. n \in Int /\ t \in Executors
    BY InspectionAssumption DEF Depths, Executors
  <1>4. self' \in Frame /\ todo'[t] = <<w, purpose>>
    <2>1. self' \in Frame
      BY <1>3, CreateTypes
    <2>2. todo' = [todo EXCEPT ![t] = <<w, purpose>>] /\ t \in DOMAIN todo
      BY DEF CreateFrame, TInv, TypeOK
    <2> QED  BY <2>1, <2>2
  <1>5. kept' = KeptFrame /\ kept' # Alias
    BY InspectionAssumption DEF CreateFrame, KeptFrame, TInv, AliasHolds
  <1>6. w = t => Describes(self, t)'
    BY DEF CreateFrame, Describes, HasFrame, Position, program
  <1>7. Led'
    BY <1>1, <1>2 DEF Led
  <1>8. Line'
    <2>1. todo'[t][1] = w /\ todo'[t][2] = purpose
      BY <1>4
    <2> QED  BY <1>2, <1>4, <1>5, <1>6, <2>1 DEF Line
  <1>9. Fresh'
    <2>1. ASSUME fresh PROVE KeptWell(t)'
      <3>1. KeptWell(t)
        BY <1>1, <2>1, KeptByOwner
      <3>2. KeptFrame' = KeptFrame
        BY <1>5 DEF KeptFrame
      <3> QED  BY <1>2, <3>1, <3>2 DEF KeptWell, InDebugger, Describes, HasFrame, Position, program
    <2> QED  BY <2>1 DEF Fresh
  <1> QED  BY <1>7, <1>8, <1>9 DEF FInv

LEMMA CreatedIs ==
  ASSUME NEW e \in Executors, self \in Frame
  PROVE  /\ Created(e).depth = self.depth /\ Created(e).method = self.method
         /\ Created(e).location = self.location /\ Created(e).thread = todo[e][1]
  BY Zenon DEF Created, Frame

\* The steps of one thread inside the debugger.
LEMMA InsideActionKept ==
  ASSUME TInv, IInv, FInv, NEW t \in Threads
  PROVE  /\ EnterDebugger(t) => FInv'
         /\ PrintFrame(t) => FInv'
         /\ PrintNothing(t) => FInv'
         /\ FramePrinted(t) => FInv'
         /\ PrintFails(t) \/ NoStack(t) => FInv'
         /\ Resume(t) => FInv'
  <1>1. \A s \in {"print", "stopped", "creating"} : pc[t] = s => owner = t /\ debugThread # Nil
    BY DEF IInv, Inside, FInv, Led
  <1>2. ASSUME EnterDebugger(t) PROVE FInv'
    <2>1. owner \in {t, Nil} /\ pc[t] = "enter" /\ pc' = [pc EXCEPT ![t] = "print"] /\ fresh' = fresh
      BY <1>2 DEF EnterDebugger, Goto, history
    <2>2. debugThread' # Nil
      BY <1>2, CurrentThreadTypes, InspectionAssumption DEF EnterDebugger, TInv
    <2>3. ~fresh
      BY <2>1, KeptByOwner DEF KeptWell, InDebugger
    <2> QED  BY <2>1, <2>2, <2>3, InsideKept DEF TInv
  <1>3. ASSUME PrintFrame(t) PROVE FInv'
    <2> DEFINE purpose == <<"print", Nil>>
    <2>1. /\ pc[t] = "print" /\ pc' = [pc EXCEPT ![t] = "creating"]
          /\ UNCHANGED <<program, session, fresh>>
          /\ CreateFrame(t, CurrentThread(t), depth, purpose)
      BY <1>3 DEF PrintFrame, Goto, history
    <2>2. ~fresh
      BY <1>1, <2>1, KeptByOwner DEF KeptWell, InDebugger
    <2>3. purpose \in Purpose /\ purpose[1] = "print"
      BY DEF Purpose
    <2>4. CurrentThread(t) \in Threads /\ depth \in Depths
      BY CurrentThreadTypes DEF TInv, TypeOK
    <2> HIDE DEF purpose
    <2> QED  BY <2>1, <2>2, <2>3, <2>4, BeginKept
  <1>4. ASSUME PrintNothing(t) PROVE FInv'
    <2>1. /\ pc[t] = "print" /\ pc' = [pc EXCEPT ![t] = "stopped"]
          /\ UNCHANGED <<program, session, fresh>>
      BY <1>4 DEF PrintNothing, Goto, history
    <2>2. ~fresh
      BY <1>1, <2>1, KeptByOwner DEF KeptWell, InDebugger
    <2> QED  BY <1>1, <2>1, <2>2, InsideKept DEF TInv, session
  <1>5. ASSUME FramePrinted(t) PROVE FInv'
    <2>1. /\ pc[t] = "creating" /\ todo[t][2][1] = "print" /\ pc' = [pc EXCEPT ![t] = "stopped"]
          /\ UNCHANGED <<program, session, fresh>>
      BY <1>5 DEF FramePrinted, FinishFrame, Goto, history
    <2>2. ~fresh
      BY <2>1 DEF FInv, Line
    <2> QED  BY <1>1, <2>1, <2>2, InsideKept DEF TInv, session
  <1>6. ASSUME PrintFails(t) \/ NoStack(t) PROVE FInv'
    <2>1. /\ \/ pc[t] = "creating" /\ todo[t][2][1] = "print"
             \/ pc[t] = "print"
          /\ pc' = [pc EXCEPT ![t] = "run"] /\ fresh' = fresh
      BY <1>6 DEF PrintFails, NoStack, FinishFrame, BreakOff
    <2>2. ~fresh
      BY <1>1, <2>1, KeptByOwner DEF KeptWell, InDebugger, FInv, Line
    <2> QED  BY <1>1, <2>1, <2>2, InsideKept DEF TInv
  <1>7. ASSUME Resume(t) PROVE FInv'
    <2>1. PICK to \in {"ended", "run"} : pc' = [pc EXCEPT ![t] = to]
      BY <1>7 DEF Resume
    <2>2. owner = t /\ ~fresh'
      BY <1>1, <1>7 DEF Resume
    <2> QED  BY <2>1, <2>2, InsideKept DEF TInv
  <1> QED  BY <1>2, <1>3, <1>4, <1>5, <1>6, <1>7

\* A line that needed a Frame is over; the Frame kept before is as it was.
LEMMA LineOverKept ==
  ASSUME TInv, IInv, FInv, NEW t \in Threads,
         FrameSelected(t) \/ NameRead(t)
  PROVE  FInv'
  <1>1. /\ pc[t] = "creating" /\ todo[t][2][1] # "print"
        /\ pc' = [pc EXCEPT ![t] = "stopped"] /\ UNCHANGED <<program, session, kept, fresh>>
    BY DEF FrameSelected, NameRead, FinishFrame, Goto, history
  <1>2. owner = t /\ debugThread' # Nil /\ kept # Alias
    BY <1>1 DEF IInv, Inside, FInv, Led, Line, session
  <1>3. KeptFrame' = KeptFrame
    BY <1>1, <1>2 DEF KeptFrame
  <1>4. pc'[t] = "stopped" /\ pc'[CMD] = pc[CMD]
    BY <1>1, InspectionAssumption DEF TInv, TypeOK
  <1>5. fresh' => KeptWell(t)'
    <2>1. fresh => KeptWell(t)
      BY <1>2, KeptByOwner
    <2> QED  BY <1>1, <1>3, <1>4, <2>1 DEF KeptWell, InDebugger, Describes, HasFrame, Position, program
  <1> QED  BY <1>1, <1>2, <1>5, InsideKept DEF TInv

LEMMA FrameKeptKept ==
  ASSUME TInv, IInv, FInv, NEW t \in Threads, FrameKept(t)
  PROVE  FInv'
  <1>1. /\ pc[t] = "creating" /\ todo[t][2][1] = "keep" /\ self' = Created(t)
        /\ pc' = [pc EXCEPT ![t] = "stopped"] /\ UNCHANGED <<program, session>>
        /\ kept' = Alias
    BY DEF FrameKept, FinishFrame, Goto
  <1>2. /\ owner = t /\ debugThread' # Nil /\ pc[CMD] = "read" /\ self \in Frame
        /\ todo[t][1] = t => Describes(self, t)
    BY <1>1 DEF IInv, Inside, FInv, Led, Line, session
  <1>3. KeptFrame' = Created(t)
    BY <1>1 DEF KeptFrame
  <1>4. pc'[t] = "stopped" /\ pc'[CMD] = pc[CMD]
    BY <1>1, InspectionAssumption DEF TInv, TypeOK
  <1>5. t \in Executors /\ FinishFrame(t, "keep")
    BY DEF FrameKept, Executors
  <1>6. Created(t) \in Frame
    BY <1>5, FinishTypes
  <1>7. Created(t).thread = t => Describes(Created(t), t)
    BY <1>2, <1>5, CreatedIs DEF Describes
  <1>8. KeptWell(t)'
    <2>1. KeptFrame'.thread = t => Describes(Created(t), t)
      BY <1>3, <1>7
    <2>2. UNCHANGED stack
      BY <1>1 DEF program
    <2>3. KeptFrame'.thread = t => Describes(KeptFrame, t)'
      BY <1>3, <2>1, <2>2 DEF Describes, HasFrame, Position
    <2> QED  BY <1>2, <1>3, <1>4, <1>6, <2>3 DEF KeptWell, InDebugger
  <1> QED  BY <1>1, <1>2, <1>8, InsideKept DEF TInv

LEMMA EvaluateKept ==
  ASSUME TInv, IInv, FInv, NEW t \in Threads, NEW n \in Depths, NEW purpose \in Purpose,
         Evaluate(t, n, purpose), purpose[1] # "print", fresh' = fresh
  PROVE  FInv'
  <1>1. /\ pc[t] = "stopped" /\ pc' = [pc EXCEPT ![t] = "creating"] /\ pc[CMD] = "read"
        /\ UNCHANGED <<program, session>> /\ CreateFrame(t, CurrentThread(t), n, purpose)
    BY DEF Evaluate, Goto
  <1>2. CurrentThread(t) \in Threads
    BY CurrentThreadTypes DEF TInv
  <1> QED  BY <1>1, <1>2, BeginKept

LEMMA CommandKept ==
  ASSUME TInv, IInv, FInv, NEW t \in Threads
  PROVE  /\ \A num \in Int : SelectFrame(t, num) => FInv'
         /\ KeepFrame(t) => FInv'
         /\ \A k \in Names : ReadName(t, k) => FInv'
  <1>1. depth \in Depths
    BY DEF TInv, TypeOK
  <1>2. ASSUME NEW num \in Int, SelectFrame(t, num) PROVE FInv'
    <2> DEFINE purpose == <<"select", num>>
    <2>1. num \in Depths /\ Evaluate(t, num, purpose)
      BY <1>2 DEF SelectFrame
    <2>2. purpose \in Purpose /\ purpose[1] # "print"
      BY <2>1 DEF Purpose
    <2> HIDE DEF purpose
    <2> QED  BY <2>1, <2>2, EvaluateKept DEF Evaluate
  <1>3. ASSUME KeepFrame(t) PROVE FInv'
    <2> DEFINE purpose == <<"keep", Nil>>
    <2>1. purpose \in Purpose /\ purpose[1] # "print"
      BY DEF Purpose
    <2>2. Evaluate(t, depth, purpose)
      BY <1>3 DEF KeepFrame
    <2> HIDE DEF purpose
    <2> QED  BY <1>1, <2>1, <2>2, EvaluateKept DEF Evaluate
  <1>4. ASSUME NEW k \in Names, ReadName(t, k) PROVE FInv'
    <2> DEFINE purpose == <<"read", k>>
    <2>1. purpose \in Purpose /\ purpose[1] # "print"
      BY DEF Purpose
    <2>2. Evaluate(t, depth, purpose)
      BY <1>4 DEF ReadName
    <2> HIDE DEF purpose
    <2> QED  BY <1>1, <2>1, <2>2, EvaluateKept DEF Evaluate
  <1> QED  BY <1>2, <1>3, <1>4

\* The steps that concern no Frame.
LEMMA ElsewhereKept ==
  ASSUME TInv, FInv, UNCHANGED <<self, todo, kept, fresh, debugThread>>, pc'[CMD] = pc[CMD],
         \A u \in Threads : \/ pc'[u] = pc[u] /\ stack'[u] = stack[u]
                            \/ {pc[u], pc'[u]} \cap {"print", "stopped", "creating"} = {}
  PROVE  FInv'
  <1>1. KeptFrame' = KeptFrame
    BY DEF KeptFrame
  <1>2. ASSUME NEW u \in Threads, pc'[u] = pc[u], stack'[u] = stack[u], NEW f
        PROVE  Describes(f, u)' = Describes(f, u)
    BY <1>2 DEF Describes, HasFrame, Position
  <1>3. Led'
    BY DEF FInv, Led
  <1>4. Line'
    <2> SUFFICES ASSUME NEW u \in Threads, pc'[u] = "creating"
                 PROVE  IF todo[u][2][1] = "print" THEN ~fresh
                        ELSE /\ pc[CMD] = "read" /\ kept # Alias /\ self \in Frame
                             /\ todo[u][1] = u => Describes(self, u)'
      BY DEF Line, Describes, HasFrame, Position
    <2>1. pc[u] = "creating" /\ pc'[u] = pc[u] /\ stack'[u] = stack[u]
      OBVIOUS
    <2>2. Describes(self, u) => Describes(self, u)'
      BY <2>1 DEF Describes, HasFrame, Position
    <2> QED  BY <2>1, <2>2 DEF FInv, Line
  <1>5. Fresh'
    <2>1. ASSUME NEW u \in Threads, KeptWell(u) PROVE KeptWell(u)'
      <3>1. pc'[u] = pc[u] /\ stack'[u] = stack[u]
        BY <2>1 DEF KeptWell, InDebugger
      <3> QED  BY <1>1, <2>1, <3>1 DEF KeptWell, InDebugger, Describes, HasFrame, Position
    <2> QED  BY <2>1 DEF FInv, Fresh
  <1> QED  BY <1>3, <1>4, <1>5 DEF FInv

LEMMA OutsideKept ==
  ASSUME TInv, FInv, NEW t \in Threads,
         \/ RunProgram(t) \/ Callback(t, "breakpoint") \/ Callback(t, "step")
         \/ \E k \in Names : ReadThroughFrame(t, k)
         \/ \E val : ForceReturn(t, val)
  PROVE  FInv'
  <1>1. UNCHANGED <<self, todo, kept, fresh, debugThread>> /\ pc'[CMD] = pc[CMD]
    BY InspectionAssumption DEF RunProgram, Callback, ReadThroughFrame, ForceReturn, Goto,
         TInv, TypeOK, session, history
  <1>2. \A u \in Threads : u # t => pc'[u] = pc[u] /\ stack'[u] = stack[u]
    BY DEF RunProgram, Callback, ReadThroughFrame, ForceReturn, Goto, TInv, TypeOK, program
  <1>3. \/ pc'[t] = pc[t] /\ stack'[t] = stack[t]
        \/ pc[t] = "run" /\ pc'[t] \in {"run", "ended", "enter"}
    BY DEF RunProgram, Callback, ReadThroughFrame, ForceReturn, Goto, TInv, TypeOK, program
  <1> QED  BY <1>1, <1>2, <1>3, ElsewhereKept

LEMMA InterpreterKept ==
  ASSUME TInv, IInv, FInv,
         \/ CheckEvaluates \/ OtherLine \/ ThreadInspected
         \/ \E w \in Threads, n \in 1..MaxFrames : InspectThread(w, n)
  PROVE  FInv'
  <1>1. debugThread' = debugThread /\ \A u \in Threads : pc'[u] = pc[u] /\ todo'[u] = todo[u]
    BY InspectionAssumption DEF CheckEvaluates, OtherLine, ThreadInspected, InspectThread,
         InterpreterOnly, Goto, CreateFrame, FinishFrame, TInv, TypeOK, session
  <1>2. pc[CMD] # "read" \/ debugThread = Nil
    BY DEF CheckEvaluates, OtherLine, ThreadInspected, InspectThread, Goto
  <1>3. \A u \in Threads : pc[u] = "creating" => todo[u][2][1] = "print"
    BY <1>2 DEF FInv, Line, Led
  <1>4. ~fresh
    BY <1>2 DEF FInv, Fresh, KeptWell, InDebugger, Led
  <1>5. ~fresh'
    BY <1>4 DEF CheckEvaluates, OtherLine, ThreadInspected, InspectThread
  <1> QED  BY <1>1, <1>3, <1>5 DEF FInv, Led, Line, Fresh

LEMMA KeptStep == TInv /\ IInv /\ FInv /\ [Next]_vars => FInv'
  <1> SUFFICES ASSUME TInv, IInv, FInv, [Next]_vars PROVE FInv'
    OBVIOUS
  <1>1. depth + 1 \in Int /\ depth - 1 \in Int
    BY InspectionAssumption DEF TInv, TypeOK, Depths
  <1>2. ASSUME UNCHANGED vars PROVE FInv'
    BY <1>2, ElsewhereKept DEF vars, program, session, history
  <1> QED  BY <1>1, <1>2, InsideActionKept, LineOverKept, FrameKeptKept, CommandKept, OutsideKept,
              InterpreterKept DEF Next

\* A Frame remains the frame it says while the stop it was made in lasts.
THEOREM KeptFrameIsRight == Spec => []FrameIsWhatItSays
  <1>1. TInv /\ IInv /\ FInv => FrameIsWhatItSays
    <2> SUFFICES ASSUME TInv, IInv, FInv, fresh, KeptFrame.thread # Nil,
                        InDebugger(KeptFrame.thread)
                 PROVE  Holds(KeptFrame)
      BY DEF FrameIsWhatItSays
    <2>1. PICK t \in Threads : KeptWell(t)
      BY DEF FInv, Fresh
    <2>2. KeptFrame.thread \in Threads
      BY <2>1 DEF KeptWell, Frame
    <2>3. KeptFrame.thread = t
      BY <2>1, <2>2 DEF KeptWell, InDebugger, IInv, Inside
    <2> QED  BY <2>1, <2>3 DEF KeptWell, Describes, Holds
  <1> QED  BY <1>1, InitTypes, TypeStep, InitSelection, SelectionStep, InitKept, KeptStep, PTL DEF Spec

\* force_return() on a Frame of the stop in progress makes that very frame return.
THEOREM ReturnIsForcedThere == Spec => ForcesTheFrameAsked
  <1> DEFINE A == \A t \in Threads : early[t] = Nil /\ early'[t] # Nil /\ fresh
                    => /\ KeptFrame.thread = t /\ KeptFrame.method = stack[t][1].method
                       /\ Position(t, KeptFrame.depth) = 1
  <1>1. ASSUME TInv, IInv, FInv, [Next]_vars PROVE [A]_vars
    <2> SUFFICES ASSUME NEW t \in Threads, early[t] = Nil, early'[t] # Nil, fresh
                 PROVE  /\ KeptFrame.thread = t /\ KeptFrame.method = stack[t][1].method
                        /\ Position(t, KeptFrame.depth) = 1
      OBVIOUS
    <2>1. PICK val \in {"String", "object", "lua"} : ForceReturn(t, val)
      <3>1. ASSUME NEW u \in Threads,
                   \/ RunProgram(u) \/ Callback(u, "breakpoint") \/ Callback(u, "step")
                   \/ EnterDebugger(u) \/ PrintFrame(u) \/ PrintNothing(u)
                   \/ FramePrinted(u) \/ PrintFails(u) \/ NoStack(u)
                   \/ SelectFrame(u, depth + 1) \/ SelectFrame(u, depth - 1) \/ FrameSelected(u)
                   \/ KeepFrame(u) \/ FrameKept(u) \/ NameRead(u)
                   \/ \E k \in Names : ReadName(u, k) \/ ReadThroughFrame(u, k)
            PROVE  early' = early
        BY <3>1 DEF RunProgram, Callback, EnterDebugger, PrintFrame, PrintNothing, FramePrinted,
             PrintFails, NoStack, BreakOff, SelectFrame, Evaluate, FrameSelected, KeepFrame, FrameKept,
             NameRead, ReadName, ReadThroughFrame, program
      <3>2. ASSUME \/ CheckEvaluates \/ OtherLine \/ ThreadInspected
                   \/ \E w \in Threads, n \in 1..MaxFrames : InspectThread(w, n)
            PROVE  early' = early
        BY <3>2 DEF CheckEvaluates, OtherLine, ThreadInspected, InspectThread, InterpreterOnly, program
      <3>3. ASSUME NEW u \in Threads, Resume(u) PROVE early'[t] = Nil \/ early'[t] = early[t]
        BY <3>3, <1>1 DEF Resume, TInv, TypeOK
      <3>4. ASSUME NEW u \in Threads, NEW val, ForceReturn(u, val), u # t
            PROVE  early'[t] = early[t]
        BY <3>4, <1>1 DEF ForceReturn, TInv, TypeOK
      <3>5. UNCHANGED vars => early' = early
        BY DEF vars, program
      <3> QED  BY <1>1, <3>1, <3>2, <3>3, <3>4, <3>5 DEF Next
    <2>2. /\ pc[t] = "stopped" /\ KeptFrame.thread = t /\ KeptFrame.depth = 1
      BY <2>1 DEF ForceReturn
    <2>3. KeptWell(t)
      BY <1>1, <2>2, KeptByOwner DEF IInv, Inside
    <2> QED  BY <2>2, <2>3 DEF KeptWell, Describes, Position
  <1> QED  BY <1>1, InitTypes, TypeStep, InitSelection, SelectionStep, InitKept, KeptStep, PTL
              DEF Spec, ForcesTheFrameAsked

---------------------------------------------------------------------------
(* The value of a local variable *)

\* A name declared once is found at its declaration.
LEMMA OneDeclaration ==
  ASSUME NEW m \in Methods, NEW k, DeclaredOnce(m, k)
  PROVE  /\ VariableNamed(m, k) \in Entries(m) /\ VariableNamed(m, k).name = k
         /\ \A w \in Entries(m) : w.name = k => w = VariableNamed(m, k)
         /\ k = "this" => VariableNamed(m, k).slot = 0 /\ VariableNamed(m, k).kind = "object"
  <1> DEFINE named == {i \in DOMAIN Variables[m] : Variables[m][i].name = k}
  <1>1. IsFiniteSet(named)
    <2>1. Len(Variables[m]) \in Nat /\ named \subseteq 1..Len(Variables[m])
      BY InspectionAssumption
    <2> QED  BY <2>1, FS_Interval, FS_Subset
  <1>2. PICK i : named = {i}
    BY <1>1, FS_Singleton DEF DeclaredOnce
  <1>3. i \in DOMAIN Variables[m] /\ i \in Nat /\ Variables[m][i].name = k
    <2>1. i \in named
      BY <1>2
    <2>2. DOMAIN Variables[m] \subseteq Nat
      BY InspectionAssumption
    <2> QED  BY <2>1, <2>2
  <1>4. VariableNamed(m, k) = Variables[m][i]
    <2>1. (CHOOSE c \in named : \A j \in named : j <= c) = i
      BY <1>2, <1>3
    <2> QED  BY <2>1 DEF VariableNamed
  <1>5. \A w \in Entries(m) : w.name = k => w = Variables[m][i]
    BY <1>2 DEF Entries
  <1> QED  BY <1>3, <1>4, <1>5, ThisAssumption DEF Entries

\* What a thread reads of its own stack under a name declared once is the
\* variable of that name, or what has its slot when it is out of scope.
LEMMA ReadRight ==
  ASSUME TypeOK, NEW t \in Threads, NEW f \in Frame, NEW k, f.thread = t, Describes(f, t),
         DeclaredOnce(f.method, k), NEW value,
         LET v == VariableNamed(f.method, k) IN value = GetLocal(t, f.depth, v.slot, v.kind),
         value # Raised
  PROVE  value = InProgram(f, k) \/ (InProgram(f, k) = Nil /\ SlotShared(f.method, k))
  <1> DEFINE v == VariableNamed(f.method, k)
             n == f.depth
             at == stack[t][n]
             found == {x \in Alive(at) : x.name = k}
  <1>1. f.method \in Methods
    BY DEF Frame
  <1>2. v \in Entries(f.method) /\ v.name = k /\ \A w \in Entries(f.method) : w.name = k => w = v
    BY <1>1, OneDeclaration
  <1>3. n \in 1..Len(stack[t])
    BY DEF GetLocal
  <1>4. Position(t, n) = n /\ at.method = f.method
    BY <1>3 DEF Describes, Position
  <1>5. Alive(at) \subseteq Entries(f.method)
    BY <1>4 DEF Alive
  <1>6. InProgram(f, k) = IF found = {} THEN Nil
                          ELSE <<t, Len(stack[t]) - n, (CHOOSE x \in found : TRUE).slot>>
    BY <1>4 DEF InProgram, Found
  <1>7. value = IF \E u \in Alive(at) : u.slot = v.slot /\ u.kind = v.kind
                THEN <<t, Len(stack[t]) - n, v.slot>> ELSE Nil
    BY <1>3 DEF GetLocal
  <1>8. CASE v \in Alive(at)
    <2>1. found = {v}
      BY <1>2, <1>5, <1>8
    <2> HIDE DEF found
    <2>2. (CHOOSE x \in found : TRUE) = v
      BY <2>1
    <2> QED  BY <1>6, <1>7, <1>8, <2>1, <2>2
  <1>9. CASE v \notin Alive(at)
    <2>1. found = {}
      BY <1>2, <1>5, <1>9
    <2>2. ASSUME NEW u \in Alive(at), u.slot = v.slot PROVE SlotShared(f.method, k)
      <3>1. u \in Entries(f.method) /\ u # v
        BY <1>5, <1>9
      <3> QED  BY <1>2, <2>2, <3>1 DEF SlotShared
    <2> QED  BY <1>6, <1>7, <2>1, <2>2
  <1> QED  BY <1>8, <1>9

\* A Frame that is complete has a thread.
Whole(f) == f \in Frame /\ f.complete => f.thread \in Threads

\* A thread that evaluates lines.
AtLines(t) == pc[t] = "stopped" \/ (pc[t] = "creating" /\ todo[t][2][1] # "print")

RightFor(t) ==
  shown.frame.thread = t /\ Describes(shown.frame, t) => OfItsFrame \/ shown.from # t

\* What is shown was read in the stop that lasts.
ShownWell == shown # Nil => shown.frame.thread \in Threads /\ \E t \in Threads : AtLines(t) /\ RightFor(t)

LInv == Whole(self) /\ Whole(kept) /\ ShownWell

LEMMA InitShown == Init => LInv
  BY InspectionAssumption DEF Init, LInv, Whole, ShownWell

LEMMA WholeCreate ==
  ASSUME TInv, LInv, NEW e \in Executors, NEW w \in Threads, NEW n \in Int,
         NEW purpose \in Purpose, CreateFrame(e, w, n, purpose)
  PROVE  Whole(self)' /\ Whole(kept)'
  <1>1. self' \in Frame => ~self'.complete
    BY DEF CreateFrame
  <1> QED  BY <1>1 DEF CreateFrame, LInv, Whole

LEMMA WholeFinish ==
  ASSUME TInv, LInv, NEW e \in Executors, NEW op, FinishFrame(e, op)
  PROVE  Whole(self)' /\ Whole(Created(e))
  <1>1. self \in Frame /\ todo[e][1] \in Threads
    BY DEF FinishFrame, TInv, Making
  <1>2. Created(e).thread \in Threads
    BY <1>1, CreatedIs
  <1>3. self' \in {Created(e), Nil}
    BY DEF FinishFrame
  <1> QED  BY <1>2, <1>3, InspectionAssumption DEF Whole

\* Steps that leave what is shown, and the thread that looks at it, alone.
LEMMA ShownStays ==
  ASSUME LInv, shown' = shown,
         \A t \in Threads : AtLines(t) => AtLines(t)' /\ stack'[t] = stack[t]
  PROVE  ShownWell'
  <1>1. ASSUME NEW t \in Threads, AtLines(t), RightFor(t)
        PROVE  AtLines(t)' /\ RightFor(t)'
    BY <1>1 DEF RightFor, Describes, HasFrame, Position, OfItsFrame, InProgram
  <1> QED  BY <1>1 DEF LInv, ShownWell

\* Who evaluates lines is the only one inside the debugger.
LEMMA OneAtLines ==
  ASSUME IInv, NEW t \in Threads, pc[t] \in {"print", "stopped", "creating"} \/ owner \in {t, Nil}
  PROVE  \A u \in Threads : AtLines(u) => u = t
  BY InspectionAssumption DEF IInv, Inside, AtLines

\* A variable is read through a Frame, and shown.
LEMMA ReadShown ==
  ASSUME TInv, LInv, NEW t \in Threads, NEW f \in Frame, NEW k, f.thread \in Threads,
         UNCHANGED stack, AtLines(t)',
         NEW value, Show(f, k, value),
         \/ k = "this" /\ value = GetLocal(current, f.depth, 0, "object")
         \/ value = LocalOf(f, k)
  PROVE  ShownWell'
  <1> SUFFICES ASSUME shown' # Nil PROVE shown'.frame.thread \in Threads /\ RightFor(t)'
    BY DEF ShownWell
  <1>1. value # Raised /\ shown' = [frame |-> f, name |-> k, from |-> current, value |-> value]
    BY DEF Show
  <1>2. /\ shown'.frame = f /\ shown'.name = k /\ shown'.from = current /\ shown'.value = value
    BY <1>1
  <1>3. ASSUME f.thread = t, Describes(f, t), current = t, DeclaredOnce(f.method, k)
        PROVE  value = InProgram(f, k) \/ (InProgram(f, k) = Nil /\ SlotShared(f.method, k))
    <2> DEFINE v == VariableNamed(f.method, k)
    <2>1. f.method \in Methods
      BY DEF Frame
    <2>2. k = "this" => v.slot = 0 /\ v.kind = "object"
      BY <1>3, <2>1, OneDeclaration
    <2>3. value = GetLocal(t, f.depth, v.slot, v.kind)
      BY <1>3, <2>2 DEF LocalOf
    <2> QED  BY <1>1, <1>3, <2>3, ReadRight DEF TInv
  <1>4. Describes(f, t)' = Describes(f, t) /\ InProgram(f, k)' = InProgram(f, k)
    BY DEF Describes, HasFrame, Position, InProgram
  <1>5. RightFor(t)'
    <2> SUFFICES ASSUME f.thread = t, Describes(f, t), current = t PROVE OfItsFrame'
      BY <1>2, <1>4 DEF RightFor, Describes, HasFrame, Position
    <2>1. \/ value = InProgram(f, k) \/ ~DeclaredOnce(f.method, k)
          \/ InProgram(f, k) = Nil /\ SlotShared(f.method, k)
      BY <1>3
    <2>2. InProgram(f, k)' = InProgram(shown.frame, shown.name)'
      BY <1>2 DEF InProgram, Position
    <2> QED  BY <1>2, <1>4, <2>1, <2>2 DEF OfItsFrame
  <1> QED  BY <1>2, <1>5

LEMMA ElsewhereShown ==
  ASSUME TInv, IInv, LInv, NEW t \in Threads,
         \/ RunProgram(t) \/ Callback(t, "breakpoint") \/ Callback(t, "step")
         \/ \E val : ForceReturn(t, val)
  PROVE  LInv'
  <1>1. UNCHANGED <<self, kept, shown, todo>>
    BY DEF RunProgram, Callback, ForceReturn
  <1>2. ASSUME NEW u \in Threads, AtLines(u) PROVE pc'[u] = pc[u] /\ stack'[u] = stack[u]
    BY <1>2 DEF AtLines, RunProgram, Callback, ForceReturn, Goto, TInv, TypeOK, program
  <1>3. ShownWell'
    BY <1>1, <1>2, ShownStays DEF AtLines
  <1> QED  BY <1>1, <1>3 DEF LInv, Whole

\* Nothing is shown when a callback comes in and while it prints its frame.
LEMMA ComingInShown ==
  ASSUME TInv, IInv, LInv, NEW t \in Threads,
         \/ EnterDebugger(t) \/ PrintFrame(t) \/ PrintNothing(t)
         \/ FramePrinted(t) \/ PrintFails(t) \/ NoStack(t) \/ Resume(t)
  PROVE  LInv'
  <1>1. shown' = shown \/ shown' = Nil
    BY DEF EnterDebugger, PrintFrame, PrintNothing, FramePrinted, PrintFails, NoStack, BreakOff, Resume
  <1>2. \/ Resume(t)
        \/ owner \in {t, Nil} /\ pc[t] = "enter"
        \/ pc[t] = "print"
        \/ pc[t] = "creating" /\ todo[t][2][1] = "print"
    BY DEF EnterDebugger, PrintFrame, PrintNothing, FramePrinted, PrintFails, NoStack, FinishFrame, Goto
  <1>3. Resume(t) => shown' = Nil
    BY DEF Resume
  <1>4. ~Resume(t) => \A u \in Threads : ~AtLines(u)
    BY <1>2, OneAtLines DEF AtLines
  <1>5. ShownWell'
    BY <1>1, <1>3, <1>4 DEF LInv, ShownWell
  <1>6. Whole(self)' /\ Whole(kept)'
    <2>1. ASSUME PrintFrame(t) PROVE Whole(self)' /\ Whole(kept)'
      <3> DEFINE purpose == <<"print", Nil>>
      <3>1. purpose \in Purpose
        BY DEF Purpose
      <3>2. CreateFrame(t, CurrentThread(t), depth, purpose)
        BY <2>1 DEF PrintFrame
      <3>3. depth \in Depths
        BY DEF TInv, TypeOK
      <3>4. depth \in Int
        BY <3>3, InspectionAssumption DEF Depths
      <3>5. CurrentThread(t) \in Threads /\ t \in Executors
        BY CurrentThreadTypes DEF TInv, Executors
      <3> HIDE DEF purpose
      <3> QED  BY <3>1, <3>2, <3>4, <3>5, WholeCreate
    <2>2. ASSUME FramePrinted(t) \/ PrintFails(t) PROVE Whole(self)' /\ Whole(kept)'
      <3>1. t \in Executors /\ FinishFrame(t, "print") /\ kept' = kept
        BY <2>2 DEF FramePrinted, PrintFails, Executors
      <3> QED  BY <3>1, WholeFinish DEF LInv, Whole
    <2>3. EnterDebugger(t) \/ PrintNothing(t) \/ NoStack(t) \/ Resume(t)
            => UNCHANGED <<self, kept>>
      BY DEF EnterDebugger, PrintNothing, NoStack, Resume
    <2> QED  BY <2>1, <2>2, <2>3 DEF LInv, Whole
  <1> QED  BY <1>5, <1>6 DEF LInv

LEMMA EvaluateShown ==
  ASSUME TInv, IInv, LInv, NEW t \in Threads, NEW n \in Depths, NEW purpose \in Purpose,
         Evaluate(t, n, purpose), purpose[1] # "print", shown' = shown
  PROVE  LInv'
  <1>1. /\ pc[t] = "stopped" /\ pc' = [pc EXCEPT ![t] = "creating"] /\ stack' = stack
        /\ CreateFrame(t, CurrentThread(t), n, purpose)
    BY DEF Evaluate, Goto, program
  <1>2. CurrentThread(t) \in Threads /\ n \in Int /\ t \in Executors
    BY CurrentThreadTypes, InspectionAssumption DEF TInv, Depths, Executors
  <1>3. Whole(self)' /\ Whole(kept)'
    BY <1>1, <1>2, WholeCreate
  <1>4. todo'[t] = <<CurrentThread(t), purpose>> /\ pc'[t] = "creating"
    BY <1>1 DEF CreateFrame, TInv, TypeOK
  <1>5. AtLines(t)'
    <2>1. todo'[t][2] = purpose
      BY <1>4
    <2> QED  BY <1>4, <2>1 DEF AtLines
  <1>6. \A u \in Threads : AtLines(u) => u = t
    BY <1>1, OneAtLines
  <1>7. ShownWell'
    BY <1>1, <1>5, <1>6, ShownStays
  <1> QED  BY <1>3, <1>7 DEF LInv

LEMMA CommandShown ==
  ASSUME TInv, IInv, LInv, NEW t \in Threads
  PROVE  /\ \A num \in Int : SelectFrame(t, num) => LInv'
         /\ KeepFrame(t) => LInv'
         /\ \A k \in Names : ReadName(t, k) => LInv'
  <1>1. depth \in Depths
    BY DEF TInv, TypeOK
  <1>2. ASSUME NEW num \in Int, SelectFrame(t, num) PROVE LInv'
    <2> DEFINE purpose == <<"select", num>>
    <2>1. num \in Depths /\ Evaluate(t, num, purpose)
      BY <1>2 DEF SelectFrame
    <2>2. purpose \in Purpose /\ purpose[1] # "print"
      BY <2>1 DEF Purpose
    <2> HIDE DEF purpose
    <2> QED  BY <2>1, <2>2, EvaluateShown DEF Evaluate
  <1>3. ASSUME KeepFrame(t) PROVE LInv'
    <2> DEFINE purpose == <<"keep", Nil>>
    <2>1. purpose \in Purpose /\ purpose[1] # "print"
      BY DEF Purpose
    <2>2. Evaluate(t, depth, purpose)
      BY <1>3 DEF KeepFrame
    <2> HIDE DEF purpose
    <2> QED  BY <1>1, <2>1, <2>2, EvaluateShown DEF Evaluate
  <1>4. ASSUME NEW k \in Names, ReadName(t, k) PROVE LInv'
    <2> DEFINE purpose == <<"read", k>>
    <2>1. purpose \in Purpose /\ purpose[1] # "print"
      BY DEF Purpose
    <2>2. Evaluate(t, depth, purpose)
      BY <1>4 DEF ReadName
    <2> HIDE DEF purpose
    <2> QED  BY <1>1, <2>1, <2>2, EvaluateShown DEF Evaluate
  <1> QED  BY <1>2, <1>3, <1>4

\* A line that needed a Frame is over.
LEMMA LineOverShown ==
  ASSUME TInv, IInv, LInv, NEW t \in Threads, FrameSelected(t) \/ FrameKept(t) \/ NameRead(t)
  PROVE  LInv'
  <1>1. /\ pc[t] = "creating" /\ todo[t][2][1] # "print"
        /\ pc' = [pc EXCEPT ![t] = "stopped"] /\ stack' = stack
    BY DEF FrameSelected, FrameKept, NameRead, FinishFrame, Goto, program
  <1>2. AtLines(t)'
    BY <1>1 DEF AtLines, TInv, TypeOK
  <1>3. \A u \in Threads : AtLines(u) => u = t
    BY <1>1, OneAtLines
  <1>4. PICK op \in {"select", "keep", "read"} : FinishFrame(t, op)
    BY DEF FrameSelected, FrameKept, NameRead
  <1>5. Whole(self)' /\ Whole(Created(t)) /\ Created(t) \in Frame /\ t \in Executors
    BY <1>4, WholeFinish, FinishTypes DEF Executors
  <1>6. Whole(kept)'
    <2>1. kept' \in {kept, Alias}
      BY DEF FrameSelected, FrameKept, NameRead
    <2> QED  BY <2>1, InspectionAssumption DEF LInv, Whole
  <1>7. CASE FrameSelected(t) \/ FrameKept(t)
    <2>1. shown' = shown
      BY <1>7 DEF FrameSelected, FrameKept
    <2>2. ShownWell'
      BY <1>1, <1>2, <1>3, <2>1, ShownStays
    <2> QED  BY <1>5, <1>6, <2>2 DEF LInv
  <1>8. CASE NameRead(t)
    <2> DEFINE f == Created(t)
               k == todo[t][2][2]
    <2>1. f.thread \in Threads
      BY <1>1, <1>5, CreatedIs DEF TInv, Making
    <2>2. \/ Show(f, k, GetLocal(current, f.depth, 0, "object")) /\ k = "this"
          \/ Show(f, k, LocalOf(f, k))
          \/ shown' = Nil
      BY <1>8 DEF NameRead
    <2> HIDE DEF f, k
    <2>3. ShownWell'
      <3>1. CASE shown' = Nil
        BY <3>1 DEF ShownWell
      <3>2. f \in Frame
        BY <1>5 DEF f
      <3> QED  BY <1>1, <1>2, <2>1, <2>2, <3>1, <3>2, ReadShown
    <2> QED  BY <1>5, <1>6, <2>3 DEF LInv
  <1> QED  BY <1>7, <1>8

LEMMA ThroughFrameShown ==
  ASSUME TInv, IInv, LInv, NEW t \in Threads, NEW k \in Names, ReadThroughFrame(t, k)
  PROVE  LInv'
  <1>1. /\ pc[t] = "stopped" /\ pc' = pc /\ UNCHANGED <<stack, self, todo, kept>>
        /\ KeptFrame # Nil /\ KeptFrame.complete /\ Show(KeptFrame, k, LocalOf(KeptFrame, k))
    BY DEF ReadThroughFrame, program
  <1>2. KeptFrame \in Frame /\ KeptFrame.thread \in Threads
    BY <1>1 DEF KeptFrame, TInv, TypeOK, AliasHolds, LInv, Whole
  <1>3. AtLines(t)'
    BY <1>1 DEF AtLines
  <1>4. ShownWell'
    BY <1>1, <1>2, <1>3, ReadShown
  <1> QED  BY <1>1, <1>4 DEF LInv, Whole

LEMMA InterpreterShown ==
  ASSUME TInv, IInv, LInv,
         \/ CheckEvaluates \/ OtherLine \/ ThreadInspected
         \/ \E w \in Threads, n \in 1..MaxFrames : InspectThread(w, n)
  PROVE  LInv'
  <1>1. /\ UNCHANGED <<stack, shown>>
        /\ \A u \in Threads : pc'[u] = pc[u] /\ todo'[u] = todo[u]
    BY InspectionAssumption DEF CheckEvaluates, OtherLine, ThreadInspected, InspectThread,
         InterpreterOnly, Goto, CreateFrame, FinishFrame, TInv, TypeOK, program
  <1>2. ShownWell'
    BY <1>1, ShownStays DEF AtLines
  <1>3. CMD \in Executors
    BY DEF Executors
  <1>4. Whole(self)' /\ Whole(kept)'
    <2>1. ASSUME NEW w \in Threads, NEW n \in 1..MaxFrames, InspectThread(w, n)
          PROVE  Whole(self)' /\ Whole(kept)'
      <3> DEFINE purpose == <<"keep", Nil>>
      <3>1. purpose \in Purpose
        BY DEF Purpose
      <3>2. CreateFrame(CMD, w, n, purpose)
        BY <2>1 DEF InspectThread
      <3>3. n \in Int
        BY InspectionAssumption
      <3> HIDE DEF purpose
      <3> QED  BY <1>3, <3>1, <3>2, <3>3, WholeCreate
    <2>2. ASSUME ThreadInspected PROVE Whole(self)' /\ Whole(kept)'
      <3>1. FinishFrame(CMD, "keep") /\ kept' = Alias
        BY <2>2 DEF ThreadInspected
      <3>2. Whole(self)'
        BY <1>3, <3>1, WholeFinish
      <3> QED  BY <3>1, <3>2, InspectionAssumption DEF Whole
    <2>3. CheckEvaluates \/ OtherLine => UNCHANGED <<self, kept>>
      BY DEF CheckEvaluates, OtherLine
    <2> QED  BY <2>1, <2>2, <2>3 DEF LInv, Whole
  <1> QED  BY <1>2, <1>4 DEF LInv

LEMMA ShownStep == TInv /\ IInv /\ LInv /\ [Next]_vars => LInv'
  <1> SUFFICES ASSUME TInv, IInv, LInv, [Next]_vars PROVE LInv'
    OBVIOUS
  <1>1. depth + 1 \in Int /\ depth - 1 \in Int
    BY InspectionAssumption DEF TInv, TypeOK, Depths
  <1>2. ASSUME UNCHANGED vars PROVE LInv'
    <2>1. UNCHANGED <<shown, stack, pc, todo, self, kept>>
      BY <1>2 DEF vars, program
    <2>2. ShownWell'
      BY <2>1, ShownStays DEF AtLines
    <2> QED  BY <2>1, <2>2 DEF LInv, Whole
  <1> QED  BY <1>1, <1>2, ElsewhereShown, ComingInShown, CommandShown, LineOverShown,
              ThroughFrameShown, InterpreterShown DEF Next

\* The value shown for a name is that of the frame it was read from, but for the
\* names LocalIsRight exempts and unless another thread's callback has come in.
THEOREM LocalIsTheFrames == Spec => []LocalIsRight
  <1>1. TInv /\ IInv /\ LInv => LocalIsRight
    <2> SUFFICES ASSUME TInv, IInv, LInv, shown # Nil, InDebugger(shown.frame.thread),
                        Holds(shown.frame)
                 PROVE  OfItsFrame \/ shown.from # shown.frame.thread
      BY DEF LocalIsRight
    <2>1. shown.frame.thread \in Threads
      BY DEF LInv, ShownWell
    <2>2. PICK t \in Threads : AtLines(t) /\ RightFor(t)
      BY DEF LInv, ShownWell
    <2>3. shown.frame.thread = t
      BY <2>1, <2>2 DEF InDebugger, AtLines, IInv, Inside
    <2> QED  BY <2>2, <2>3 DEF RightFor, Describes, Holds
  <1> QED  BY <1>1, InitTypes, TypeStep, InitSelection, SelectionStep, InitShown, ShownStep, PTL DEF Spec
===========================================================================

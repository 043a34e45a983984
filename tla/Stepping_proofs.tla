-------------------------- MODULE Stepping_proofs --------------------------
(* For any program: what Stepping's variables can be, that a step over a call
   keeps watching the callee, that the next line is not missed, and that a step
   stops where it was asked to.  The invariant follows the frame next_line() was called for: while it is on the
   stack, either single steps are on, or a frame above it is being watched. *)
EXTENDS Stepping, TLAPS

\* A step is under way: its frame is still on the stack.
UnderWay == asked # 0 /\ ~left /\ target # Nil

Watched ==
  exitCount > 0 => /\ registered = {"method_exit"}
                   /\ exitCount <= Len(frames)
                   /\ stoppedIn # "method_exit"
                   /\ stoppedIn = Nil => enabled = {"method_exit"}

Followed ==
  UnderWay =>
    /\ asked <= Len(frames)
    /\ frames[asked].method = method
    /\ \/ frames[asked].location < target
       \/ asked = Len(frames) /\ "single_step" \in pending
    /\ \/ exitCount > asked
       \/ /\ exitCount = 0
          /\ registered = Kinds
          /\ stoppedIn = Nil => "single_step" \in enabled

Stopped == stoppedIn # Nil => frames # <<>>

Inv == TypeOK /\ Watched /\ Followed /\ Stopped

LEMMA LocationsAreNumbers == AllLocations \subseteq Nat
  BY SteppingAssumption DEF AllLocations, Locations

\* What is turned on when a callback returns.
LEMMA ReenabledKinds ==
  ASSUME NEW on \in SUBSET Kinds, NEW kinds \in SUBSET Kinds
  PROVE  /\ Reenabled(on, kinds) \subseteq Kinds
         /\ "single_step" \in kinds => "single_step" \in Reenabled(on, kinds)
         /\ kinds = {"method_exit"} => Reenabled(on, kinds) = on \cup {"method_exit"}
  BY DEF Reenabled, Kinds

\* The innermost frame of a stack that has one.
LEMMA TopFrame ==
  ASSUME TypeOK, frames # <<>>
  PROVE  /\ Len(frames) \in Nat \ {0}
         /\ Top = frames[Len(frames)]
         /\ Top \in Frames
  BY DEF TypeOK, Top, Last

\* Popping the innermost frame.
LEMMA PoppedFrame ==
  ASSUME TypeOK, frames # <<>>
  PROVE  /\ Front(frames) \in Seq(Frames)
         /\ Len(Front(frames)) = Len(frames) - 1
         /\ \A i \in 1..(Len(frames) - 1) : Front(frames)[i] = frames[i]
  <1>1. Len(frames) \in Nat \ {0} /\ frames \in [1..Len(frames) -> Frames]
    BY DEF TypeOK
  <1>2. Front(frames) = [i \in 1..(Len(frames) - 1) |-> frames[i]]
    BY <1>1 DEF Front
  <1> QED  BY <1>1, <1>2

LEMMA InitInv == Init => Inv
  <1> SUFFICES ASSUME Init PROVE Inv
    OBVIOUS
  <1>1. 0 \in AllLocations
    BY SteppingAssumption DEF AllLocations, Locations
  <1>2. [method |-> Main, location |-> 0, called |-> FALSE] \in Frames
    BY <1>1, SteppingAssumption DEF Frames
  <1>3. frames \in Seq(Frames)
    BY <1>2 DEF Init
  <1>4. TypeOK
    <2>1. left \in BOOLEAN
      BY DEF Init
    <2>2. depth \in (1 - MaxDepth)..MaxDepth
      BY SteppingAssumption DEF Init
    <2> QED  BY <1>3, <2>1, <2>2 DEF Init, TypeOK, Kinds
  <1> QED  BY <1>4 DEF Init, Inv, Watched, Followed, UnderWay, Stopped

\* The program moves on, calls a method, or leaves one that nobody watches.
LEMMA MoveInv ==
  ASSUME Inv, NEW l \in AllLocations, Move(l)
  PROVE  Inv'
  <1> USE DEF Inv
  <1>1. Len(frames) \in Nat \ {0} /\ Top = frames[Len(frames)] /\ Top \in Frames
    BY TopFrame DEF Move, Executes, Runs
  <1>2. /\ frames' \in Seq(Frames)
        /\ Len(frames') = Len(frames)
        /\ frames'[Len(frames)].method = Top.method
        /\ \A i \in 1..(Len(frames) - 1) : frames'[i] = frames[i]
    <2> DEFINE there == [Top EXCEPT !.location = l, !.called = FALSE]
    <2>1. there \in Frames /\ there.method = Top.method
      BY <1>1 DEF Frames
    <2>2. frames' = [frames EXCEPT ![Len(frames)] = there]
      BY <1>1 DEF Move, ArriveAt
    <2> HIDE DEF there
    <2> QED  BY <1>1, <2>1, <2>2 DEF TypeOK
  <1>3. UNCHANGED <<stoppedIn, depth, asked, left, registered, enabled, exitCount, target, method>>
        /\ pending' = {"single_step", "breakpoint"} /\ stoppedIn = Nil
    BY DEF Move, ArriveAt, stepVars, Executes, Runs
  <1>4. TypeOK'
    BY <1>2, <1>3 DEF TypeOK
  <1>5. Watched' /\ Stopped'
    BY <1>1, <1>2, <1>3 DEF Watched, Stopped
  <1>6. Followed'
    BY <1>1, <1>2, <1>3 DEF Followed, UnderWay, TypeOK
  <1> QED  BY <1>4, <1>5, <1>6

\* When the program executes a location of the frame that is followed, single
\* steps are on and the line is not reached.
LEMMA BeforeTheLine ==
  ASSUME Inv, UnderWay, Executes, Len(frames) = asked
  PROVE  frames[asked].location < target
  BY DEF Inv, Followed, Watched, Executes, Runs, Due, TypeOK

LEMMA CallInv ==
  ASSUME Inv, NEW m \in Methods, Call(m)
  PROVE  Inv'
  <1> USE DEF Inv
  <1>1. Len(frames) \in Nat \ {0} /\ Top = frames[Len(frames)] /\ Top \in Frames
    BY TopFrame DEF Call, Executes, Runs
  <1> DEFINE below == [frames EXCEPT ![Len(frames)].called = TRUE]
             new   == [method |-> m, location |-> 0, called |-> FALSE]
  <1>2. 0 \in AllLocations
    BY SteppingAssumption DEF AllLocations, Locations
  <1>3. /\ below \in Seq(Frames) /\ Len(below) = Len(frames)
        /\ \A i \in 1..Len(frames) : /\ below[i].method = frames[i].method
                                     /\ below[i].location = frames[i].location
    <2> DEFINE caller == [Top EXCEPT !.called = TRUE]
    <2>1. /\ caller \in Frames
          /\ caller.method = Top.method /\ caller.location = Top.location
      BY <1>1 DEF Frames
    <2>2. below = [frames EXCEPT ![Len(frames)] = caller]
      BY <1>1
    <2> HIDE DEF caller, below
    <2> QED  BY <1>1, <2>1, <2>2 DEF TypeOK
  <1>4. new \in Frames
    BY <1>2 DEF Frames
  <1>5. frames' = Append(below, new)
    BY DEF Call
  <1> HIDE DEF below, new
  <1>6. /\ frames' \in Seq(Frames) /\ Len(frames') = Len(frames) + 1
        /\ \A i \in 1..Len(frames) : frames'[i] = below[i]
    BY <1>3, <1>4, <1>5
  <1>7. UNCHANGED <<stoppedIn, depth, asked, left, registered, enabled, exitCount, target, method>>
        /\ pending' \subseteq {"single_step", "breakpoint"} /\ stoppedIn = Nil
    BY DEF Call, stepVars, Executes, Runs
  <1>8. TypeOK'
    BY <1>6, <1>7 DEF TypeOK
  <1>9. Watched' /\ Stopped'
    BY <1>1, <1>6, <1>7 DEF Watched, Stopped, TypeOK
  <1>10. Followed'
    <2> SUFFICES ASSUME UnderWay' PROVE Followed'
      BY DEF Followed
    <2>1. UnderWay /\ asked \in 1..Len(frames)
      BY <1>1, <1>7 DEF UnderWay, Followed, TypeOK
    <2>2. frames[asked].location < target
      BY <2>1, BeforeTheLine, <1>1 DEF Followed, Call
    <2>3. frames'[asked].location < target /\ frames'[asked].method = frames[asked].method
      BY <2>1, <2>2, <1>3, <1>6
    <2> QED  BY <2>1, <2>3, <1>1, <1>6, <1>7 DEF Followed, UnderWay
  <1> QED  BY <1>8, <1>9, <1>10

\* Every way to leave a method keeps the step in sight, unless its frame goes.
LEMMA PopKeepsFollowing ==
  ASSUME Inv, frames # <<>>, frames' = Front(frames), pending' = {},
         UnderWay => left' \/ asked # Len(frames),
         UnderWay' => UnderWay, UNCHANGED <<asked, target, method>>,
         UnderWay /\ asked # Len(frames) => \/ frames[asked].location < target
  PROVE  UnderWay' => /\ asked <= Len(frames')
                      /\ frames'[asked].method = method
                      /\ frames'[asked].location < target
  <1>1. Len(frames) \in Nat \ {0}
    BY TopFrame DEF Inv
  <1> SUFFICES ASSUME UnderWay' PROVE
                 /\ asked <= Len(frames')
                 /\ frames'[asked].method = method
                 /\ frames'[asked].location < target
    OBVIOUS
  <1>2. UnderWay /\ asked # Len(frames) /\ asked \in 1..(Len(frames) - 1)
    BY <1>1 DEF Inv, UnderWay, Followed, TypeOK
  <1> QED  BY <1>1, <1>2, PoppedFrame DEF Inv, Followed

LEMMA LeavesUnnoticedInv ==
  ASSUME Inv, LeavesUnnoticed
  PROVE  Inv'
  <1>1. frames # <<>> /\ Len(frames) \in Nat \ {0} /\ stoppedIn = Nil
    BY TopFrame DEF Inv, LeavesUnnoticed, Leaves, Runs
  <1>2. /\ frames' \in Seq(Frames) /\ Len(frames') = Len(frames) - 1
        /\ pending' = {} /\ left' = (left \/ asked = Len(frames))
        /\ UNCHANGED <<stoppedIn, depth, asked, registered, enabled, exitCount, target, method>>
    BY <1>1, PoppedFrame DEF Inv, LeavesUnnoticed, PopFrame, stepVars
  <1>3. exitCount = 0
    BY <1>1 DEF Inv, Watched, TypeOK, LeavesUnnoticed
  <1>4. TypeOK'
    BY <1>2 DEF Inv, TypeOK
  <1>5. Watched' /\ Stopped'
    BY <1>1, <1>2, <1>3 DEF Inv, Watched, Stopped
  <1>6. UnderWay' => /\ asked <= Len(frames') /\ frames'[asked].method = method
                     /\ frames'[asked].location < target
    BY <1>1, <1>2, PopKeepsFollowing DEF Inv, UnderWay, Followed, LeavesUnnoticed, PopFrame
  <1>7. Followed'
    BY <1>1, <1>2, <1>3, <1>6 DEF Inv, Followed, UnderWay
  <1> QED  BY <1>4, <1>5, <1>7 DEF Inv

---------------------------------------------------------------------------
(* The callbacks *)

LEMMA NestedReturnsInv ==
  ASSUME Inv, NestedReturns
  PROVE  Inv'
  <1>1. frames # <<>> /\ Len(frames) \in Nat \ {0} /\ stoppedIn = Nil
    BY TopFrame DEF Inv, NestedReturns, Leaves, Runs
  <1>2. /\ frames' \in Seq(Frames) /\ Len(frames') = Len(frames) - 1
        /\ pending' = {} /\ left' = (left \/ asked = Len(frames))
        /\ UNCHANGED <<stoppedIn, depth, asked, target, method>>
    BY <1>1, PoppedFrame DEF Inv, NestedReturns, PopFrame
  <1>3. exitCount > 0 /\ exitCount <= Len(frames) /\ registered = {"method_exit"}
    BY DEF Inv, NestedReturns, Watched
  <1>4. UnderWay' => /\ asked <= Len(frames') /\ frames'[asked].method = method
                     /\ frames'[asked].location < target
    BY <1>1, <1>2, PopKeepsFollowing
       DEF Inv, UnderWay, Followed, NestedReturns, PopFrame
  <1>5. UnderWay' => exitCount > asked
    <2>1. UnderWay' => UnderWay
      BY <1>2 DEF UnderWay
    <2> QED  BY <1>3, <2>1 DEF Inv, TypeOK, Followed
  <1>6. CASE Len(frames) = exitCount
    <2>1. registered' = Kinds /\ exitCount' = 0 /\ enabled' = Reenabled(Kinds, Kinds)
      BY <1>6 DEF NestedReturns
    <2>2. enabled' \subseteq Kinds /\ "single_step" \in enabled'
      BY <2>1, ReenabledKinds DEF Kinds
    <2>3. TypeOK'
      BY <1>2, <2>1, <2>2 DEF Inv, TypeOK
    <2>4. Watched' /\ Stopped'
      BY <1>1, <1>2, <2>1 DEF Watched, Stopped
    <2> QED  BY <1>2, <1>4, <2>1, <2>2, <2>3, <2>4 DEF Inv, Followed, UnderWay
  <1>7. CASE Len(frames) # exitCount
    <2>1. registered' = registered /\ exitCount' = exitCount
          /\ enabled' = Reenabled({}, registered)
      BY <1>7 DEF NestedReturns
    <2>2. enabled' = {"method_exit"}
      BY <1>3, <2>1, ReenabledKinds DEF Kinds
    <2>3. TypeOK'
      BY <1>2, <2>1, <2>2 DEF Inv, TypeOK, Kinds
    <2>4. Watched' /\ Stopped'
      BY <1>1, <1>2, <1>3, <1>7, <2>1, <2>2 DEF Inv, TypeOK, Watched, Stopped
    <2> QED  BY <1>2, <1>4, <1>5, <2>1, <2>3, <2>4 DEF Inv, Followed, UnderWay
  <1> QED  BY <1>6, <1>7

LEMMA StopsInv ==
  ASSUME Inv, HitBreakpoint \/ StopsAtExit \/ StopsAtLine
  PROVE  Inv'
  <1>1. CASE HitBreakpoint
    <2>1. TypeOK' /\ Watched' /\ Stopped'
      BY <1>1, SteppingAssumption DEF HitBreakpoint, Runs, Inv, TypeOK, Watched, Stopped, Kinds
    <2> QED  BY <1>1, <2>1, SteppingAssumption DEF HitBreakpoint, Inv, Followed, UnderWay
  <1>2. CASE StopsAtExit
    <2>1. TypeOK' /\ Watched' /\ Stopped'
      BY <1>2, SteppingAssumption DEF StopsAtExit, Leaves, Runs, Inv, TypeOK, Watched, Stopped, Kinds
    <2> QED  BY <1>2, <2>1, SteppingAssumption DEF StopsAtExit, Inv, Followed, UnderWay
  <1>3. CASE StopsAtLine
    BY <1>3 DEF StopsAtLine, SingleStepped, Runs, Inv, TypeOK, Watched, Stopped, Followed,
                UnderWay, Kinds
  <1> QED  BY <1>1, <1>2, <1>3

LEMMA StepsIntoInv ==
  ASSUME Inv, StepsInto
  PROVE  Inv'
  <1>1. frames # <<>> /\ Len(frames) \in Nat \ {0} /\ stoppedIn = Nil
        /\ Top = frames[Len(frames)]
    BY TopFrame DEF Inv, StepsInto, SingleStepped, Runs
  <1>2. /\ UNCHANGED <<frames, depth, asked, left, stoppedIn, target, method>>
        /\ registered' = {"method_exit"} /\ exitCount' = Len(frames)
        /\ enabled' = {"method_exit"} /\ pending' \subseteq pending
    BY ReenabledKinds DEF StepsInto, SingleStepped, Kinds
  <1>3. TypeOK' /\ Watched' /\ Stopped'
    BY <1>1, <1>2, SteppingAssumption DEF Inv, TypeOK, Watched, Stopped, Kinds
  <1>4. UnderWay => asked < Len(frames)
    BY <1>1 DEF Inv, Followed, StepsInto, TypeOK
  <1> QED  BY <1>1, <1>2, <1>3, <1>4 DEF Inv, Followed, UnderWay, TypeOK

LEMMA StepsOnInv ==
  ASSUME Inv, StepsOn
  PROVE  Inv'
  <1>1. frames # <<>> /\ Len(frames) \in Nat \ {0} /\ stoppedIn = Nil
        /\ Top = frames[Len(frames)] /\ Top \in Frames
    BY TopFrame DEF Inv, StepsOn, SingleStepped, Runs
  <1>2. /\ UNCHANGED <<frames, depth, asked, left, stoppedIn, target, method,
                       registered, exitCount>>
        /\ enabled' = Reenabled({}, registered) /\ pending' \subseteq pending
        /\ "single_step" \in registered
    BY DEF StepsOn, SingleStepped
  <1>3. enabled' \subseteq Kinds /\ "single_step" \in enabled'
    BY <1>2, ReenabledKinds DEF Inv, TypeOK
  <1>4. exitCount = 0
    BY <1>2 DEF Inv, Watched, TypeOK
  <1>5. TypeOK' /\ Watched' /\ Stopped'
    BY <1>1, <1>2, <1>3, <1>4 DEF Inv, TypeOK, Watched, Stopped
  <1>6. UnderWay /\ asked = Len(frames) => frames[asked].location < target
    BY <1>1, LocationsAreNumbers DEF StepsOn, Reached, UnderWay, Inv, TypeOK, Frames
  <1> QED  BY <1>1, <1>2, <1>3, <1>4, <1>5, <1>6 DEF Inv, Followed, UnderWay

---------------------------------------------------------------------------
(* The commands *)

\* A thread that goes on has the frames it had, or the innermost is gone.
LEMMA ResumedFrames ==
  ASSUME Inv, stoppedIn # Nil, Resumed
  PROVE  /\ frames' \in Seq(Frames)
         /\ pending' \subseteq {"single_step", "breakpoint"}
         /\ stoppedIn # "method_exit" => UNCHANGED <<frames, pending>>
         /\ stoppedIn = "method_exit" => /\ Len(frames') = Len(frames) - 1
                                         /\ frames' = Front(frames)
                                         /\ pending' = {}
  BY PoppedFrame DEF Inv, Stopped, Resumed, TypeOK

LEMMA GoInv ==
  ASSUME Inv, Go
  PROVE  Inv'
  <1>1. frames # <<>> /\ Len(frames) \in Nat \ {0} /\ stoppedIn # Nil
    BY TopFrame DEF Inv, Stopped, Go
  <1>2. /\ UNCHANGED <<registered, exitCount, target, method, asked, depth>>
        /\ stoppedIn' = Nil /\ enabled' = Reenabled({}, registered)
        /\ left' = (left \/ Gone(asked))
    BY DEF Go, Resumes
  <1>3. /\ enabled' \subseteq Kinds
        /\ "single_step" \in registered => "single_step" \in enabled'
        /\ registered = {"method_exit"} => enabled' = {"method_exit"}
    BY <1>2, ReenabledKinds DEF Inv, TypeOK
  <1>4. TypeOK'
    BY <1>2, <1>3, ResumedFrames DEF Go, Inv, TypeOK
  <1>5. Stopped'
    BY <1>2 DEF Stopped
  <1>6. CASE stoppedIn = "method_exit"
    <2>1. exitCount = 0
      BY <1>6 DEF Inv, Watched, TypeOK
    <2>2. left' = (left \/ asked = Len(frames))
      BY <1>2, <1>6 DEF Gone
    <2>3. UnderWay' => /\ asked <= Len(frames') /\ frames'[asked].method = method
                       /\ frames'[asked].location < target
      BY <1>1, <1>2, <1>6, <2>2, ResumedFrames, PopKeepsFollowing
         DEF Go, Inv, UnderWay, Followed
    <2>4. Watched'
      BY <1>2, <2>1 DEF Watched
    <2>5. UnderWay' => UnderWay
      BY <1>2 DEF UnderWay
    <2> QED  BY <1>2, <1>3, <1>4, <1>5, <2>1, <2>3, <2>4, <2>5 DEF Inv, Followed, UnderWay, Kinds
  <1>7. CASE stoppedIn # "method_exit"
    <2>1. UNCHANGED <<frames, pending, left>>
      BY <1>1, <1>2, <1>7, ResumedFrames DEF Go, Gone, Inv, TypeOK
    <2>2. Watched'
      BY <1>2, <1>3, <2>1, SteppingAssumption DEF Inv, Watched
    <2> QED  BY <1>2, <1>3, <1>4, <1>5, <2>1, <2>2 DEF Inv, Followed, UnderWay, Kinds
  <1> QED  BY <1>6, <1>7

LEMMA NextLineInv ==
  ASSUME Inv, NextLine
  PROVE  Inv'
  <1>1. frames # <<>> /\ Len(frames) \in Nat \ {0} /\ stoppedIn # Nil
    BY TopFrame DEF Inv, Stopped, NextLine
  <1>2. Selected \in 1..Len(frames) /\ frames[Selected] \in Frames
    BY <1>1 DEF NextLine, HasLines, Selected, Inv, TypeOK
  <1>3. /\ target' \in NextLines /\ method' = frames[Selected].method
        /\ registered' = Kinds /\ exitCount' = 0 /\ stoppedIn' = Nil
        /\ enabled' = Reenabled(Kinds, Kinds) /\ depth' = depth
        /\ asked' = Selected /\ left' = Gone(Selected)
    BY DEF NextLine, Resumes
  <1>4. target' \in AllLocations /\ frames[Selected].location < target'
    <2> DEFINE starts == LineStarts[frames[Selected].method]
    <2>1. PICK i \in DOMAIN starts : target' = starts[i] /\ frames[Selected].location < starts[i]
      BY <1>3 DEF NextLines
    <2>2. frames[Selected].method \in Methods
      BY <1>2 DEF Frames
    <2>3. starts \in Seq(Locations(frames[Selected].method))
      BY <2>2, SteppingAssumption
    <2>4. starts[i] \in Locations(frames[Selected].method)
      BY <2>1, <2>3
    <2> QED  BY <2>1, <2>2, <2>4 DEF AllLocations
  <1>5. enabled' \subseteq Kinds /\ "single_step" \in enabled'
    BY <1>3, ReenabledKinds DEF Kinds
  <1>6. method' \in Methods
    BY <1>2, <1>3 DEF Frames
  <1>7. left' \in BOOLEAN
    BY <1>3 DEF Gone
  <1>8. TypeOK'
    BY <1>2, <1>3, <1>4, <1>5, <1>6, <1>7, ResumedFrames DEF NextLine, Inv, TypeOK
  <1>9. Watched' /\ Stopped'
    BY <1>3 DEF Watched, Stopped
  <1>10. UnderWay' => /\ asked' <= Len(frames')
                      /\ frames'[asked'] = frames[Selected]
    <2>1. CASE stoppedIn = "method_exit"
      <3>1. UnderWay' => Selected # Len(frames)
        BY <1>3, <2>1 DEF UnderWay, Gone
      <3>2. UnderWay' => Selected \in 1..(Len(frames) - 1)
        BY <1>1, <1>2, <3>1
      <3> QED  BY <1>1, <1>3, <2>1, <3>2, ResumedFrames, PoppedFrame DEF NextLine, Inv
    <2>2. CASE stoppedIn # "method_exit"
      BY <1>1, <1>2, <1>3, <2>2, ResumedFrames DEF NextLine
    <2> QED  BY <2>1, <2>2
  <1>11. Followed'
    BY <1>3, <1>4, <1>5, <1>10 DEF Followed
  <1> QED  BY <1>8, <1>9, <1>11 DEF Inv

LEMMA StepOutInv ==
  ASSUME Inv, StepOut
  PROVE  Inv'
  <1>1. /\ registered' \subseteq Kinds /\ exitCount' = 0 /\ stoppedIn' = Nil
        /\ asked' = 0 /\ left' = FALSE /\ UNCHANGED <<target, method, depth>>
        /\ enabled' = Reenabled({"method_exit"}, registered')
    BY DEF StepOut, Resumes, Inv, TypeOK, Kinds
  <1>2. enabled' \subseteq Kinds
    BY <1>1, ReenabledKinds DEF Kinds
  <1>3. TypeOK'
    <2>1. left' \in BOOLEAN
      BY <1>1
    <2>2. frames' \in Seq(Frames) /\ pending' \subseteq {"single_step", "breakpoint"}
      BY ResumedFrames DEF StepOut
    <2> QED  BY <1>1, <1>2, <2>1, <2>2 DEF Inv, TypeOK
  <1> QED  BY <1>1, <1>3 DEF Inv, Watched, Followed, UnderWay, Stopped

LEMMA FrameInv ==
  ASSUME Inv, NEW n \in (1 - MaxDepth)..MaxDepth, Frame(n)
  PROVE  Inv'
  <1>1. TypeOK'
    BY SteppingAssumption DEF Inv, TypeOK, Frame, stepVars
  <1> QED  BY <1>1 DEF Inv, Watched, Followed, UnderWay, Stopped, Frame, stepVars

---------------------------------------------------------------------------

LEMMA NextInv == Inv /\ [Next]_vars => Inv'
  <1> SUFFICES ASSUME Inv, [Next]_vars PROVE Inv'
    OBVIOUS
  <1>1. CASE UNCHANGED vars
    BY <1>1 DEF vars, Inv, TypeOK, Watched, Followed, UnderWay, Stopped
  <1>2. CASE \E l \in AllLocations : Move(l)
    BY <1>2, MoveInv
  <1>3. CASE \E m \in Methods : Call(m)
    BY <1>3, CallInv
  <1>4. CASE LeavesUnnoticed \/ NestedReturns
    BY <1>4, LeavesUnnoticedInv, NestedReturnsInv
  <1>5. CASE HitBreakpoint \/ StopsAtExit \/ StopsAtLine
    BY <1>5, StopsInv
  <1>6. CASE StepsInto \/ StepsOn
    BY <1>6, StepsIntoInv, StepsOnInv
  <1>7. CASE Go \/ NextLine \/ StepOut
    BY <1>7, GoInv, NextLineInv, StepOutInv
  <1>8. CASE \E n \in (1 - MaxDepth)..MaxDepth : Frame(n)
    BY <1>8, FrameInv
  <1> QED  BY <1>1, <1>2, <1>3, <1>4, <1>5, <1>6, <1>7, <1>8 DEF Next

LEMMA Invariance == Spec => []Inv
  BY InitInv, NextInv, PTL DEF Spec

\* The stepping callbacks of debuglib.lua keep their variables in type.
THEOREM TypeCorrect == Spec => []TypeOK
  BY Invariance, PTL DEF Inv

\* While single steps are given up for a callee, it is on the stack and its exit
\* will be noticed: check_nested_method_return cannot miss its frame.
THEOREM CalleeStaysWatched == Spec => []CalleeIsWatched
  <1>1. Inv => CalleeIsWatched
    BY DEF Inv, Watched, CalleeIsWatched, TypeOK
  <1> QED  BY <1>1, Invariance, PTL

\* next_line() does not miss its line, whatever the program is.
THEOREM LineNotMissed == Spec => []NextLineIsNotMissed
  <1>1. Inv => NextLineIsNotMissed
    <2> SUFFICES ASSUME Inv, Executes, Len(frames) = asked, ~left, target # Nil
                 PROVE  Top.location < target
      BY DEF NextLineIsNotMissed
    <2>1. Len(frames) \in Nat \ {0} /\ Top = frames[Len(frames)]
      BY TopFrame DEF Inv, Executes, Runs
    <2>2. UnderWay
      BY <2>1 DEF UnderWay
    <2> QED  BY <2>1, <2>2, BeforeTheLine
  <1> QED  BY <1>1, Invariance, PTL
---------------------------------------------------------------------------
(* Where a step stops.  Once its frame has gone, single steps reach frames that
   were the caller's all along, or what these call in the method of the step:
   the others are given up for their exits. *)

\* Only a frame in the middle of a call has another one on top of it.
Called == \A i \in 1..(Len(frames) - 1) : frames[i].called

\* The innermost frame may call only from the method of the step, unless its
\* single step is still to come.
Ready == Top.called \/ "single_step" \in pending \/ Top.method \in Natives \cup {method}

\* The innermost frame that single steps are posted for, now or later.
Reachable == IF exitCount = 0 THEN Len(frames) ELSE exitCount

\* The frames of a step whose own frame has gone.
Outward ==
  asked # 0 /\ left /\ target # Nil =>
    /\ exitCount = 0 => /\ registered = Kinds
                        /\ stoppedIn = Nil => "single_step" \in enabled
                        /\ frames # <<>> => Ready
    /\ \A j \in asked..Reachable : j > 1 /\ frames[j - 1].method = method

OInv == Inv /\ Called /\ Outward

LEMMA InitOInv == Init => OInv
  BY InitInv DEF Init, OInv, Called, Outward

\* A frame that is popped leaves a caller in the middle of its call.
LEMMA PoppedCalled ==
  ASSUME OInv, frames # <<>>, frames' = Front(frames)
  PROVE  /\ Len(frames) \in Nat \ {0}
         /\ Len(frames') = Len(frames) - 1
         /\ \A i \in 1..(Len(frames) - 1) : frames'[i] = frames[i]
         /\ Called'
         /\ frames' # <<>> => Ready'
  <1>1. /\ Len(frames) \in Nat \ {0}
        /\ frames' \in Seq(Frames)
        /\ Len(frames') = Len(frames) - 1
        /\ \A i \in 1..(Len(frames) - 1) : frames'[i] = frames[i]
    BY TopFrame, PoppedFrame DEF OInv, Inv
  <1>2. Called'
    BY <1>1 DEF OInv, Called
  <1>3. frames' # <<>> => Top'.called
    BY <1>1 DEF Top, Last, OInv, Called
  <1> QED  BY <1>1, <1>2, <1>3 DEF Ready

\* A location is executed, in a step whose frame has gone, by a frame in the
\* middle of a call or in the method of the step.
LEMMA ExecutesOutward ==
  ASSUME OInv, Executes, asked # 0, left, target # Nil, exitCount = 0
  PROVE  Top.called \/ Top.method = method
  BY DEF OInv, Outward, Ready, Executes, Runs, Due

LEMMA MoveOInv ==
  ASSUME OInv, NEW l \in AllLocations, Move(l)
  PROVE  OInv'
  <1>1. Inv'
    BY MoveInv DEF OInv
  <1>2. Len(frames) \in Nat \ {0}
    BY TopFrame DEF OInv, Inv, Move, Executes, Runs
  <1>3. /\ Len(frames') = Len(frames)
        /\ \A i \in 1..(Len(frames) - 1) : frames'[i] = frames[i]
    BY <1>2 DEF Move, ArriveAt, OInv, Inv, TypeOK
  <1>4. UNCHANGED <<stoppedIn, asked, left, registered, enabled, exitCount, target, method>>
        /\ "single_step" \in pending'
    BY DEF Move, ArriveAt, stepVars
  <1>5. Called'
    BY <1>2, <1>3 DEF OInv, Called
  <1>6. ASSUME asked # 0, left, target # Nil, NEW j \in asked..Reachable'
        PROVE  j > 1 /\ frames'[j - 1].method = method
    <2>1. Reachable' = Reachable /\ Reachable \in Nat /\ Reachable <= Len(frames)
      BY <1>2, <1>3, <1>4 DEF Reachable, OInv, Inv, TypeOK, Watched
    <2>2. j > 1 /\ frames[j - 1].method = method
      BY <1>6, <2>1 DEF OInv, Outward
    <2>3. j - 1 \in 1..(Len(frames) - 1)
      BY <1>2, <1>6, <2>1, <2>2 DEF OInv, Inv, TypeOK
    <2> QED  BY <1>3, <2>2, <2>3
  <1>7. Outward'
    BY <1>4, <1>6 DEF OInv, Outward, Ready
  <1> QED  BY <1>1, <1>5, <1>7 DEF OInv

LEMMA CallOInv ==
  ASSUME OInv, NEW m \in Methods, Call(m)
  PROVE  OInv'
  <1>1. Inv'
    BY CallInv DEF OInv
  <1>2. Len(frames) \in Nat \ {0} /\ Top = frames[Len(frames)] /\ Top \in Frames
    BY TopFrame DEF OInv, Inv, Call, Executes, Runs
  <1> DEFINE below == [frames EXCEPT ![Len(frames)].called = TRUE]
             new   == [method |-> m, location |-> 0, called |-> FALSE]
  <1>3. /\ below \in Seq(Frames) /\ Len(below) = Len(frames)
        /\ below[Len(frames)].called
        /\ \A i \in 1..Len(frames) : below[i].method = frames[i].method
        /\ \A i \in 1..(Len(frames) - 1) : below[i] = frames[i]
    <2> DEFINE caller == [Top EXCEPT !.called = TRUE]
    <2>1. caller \in Frames /\ caller.method = Top.method /\ caller.called
      BY <1>2 DEF Frames
    <2>2. below = [frames EXCEPT ![Len(frames)] = caller]
      BY <1>2
    <2> HIDE DEF caller, below
    <2> QED  BY <1>2, <2>1, <2>2 DEF OInv, Inv, TypeOK
  <1>4. new \in Frames /\ new.method = m
    BY SteppingAssumption DEF Frames, AllLocations, Locations
  <1>5. frames' = Append(below, new)
    BY DEF Call
  <1> HIDE DEF below, new
  <1>6. /\ Len(frames') = Len(frames) + 1
        /\ \A i \in 1..Len(frames) : frames'[i] = below[i]
        /\ frames'[Len(frames) + 1] = new
    BY <1>3, <1>4, <1>5
  <1>7. /\ UNCHANGED <<stoppedIn, asked, left, registered, enabled, exitCount, target, method>>
        /\ m \in Natives \/ "single_step" \in pending'
        /\ Executes /\ ~Top.called
    BY DEF Call, stepVars
  <1>8. Called'
    BY <1>2, <1>3, <1>6 DEF OInv, Called
  <1>9. Ready'
    BY <1>2, <1>4, <1>6, <1>7 DEF Ready, Top, Last
  <1>10. ASSUME asked # 0, left, target # Nil, NEW j \in asked..Reachable'
         PROVE  j > 1 /\ frames'[j - 1].method = method
    <2>1. CASE j <= Reachable
      <3>1. j > 1 /\ frames[j - 1].method = method /\ j - 1 \in 1..Len(frames)
        BY <1>2, <1>10, <2>1 DEF Reachable, OInv, Inv, TypeOK, Watched, Outward
      <3> QED  BY <1>3, <1>6, <3>1
    <2>2. CASE j > Reachable
      <3>1. exitCount = 0 /\ j = Len(frames) + 1
        BY <1>2, <1>6, <1>7, <2>2, <1>10 DEF Reachable, OInv, Inv, TypeOK
      <3>2. Top.method = method
        BY <1>7, <1>10, <3>1, ExecutesOutward
      <3> QED  BY <1>2, <1>3, <1>6, <3>1, <3>2
    <2> QED  BY <1>2, <1>6, <1>7, <1>10, <2>1, <2>2 DEF Reachable, OInv, Inv, TypeOK
  <1>11. Outward'
    BY <1>7, <1>9, <1>10 DEF OInv, Outward
  <1> QED  BY <1>1, <1>8, <1>11 DEF OInv

LEMMA LeavesUnnoticedOInv ==
  ASSUME OInv, LeavesUnnoticed
  PROVE  OInv'
  <1>1. Inv'
    BY LeavesUnnoticedInv DEF OInv
  <1>2. frames # <<>> /\ frames' = Front(frames) /\ stoppedIn = Nil
    BY DEF LeavesUnnoticed, PopFrame, Leaves, Runs
  <1>3. left' = (left \/ asked = Len(frames))
        /\ UNCHANGED <<stoppedIn, asked, registered, enabled, exitCount, target, method>>
    BY DEF LeavesUnnoticed, PopFrame, stepVars
  <1>4. exitCount = 0
    BY <1>2 DEF OInv, Inv, Watched, TypeOK, LeavesUnnoticed
  <1>5. ASSUME left PROVE Outward'
    BY <1>2, <1>3, <1>4, <1>5, PoppedCalled DEF OInv, Inv, TypeOK, Outward, Reachable
  <1>6. ASSUME ~left PROVE Outward'
    <2>1. asked # 0 /\ left' /\ target # Nil => UnderWay /\ asked = Len(frames)
      BY <1>3, <1>6 DEF UnderWay
    <2> QED  BY <1>2, <1>3, <1>4, <2>1, PoppedCalled
             DEF OInv, Inv, TypeOK, Followed, Outward, Reachable
  <1>7. Called'
    BY <1>2, PoppedCalled
  <1> QED  BY <1>1, <1>5, <1>6, <1>7 DEF OInv

LEMMA NestedReturnsOInv ==
  ASSUME OInv, NestedReturns
  PROVE  OInv'
  <1>1. Inv'
    BY NestedReturnsInv DEF OInv
  <1>2. frames # <<>> /\ frames' = Front(frames) /\ stoppedIn = Nil
    BY DEF NestedReturns, PopFrame, Leaves, Runs
  <1>3. left' = (left \/ asked = Len(frames))
        /\ UNCHANGED <<stoppedIn, asked, target, method>>
    BY DEF NestedReturns, PopFrame
  <1>4. exitCount > 0 /\ exitCount <= Len(frames) /\ exitCount \in Nat
    BY DEF OInv, Inv, TypeOK, NestedReturns, Watched
  <1>5. Called' /\ (frames' # <<>> => Ready')
    BY <1>2, PoppedCalled
  <1>6. ASSUME asked # 0, left', target # Nil
        PROVE  left
    BY <1>3, <1>4, <1>6 DEF OInv, Inv, TypeOK, Followed, UnderWay
  <1>7. Reachable' \in Nat /\ Reachable' <= Reachable /\ Reachable' <= Len(frames')
    BY <1>2, <1>4, PoppedCalled DEF Reachable, NestedReturns
  <1>8. ASSUME asked # 0, left', target # Nil, NEW j \in asked..Reachable'
        PROVE  j > 1 /\ frames'[j - 1].method = method
    <2>1. j > 1 /\ frames[j - 1].method = method
      BY <1>4, <1>6, <1>7, <1>8 DEF OInv, Inv, TypeOK, Outward, Reachable
    <2>2. j - 1 \in 1..(Len(frames) - 1)
      BY <1>2, <1>7, <1>8, <2>1, PoppedCalled DEF OInv, Inv, TypeOK
    <2> QED  BY <1>2, <2>1, <2>2, PoppedCalled
  <1>9. exitCount' = 0 => registered' = Kinds /\ "single_step" \in enabled'
    BY <1>4, ReenabledKinds DEF NestedReturns, Kinds
  <1>10. Outward'
    BY <1>3, <1>5, <1>8, <1>9 DEF Outward
  <1> QED  BY <1>1, <1>5, <1>10 DEF OInv

LEMMA CallbackOInv ==
  ASSUME OInv, HitBreakpoint \/ StopsAtExit \/ StopsAtLine \/ StepsInto \/ StepsOn
  PROVE  OInv'
  <1>1. Inv'
    BY StopsInv, StepsIntoInv, StepsOnInv DEF OInv
  <1>2. Called'
    BY DEF OInv, Called, HitBreakpoint, StopsAtExit, StopsAtLine, StepsInto, StepsOn,
           SingleStepped
  <1>3. CASE HitBreakpoint
    <2>1. Ready => Ready'
      BY <1>3 DEF HitBreakpoint, Ready, Top
    <2>2. stoppedIn' # Nil
      BY <1>3, SteppingAssumption DEF HitBreakpoint
    <2> QED  BY <1>1, <1>2, <1>3, <2>1, <2>2 DEF HitBreakpoint, OInv, Outward, Reachable
  <1>4. CASE StopsAtExit
    <2>1. Ready => Ready'
      BY <1>4 DEF StopsAtExit, Ready, Top
    <2>2. stoppedIn' # Nil
      BY <1>4, SteppingAssumption DEF StopsAtExit
    <2> QED  BY <1>1, <1>2, <1>4, <2>1, <2>2 DEF StopsAtExit, OInv, Outward, Reachable
  <1>5. CASE StopsAtLine
    BY <1>1, <1>2, <1>5 DEF StopsAtLine, OInv, Outward
  <1>6. CASE StepsInto
    <2>1. exitCount = 0
      BY <1>6 DEF StepsInto, SingleStepped, OInv, Inv, TypeOK, Watched
    <2>2. Reachable' = Reachable /\ exitCount' # 0
      BY <1>6, <2>1, TopFrame
         DEF StepsInto, SingleStepped, Runs, Reachable, OInv, Inv
    <2> QED  BY <1>1, <1>2, <1>6, <2>2 DEF StepsInto, SingleStepped, OInv, Outward
  <1>7. CASE StepsOn
    <2>1. Ready' /\ Reachable' = Reachable
      BY <1>7 DEF StepsOn, SingleStepped, Ready, Top, Reachable
    <2>2. "single_step" \in enabled'
      BY <1>7, ReenabledKinds DEF StepsOn, SingleStepped, OInv, Inv, TypeOK
    <2> QED  BY <1>1, <1>2, <1>7, <2>1, <2>2 DEF StepsOn, SingleStepped, OInv, Outward
  <1> QED  BY <1>3, <1>4, <1>5, <1>6, <1>7

\* A command resumes the thread: the frames that go on are in the middle of
\* their calls, or nothing has changed.
LEMMA ResumedCalled ==
  ASSUME OInv, stoppedIn # Nil, Resumed
  PROVE  /\ Called'
         /\ stoppedIn = "method_exit" => /\ Len(frames') = Len(frames) - 1
                                         /\ \A i \in 1..Len(frames') : frames'[i] = frames[i]
                                         /\ frames' # <<>> => Ready'
  <1>1. frames # <<>>
    BY DEF OInv, Inv, Stopped
  <1>2. CASE stoppedIn = "method_exit"
    <2>1. frames' = Front(frames)
      BY <1>2 DEF Resumed
    <2> QED  BY <1>1, <2>1, PoppedCalled
  <1>3. CASE stoppedIn # "method_exit"
    BY <1>3 DEF Resumed, OInv, Called
  <1> QED  BY <1>2, <1>3

LEMMA GoOInv ==
  ASSUME OInv, Go
  PROVE  OInv'
  <1>1. Inv'
    BY GoInv DEF OInv
  <1>2. /\ UNCHANGED <<registered, exitCount, target, method, asked>>
        /\ stoppedIn # Nil /\ stoppedIn' = Nil
        /\ left' = (left \/ Gone(asked)) /\ Resumed
        /\ "single_step" \in registered => "single_step" \in enabled'
    BY ReenabledKinds DEF Go, Resumes, OInv, Inv, TypeOK
  <1>3. Len(frames) \in Nat \ {0}
    BY <1>2, TopFrame DEF OInv, Inv, Stopped
  <1>4. CASE stoppedIn = "method_exit"
    <2>1. exitCount = 0
      BY <1>4 DEF OInv, Inv, Watched, TypeOK
    <2>2. /\ Len(frames') = Len(frames) - 1
          /\ \A i \in 1..Len(frames') : frames'[i] = frames[i]
          /\ frames' # <<>> => Ready'
      BY <1>2, <1>4, ResumedCalled
    <2>3. ASSUME asked # 0, left', target # Nil
          PROVE  registered = Kinds
      BY <1>2, <1>4, <2>1, <2>3
         DEF Gone, OInv, Inv, TypeOK, Outward, Followed, UnderWay
    <2>4. ASSUME asked # 0, left', target # Nil, NEW j \in asked..Reachable'
          PROVE  j > 1 /\ frames'[j - 1].method = method
      <3>1. j \in asked..(Len(frames) - 1)
        BY <1>2, <2>1, <2>2, <2>4 DEF Reachable
      <3>2. left
        BY <1>2, <1>3, <2>4, <3>1 DEF Gone, OInv, Inv, TypeOK
      <3>3. j > 1 /\ frames[j - 1].method = method
        BY <1>3, <2>1, <2>4, <3>1, <3>2 DEF Reachable, OInv, Inv, TypeOK, Outward
      <3> QED  BY <1>3, <2>2, <3>1, <3>3 DEF OInv, Inv, TypeOK
    <2>5. Outward'
      BY <1>2, <2>2, <2>3, <2>4 DEF Outward, Kinds
    <2> QED  BY <1>1, <1>2, <2>5, ResumedCalled DEF OInv
  <1>5. CASE stoppedIn # "method_exit"
    <2>1. UNCHANGED <<frames, pending, left>>
      BY <1>2, <1>5 DEF Resumed, Gone, OInv, Inv, TypeOK
    <2>2. Reachable' = Reachable /\ Ready' = Ready
      BY <1>2, <2>1 DEF Reachable, Ready, Top
    <2>3. Outward'
      BY <1>2, <2>1, <2>2 DEF OInv, Outward, Kinds
    <2> QED  BY <1>1, <1>2, <2>3, ResumedCalled DEF OInv
  <1> QED  BY <1>4, <1>5

LEMMA NextLineOInv ==
  ASSUME OInv, NextLine
  PROVE  OInv'
  <1>1. Inv'
    BY NextLineInv DEF OInv
  <1>2. /\ registered' = Kinds /\ exitCount' = 0 /\ stoppedIn # Nil
        /\ enabled' = Reenabled(Kinds, Kinds)
        /\ asked' = Selected /\ left' = Gone(Selected) /\ Resumed
    BY DEF NextLine, Resumes
  <1>3. "single_step" \in enabled'
    BY <1>2, ReenabledKinds DEF Kinds
  <1>4. Len(frames) \in Nat \ {0}
    BY <1>2, TopFrame DEF OInv, Inv, Stopped
  <1>5. ASSUME left'
        PROVE  /\ frames' # <<>> => Ready'
               /\ asked' = Len(frames) /\ Reachable' = Len(frames) - 1
    BY <1>2, <1>5, ResumedCalled DEF Gone, Reachable
  <1>6. Outward'
    BY <1>2, <1>3, <1>4, <1>5 DEF Outward
  <1> QED  BY <1>1, <1>2, <1>6, ResumedCalled DEF OInv

LEMMA StepOutOInv ==
  ASSUME OInv, StepOut
  PROVE  OInv'
  <1>1. Inv' /\ Called'
    BY StepOutInv, ResumedCalled DEF OInv, StepOut
  <1>2. Outward'
    BY DEF StepOut, Outward
  <1> QED  BY <1>1, <1>2 DEF OInv

LEMMA FrameOInv ==
  ASSUME OInv, NEW n \in (1 - MaxDepth)..MaxDepth, Frame(n)
  PROVE  OInv'
  <1>1. Inv'
    BY FrameInv DEF OInv
  <1> QED  BY <1>1 DEF OInv, Called, Outward, Ready, Top, Reachable, Frame, stepVars

LEMMA NextOInv == OInv /\ [Next]_vars => OInv'
  <1> SUFFICES ASSUME OInv, [Next]_vars PROVE OInv'
    OBVIOUS
  <1>1. CASE UNCHANGED vars
    <2>1. Inv'
      BY NextInv DEF OInv
    <2> QED  BY <1>1, <2>1 DEF vars, OInv, Called, Outward, Ready, Top, Reachable
  <1>2. CASE \E l \in AllLocations : Move(l)
    BY <1>2, MoveOInv
  <1>3. CASE \E m \in Methods : Call(m)
    BY <1>3, CallOInv
  <1>4. CASE LeavesUnnoticed \/ NestedReturns
    BY <1>4, LeavesUnnoticedOInv, NestedReturnsOInv
  <1>5. CASE HitBreakpoint \/ StopsAtExit \/ StopsAtLine \/ StepsInto \/ StepsOn
    BY <1>5, CallbackOInv
  <1>6. CASE Go \/ NextLine \/ StepOut
    BY <1>6, GoOInv, NextLineOInv, StepOutOInv
  <1>7. CASE \E n \in (1 - MaxDepth)..MaxDepth : Frame(n)
    BY <1>7, FrameOInv
  <1> QED  BY <1>1, <1>2, <1>3, <1>4, <1>5, <1>6, <1>7 DEF Next

\* cb_single_step stops where the step began, or further out when that frame has
\* gone, whatever the program is; elsewhere only in a call that the method of the
\* step itself has made.
THEOREM StepStopsWhereAsked == Spec => StopsWhereAsked
  <1>1. ASSUME OInv, StopsAtLine, asked # 0
        PROVE  \/ asked = Len(frames) /\ ~left
               \/ asked > Len(frames) /\ left
               \/ \E i \in 1..(Len(frames) - 1) : frames[i].method = Top.method
    <2>1. /\ Len(frames) \in Nat \ {0} /\ asked \in Nat \ {0} /\ exitCount \in Nat
          /\ left \in BOOLEAN
      BY <1>1, TopFrame DEF OInv, Inv, TypeOK, StopsAtLine, SingleStepped, Runs
    <2>2. target # Nil /\ method = Top.method /\ exitCount = 0
      BY <1>1, <2>1 DEF StopsAtLine, SingleStepped, Reached, OInv, Inv, Watched
    <2>3. CASE left
      <3>1. CASE asked > Len(frames)
        BY <2>3, <3>1
      <3>2. CASE asked <= Len(frames)
        <4>1. Len(frames) > 1 /\ frames[Len(frames) - 1].method = Top.method
          BY <1>1, <2>1, <2>2, <2>3, <3>2 DEF OInv, Outward, Reachable
        <4> QED  BY <2>1, <4>1
      <3> QED  BY <2>1, <3>1, <3>2
    <2>4. CASE ~left
      <3>1. asked \in 1..Len(frames) /\ frames[asked].method = Top.method
        BY <1>1, <2>1, <2>2, <2>4 DEF OInv, Inv, Followed, UnderWay
      <3> QED  BY <2>1, <2>4, <3>1
    <2> QED  BY <2>1, <2>3, <2>4
  <1>2. OInv /\ [Next]_vars =>
          [StopsAtLine /\ asked # 0 =>
             \/ asked = Len(frames) /\ ~left
             \/ asked > Len(frames) /\ left
             \/ \E i \in 1..(Len(frames) - 1) : frames[i].method = Top.method]_vars
    BY <1>1
  <1> QED  BY <1>2, InitOInv, NextOInv, PTL DEF Spec, StopsWhereAsked
===========================================================================

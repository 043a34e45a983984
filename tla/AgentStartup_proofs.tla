------------------------ MODULE AgentStartup_proofs ------------------------
(* Proofs about the start-up, whatever the runfile does, whichever set-up calls
   fail and whatever is typed. *)
EXTENDS AgentStartup, RawMonitor_proofs

USE StartupAssumption

\* A thread that has been taken off the monitor's wait set was notified.
WokenByG == vm = "waiting" /\ VM \notin resume.waiting => told

\* Nobody but the thread of the virtual machine waits.
OnlyVMWaits == resume.waiting \subseteq {VM}

\* Without a monitor nobody comes past the attempt to enter it.
NobodyInside ==
  ~made => vm \notin {"wait", "waiting", "exit"} /\ cmd \notin {"notify", "unlock"}

Inv == TypeOK /\ ResumeAccounting /\ OnlyVMWaits /\ WokenByG /\ NobodyInside /\ BeginsWhenTold

LEMMA InitInv == Init => Inv
  <1> SUFFICES ASSUME Init PROVE Inv
    OBVIOUS
  <1>1. TypeOK
    BY DEF Init, TypeOK, VMSteps, CmdSteps, Monitor, FreeMonitor
  <1>2. ResumeAccounting
    BY DEF Init, ResumeAccounting, FreeMonitor
  <1>3. OnlyVMWaits /\ WokenByG /\ NobodyInside /\ BeginsWhenTold
    BY DEF Init, FreeMonitor, OnlyVMWaits, WokenByG, NobodyInside, BeginsWhenTold
  <1> QED BY <1>1, <1>2, <1>3 DEF Inv

\* A step that leaves the monitor and the history alone.
LEMMA QuietPreserves ==
  ASSUME Inv, UNCHANGED <<resume, history>>, TypeOK',
         UNCHANGED made \/ (made' /\ vm = "monitor" /\ vm' = "interface"),
         (vm \in {"wait", "exit"}) = (vm' \in {"wait", "exit"}),
         vm' = "waiting" => vm' = vm,
         vm' = "begun" => vm = "begun" \/ ~made',
         vm = "waiting" => vm' = vm,
         (cmd \in {"notify", "unlock"}) = (cmd' \in {"notify", "unlock"}),
         vm' = "exit" => vm = "exit"
  PROVE  Inv'
  BY DEF Inv, ResumeAccounting, OnlyVMWaits, WokenByG, NobodyInside, BeginsWhenTold, history

\* Who enters the free monitor is its only owner, and has entered it once.
LEMMA Enters ==
  ASSUME Inv, NEW t \in Threads, CanEnter(resume, t), resume.owner # t
  PROVE  /\ Entered(resume, t) \in Monitor(Threads)
         /\ Entered(resume, t).owner = t
         /\ Entered(resume, t).count = 1
         /\ Entered(resume, t).waiting = resume.waiting
         /\ resume.owner = Nobody
  BY EnteredProperties DEF Inv, TypeOK, ResumeAccounting, CanEnter, Monitor, Entered

\* Who owns it leaves it free.
LEMMA Exits ==
  ASSUME Inv, NEW t \in Threads, resume.owner = t
  PROVE  /\ Exited(resume) \in Monitor(Threads)
         /\ Exited(resume).owner = Nobody
         /\ Exited(resume).count = 0
         /\ Exited(resume).waiting = resume.waiting
  BY ExitedProperties DEF Inv, TypeOK, ResumeAccounting, Monitor, Exited

LEMMA Step == Inv /\ [Next]_vars => Inv'
  <1> SUFFICES ASSUME Inv, [Next]_vars PROVE Inv'
    OBVIOUS
  <1> USE DEF VMGoto, CmdGoto
  <1>1. CASE UNCHANGED vars
    BY <1>1 DEF vars, cmdVars, script, history, Inv, TypeOK, ResumeAccounting, OnlyVMWaits, WokenByG, NobodyInside, BeginsWhenTold
  <1>2. CASE \/ OnLoad \/ OnLoadFails \/ CreateMonitor \/ CreateMonitorFails
            \/ InitInterface \/ InitInterfaceFails \/ AssertFails \/ PassesResume
    <2> USE DEF cmdVars, script, history, VMSteps
    <2>1. CASE OnLoad \/ OnLoadFails
      BY <2>1, QuietPreserves DEF OnLoad, OnLoadFails, Inv, TypeOK
    <2>2. CASE CreateMonitor
      BY <2>2, QuietPreserves DEF CreateMonitor, Inv, TypeOK
    <2>3. CASE CreateMonitorFails
      BY <2>3, QuietPreserves DEF CreateMonitorFails, Inv, TypeOK
    <2>4. CASE InitInterface \/ InitInterfaceFails \/ AssertFails
      BY <2>4, QuietPreserves DEF InitInterface, InitInterfaceFails, AssertFails, Inv, TypeOK
    <2>5. CASE PassesResume
      BY <2>5, QuietPreserves DEF PassesResume, Inv, TypeOK
    <2> QED BY <1>2, <2>1, <2>2, <2>3, <2>4, <2>5
  <1>3. CASE RunAgentThread \/ RunAgentThreadFails
    BY <1>3, QuietPreserves DEF RunAgentThread, RunAgentThreadFails, Inv, TypeOK, VMSteps,
       CmdSteps, cmdVars, script, history
  <1>4. CASE \/ SetOpts \/ RunsFile \/ RunfileReturns \/ TypesG \/ TypesUnprintable
            \/ GLockFails
    BY <1>4, QuietPreserves DEF SetOpts, RunsFile, RunfileReturns, TypesG, TypesUnprintable,
       GLockFails, Inv, TypeOK, CmdSteps, script, history
  <1>5. CASE EnterResume
    <2>1. resume.owner # VM
      BY <1>5 DEF EnterResume, Inv, ResumeAccounting, Threads
    <2>2. /\ resume' \in Monitor(Threads) /\ resume'.owner = VM /\ resume'.count = 1
          /\ resume'.waiting = resume.waiting /\ resume.owner = Nobody
      BY <1>5, <2>1, Enters DEF EnterResume, Threads
    <2> QED BY <1>5, <2>2 DEF EnterResume, Inv, TypeOK, VMSteps, ResumeAccounting,
               OnlyVMWaits, WokenByG, NobodyInside, BeginsWhenTold, Threads, cmdVars, script, history
  <1>6. CASE WaitResume
    <2>1. /\ resume' \in Monitor(Threads) /\ resume'.owner = Nobody /\ resume'.count = 0
          /\ resume'.waiting = resume.waiting \cup {VM} /\ resume.owner = VM
      BY <1>6 DEF WaitResume, Waiting, Inv, TypeOK, Monitor, ResumeAccounting, Threads
    <2> QED BY <1>6, <2>1 DEF WaitResume, Inv, TypeOK, VMSteps, ResumeAccounting,
               OnlyVMWaits, WokenByG, NobodyInside, BeginsWhenTold, Threads, cmdVars, script, history
  <1>7. CASE Wakes
    <2>1. /\ resume' \in Monitor(Threads) /\ resume'.owner = VM /\ resume'.count = 1
          /\ resume'.waiting = resume.waiting \ {VM} /\ resume.owner = Nobody
      BY <1>7 DEF Wakes, Reentered, CanReenter, Inv, TypeOK, Monitor, Threads
    <2> QED BY <1>7, <2>1 DEF Wakes, Inv, TypeOK, VMSteps, ResumeAccounting,
               OnlyVMWaits, WokenByG, NobodyInside, BeginsWhenTold, Threads, cmdVars, script, history
  <1>8. CASE ExitResume
    <2>1. resume.owner = VM
      BY <1>8 DEF ExitResume, Inv, ResumeAccounting, Threads
    <2>2. /\ resume' \in Monitor(Threads) /\ resume'.owner = Nobody /\ resume'.count = 0
          /\ resume'.waiting = resume.waiting
      BY <1>8, <2>1, Exits DEF ExitResume, Threads
    <2> QED BY <1>8, <2>1, <2>2 DEF ExitResume, Inv, TypeOK, VMSteps, ResumeAccounting,
               OnlyVMWaits, WokenByG, NobodyInside, BeginsWhenTold, Threads, cmdVars, script, history
  <1>9. CASE GLocks
    <2>1. resume.owner # CMD
      BY <1>9 DEF GLocks, Inv, ResumeAccounting, Threads
    <2>2. /\ resume' \in Monitor(Threads) /\ resume'.owner = CMD /\ resume'.count = 1
          /\ resume'.waiting = resume.waiting /\ resume.owner = Nobody
      BY <1>9, <2>1, Enters DEF GLocks, Threads
    <2> QED BY <1>9, <2>2 DEF GLocks, Inv, TypeOK, CmdSteps, ResumeAccounting,
               OnlyVMWaits, WokenByG, NobodyInside, BeginsWhenTold, Threads, cmdVars, script, history
  <1>10. CASE GNotifies
    <2>1. /\ resume' \in Monitor(Threads) /\ resume'.owner = resume.owner
          /\ resume'.count = resume.count /\ resume'.waiting \subseteq resume.waiting
      BY <1>10 DEF GNotifies, Notified, Inv, TypeOK, Monitor
    <2> QED BY <1>10, <2>1 DEF GNotifies, Inv, TypeOK, CmdSteps, ResumeAccounting,
               OnlyVMWaits, WokenByG, NobodyInside, BeginsWhenTold, Threads, cmdVars, script, history
  <1>11. CASE GUnlocks
    <2>1. resume.owner = CMD
      BY <1>11 DEF GUnlocks, Inv, ResumeAccounting, Threads
    <2>2. /\ resume' \in Monitor(Threads) /\ resume'.owner = Nobody /\ resume'.count = 0
          /\ resume'.waiting = resume.waiting
      BY <1>11, <2>1, Exits DEF GUnlocks, Threads
    <2> QED BY <1>11, <2>1, <2>2 DEF GUnlocks, Inv, TypeOK, CmdSteps, ResumeAccounting,
               OnlyVMWaits, WokenByG, NobodyInside, BeginsWhenTold, Threads, cmdVars, script, history
  <1>12. CASE WaitInterrupted
    <2>1. /\ resume' \in Monitor(Threads) /\ resume'.owner = VM /\ resume'.count = 1
          /\ resume'.waiting = resume.waiting \ {VM} /\ resume.owner = Nobody
      BY <1>12 DEF WaitInterrupted, Reentered, CanReenter, Inv, TypeOK, Monitor, Threads
    <2> QED BY <1>12, <2>1 DEF WaitInterrupted, Inv, TypeOK, VMSteps, ResumeAccounting,
               OnlyVMWaits, WokenByG, NobodyInside, BeginsWhenTold, Threads, cmdVars, script
  <1>13. CASE ResumeCrashes
    BY <1>13 DEF ResumeCrashes, Inv, TypeOK, VMSteps, CmdSteps, ResumeAccounting,
       OnlyVMWaits, WokenByG, NobodyInside, BeginsWhenTold, Threads, script, history
  <1> QED BY <1>1, <1>2, <1>3, <1>4, <1>5, <1>6, <1>7, <1>8, <1>9, <1>10, <1>11, <1>12, <1>13
          DEF Next, VMStep, VMFails, CmdStep

LEMMA Invariance == Spec => []Inv
  BY InitInv, Step, PTL DEF Spec

\* Every variable keeps its type.
THEOREM TypeCorrect == Spec => []TypeOK
  BY Invariance, PTL DEF Inv

\* thread_resume_monitor is entered and left in pairs, by cbVMInit and by g().
THEOREM ResumeIsAccountedFor == Spec => []ResumeAccounting
  BY Invariance, PTL DEF Inv

\* The program begins only after a g() that found cbVMInit waiting, unless
\* CreateRawMonitor failed or the wait was interrupted.
THEOREM NothingBeginsUntold == Spec => []BeginsWhenTold
  BY Invariance, PTL DEF Inv
===========================================================================

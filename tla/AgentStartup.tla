--------------------------- MODULE AgentStartup ---------------------------
(* From the loading of the agent to the first line of the program (yt.c,
   lua_interface.c).  The thread of the virtual machine sets up Lua, starts the
   thread of the command interpreter and waits on thread_resume_monitor; the
   interpreter runs the runfile and then reads lines, and g() notifies the
   monitor.  No thread is debugged before the program begins, so g() takes the
   branch of thread_resume_monitor here; DebugSession has the other one. *)
EXTENDS RawMonitor

CONSTANTS VM,        \* the thread that loads the agent and runs cbVMInit
          CMD,       \* the thread of the command interpreter
          Runfiles,  \* what the runfile may come to
          CallsG,    \* whether the runfile may call g()
          Fallible,  \* whether set-up calls may fail
          Interrupts \* whether somebody may interrupt the thread VM

Threads == {VM, CMD}

\* No runfile, one that cannot be loaded, one that raises an error, one that
\* returns true, one that returns false or nothing.
AllRunfiles == {"none", "unloadable", "error", "true", "false"}

ASSUME StartupAssumption ==
  /\ VM # CMD
  /\ Nobody \notin Threads
  /\ Runfiles \subseteq AllRunfiles
  /\ CallsG \subseteq BOOLEAN
  /\ Fallible \in BOOLEAN
  /\ Interrupts \in BOOLEAN

VARIABLES vm,        \* the step of the thread of the virtual machine
          cmd,       \* the step of the interpreter
          caller,    \* what the interpreter goes on with after g()
          runfile,   \* what the runfile comes to
          scriptG,   \* whether the runfile has a call of g() before it
          made,      \* whether CreateRawMonitor has made thread_resume_monitor
          resume,    \* thread_resume_monitor, if it was made
          told,      \* history: whether g() notified the monitor while VM waited
          interrupted\* history: whether the wait of VM ended in an interrupt

script  == <<runfile, scriptG>>
cmdVars == <<cmd, caller, script>>
history == <<told, interrupted>>
vars    == <<vm, cmdVars, made, resume, history>>

VMSteps == {"onload", "monitor", "interface", "start", "enter", "wait", "waiting",
            "exit", "begun", "refused", "aborted"}

CmdSteps == {"absent", "setopts", "start_cmd", "result", "read",
             "lock", "notify", "unlock", "ended"}

TypeOK ==
  /\ vm \in VMSteps
  /\ cmd \in CmdSteps
  /\ caller \in {"result", "read"}
  /\ runfile \in Runfiles
  /\ scriptG \in BOOLEAN
  /\ made \in BOOLEAN
  /\ resume \in Monitor(Threads)
  /\ told \in BOOLEAN
  /\ interrupted \in BOOLEAN

Init ==
  /\ vm = "onload"
  /\ cmd = "absent"
  /\ caller = "read"
  /\ runfile \in Runfiles
  /\ scriptG \in CallsG
  /\ made = FALSE
  /\ resume = FreeMonitor
  /\ told = FALSE
  /\ interrupted = FALSE

VMGoto(from, to) == vm = from /\ vm' = to
CmdGoto(from, to) == cmd = from /\ cmd' = to

---------------------------------------------------------------------------
(* The virtual machine *)

\* Agent_OnLoad asks for the capabilities and for VM_INIT.
OnLoad ==
  /\ VMGoto("onload", "monitor")
  /\ UNCHANGED <<cmdVars, made, resume, history>>

\* Without a JVMTI environment the agent refuses to load; an error of a call
\* whose result is kept aborts the virtual machine.
OnLoadFails ==
  /\ Fallible
  /\ \E end \in {"refused", "aborted"} : VMGoto("onload", end)
  /\ UNCHANGED <<cmdVars, made, resume, history>>

\* cbVMInit: the monitor.  The result of CreateRawMonitor is not stored in the
\* variable that is checked, so that cbVMInit goes on without a monitor too.
CreateMonitor ==
  /\ VMGoto("monitor", "interface")
  /\ made' = TRUE
  /\ UNCHANGED <<cmdVars, resume, history>>

CreateMonitorFails ==
  /\ Fallible
  /\ VMGoto("monitor", "interface")
  /\ UNCHANGED <<cmdVars, made, resume, history>>

\* The Lua state and debuglib.lua, any error of which aborts.
InitInterface ==
  /\ VMGoto("interface", "start")
  /\ UNCHANGED <<cmdVars, made, resume, history>>

InitInterfaceFails ==
  /\ Fallible
  /\ VMGoto("interface", "aborted")
  /\ UNCHANGED <<cmdVars, made, resume, history>>

RunAgentThread ==
  /\ VMGoto("start", "enter")
  /\ CmdGoto("absent", "setopts")
  /\ UNCHANGED <<caller, script, made, resume, history>>

\* assert(thread_class) and the three after it.
AssertFails ==
  /\ Fallible
  /\ VMGoto("start", "aborted")
  /\ UNCHANGED <<cmdVars, made, resume, history>>

\* Here too the result is not stored in the variable that is checked.
RunAgentThreadFails ==
  /\ Fallible
  /\ VMGoto("start", "enter")
  /\ UNCHANGED <<cmdVars, made, resume, history>>

EnterResume ==
  /\ made
  /\ CanEnter(resume, VM)
  /\ VMGoto("enter", "wait")
  /\ resume' = Entered(resume, VM)
  /\ UNCHANGED <<cmdVars, made, history>>

\* Without a monitor its identifier was never set: RawMonitorEnter, Wait and Exit
\* refuse it, which again nobody notices, ...
PassesResume ==
  /\ ~made
  /\ VMGoto("enter", "begun")
  /\ UNCHANGED <<cmdVars, made, resume, history>>

\* ... or what it happens to point to brings the virtual machine down, whichever
\* thread is first to use it.
ResumeCrashes ==
  /\ ~made
  /\ vm = "enter" \/ cmd = "lock"
  /\ vm' = "aborted"
  /\ cmd' = "ended"
  /\ UNCHANGED <<caller, script, made, resume, history>>

WaitResume ==
  /\ VMGoto("wait", "waiting")
  /\ resume' = Waiting(resume, VM)
  /\ UNCHANGED <<cmdVars, made, history>>

\* Slip: the thread does not wait to be notified.
WakesAtOnce ==
  /\ CanReenter(resume)
  /\ VMGoto("waiting", "exit")
  /\ resume' = Reentered(resume, VM, 1)
  /\ UNCHANGED <<cmdVars, made, history>>

Wakes ==
  /\ VM \notin resume.waiting
  /\ CanReenter(resume)
  /\ VMGoto("waiting", "exit")
  /\ resume' = Reentered(resume, VM, 1)
  /\ UNCHANGED <<cmdVars, made, history>>

\* The wait ends in JVMTI_ERROR_INTERRUPT, which is not looked at either.
WaitInterrupted ==
  /\ Interrupts
  /\ CanReenter(resume)
  /\ VMGoto("waiting", "exit")
  /\ resume' = Reentered(resume, VM, 1)
  /\ interrupted' = TRUE
  /\ UNCHANGED <<cmdVars, made, told>>

ExitResume ==
  /\ VMGoto("exit", "begun")
  /\ resume' = Exited(resume)
  /\ UNCHANGED <<cmdVars, made, history>>

---------------------------------------------------------------------------
(* The command interpreter *)

\* lua_start_cmd passes the options on and calls start_cmd.
SetOpts ==
  /\ CmdGoto("setopts", "start_cmd")
  /\ UNCHANGED <<vm, caller, script, made, resume, history>>

\* start_cmd loads the runfile; a call of g() in it comes before its result.
RunsFile ==
  /\ CmdGoto("start_cmd", IF runfile \in {"none", "unloadable"} THEN "read"
                          ELSE IF scriptG THEN "lock" ELSE "result")
  /\ caller' = IF cmd' = "lock" THEN "result" ELSE caller
  /\ UNCHANGED <<vm, script, made, resume, history>>

\* Only a runfile that succeeds with false or nothing ends start_cmd.  The true
\* start_cmd returns is dropped by lua_pcall; what lua_start_cmd finds on its
\* stack is the message handler, which counts as true, and the thread ends.
RunfileReturns ==
  /\ CmdGoto("result", IF runfile = "false" THEN "ended" ELSE "read")
  /\ UNCHANGED <<vm, caller, script, made, resume, history>>

TypesG ==
  /\ CmdGoto("read", "lock")
  /\ caller' = "read"
  /\ UNCHANGED <<vm, script, made, resume, history>>

\* A line whose result cannot be printed: the error ends start_cmd, and
\* lua_start_cmd too, as above.
TypesUnprintable ==
  /\ CmdGoto("read", "ended")
  /\ UNCHANGED <<vm, caller, script, made, resume, history>>

\* notify_without_lock
GLocks ==
  /\ made
  /\ CanEnter(resume, CMD)
  /\ CmdGoto("lock", "notify")
  /\ resume' = Entered(resume, CMD)
  /\ UNCHANGED <<vm, caller, script, made, history>>

\* lj_raw_monitor_enter does look at the error: the line fails, or the runfile.
GLockFails ==
  /\ ~made
  /\ CmdGoto("lock", "read")
  /\ UNCHANGED <<vm, caller, script, made, resume, history>>

\* Slip: nobody is notified.
GNotifiesNobody ==
  /\ CmdGoto("notify", "unlock")
  /\ told' = (told \/ VM \in resume.waiting)
  /\ UNCHANGED <<vm, caller, script, made, resume, interrupted>>

GNotifies ==
  /\ CmdGoto("notify", "unlock")
  /\ resume' \in Notified(resume)
  /\ told' = (told \/ VM \in resume.waiting)
  /\ UNCHANGED <<vm, caller, script, made, interrupted>>

\* Slips: the monitor is not left, or once too often.
GUnlockForgotten ==
  /\ CmdGoto("unlock", caller)
  /\ UNCHANGED <<vm, caller, script, made, resume, history>>

GUnlocksTwice ==
  /\ CmdGoto("unlock", caller)
  /\ resume' = Exited(Exited(resume))
  /\ UNCHANGED <<vm, caller, script, made, history>>

GUnlocks ==
  /\ CmdGoto("unlock", caller)
  /\ resume' = Exited(resume)
  /\ UNCHANGED <<vm, caller, script, made, history>>

---------------------------------------------------------------------------

VMStep ==
  \/ OnLoad \/ CreateMonitor \/ InitInterface \/ RunAgentThread
  \/ PassesResume \/ WaitResume \/ ExitResume

VMFails ==
  \/ OnLoadFails \/ CreateMonitorFails \/ InitInterfaceFails \/ AssertFails
  \/ RunAgentThreadFails \/ ResumeCrashes \/ WaitInterrupted

CmdStep ==
  \/ SetOpts \/ RunsFile \/ RunfileReturns
  \/ GLocks \/ GLockFails \/ GNotifies \/ GUnlocks

Next == VMStep \/ EnterResume \/ Wakes \/ VMFails \/ CmdStep \/ TypesG \/ TypesUnprintable

Spec == Init /\ [][Next]_vars

\* Both threads run, the monitor is not withheld for ever from a thread it is
\* offered to again and again, and a user at the prompt, whatever else is typed,
\* types g() sooner or later.
Fairness ==
  /\ WF_vars(VMStep) /\ WF_vars(CmdStep)
  /\ SF_vars(EnterResume) /\ SF_vars(Wakes)
  /\ SF_vars(TypesG)

FairSpec == Spec /\ Fairness

---------------------------------------------------------------------------
(* Properties *)

\* The program begins only after a g() that found cbVMInit waiting (one that comes
\* before the wait does not count), and untold in two cases only: there was no
\* monitor to wait on, or the wait was interrupted.
BeginsWhenTold ==
  vm \in {"exit", "begun"} => told \/ interrupted \/ ~made

\* Each thread has the entries in thread_resume_monitor its step implies: one
\* between enter and exit, none otherwise and none while it waits.
ResumeAccounting ==
  LET Entries(t) == IF t = VM THEN vm \in {"wait", "exit"}
                    ELSE cmd \in {"notify", "unlock"}
  IN /\ \A t \in Threads : Entries(t) <=> resume.owner = t
     /\ resume.count = IF resume.owner = Nobody THEN 0 ELSE 1
     /\ VM \in resume.waiting => vm = "waiting"

\* As long as there is an interpreter, typing g() makes the program begin.
TypingGBegins ==
  vm = "waiting" ~> vm = "begun" \/ cmd \in {"ended", "absent"}

\* configuration.md: a runfile that returns false "will begin execution
\* normally".
RunfileFalseBegins ==
  cmd = "result" /\ runfile = "false" ~> vm = "begun"
===========================================================================

------------------------------ MODULE SysCtrl ------------------------------
(***************************************************************************)
(* The table of timed tasks (Taskschedule.c) and the task that runs them   *)
(* (SysCtrl.c).  Every 25 ms the main task posts the tasks that are due to *)
(* the mailbox of the system control task; a handler that returns DISABLE  *)
(* has its entry switched off.  One entry runs a delayed command           *)
(* (DelayTrigTimeTask in Report.c): main stores the command of the         *)
(* platform, an SMS or the serial line in one variable, DelayAckCommand,   *)
(* and switches the entry on.                                              *)
(*                                                                         *)
(* Entries that are never switched on are left out.  The handlers of gps,  *)
(* sleep, speed, area and corner are empty in this build.                  *)
(***************************************************************************)
EXTENDS Naturals, Sequences

CONSTANTS
  Second,    \* SECOND, in ticks of the scheduler
  BoxSize,   \* messages that the mailbox holds
  Hazards    \* the disturbances admitted

Disturbances ==
  { "backlog" }  \* a delayed command that takes longer than a tick

ASSUME SecondAssumption == Second \in Nat /\ Second >= 1
ASSUME BoxSizeAssumption == BoxSize \in Nat
ASSUME SysHazardsAssumption == Hazards \subseteq Disturbances

VARIABLES
  enabled,    \* TaskTimerState of each entry
  left,       \* ticks until TaskTimerCount is reached
  box,        \* the mailbox of the system control task
  ctr,        \* proc_sysCtrl_task's ctr: FALSE is DISABLE
  handler,    \* where the system control task stands
  running,    \* the command that DelayTrigTimeTask switched on
  cmd,        \* DelayAckCommand
  accepting,  \* main has set cmd and not yet the timer
  owed,       \* history: the last command acknowledged, until it is carried
              \* out; none if it came while a delayed command was handled
  dirty       \* records saved since the blind control record was written

table == <<enabled, left>>
sysCtrl == <<box, ctr, handler, running>>
command == <<cmd, accepting, owed>>
vars == <<table, sysCtrl, command, dirty>>

\* MyTimerTask, in the order in which it is scanned.
MyTimerTask ==
  <<"gps", "heartbeat", "sleep", "io", "delay", "speed", "area", "corner">>
Tasks == { MyTimerTask[i] : i \in 1 .. Len(MyTimerTask) }

\* TaskExTimer.
TaskExTimer(t) == CASE t \in {"io", "speed", "area"} -> 1
                    [] t = "delay" -> 3 * Second
                    [] OTHER -> Second

\* The values that DelayAckCommand is given: 7, 5, 12, 14 and 0x0500.
Commands == {"reset", "restart", "shutdown", "report", "control"}

-----------------------------------------------------------------------------
Init ==
  /\ enabled = [t \in Tasks |-> t # "delay"]
  /\ left = [t \in Tasks |-> 0]
  /\ box = <<>> /\ ctr = TRUE /\ handler = "idle" /\ running = "none"
  /\ cmd = "none" /\ accepting = FALSE
  /\ owed = "none" /\ dirty = FALSE

-----------------------------------------------------------------------------
(* The main task. *)

\* Faults for the mutation checks: a handler that does not assign its result,
\* an entry left off, a time met exactly, a reset that is backed up and taken
\* for done.
CtrOfStale(t) == ctr
SetTimerTaskOff == UNCHANGED enabled
DueExactly == { t \in Tasks : enabled[t] /\ left[t] = 1 }
BackUpLast ==
  /\ handler = "act" /\ running = "reset"
  /\ dirty' = FALSE
  /\ cmd' = "restart"
  /\ handler' = "finish"
  /\ UNCHANGED <<table, box, ctr, running, accepting, owed>>

\* The entries whose time has come.
Due == { t \in Tasks : enabled[t] /\ left[t] <= 1 }

\* What the scan of the table posts, in the order of MyTimerTask.
Post(t) == IF t \in Due THEN <<t>> ELSE <<>>

DuePosts ==
  Post("gps") \o Post("heartbeat") \o Post("sleep") \o Post("io")
    \o Post("delay") \o Post("speed") \o Post("area") \o Post("corner")

\* TimerTaskScheduler.  A full mailbox drops what does not fit.
Tick ==
  LET posted == box \o DuePosts IN
  /\ ~accepting
  /\ \/ box = <<>> /\ handler = "idle"
     \/ "backlog" \in Hazards /\ handler = "act"
  /\ left' = [t \in Tasks |->
                CASE t \in Due -> TaskExTimer(t)
                  [] enabled[t] /\ t \notin Due -> left[t] - 1
                  [] OTHER -> left[t]]
  /\ box' = IF Len(posted) > BoxSize THEN SubSeq(posted, 1, BoxSize)
                                     ELSE posted
  /\ UNCHANGED <<enabled, ctr, handler, running, command, dirty>>

\* A handler of a command sets DelayAckCommand; the answer of the car control
\* alone waits until the entry is off.  Nothing else is asked for: the system
\* control task may be anywhere, and another command may be waiting.
Accept(c) ==
  /\ ~accepting
  /\ c = "control" => ~enabled["delay"]
  /\ cmd' = c
  /\ accepting' = TRUE
  /\ owed' = IF handler = "idle" THEN c ELSE "none"
  /\ UNCHANGED <<table, sysCtrl, dirty>>

\* SetTimerTask switches the entry on.  Every command is given the three
\* seconds that are the entry's TaskExTimer.
SwitchOn == enabled' = [enabled EXCEPT !["delay"] = TRUE]

SetTimerTask ==
  /\ accepting
  /\ SwitchOn
  /\ left' = [left EXCEPT !["delay"] = TaskExTimer("delay")]
  /\ accepting' = FALSE
  /\ UNCHANGED <<sysCtrl, cmd, owed, dirty>>

\* A record saved in the blind area.
SaveRecord ==
  /\ dirty' = TRUE
  /\ UNCHANGED <<table, sysCtrl, command>>

-----------------------------------------------------------------------------
(* The system control task. *)

\* ctr after the handler of a task other than delay: only io assigns it.
CtrOf(t) == t = "io" \/ ctr

\* A message of another task: ctr is tested after every handler.
RunTask ==
  /\ handler = "idle" /\ box # <<>> /\ Head(box) # "delay"
  /\ LET t == Head(box) IN
     /\ ctr' = CtrOf(t)
     /\ enabled' = [enabled EXCEPT ![t] = @ /\ ctr']
  /\ box' = Tail(box)
  /\ UNCHANGED <<left, handler, running, command, dirty>>

\* DelayTrigTimeTask with nothing to do returns DISABLE.
NothingDelayed ==
  /\ handler = "idle" /\ box # <<>> /\ Head(box) = "delay" /\ cmd = "none"
  /\ box' = Tail(box)
  /\ ctr' = FALSE /\ handler' = "clear"
  /\ UNCHANGED <<table, running, command, dirty>>

\* The switch on DelayAckCommand.
StartDelayed ==
  /\ handler = "idle" /\ box # <<>> /\ Head(box) = "delay" /\ cmd # "none"
  /\ box' = Tail(box)
  /\ running' = cmd /\ handler' = "act"
  /\ UNCHANGED <<table, ctr, command, dirty>>

\* 14 and 0x0500: the position goes to the platform.
SendPosition ==
  /\ handler = "act" /\ running \in {"report", "control"}
  /\ owed' = IF owed = running THEN "none" ELSE owed
  /\ handler' = "finish"
  /\ UNCHANGED <<table, box, ctr, running, cmd, accepting, dirty>>

\* Only the answer 0x0500 is tried again if it cannot be sent.
SendFails ==
  /\ handler = "act" /\ running = "control"
  /\ ctr' = TRUE /\ handler' = "idle"
  /\ UNCHANGED <<table, box, running, command, dirty>>

\* 7: the blind control record is written; the reset is the next command.
BackUpFirst ==
  /\ handler = "act" /\ running = "reset"
  /\ dirty' = FALSE
  /\ cmd' = "restart"
  /\ ctr' = TRUE /\ handler' = "idle"
  /\ UNCHANGED <<table, box, running, accepting, owed>>

\* What any reset or loss of power leaves.
PowerCycle ==
  /\ enabled' = [t \in Tasks |-> t # "delay"]
  /\ left' = [t \in Tasks |-> 0]
  /\ box' = <<>> /\ ctr' = TRUE /\ handler' = "idle" /\ running' = "none"
  /\ cmd' = "none" /\ accepting' = FALSE
  /\ owed' = "none" /\ dirty' = FALSE

\* 5: Ql_Reset.
Reset == handler = "act" /\ running = "restart" /\ PowerCycle

\* 12: the control record is written, then the power goes.
Shutdown == handler = "act" /\ running = "shutdown" /\ PowerCycle

\* The end of DelayTrigTimeTask: DelayAckCommand = 0, return DISABLE.
Finish ==
  /\ handler = "finish"
  /\ cmd' = "none"
  /\ ctr' = FALSE /\ handler' = "clear"
  /\ UNCHANGED <<table, box, running, accepting, owed, dirty>>

ClrTimerTask ==
  /\ handler = "clear"
  /\ enabled' = [enabled EXCEPT !["delay"] = FALSE]
  /\ handler' = "idle"
  /\ UNCHANGED <<left, box, ctr, running, command, dirty>>

Main == Tick \/ (\E c \in Commands : Accept(c)) \/ SetTimerTask \/ SaveRecord

Control == \/ RunTask \/ NothingDelayed \/ StartDelayed
           \/ SendPosition \/ SendFails \/ BackUpFirst \/ Reset \/ Shutdown
           \/ Finish \/ ClrTimerTask

Next == Main \/ Control

Spec == Init /\ [][Next]_vars

-----------------------------------------------------------------------------
(* Properties. *)

\* The types of the variables.
TypeOK ==
  /\ enabled \in [Tasks -> BOOLEAN] /\ left \in [Tasks -> Nat]
  /\ box \in Seq(Tasks)
  /\ ctr \in BOOLEAN
  /\ handler \in {"idle", "act", "finish", "clear"}
  /\ running \in Commands \cup {"none"} /\ cmd \in Commands \cup {"none"}
  /\ accepting \in BOOLEAN
  /\ owed \in Commands \cup {"none"} /\ dirty \in BOOLEAN

\* The alarm inputs are scanned for ever, whatever a delayed command leaves in
\* the variable that the handlers share (SysCtrl.c:84-87).
IoNeverStops == enabled["io"]

\* The upgrade result note, in the heartbeat entry, keeps running
\* (UpdateFirmware.c:77).
HeartbeatNeverStops == enabled["heartbeat"]

\* cmd carries c out: a reset becomes a restart on the way.
Carries(c) == cmd = c \/ (c = "reset" /\ cmd = "restart")

\* The last command that was acknowledged is in DelayAckCommand with the entry
\* on, or main is still switching the entry on, until it is carried out
\* (Report.c:489-622, Taskschedule.c:129-134).  A command that comes between
\* the start of DelayTrigTimeTask and the ClrTimerTask that follows it
\* (SysCtrl.c:84-87) may be lost, and one that is overwritten is lost.
NoCommandStranded ==
  owed # "none" => Carries(owed) /\ (enabled["delay"] \/ accepting)

\* A command that waits has the entry on when both tasks rest
\* (SysCtrl.c:84-87).
WaitingCommandTimed ==
  cmd # "none" /\ ~accepting /\ handler = "idle" => enabled["delay"]

\* The reset that the platform ordered loses no saved record
\* (Report.c:552-558).
ResetAfterBackup == [][Reset /\ owed = "reset" => ~dirty]_vars

-----------------------------------------------------------------------------
(* Liveness. *)

\* Both tasks are scheduled, and sending succeeds from time to time.
Fairness == /\ WF_vars(Tick) /\ WF_vars(SetTimerTask) /\ WF_vars(Control)
            /\ SF_vars(SendPosition)

FairSpec == Spec /\ Fairness

\* The last command that was acknowledged while none was handled is carried
\* out, or the device restarts for another reason, unless a further command
\* comes: each one restarts the three seconds of the only entry
\* (Report.c:489-622, Taskschedule.c:133).
EveryCommandRuns == \A c \in Commands : owed = c ~> (owed # c \/ accepting)
=============================================================================

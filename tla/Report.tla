------------------------------- MODULE Report -------------------------------
(***************************************************************************)
(* Timed position reports and low power (Report.c, with the messages of    *)
(* main.c, the login of tcp_log.c and the tracking command of              *)
(* RadioProtocol.c).                                                       *)
(*                                                                         *)
(* The report task runs several times a second; the main task decides      *)
(* REPORT_OVERTIME later whether the report must be saved and whether the  *)
(* device powers down until the alarm clock wakes it for the next report.  *)
(* Awake on its own the task counts seconds; awake on the alarm it waits   *)
(* for the second that has the stored offset within the interval.          *)
(*                                                                         *)
(* Time is the clock modulo Cycle, which every interval divides.  The      *)
(* status word, the position and the text of a report are left out.        *)
(***************************************************************************)
EXTENDS Integers, FiniteSets

CONSTANTS
  SleepTimes,   \* values of E2_SLEEP_REPORT_TIME_ID, the report interval
  TrackSpaces,  \* intervals of a temporary tracking (0x8202)
  TrackCounts,  \* numbers of reports of a temporary tracking
  Cycle,        \* bound: the clock modulo, and the cap of the counted seconds
  Overtime,     \* REPORT_OVERTIME
  Lead,         \* the alarm rings this long before the report (60 s)
  HeadStart,    \* the first report comes this long after the login (5 s)
  StayUp,       \* reports up to this interval keep the device on (5*60 s)
  LoginMin,     \* a login powers down from this interval on (30*60 s) ...
  LoginAwake,   \* ... if more than this has passed in it (10*60 s)
  Hazards,      \* the disturbances admitted
  MaxCmd,       \* bound: commands
  MaxDrop,      \* bound: lost connections
  MaxBoot       \* bound: crashes and power-ons by key

Disturbances ==
  { "slow_task",    \* a second passes before the report task has run
    "late_reply",   \* a reply later than REPORT_OVERTIME
    "foreign_ack",  \* the reply to another 0x0200 while a report is undecided
    "quick_report", \* what brings the next report close to an undecided one
    "stop_track",   \* 0x8202 with two bytes, which ends a tracking
    "retrack",      \* 0x8202 while a tracking is in force
    "rtc_change",   \* the interval changes while the alarm offset rules
    "key_wake" }    \* the device is switched on before the alarm

Multiples == { d \in 1 .. Cycle : Cycle % d = 0 }

ASSUME IntervalAssumption == /\ Cycle \in Nat \ {0}
                             /\ SleepTimes # {}
                             /\ SleepTimes \subseteq Multiples
                             /\ TrackSpaces \subseteq Multiples
                             /\ \A d \in SleepTimes : d > Lead /\ d > HeadStart
ASSUME DelayAssumption == /\ Overtime \in Nat /\ Lead \in Nat
                          /\ HeadStart \in Nat /\ StayUp \in Nat
                          /\ LoginMin \in Nat /\ LoginAwake \in Nat
                          /\ StayUp >= Lead /\ LoginAwake >= Lead
ASSUME CommandAssumption == TrackCounts \subseteq Nat \ {0}
ASSUME HazardsAssumption == Hazards \subseteq Disturbances
ASSUME BoundAssumption == MaxCmd \in Nat /\ MaxDrop \in Nat /\ MaxBoot \in Nat

VARIABLES
  now,        \* the real-time clock
  alarm,      \* the alarm clock
  powered,    \* FALSE after Ql_PowerDown
  wake,       \* m_pwrOnReason: "rtc" (RTCPWRON) or "key" (any other)
  status,     \* ReportStatus
  offset,     \* RTCWakeUpTimeOffset
  count,      \* Link1ReportTimeCount
  fresh,      \* the second is not LastmkTime
  sleepTime,  \* AccOffReportTimeSpace
  space,      \* TempTrackTimeSpace
  tracks,     \* TempTrackCount
  reporting,  \* the report task has yet to clear the acknowledgement
  cur,        \* what became of the report in Link1ReportBuffer
  ackFlag,    \* Link1ReportAckFlag
  saveTime,   \* the interval and the alarm in *pBlindSave
  posted,     \* MSG_ID_BLIND_SAVE is queued for the main task
  armed,      \* LOGIC_BLIND_SAVE_TMR_ID runs ...
  timer,      \* ... and has this long to go
  halfTrack,  \* 0x8202 has set the interval and not yet this count
  event,      \* command 14: a report that nobody times is due
  acks,       \* replies to 0x0200 on their way
  auth,       \* TerminalAuthorizationFlag
  waiting,    \* the blind queue is not empty
  update,     \* the upgrade flag
  fOffset, fTrack,          \* FRAM: the offset and the tracking record
  eSleep, eTrack,           \* parameters: the two intervals
  cmds, drops, boots,       \* counters for the bounds
  sentNow,    \* history: a report was sent in this second
  dropped     \* history: a report was neither taken nor saved

clock == <<now, alarm, powered>>
mode == <<wake, offset>>
line == <<status, count, fresh, reporting>>
intervals == <<sleepTime, space, tracks>>
save == <<saveTime, posted, armed, timer>>
answer == <<cur, ackFlag, acks>>
command == <<halfTrack, event, cmds>>
net == <<auth, waiting, drops>>
store == <<fOffset, fTrack, eSleep, eTrack>>
history == <<sentNow, dropped>>
vars == <<clock, mode, line, intervals, save, answer, command, net, update,
          store, boots, history>>

Never == -1    \* no alarm is set, no count is to be set

Time == 0 .. (Cycle - 1)

Later(t) == t % Cycle

-----------------------------------------------------------------------------
\* Faults for the mutation checks: a tracking interval without its count, the
\* alarm of the wrong second, a tracking that is not backed up, an answer kept
\* for the next report, a changed interval that leaves the alarm offset in
\* force.
IntervalSpaceOnly == IF space > 0 THEN space ELSE sleepTime
NextAlarmAtPoint(d) == (now + d) % Cycle
BackedUpNever == fTrack
AckAfterSendKept == ackFlag
WakeAfterChangeKept(byPlatform) == wake
CappedNever(n) == n

\* Report_GetLink1NextReportPoint.
Tracking == space > 0 /\ tracks > 0

Interval == IF Tracking THEN space ELSE sleepTime

\* Report_IsReady, after the count of this second.
Report_IsReady == IF wake = "rtc" THEN offset = now % Interval
                                  ELSE count + 1 >= Interval

\* The offset kept for the next start on the alarm.
NewOffset == now % Interval

\* The alarm that a report sets: a minute before the next one.
NextAlarm(d) == Later(now + d - Lead)

\* mkTime # LastmkTime: the timed part runs once a second.
NewSecond == fresh

\* The count and the interval of a tracking after one of its reports.
TracksAfter == IF Tracking THEN tracks - 1 ELSE tracks

SpaceAfter == IF Tracking /\ tracks = 1 THEN 0 ELSE space

\* The record that Report_PramBackup writes: its check value is that of the
\* count and the interval.
TrackRecord(n, s) == [num |-> n, space |-> s, crc |-> <<n, s>>]

TrackRecordValid(r) == r.crc = <<r.num, r.space>>

\* Every report of a tracking is backed up.
BackedUp == IF Tracking THEN TrackRecord(TracksAfter, SpaceAfter) ELSE fTrack

\* Link1ReportAckFlag once the report is on its way.
AckAfterSend == FALSE

\* m_pwrOnReason after a new interval.
WakeAfterChange(byPlatform) == IF byPlatform THEN "key" ELSE wake

\* An upgrade or a temporary tracking keeps the device on.
KeepsUp == update # 0 \/ tracks # 0

\* A report whose answer the main task still waits for.
Undecided == reporting \/ posted \/ armed

\* Saturation of a count of seconds (bound Cycle).
Capped(n) == IF n > Cycle THEN Cycle ELSE n

-----------------------------------------------------------------------------
Init ==
  /\ now = 0 /\ alarm = Never /\ powered = TRUE
  /\ wake = "key" /\ offset = 0
  /\ status = "Off" /\ count = 0 /\ fresh = TRUE /\ reporting = FALSE
  /\ sleepTime = 0 /\ space = 0 /\ tracks = 0
  /\ saveTime = [interval |-> 0, alarm |-> 0]
  /\ posted = FALSE /\ armed = FALSE /\ timer = 0
  /\ cur = "none" /\ ackFlag = FALSE /\ acks = {}
  /\ halfTrack = Never /\ event = FALSE
  /\ auth = FALSE /\ waiting = FALSE /\ update = 0
  /\ fOffset = 0 /\ fTrack = TrackRecord(0, 0)
  /\ eSleep \in SleepTimes /\ eTrack = 0
  /\ cmds = 0 /\ drops = 0 /\ boots = 0
  /\ sentNow = FALSE /\ dropped = FALSE

-----------------------------------------------------------------------------
(* The report task. *)

\* ReportStatus_Init: the count is set to report soon, the parameters are
\* read again.  After a start on the alarm the interval may not be read yet:
\* the unsigned difference is then past every interval.
ReportInit ==
  /\ powered /\ status = "Init" /\ ~reporting
  /\ status' = IF auth THEN "On" ELSE "Wait"
  /\ count' = CASE ~auth -> count
                [] auth /\ sleepTime >= HeadStart -> sleepTime - HeadStart
                [] OTHER -> Cycle
  /\ sleepTime' = eSleep /\ space' = eTrack
  /\ UNCHANGED <<clock, mode, fresh, reporting, tracks, save, answer, command,
                 net, update, store, boots, history>>

Reached == powered /\ status \in {"Wait", "On"} /\ ~reporting

\* ReportStatus_Wait goes over to On and on with the same run.
StatusNow == IF auth THEN "On" ELSE status

\* A second run in the same second.
SameSecond ==
  /\ Reached /\ ~NewSecond
  /\ status' = StatusNow
  /\ UNCHANGED <<clock, mode, count, fresh, reporting, intervals, save,
                 answer, command, net, update, store, boots, history>>

CountSecond ==
  /\ Reached /\ NewSecond /\ ~Report_IsReady
  /\ status' = StatusNow
  /\ count' = Capped(count + 1)
  /\ fresh' = FALSE
  /\ UNCHANGED <<clock, mode, reporting, intervals, save, answer, command,
                 net, update, store, boots, history>>

\* The report takes the one buffer, is sent if the terminal is logged in, and
\* the main task is asked to start the save timer.  A report that is still
\* undecided gives way to it.
SendReport ==
  /\ Reached /\ NewSecond /\ Report_IsReady
  /\ status' = StatusNow
  /\ fresh' = FALSE
  /\ offset' = IF wake = "rtc" THEN offset ELSE NewOffset
  /\ tracks' = TracksAfter /\ space' = SpaceAfter
  /\ fTrack' = BackedUp
  /\ cur' = IF auth THEN "flying" ELSE "lost"
  /\ acks' = { "other" : a \in acks }
  /\ saveTime' = [interval |-> Interval, alarm |-> NextAlarm(Interval)]
  /\ update' = IF update = 0 THEN 0 ELSE 1
  /\ posted' = TRUE
  /\ reporting' = TRUE
  /\ sentNow' = TRUE
  /\ dropped' = (dropped \/ ((posted \/ armed) /\ cur # "taken"))
  /\ UNCHANGED <<clock, wake, count, sleepTime, armed, timer, ackFlag,
                 command, net, fOffset, eSleep, eTrack, boots>>

\* The statements after the message to the main task.
ClearAck ==
  /\ powered /\ reporting
  /\ count' = 0
  /\ ackFlag' = AckAfterSend
  /\ reporting' = FALSE
  /\ UNCHANGED <<clock, mode, status, fresh, intervals, save, cur, acks,
                 command, net, update, store, boots, history>>

ReportTask == ReportInit \/ SameSecond \/ CountSecond \/ SendReport \/ ClearAck

-----------------------------------------------------------------------------
(* The main task. *)

\* MSG_ID_BLIND_SAVE starts, or starts again, the one timer.
StartSaveTimer ==
  /\ powered /\ posted /\ halfTrack = Never
  /\ posted' = FALSE
  /\ armed' = TRUE /\ timer' = Overtime
  /\ UNCHANGED <<clock, mode, line, intervals, saveTime, answer, command, net,
                 update, store, boots, history>>

\* Report_EnterPowerDownAfterReported: is the interval long enough?
LowPowerPays == saveTime.interval > StayUp

\* Callback_BlindSave_OnTimer.  Records that wait online keep the device on
\* too.
SaveTimeout ==
  LET stored == waiting \/ ~ackFlag
      down == ~KeepsUp /\ (~stored \/ ~auth) /\ LowPowerPays
  IN
  /\ powered /\ armed /\ timer = 0 /\ halfTrack = Never
  /\ "late_reply" \in Hazards \/ (cur # "flying" /\ "this" \notin acks)
  /\ armed' = FALSE
  /\ waiting' = stored
  /\ dropped' = (dropped \/ (ackFlag /\ cur # "taken"))
  /\ powered' = ~down
  /\ alarm' = IF down THEN saveTime.alarm ELSE alarm
  /\ fOffset' = IF down /\ wake # "rtc" THEN offset ELSE fOffset
  /\ UNCHANGED <<now, mode, line, intervals, saveTime, posted, timer, answer,
                 command, auth, drops, update, fTrack, eSleep, eTrack, boots,
                 sentNow>>

\* The general reply to any 0x0200: its serial number is not compared.
Report_CmdAck ==
  /\ powered /\ halfTrack = Never
  /\ \E a \in acks :
       /\ \/ a = "this" \/ "foreign_ack" \in Hazards
          \/ "late_reply" \in Hazards \/ ~Undecided
       /\ acks' = acks \ {a}
  /\ ackFlag' = TRUE
  /\ UNCHANGED <<clock, mode, line, intervals, save, cur, command, net,
                 update, store, boots, history>>

\* Net_First_Login.  Not awake on the alarm, a device with a long interval
\* goes back to sleep if more than ten minutes of it have passed.
Net_First_Login ==
  LET passed == now % eSleep
      back == wake # "rtc" /\ eSleep >= LoginMin /\ passed > LoginAwake
  IN
  /\ powered /\ ~auth /\ halfTrack = Never
  /\ "quick_report" \in Hazards \/ ~Undecided
  /\ auth' = TRUE
  /\ IF wake # "rtc"
       THEN count' = 0 /\ sleepTime' = eSleep /\ space' = eTrack
       ELSE UNCHANGED <<count, sleepTime, space>>
  /\ powered' = ~back
  /\ alarm' = IF back THEN Later(now + passed - Lead) ELSE alarm
  /\ status' = IF back THEN status ELSE "Init"
  /\ UNCHANGED <<now, mode, fresh, reporting, tracks, save, answer, command,
                 waiting, drops, update, store, boots, history>>

\* 0x8202, first half: the interval goes to FRAM, to the parameter and to the
\* variable; with six bytes the count follows.
TrackSpace(s, n) ==
  /\ powered /\ auth /\ halfTrack = Never /\ cmds < MaxCmd
  /\ "rtc_change" \in Hazards \/ (wake = "key" /\ alarm = Never)
  /\ "retrack" \in Hazards \/ tracks = 0 \/ n = Never
  /\ "quick_report" \in Hazards \/ ~Undecided
  /\ cmds' = cmds + 1
  /\ fTrack' = [fTrack EXCEPT !.space = s]
  /\ eTrack' = s /\ space' = s
  /\ count' = 0
  /\ halfTrack' = n
  /\ UNCHANGED <<clock, mode, status, fresh, reporting, sleepTime, tracks,
                 save, answer, event, net, update, fOffset, eSleep, boots,
                 history>>

\* 0x8202, second half.
TrackCount ==
  /\ powered /\ halfTrack # Never
  /\ tracks' = halfTrack
  /\ fTrack' = TrackRecord(halfTrack, space)
  /\ count' = 0
  /\ halfTrack' = Never
  /\ event' = TRUE
  /\ UNCHANGED <<clock, mode, status, fresh, reporting, sleepTime, space,
                 save, answer, cmds, net, update, fOffset, eSleep, eTrack,
                 boots, history>>

StopTrack == /\ "stop_track" \in Hazards
             /\ TrackSpace(0, Never)

StartTrack == \E s \in TrackSpaces, n \in TrackCounts : TrackSpace(s, n)

\* The interval set by a text message, or by the parameter command of the
\* platform, which also ends the rule of the alarm offset.
SetInterval(d, byPlatform) ==
  /\ powered /\ halfTrack = Never /\ cmds < MaxCmd
  /\ \/ "rtc_change" \in Hazards
     \/ alarm = Never /\ (byPlatform \/ wake = "key")
  /\ "quick_report" \in Hazards \/ ~Undecided
  /\ byPlatform => auth
  /\ cmds' = cmds + 1
  /\ eSleep' = d /\ sleepTime' = d /\ space' = eTrack
  /\ wake' = WakeAfterChange(byPlatform)
  /\ UNCHANGED <<clock, offset, line, tracks, save, answer, halfTrack, event,
                 net, update, fOffset, fTrack, eTrack, boots, history>>

ChangeInterval == \E d \in SleepTimes, p \in BOOLEAN : SetInterval(d, p)

\* The alarm rings in a device that is awake.
AlarmRings ==
  /\ powered /\ now = alarm /\ halfTrack = Never
  /\ alarm' = Never
  /\ wake' = "rtc"
  /\ offset' = IF wake = "rtc" THEN offset ELSE fOffset
  /\ UNCHANGED <<now, powered, line, intervals, save, answer, command, net,
                 update, store, boots, history>>

MainTask == \/ StartSaveTimer \/ SaveTimeout \/ Report_CmdAck
            \/ Net_First_Login \/ StartTrack \/ TrackCount \/ StopTrack
            \/ ChangeInterval \/ AlarmRings

-----------------------------------------------------------------------------
(* The system control task: command 14 sends a report and counts anew. *)

SendPosition ==
  /\ powered /\ event
  /\ event' = FALSE
  /\ acks' = IF auth THEN acks \cup {"other"} ELSE acks
  /\ waiting' = (waiting \/ ~auth)
  /\ count' = 0
  /\ UNCHANGED <<clock, mode, status, fresh, reporting, intervals, save, cur,
                 ackFlag, halfTrack, cmds, auth, drops, update, store, boots,
                 history>>

-----------------------------------------------------------------------------
(* The platform, the connection, the other tasks. *)

Deliver ==
  /\ cur = "flying"
  /\ cur' = "taken"
  /\ acks' = acks \cup {"this"}
  /\ UNCHANGED <<clock, mode, line, intervals, save, ackFlag, command, net,
                 update, store, boots, history>>

\* A report that does not arrive, or an answer that does not.
Lose ==
  /\ \/ cur = "flying" /\ cur' = "lost" /\ UNCHANGED acks
     \/ acks # {} /\ acks' = {} /\ UNCHANGED cur
  /\ UNCHANGED <<clock, mode, line, intervals, save, ackFlag, command, net,
                 update, store, boots, history>>

LinkLost ==
  /\ powered /\ auth /\ drops < MaxDrop
  /\ drops' = drops + 1
  /\ auth' = FALSE
  /\ cur' = IF cur = "flying" THEN "lost" ELSE cur
  /\ acks' = {}
  /\ UNCHANGED <<clock, mode, line, intervals, save, ackFlag, command,
                 waiting, update, store, boots, history>>

\* The blind task empties its queue (BlindUpload).
Drain ==
  /\ powered /\ auth /\ waiting
  /\ waiting' = FALSE
  /\ UNCHANGED <<clock, mode, line, intervals, save, answer, command, auth,
                 drops, update, store, boots, history>>

\* A remote upgrade is ordered; its download waits for the next try, or is
\* resumed (Upgrade).
StartUpgrade ==
  /\ powered /\ auth /\ update = 0 /\ cmds < MaxCmd
  /\ cmds' = cmds + 1
  /\ update' = 1
  /\ UNCHANGED <<clock, mode, line, intervals, save, answer, halfTrack, event,
                 net, store, boots, history>>

RetryUpgrade ==
  /\ powered /\ update # 0
  /\ update' = 3 - update
  /\ UNCHANGED <<clock, mode, line, intervals, save, answer, command, net,
                 store, boots, history>>

-----------------------------------------------------------------------------
(* The clock and the power. *)

\* A second passes.  Without "slow_task" the report task has run in it; the
\* messages between the tasks take less.
Second ==
  /\ now # alarm
  /\ powered /\ armed => timer > 0
  /\ powered => ~reporting /\ ~posted
  /\ "slow_task" \in Hazards \/ ~powered \/ status = "Off"
     \/ (status # "Init" /\ ~fresh)
  /\ now' = Later(now + 1)
  /\ fresh' = TRUE
  /\ timer' = IF armed /\ timer > 0 THEN timer - 1 ELSE timer
  /\ sentNow' = FALSE
  /\ UNCHANGED <<alarm, powered, mode, status, count, reporting, intervals,
                 saveTime, posted, armed, answer, command, net, update, store,
                 boots, dropped>>

\* Start-up: the tracking is resumed if its record is whole, the offset if
\* the alarm was the reason.
Start(reason) ==
  /\ powered' = TRUE
  /\ wake' = reason
  /\ offset' = IF reason = "rtc" THEN fOffset ELSE 0
  /\ status' = "Off" /\ count' = 0 /\ fresh' = TRUE /\ reporting' = FALSE
  /\ sleepTime' = 0
  /\ space' = IF TrackRecordValid(fTrack) THEN fTrack.space ELSE 0
  /\ tracks' = IF TrackRecordValid(fTrack) THEN fTrack.num ELSE 0
  /\ saveTime' = [interval |-> 0, alarm |-> 0]
  /\ posted' = FALSE /\ armed' = FALSE /\ timer' = 0
  /\ cur' = "none" /\ ackFlag' = FALSE /\ acks' = {}
  /\ halfTrack' = Never /\ event' = FALSE
  /\ auth' = FALSE /\ update' = 0
  /\ sentNow' = FALSE
  /\ UNCHANGED <<now, waiting, drops, store, cmds, dropped>>

AlarmWakes == /\ ~powered /\ now = alarm
              /\ alarm' = Never
              /\ Start("rtc")
              /\ UNCHANGED boots

KeyPowerOn == /\ "key_wake" \in Hazards /\ ~powered /\ boots < MaxBoot
              /\ boots' = boots + 1
              /\ Start("key")
              /\ UNCHANGED alarm

\* A reset or a power failure; the device starts again.
Crash == /\ powered /\ boots < MaxBoot
         /\ boots' = boots + 1
         /\ Start("key")
         /\ UNCHANGED alarm

-----------------------------------------------------------------------------
Environment == Deliver \/ Lose \/ LinkLost \/ Drain
               \/ StartUpgrade \/ RetryUpgrade

Power == Second \/ AlarmWakes \/ KeyPowerOn \/ Crash

Next == ReportTask \/ MainTask \/ SendPosition \/ Environment \/ Power

Spec == Init /\ [][Next]_vars

-----------------------------------------------------------------------------
(* Properties. *)

\* The intervals in force are ones that were set, a tracking in force has
\* reports to go, and every alarm is a time of the clock.
TypeOK ==
  /\ now \in Time /\ alarm \in Time \cup {Never} /\ powered \in BOOLEAN
  /\ wake \in {"key", "rtc"} /\ offset \in Time
  /\ status \in {"Off", "Init", "Wait", "On"}
  /\ count \in 0 .. Cycle /\ fresh \in BOOLEAN /\ reporting \in BOOLEAN
  /\ sleepTime \in SleepTimes \cup {0}
  /\ space \in TrackSpaces \cup {0} /\ tracks \in Nat
  /\ saveTime \in [interval : Nat, alarm : Time]
  /\ posted \in BOOLEAN /\ armed \in BOOLEAN /\ timer \in 0 .. Overtime
  /\ cur \in {"none", "flying", "lost", "taken"}
  /\ ackFlag \in BOOLEAN /\ acks \subseteq {"this", "other"}
  /\ halfTrack \in TrackCounts \cup {Never} /\ event \in BOOLEAN
  /\ auth \in BOOLEAN /\ waiting \in BOOLEAN /\ update \in 0 .. 2
  /\ fOffset \in Time
  /\ fTrack \in [num : Nat, space : TrackSpaces \cup {0},
                 crc : Nat \X (TrackSpaces \cup {0})]
  /\ eSleep \in SleepTimes /\ eTrack \in TrackSpaces \cup {0}
  /\ cmds \in Nat /\ drops \in Nat /\ boots \in Nat
  /\ sentNow \in BOOLEAN /\ dropped \in BOOLEAN

\* A report that the platform does not take is saved (main.c:248): no other
\* reply, no later report and no restart of the timer lets it fall through.
NoReportDropped == ~dropped

\* The device sleeps only towards the next report: the alarm is one Lead
\* before a second that has the stored offset (Report.c:454, tcp_log.c:855).
WakesBeforeReport ==
  ~powered => (alarm + Lead) % eSleep = fOffset % eSleep

\* A restart neither lengthens nor forgets a tracking that had been accepted,
\* and never takes half of a new one for it (Report.c:662-699).
TrackingSurvives ==
  [][Crash /\ halfTrack = Never =>
       (tracks' > 0 /\ space' > 0) = Tracking /\ (Tracking => tracks' = tracks)]_vars

-----------------------------------------------------------------------------
(* Liveness. *)

\* Every task is scheduled, timers and alarms come, the terminal gets online
\* after a start, and a platform that keeps getting reports takes one.
Fairness ==
  /\ WF_vars(ReportTask)
  /\ WF_vars(StartSaveTimer) /\ WF_vars(SaveTimeout)
  /\ WF_vars(Net_First_Login) /\ WF_vars(TrackCount) /\ WF_vars(AlarmRings)
  /\ WF_vars(SendPosition)
  /\ WF_vars(Report_CmdAck) /\ WF_vars(Drain)
  /\ WF_vars(Second) /\ WF_vars(AlarmWakes)
  /\ WF_vars(Deliver \/ Lose)

FairSpec == Spec /\ Fairness

\* Reports go on for ever, asleep and awake.
ReportsGoOn == []<>sentNow

\* With nothing waiting in the store, no upgrade, and an interval for which it
\* pays, the device keeps going to sleep (22G.txt:3-4).
LowPowerAgain ==
  <>[](~waiting /\ eSleep > StayUp /\ update = 0) => []<>(~powered)
=============================================================================

---------------------------- MODULE BlindUpload ----------------------------
(***************************************************************************)
(* Store and forward of unacknowledged positions (Blind.c): the blind task *)
(* uploads packs of up to PackNum records as message 0x0704, the main task *)
(* decides fifteen seconds later whether the pack was acknowledged, and    *)
(* the saves of new records go on meanwhile.  A semaphore passes one token *)
(* between the two tasks and the login handler.                            *)
(*                                                                         *)
(* A record is a number: the order in which it was saved.  Slot value 0 is *)
(* a slot that was never written.  Hazards is the set of disturbances the  *)
(* environment may cause; each one is named where it is used.              *)
(***************************************************************************)
EXTENDS BlindQueue, FiniteSets, Sequences

CONSTANTS
  PackNum,      \* FLASH_BLIND_PACK_NUM, records per pack
  ShamLimit,    \* unanswered packs tolerated on an open link (5)
  Savers,       \* the tasks that call Blind_Link1Save
  Hazards,      \* the disturbances admitted
  MaxRec,       \* bound: records saved
  MaxLogin,     \* bound: logins
  MaxBoot,      \* bound: crashes and planned power cycles
  Transit       \* bound: packs on their way to the platform

Disturbances ==
  { "second_save",       \* more than one save while a pack is outstanding
    "overlapping_save",  \* a save while a pack is being prepared
    "relogin",           \* a login while an earlier token is still in use
    "late_reply",        \* a reply later than the upload timeout
    "late_probe_reset",  \* the blind task runs before the callback returns
    "reset_in_save" }    \* another task resets the device during a save

ASSUME PackNumAssumption == PackNum \in Nat /\ PackNum >= 1
ASSUME ShamLimitAssumption == ShamLimit \in Nat
ASSUME SaversAssumption == Savers \subseteq {"main", "sysCtrl"}
ASSUME HazardsAssumption == Hazards \subseteq Disturbances
ASSUME BoundAssumption == /\ MaxRec \in Nat /\ MaxLogin \in Nat
                          /\ MaxBoot \in Nat /\ Transit \in Nat

VARIABLES
  q,          \* *pBlindCtrl, the control record in RAM
  slot,       \* the flash slots
  node,       \* the control record last written to flash
  backup,     \* BlindCtrlBackup
  probe,      \* blindProbe
  pc,         \* where the blind task stands
  taskAuth,   \* proc_blind_task's local terminalAuthFlag
  packed,     \* the records copied to ShareBuffer
  items,      \* turns of the loop in Blind_DataPack
  sem,        \* value of MySemaphore
  reportAck,  \* reportAck
  sham,       \* shamLinkCount
  posted,     \* MSG_ID_BLIND_CALLBACK messages queued for the main task
  timer,      \* LOGIC_BLIND_REPORT_TMR_ID is running
  closing,    \* the callback has yet to reset the probe
  saving,     \* per saver: the record it has written but not yet counted
  auth,       \* TerminalAuthorizationFlag
  link,       \* the connection really reaches the platform
  uplink,     \* packs on their way to the platform
  replies,    \* replies to 0x0704 on their way back
  powered,    \* FALSE after Ql_PowerDown
  nextRec, logins, boots,           \* counters for the bounds
  windowSaves,                      \* saves since the last backup
  saved, delivered, evicted         \* history of the records

ctrl == <<q, slot, node, backup, probe>>
task == <<pc, taskAuth, packed, items>>
mainTask == <<reportAck, sham, posted, timer, closing>>
net == <<auth, link, uplink, replies>>
power == <<powered, logins, boots>>
history == <<windowSaves, saved, delivered, evicted>>
vars == <<ctrl, task, mainTask, sem, saving, net, power, nextRec, history>>

Record == 1 .. MaxRec
None == 0

Idle == \A s \in Savers : saving[s] = None

\* The callbacks and messages of the main task run one at a time.
MainFree == /\ powered /\ ~closing
            /\ "main" \in Savers => saving["main"] = None

Preparing == pc \in {"read", "advance", "send", "probe"}

\* A pack has left the queue and its fate is not decided.
Outstanding == Preparing \/ posted > 0 \/ timer

\* The control record that the queue will have if no reply comes.
Pending == IF Outstanding THEN NodeResume(backup, Preparing \/ probe) ELSE q

-----------------------------------------------------------------------------
Init ==
  /\ q = EmptyControl /\ node = EmptyControl /\ backup = EmptyControl
  /\ slot = [i \in Index |-> None]
  /\ probe = FALSE
  /\ pc = "take" /\ taskAuth = FALSE /\ packed = {} /\ items = 0
  /\ sem = 0
  /\ reportAck = FALSE /\ sham = 0
  /\ posted = 0 /\ timer = FALSE /\ closing = FALSE
  /\ saving = [s \in Savers |-> None]
  /\ auth = FALSE /\ link = FALSE /\ uplink = <<>> /\ replies = 0
  /\ powered = TRUE
  /\ nextRec = 1 /\ logins = 0 /\ boots = 0
  /\ windowSaves = 0
  /\ saved = {} /\ delivered = {} /\ evicted = {}

-----------------------------------------------------------------------------
\* Faults for the mutation checks: a token given twice or not at all, a dead
\* link given up without clearing the flag.
GiveSemaphoreTwice(s) == s + 2
GiveSemaphoreNever(s) == s
StaysOnlineAlways(a, drop) == a

\* Blind_GiveSemaphore: MySemaphore is a counting semaphore.
GiveSemaphore(s) == s + 1

\* ClearTerminalAuthorizationFlag, when the callback gives the link up.
StaysOnline(a, drop) == a /\ ~drop

(* The blind task. *)

\* The semaphore is granted and the login flag is read before the upload.
TakeSemaphore ==
  /\ powered /\ pc = "take" /\ sem > 0
  /\ "late_probe_reset" \in Hazards \/ ~closing
  /\ sem' = sem - 1
  /\ taskAuth' = auth
  /\ pc' = "backup"
  /\ UNCHANGED <<ctrl, packed, items, mainTask, saving, net, power, nextRec,
                 history>>

\* An empty queue sends the task to sleep for five minutes.
FindEmpty ==
  /\ powered /\ pc = "backup" /\ IsCirQueueEmpty(q)
  /\ pc' = "sleep"
  /\ UNCHANGED <<ctrl, taskAuth, packed, items, sem, mainTask, saving, net,
                 power, nextRec, history>>

\* After the sleep the token is put back, if the flag read before the sleep
\* said that the terminal was logged in.
SleepOver ==
  /\ powered /\ pc = "sleep"
  /\ pc' = "take"
  /\ sem' = IF taskAuth THEN GiveSemaphore(sem) ELSE sem
  /\ UNCHANGED <<ctrl, taskAuth, packed, items, mainTask, saving, net, power,
                 nextRec, history>>

NodeBackup ==
  /\ powered /\ pc = "backup" /\ ~IsCirQueueEmpty(q)
  /\ "overlapping_save" \in Hazards \/ Idle
  /\ backup' = q
  /\ packed' = {} /\ items' = 0
  /\ pc' = "read"
  /\ windowSaves' = 0
  /\ UNCHANGED <<q, slot, node, probe, taskAuth, sem, mainTask, saving, net,
                 power, nextRec, saved, delivered, evicted>>

\* One turn of the pack loop that finds nothing to dequeue.
PackNothing ==
  /\ powered /\ pc = "read" /\ items < PackNum /\ IsCirQueueEmpty(q)
  /\ items' = items + 1
  /\ UNCHANGED <<ctrl, pc, taskAuth, packed, sem, mainTask, saving, net,
                 power, nextRec, history>>

\* DeCirQueue reads the slot at the head from flash ...
ReadSlot ==
  /\ powered /\ pc = "read" /\ items < PackNum /\ ~IsCirQueueEmpty(q)
  /\ packed' = packed \cup {slot[q.head]}
  /\ pc' = "advance"
  /\ UNCHANGED <<ctrl, taskAuth, items, sem, mainTask, saving, net, power,
                 nextRec, history>>

\* ... and then moves the head past it.
PassSlot ==
  /\ powered /\ pc = "advance"
  /\ q' = AdvanceHead(q)
  /\ items' = items + 1
  /\ pc' = "read"
  /\ UNCHANGED <<slot, node, backup, probe, taskAuth, packed, sem, mainTask,
                 saving, net, power, nextRec, history>>

PackDone ==
  /\ powered /\ pc = "read" /\ items = PackNum
  /\ pc' = "send"
  /\ UNCHANGED <<ctrl, taskAuth, packed, items, sem, mainTask, saving, net,
                 power, nextRec, history>>

\* The pack is sent, whatever the flag says; the result is ignored and the
\* main task is asked to start the timeout.
BulkUpTrans ==
  /\ powered /\ pc = "send" /\ Len(uplink) < Transit
  /\ uplink' = IF link THEN Append(uplink, packed) ELSE uplink
  /\ posted' = posted + 1
  /\ pc' = "probe"
  /\ UNCHANGED <<ctrl, taskAuth, packed, items, sem, reportAck, sham, timer,
                 closing, saving, auth, link, replies, power, nextRec,
                 history>>

SetProbe ==
  /\ powered /\ pc = "probe"
  /\ probe' = TRUE
  /\ pc' = "take"
  /\ UNCHANGED <<q, slot, node, backup, taskAuth, packed, items, sem,
                 mainTask, saving, net, power, nextRec, history>>

BlindTask == \/ TakeSemaphore \/ FindEmpty \/ SleepOver \/ NodeBackup
             \/ PackNothing \/ ReadSlot \/ PassSlot \/ PackDone
             \/ BulkUpTrans \/ SetProbe

-----------------------------------------------------------------------------
(* The main task. *)

\* MSG_ID_BLIND_CALLBACK starts, or starts again, the one timer.
StartReportTimer ==
  /\ MainFree /\ posted > 0
  /\ posted' = posted - 1
  /\ timer' = TRUE
  /\ UNCHANGED <<ctrl, task, sem, reportAck, sham, closing, saving, net,
                 power, nextRec, history>>

\* Blind_Report_Callback_OnTimer up to the release of the semaphore.  The
\* fifteen seconds are longer than the statement that sets the probe.
ReportTimeout ==
  LET silent  == ~reportAck
      drop    == silent /\ auth /\ sham > ShamLimit
      online  == StaysOnline(auth, drop)
      resumed == IF silent THEN NodeResume(backup, probe) ELSE q
  IN
  /\ MainFree /\ timer
  /\ ~(pc = "probe" /\ posted = 0)
  /\ "late_reply" \in Hazards \/ (uplink = <<>> /\ replies = 0)
  /\ timer' = FALSE
  /\ q' = resumed
  /\ reportAck' = FALSE
  /\ sham' = IF ~silent \/ drop THEN 0 ELSE IF auth THEN sham + 1 ELSE sham
  /\ auth' = online
  /\ IF drop THEN link' = FALSE /\ uplink' = <<>> /\ replies' = 0
             ELSE UNCHANGED <<link, uplink, replies>>
  /\ node' = IF online => IsCirQueueEmpty(resumed) THEN resumed ELSE node
  /\ sem' = IF online THEN GiveSemaphore(sem) ELSE sem
  /\ closing' = TRUE
  /\ UNCHANGED <<slot, backup, probe, task, posted, saving, power, nextRec,
                 history>>

\* The last statement of the callback, after the semaphore was released.
ResetProbe ==
  /\ powered /\ closing
  /\ probe' = FALSE
  /\ closing' = FALSE
  /\ UNCHANGED <<q, slot, node, backup, task, sem, reportAck, sham, posted,
                 timer, saving, net, power, nextRec, history>>

\* A general reply to any 0x0704: its serial number and result are ignored.
ReportAck ==
  /\ MainFree /\ replies > 0
  /\ replies' = replies - 1
  /\ reportAck' = TRUE
  /\ UNCHANGED <<ctrl, task, sem, sham, posted, timer, closing, saving, auth,
                 link, uplink, power, nextRec, history>>

\* Net_First_Login: the flag is set and a token is released.
Login ==
  /\ MainFree /\ logins < MaxLogin
  /\ "relogin" \in Hazards \/ (pc = "take" /\ sem = 0 /\ ~Outstanding)
  /\ logins' = logins + 1
  /\ auth' = TRUE /\ link' = TRUE
  /\ uplink' = <<>> /\ replies' = 0
  /\ sem' = GiveSemaphore(sem)
  /\ UNCHANGED <<ctrl, task, mainTask, saving, powered, boots, nextRec,
                 history>>

-----------------------------------------------------------------------------
(* Saving a record that the platform did not acknowledge. *)

\* Blind_EnCirQueue up to the flash write.
SaveWrite(s) ==
  /\ powered /\ saving[s] = None /\ nextRec <= MaxRec
  /\ s = "main" => MainFree
  /\ "overlapping_save" \in Hazards \/ (Idle /\ ~Preparing)
  /\ "second_save" \in Hazards \/ (Outstanding => windowSaves = 0)
  /\ LET made == MakeRoom(q) IN
     /\ q' = made
     /\ slot' = [slot EXCEPT ![made.tail] = nextRec]
  /\ saving' = [saving EXCEPT ![s] = nextRec]
  /\ nextRec' = nextRec + 1
  /\ windowSaves' = IF Outstanding THEN windowSaves + 1 ELSE windowSaves
  /\ evicted' = IF IsCirQueueFull(Pending)
                  THEN evicted \cup {slot[Pending.head]} ELSE evicted
  /\ UNCHANGED <<node, backup, probe, task, mainTask, sem, net, power, saved,
                 delivered>>

\* The rest of Blind_EnCirQueue and of Blind_Link1Save.
SaveCount(s) ==
  /\ powered /\ saving[s] # None
  /\ q' = AdvanceTail(q)
  /\ probe' = FALSE
  /\ saving' = [saving EXCEPT ![s] = None]
  /\ saved' = saved \cup {saving[s]}
  /\ UNCHANGED <<slot, node, backup, task, mainTask, sem, net, power, nextRec,
                 windowSaves, delivered, evicted>>

-----------------------------------------------------------------------------
(* The connection and the platform. *)

\* A close, deactivation or GSM drop that the terminal is told about.
LinkLost ==
  /\ MainFree /\ auth
  /\ auth' = FALSE /\ link' = FALSE /\ uplink' = <<>> /\ replies' = 0
  /\ UNCHANGED <<ctrl, task, mainTask, sem, saving, power, nextRec, history>>

\* The platform refuses the terminal (ServerGeneralAck clears the flag): the
\* socket stays open.
Deauthorise ==
  /\ MainFree /\ auth
  /\ auth' = FALSE
  /\ UNCHANGED <<ctrl, task, mainTask, sem, saving, link, uplink, replies,
                 power, nextRec, history>>

\* A link that dies unnoticed: the flag stays set.
LinkDies ==
  /\ powered /\ link
  /\ link' = FALSE /\ uplink' = <<>> /\ replies' = 0
  /\ UNCHANGED <<ctrl, task, mainTask, sem, saving, auth, power, nextRec,
                 history>>

PlatformReplies ==
  /\ uplink # <<>>
  /\ uplink' = Tail(uplink)
  /\ delivered' = delivered \cup Head(uplink)
  /\ replies' = replies + 1
  /\ UNCHANGED <<ctrl, task, mainTask, sem, saving, auth, link, power,
                 nextRec, windowSaves, saved, evicted>>

\* The platform takes the pack and its reply is lost.
PlatformSilent ==
  /\ uplink # <<>>
  /\ uplink' = Tail(uplink)
  /\ delivered' = delivered \cup Head(uplink)
  /\ UNCHANGED <<ctrl, task, mainTask, sem, saving, auth, link, replies,
                 power, nextRec, windowSaves, saved, evicted>>

-----------------------------------------------------------------------------
(* Power. *)

\* What Blind_Init and the zeroed statics leave after any restart.
Restart ==
  /\ q' = node /\ backup' = EmptyControl /\ probe' = FALSE
  /\ pc' = "take" /\ taskAuth' = FALSE /\ packed' = {} /\ items' = 0
  /\ sem' = 0
  /\ reportAck' = FALSE /\ sham' = 0
  /\ posted' = 0 /\ timer' = FALSE /\ closing' = FALSE
  /\ saving' = [s \in Savers |-> None]
  /\ auth' = FALSE /\ link' = FALSE /\ uplink' = <<>> /\ replies' = 0
  /\ powered' = TRUE
  /\ windowSaves' = 0
  /\ UNCHANGED <<slot, node, nextRec, logins, saved, delivered>>

\* The control record is written to flash and the device stops.
SaveNodeAndStop ==
  /\ boots < MaxBoot
  /\ node' = q
  /\ powered' = FALSE
  /\ boots' = boots + 1
  /\ UNCHANGED <<q, slot, backup, probe, task, mainTask, sem, saving, net,
                 logins, nextRec, history>>

\* Callback_BlindSave_OnTimer, after its save or without one if the report was
\* acknowledged, ends in Report_EnterPowerDownAfterReported when the queue is
\* empty or the terminal is offline.  The steps of the main task that follow
\* a save can be those of the same callback or of a later one.
PowerDown ==
  /\ MainFree
  /\ IsCirQueueEmpty(q) \/ ~auth
  /\ SaveNodeAndStop

\* A reset on command backs the control record up first; the reset itself
\* follows seconds later (Crash).
BackUpNode ==
  /\ powered
  /\ "reset_in_save" \in Hazards \/ Idle
  /\ node' = q
  /\ UNCHANGED <<q, slot, backup, probe, task, mainTask, sem, saving, net,
                 power, nextRec, history>>

\* A shutdown on command, or a reset on low voltage, from any task.
PlannedReset ==
  /\ powered
  /\ "reset_in_save" \in Hazards \/ Idle
  /\ SaveNodeAndStop

WakeUp == ~powered /\ Restart /\ UNCHANGED <<boots, evicted>>

\* A reset or a power failure between any two steps.  What was saved after
\* the control record was last written is given up.
Crash ==
  /\ powered /\ boots < MaxBoot
  /\ boots' = boots + 1
  /\ Restart
  /\ evicted' = evicted \cup (saved \ { slot[i] : i \in Live(node) })

-----------------------------------------------------------------------------
MainTask == StartReportTimer \/ ReportTimeout \/ ResetProbe \/ ReportAck

Save == \E s \in Savers : SaveWrite(s) \/ SaveCount(s)

Environment == \/ Login \/ LinkLost \/ Deauthorise \/ LinkDies
               \/ PlatformReplies \/ PlatformSilent

Power == PowerDown \/ BackUpNode \/ PlannedReset \/ WakeUp \/ Crash

Next == BlindTask \/ MainTask \/ Save \/ Environment \/ Power

Spec == Init /\ [][Next]_vars

-----------------------------------------------------------------------------
(* Properties. *)

\* The control record always addresses slots inside the flash area reserved
\* for it, and never counts more records than there are slots, however the
\* tasks interleave (Blind.c:189, 257, 386).
TypeOK ==
  /\ q \in Control /\ node \in Control /\ backup \in Control
  /\ slot \in [Index -> Nat]
  /\ probe \in BOOLEAN
  /\ pc \in {"take", "backup", "read", "advance", "send", "probe", "sleep"}
  /\ taskAuth \in BOOLEAN /\ packed \subseteq Nat /\ items \in 0 .. PackNum
  /\ sem \in Nat
  /\ reportAck \in BOOLEAN /\ sham \in Nat /\ posted \in Nat
  /\ timer \in BOOLEAN /\ closing \in BOOLEAN
  /\ saving \in [Savers -> Nat]
  /\ auth \in BOOLEAN /\ link \in BOOLEAN
  /\ uplink \in Seq(SUBSET Nat) /\ replies \in Nat
  /\ powered \in BOOLEAN
  /\ nextRec \in Nat /\ logins \in Nat /\ boots \in Nat
  /\ windowSaves \in Nat
  /\ saved \subseteq Nat /\ delivered \subseteq Nat /\ evicted \subseteq Nat

\* The places where the right to upload the next pack can be.
Tokens == sem + posted + (IF timer THEN 1 ELSE 0)
              + (IF pc # "take" /\ pc # "probe"
                   /\ ~(pc = "sleep" /\ ~taskAuth) THEN 1 ELSE 0)

\* While the terminal is logged in the uploads cannot stall: a token waits in
\* the semaphore, or is held by the blind task, or comes back with the upload
\* timeout (Blind.c:75-78, 491-499, tcp_log.c:877).
TokenHeld == auth => Tokens >= 1

\* When logins come only to an idle blind task, there is one token, so one
\* pack is outstanding at a time.
OneToken == Tokens <= 1

\* The records that the queue holds, or will hold again if no reply comes.
Kept == { slot[i] : i \in Live(Pending) }

\* A saved record leaves the store only to the platform, or because the
\* store was full and it was the oldest: not through a lost reply, nor a
\* save during an upload, nor a dropped link (Blind.c:345-410, 461-506).
NoSilentLoss == \A r \in saved : r \in Kept \cup delivered \cup evicted

\* The store never presents a slot that was never written, whatever crashes,
\* late replies and repeated saves do to the control record.
NoPhantom == \A i \in Live(q) \cup Live(node) : slot[i] # None

\* Between operations the tail is where head and len say it is, in RAM, in
\* the copy that a timeout restores and in flash.
QueueShape == /\ Idle => InShape(q)
              /\ InShape(backup) /\ InShape(node)

\* The next pack is prepared only when the fate of the current one is decided:
\* no timeout is pending and none is about to be started (Blind.c:9).
OnePackOut == Preparing /\ pc # "probe" => ~timer /\ posted = 0

\* The queue moves past a pack at its timeout only if the platform received
\* that pack (Blind.c:9, 466-486).
ConfirmedPackArrived ==
  [][timer /\ ~timer' /\ powered /\ powered' /\ reportAck => packed \subseteq delivered]_vars

\* The queue as it is once the save in progress is counted.
Settled == IF Idle THEN Pending
           ELSE IF Outstanding THEN NodeResume(backup, FALSE)
           ELSE AdvanceTail(q)

Store == INSTANCE BlindStore WITH
  Room     <- Cap,
  entries  <- [i \in 1 .. Settled.len |-> slot[SlotAt(Settled, i)]],
  received <- delivered,
  put      <- nextRec - 1

\* Packs, timeouts and replies together do what the abstract store promises:
\* records wait in the order of their saves, the oldest one gives way to a
\* save into a full store, and otherwise a record is given up only from the
\* oldest end and only when the platform has it (Blind.c:189-506).
ImplementsStore == Store!Spec

\* The device enters low power online only when the stored records have been
\* uploaded: no pack may be waiting for its reply (22G.txt:6).
DrainedBeforeLowPower == [][PowerDown /\ auth => ~Outstanding]_vars

-----------------------------------------------------------------------------
(* Liveness. *)

\* Each task is scheduled and each timer expires; a platform that keeps
\* getting packs answers one from time to time.
Fairness ==
  /\ WF_vars(BlindTask)
  /\ WF_vars(StartReportTimer) /\ WF_vars(ReportTimeout)
  /\ WF_vars(ResetProbe) /\ WF_vars(ReportAck)
  /\ \A s \in Savers : WF_vars(SaveCount(s))
  /\ WF_vars(PlatformReplies \/ PlatformSilent)
  /\ SF_vars(PlatformReplies)

FairSpec == Spec /\ Fairness

\* If the terminal stays online the store is eventually emptied.
DrainsWhenOnline ==
  <>[](powered /\ auth /\ link) => <>[](IsCirQueueEmpty(q) /\ ~Outstanding)

\* A terminal that keeps believing in a dead link has nothing to upload:
\* with a record waiting the link is eventually given up, so that a new login
\* can follow (Blind.c:470-480).
DeadLinkNoticed ==
  <>[](powered /\ auth /\ ~link) => <>[]IsCirQueueEmpty(Pending)
=============================================================================

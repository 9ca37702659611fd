------------------------------ MODULE Upgrade ------------------------------
(***************************************************************************)
(* Remote upgrade (UpdateFirmware.c, custom/fota/src, command 1 of 0x8105  *)
(* in RadioProtocol.c) and the note of its result to the platform.         *)
(*                                                                         *)
(* An order closes the link and downloads in the main task, which receives *)
(* it.  When the FTP server cannot be reached the download is tried again  *)
(* from the timer that decides about low power after each report, the two  *)
(* tell each other apart by the upgrade flag.  Every end of an upgrade     *)
(* restarts the device; a byte in the power-fail safe area survives it and *)
(* says what is to be noted to the platform after the next login.          *)
(*                                                                         *)
(* The address and the file are left out, and so is the length of waits.   *)
(***************************************************************************)
EXTENDS Integers

CONSTANTS
  MaxRetry,   \* failures of the download that are retried (updateRetry > 5)
  LoginWait,  \* ticks of the note that wait for the login (120)
  NoteTries,  \* times a result is sent without a reply (3)
  Hazards,    \* the disturbances admitted
  MaxOrder,   \* bound: orders
  MaxDrop,    \* bound: lost links
  MaxBoot     \* bound: crashes

Disturbances ==
  { "report_in_retry",    \* a report while a retry waits for the timer
    "get_refused",        \* the server is there and refuses the file
    "crash_in_update",    \* power fails between download and update
    "order_during_note",  \* an order before the last result is noted
    "drop_during_note",   \* the link is lost while a result is noted
    "off_before_note",    \* power-down within a second of the login
    "slow_login" }        \* a login later than LoginWait

ASSUME CountAssumption == /\ MaxRetry \in Nat /\ LoginWait \in Nat
                          /\ NoteTries \in Nat \ {0}
ASSUME HazardsAssumption == Hazards \subseteq Disturbances
ASSUME BoundAssumption == /\ MaxOrder \in Nat /\ MaxDrop \in Nat
                          /\ MaxBoot \in Nat

VARIABLES
  flag,     \* NetOther_FtpVal.flag: 1 upgrading, 2 a retry is due
  flash,    \* FRAM_FIRMWARE_UPDATA_FLAG: 0 nothing to note, 2 success, 3 failure
  stage,    \* how far the download has come
  retries,  \* updateRetry
  posted,   \* MSG_ID_BLIND_SAVE is queued for the main task
  armed,    \* LOGIC_BLIND_SAVE_TMR_ID runs
  leaving,  \* the main task has decided to power down
  step,     \* sucUpdataState
  polls,    \* sucUpdatacount
  result,   \* sucUpdataAckResult: 0 success, 1 failure
  note,     \* a 0x0108 is on its way
  acked,    \* s_ucUpdataResultNoteAckFlag
  auth,     \* TerminalAuthorizationFlag
  updated,  \* the firmware of the last order runs
  owed,     \* the outcome of the last order has yet to reach a live link
  orders, drops, boots

download == <<stage, retries>>
decision == <<posted, armed, leaving>>
notice   == <<step, polls, result, note, acked>>
counters == <<orders, drops, boots>>
vars == <<flag, flash, download, decision, notice, auth, updated, owed,
          counters>>

Stages == {"idle", "starting", "connecting", "getting", "writing",
           "refused", "reset_req"}
Noted == 255

\* The main task is not inside a download or a power-down, and
\* MSG_ID_RESET_MODULE_REQ does not wait for it.
MainFree == stage \notin {"starting", "connecting", "reset_req"} /\ ~leaving

Init ==
  /\ flag = 0 /\ flash = 0
  /\ stage = "idle" /\ retries = 0
  /\ posted = FALSE /\ armed = FALSE /\ leaving = FALSE
  /\ step = 0 /\ polls = 0 /\ result = 0 /\ note = FALSE /\ acked = FALSE
  /\ auth = FALSE /\ updated = FALSE /\ owed = FALSE
  /\ orders = 0 /\ drops = 0 /\ boots = 0

\* Ql_Reset, power-down until the alarm, power failure: what is in RAM is gone.
Restart ==
  /\ flag' = 0
  /\ stage' = "idle" /\ retries' = 0
  /\ posted' = FALSE /\ armed' = FALSE /\ leaving' = FALSE
  /\ step' = 0 /\ polls' = 0 /\ result' = 0 /\ note' = FALSE /\ acked' = FALSE
  /\ auth' = FALSE

-----------------------------------------------------------------------------
(* The order and the download                                              *)

\* Faults for the mutation checks.
FlashAfterOrderKept == flash
FlashAfterFailureKept == flash
MayRetryAlways == TRUE
UpgradeFailedNoReset ==
  /\ stage \in {"getting", "writing"}
  /\ flash' = 3 /\ stage' = "idle"
  /\ UNCHANGED <<flag, retries, decision, notice, auth, updated, owed, counters>>

\* The result is taken for a failure until the file is there.
FlashAfterOrder == 3

\* UP_UPGRADFAILED writes the failure before it resets the module.
FlashAfterFailure == 3

\* The test of updateRetry before it counts the failure.
MayRetry == retries <= MaxRetry

\* 0x8105 command 1: the failure is on record before the general reply goes
\* out; then the link is closed for the download.
Order ==
  /\ auth /\ flag = 0 /\ ~leaving /\ orders < MaxOrder
  /\ step # Noted => "order_during_note" \in Hazards
  /\ flag' = 1
  /\ flash' = FlashAfterOrder
  /\ stage' = "starting"
  /\ note' = FALSE
  /\ updated' = FALSE /\ owed' = TRUE
  /\ orders' = orders + 1
  /\ UNCHANGED <<retries, decision, step, polls, result, acked, auth, drops, boots>>

\* ftp_downfile_timer: no context, no FOTA or a bad URL resets the module.
StartUpgrade ==
  /\ stage = "starting"
  /\ \/ /\ stage' = "connecting"
        /\ UNCHANGED <<flag, retries, decision, notice, auth>>
     \/ Restart
  /\ UNCHANGED <<flash, updated, owed, counters>>

\* The server answers.  When it refuses the file MSG_ID_FTP_RESULT_IND goes to
\* the main task, which has no case for it.
FtpOpened ==
  /\ stage = "connecting"
  /\ flag' = 1
  /\ \E accepted \in IF "get_refused" \in Hazards THEN BOOLEAN ELSE {TRUE} :
       stage' = IF accepted THEN "getting" ELSE "refused"
  /\ UNCHANGED <<flash, retries, decision, notice, auth, updated, owed, counters>>

\* FTP_CONNECT_ATTEMPTS in vain: the timer of the reports is started for the
\* retry, or a reset is requested of the main task.
FtpFailed ==
  /\ stage = "connecting"
  /\ retries' = retries + 1
  /\ \/ /\ MayRetry
        /\ flag' = 2 /\ armed' = TRUE /\ stage' = "idle"
     \/ /\ ~MayRetry
        /\ stage' = "reset_req" /\ UNCHANGED <<flag, armed>>
  /\ UNCHANGED <<flash, posted, leaving, notice, auth, updated, owed, counters>>

\* MSG_ID_RESET_MODULE_REQ in the main task.
ResetRequested ==
  /\ stage = "reset_req" /\ ~leaving
  /\ flash' = 3
  /\ Restart
  /\ UNCHANGED <<updated, owed, counters>>

\* FTP_Callback_OnDownload with the file: UP_GET_FILE_OK, then DoUpgrade.
GotFile ==
  /\ stage = "getting"
  /\ flash' = 2
  /\ stage' = "writing"
  /\ UNCHANGED <<flag, retries, decision, notice, auth, updated, owed, counters>>

\* UP_UPGRADFAILED, of the download or of DoUpgrade.
UpgradeFailed ==
  /\ stage \in {"getting", "writing"}
  /\ flash' = FlashAfterFailure
  /\ Restart
  /\ UNCHANGED <<updated, owed, counters>>

\* Ql_FOTA_Update restarts the device with the new firmware.
Updated ==
  /\ stage = "writing"
  /\ updated' = TRUE
  /\ Restart
  /\ UNCHANGED <<flash, owed, counters>>

-----------------------------------------------------------------------------
(* The decision after a report, whose timer the retry shares               *)

\* Faults for the mutation checks.
MayLeaveAnyway == flag \in {0, 1}

MayLeave == flag = 0

\* A report turns a retry that is due into an upgrade under way.
SendReport ==
  /\ ~leaving
  /\ flag = 2 /\ stage = "idle" => "report_in_retry" \in Hazards
  /\ posted' = TRUE
  /\ flag' = IF flag # 0 THEN 1 ELSE flag
  /\ UNCHANGED <<flash, download, armed, leaving, notice, auth, updated, owed, counters>>

\* MSG_ID_BLIND_SAVE: the timer starts, or starts again.
StartSaveTimer ==
  /\ posted /\ MainFree
  /\ posted' = FALSE
  /\ armed' = TRUE
  /\ UNCHANGED <<flag, flash, download, leaving, notice, auth, updated, owed, counters>>

\* Callback_BlindSave_OnTimer.  Whether an idle device powers down depends on
\* the interval, the tracking and the blind area.
SaveTimeout ==
  /\ armed /\ MainFree
  /\ armed' = FALSE
  /\ \/ /\ flag = 2
        /\ stage' = "starting"
        /\ UNCHANGED leaving
     \/ /\ flag # 2 /\ UNCHANGED <<stage, leaving>>
     \/ /\ MayLeave
        /\ auth /\ step < 3 => "off_before_note" \in Hazards
        /\ leaving' = TRUE /\ UNCHANGED stage
  /\ UNCHANGED <<flag, flash, retries, posted, notice, auth, updated, owed, counters>>

\* Ql_PowerDown, more than a second after the decision; the alarm starts the
\* device again.
PowerDown ==
  /\ leaving
  /\ Restart
  /\ UNCHANGED <<flash, updated, owed, counters>>

-----------------------------------------------------------------------------
(* The note of the result, one step a second                               *)

\* Faults for the mutation checks.
ResultReadSuccessOnly == IF flash = 2 THEN {0} ELSE {}

\* What the byte says must be noted.
ResultRead == IF flash \in {1, 3} THEN {1} ELSE IF flash = 2 THEN {0} ELSE {}

\* State 0: read what must be noted.
ReadOutcome ==
  /\ step = 0
  /\ \/ ResultRead = {} /\ step' = Noted /\ UNCHANGED result
     \/ \E r \in ResultRead : result' = r /\ step' = 1
  /\ UNCHANGED <<flash, polls, note, acked, owed>>

\* State 1: the login.  When it does not come in time the byte stays for the
\* next start.
AwaitLogin ==
  /\ step = 1
  /\ \/ /\ auth
        /\ polls' = 0 /\ step' = 2
     \/ /\ ~auth
        /\ polls < LoginWait \/ "slow_login" \in Hazards
        /\ polls' = polls + 1
        /\ step' = IF polls' > LoginWait THEN Noted ELSE step
  /\ UNCHANGED <<flash, result, note, acked, owed>>

\* State 2: RadioProtocol_FirmwareUpdataResultNote, which gets as far as the
\* link does.
SendNote ==
  /\ step = 2
  /\ step' = 3
  /\ note' = (auth /\ flag = 0)
  /\ owed' = (owed /\ ~note')
  /\ UNCHANGED <<flash, polls, result, acked>>

\* States 3 to 5: three seconds for the reply.
AwaitReply ==
  /\ step \in 3 .. 5
  /\ step' = step + 1
  /\ UNCHANGED <<flash, polls, result, note, acked, owed>>

\* State 6: send it again or clear the byte.
CheckReply ==
  /\ step = 6
  /\ LET again == ~acked /\ polls + 1 < NoteTries
     IN  /\ step' = IF again THEN 2 ELSE Noted
         /\ polls' = IF again THEN polls + 1 ELSE 0
         /\ flash' = IF again THEN flash ELSE 0
  /\ UNCHANGED <<result, note, acked, owed>>

\* Updata_SendResultNoteTimeTask, called once a second.
NoteTask ==
  /\ ~leaving
  /\ ReadOutcome \/ AwaitLogin \/ SendNote \/ AwaitReply \/ CheckReply
  /\ UNCHANGED <<flag, download, decision, auth, updated, counters>>

\* The platform's general reply to 0x0108.
NoteAck ==
  /\ note /\ auth
  /\ note' = FALSE /\ acked' = TRUE
  /\ UNCHANGED <<flag, flash, download, decision, step, polls, result, auth,
                 updated, owed, counters>>

\* The note or the reply to it is lost.
NoteLost ==
  /\ note
  /\ note' = FALSE
  /\ UNCHANGED <<flag, flash, download, decision, step, polls, result, acked,
                 auth, updated, owed, counters>>

-----------------------------------------------------------------------------
(* The link and the power                                                  *)

\* During an upgrade nothing brings the link up again.
Login ==
  /\ ~auth /\ flag = 0 /\ ~leaving
  /\ auth' = TRUE
  /\ UNCHANGED <<flag, flash, download, decision, notice, updated, owed, counters>>

\* GPRS_Deactived_callback and GsmDrop_callback, which an upgrade keeps quiet.
LinkLost ==
  /\ auth /\ flag = 0 /\ drops < MaxDrop
  /\ step \in 2 .. 6 => "drop_during_note" \in Hazards
  /\ auth' = FALSE /\ note' = FALSE
  /\ drops' = drops + 1
  /\ UNCHANGED <<flag, flash, download, decision, step, polls, result, acked,
                 updated, owed, orders, boots>>

Crash ==
  /\ boots < MaxBoot
  /\ stage = "writing" => "crash_in_update" \in Hazards
  /\ boots' = boots + 1
  /\ Restart
  /\ UNCHANGED <<flash, updated, owed, orders, drops>>

-----------------------------------------------------------------------------
Next ==
  \/ Order \/ StartUpgrade \/ FtpOpened \/ FtpFailed \/ ResetRequested
  \/ GotFile \/ UpgradeFailed \/ Updated
  \/ SendReport \/ StartSaveTimer \/ SaveTimeout \/ PowerDown
  \/ NoteTask \/ NoteAck \/ NoteLost
  \/ Login \/ LinkLost \/ Crash

Spec == Init /\ [][Next]_vars

\* The tasks run, the timer expires, an attempt at the server and a download
\* come to an end (3 minutes in the RIL), and a device that is switched on again
\* and again logs in now and then.
Fairness ==
  /\ WF_vars(StartUpgrade) /\ WF_vars(FtpOpened \/ FtpFailed)
  /\ WF_vars(GotFile \/ UpgradeFailed \/ Updated)
  /\ WF_vars(ResetRequested)
  /\ WF_vars(StartSaveTimer) /\ WF_vars(SaveTimeout) /\ WF_vars(PowerDown)
  /\ WF_vars(NoteTask) /\ SF_vars(Login)

FairSpec == Spec /\ Fairness

-----------------------------------------------------------------------------
TypeOK ==
  /\ flag \in 0 .. 2 /\ flash \in {0, 2, 3}
  /\ stage \in Stages
  /\ retries \in 0 .. MaxRetry + 2
  /\ posted \in BOOLEAN /\ armed \in BOOLEAN /\ leaving \in BOOLEAN
  /\ step \in 0 .. 6 \cup {Noted}
  /\ polls \in Nat /\ polls <= LoginWait + 1 + NoteTries
  /\ result \in 0 .. 1 /\ note \in BOOLEAN /\ acked \in BOOLEAN
  /\ auth \in BOOLEAN /\ updated \in BOOLEAN /\ owed \in BOOLEAN
  /\ orders \in 0 .. MaxOrder /\ drops \in 0 .. MaxDrop /\ boots \in 0 .. MaxBoot

\* What the platform is told is what happened: success if and only if the
\* firmware of the last order runs (fota_main.c:152-166, UpdateFirmware.c:99).
ResultTrue == note => (result = 0 <=> updated)

\* The outcome of an order stays on record until it has been sent over a link
\* that was up, whatever restarts in between (UpdateFirmware.c:144-154).
OutcomeKept == owed => flash # 0

\* A device that downloads, or is about to, does not power down under its
\* download (Report.c:193-201).
NoPowerDownInUpgrade == leaving => flag = 0

\* An upgrade ends: while its flag is set the device neither powers down nor
\* brings its link up again, and refuses every other order.
UpgradeEnds == flag # 0 ~> flag = 0

\* Every order's outcome is sent to the platform.
OutcomeSent == owed ~> ~owed
=============================================================================

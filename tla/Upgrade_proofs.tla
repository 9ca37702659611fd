--------------------------- MODULE Upgrade_proofs ---------------------------
(***************************************************************************)
(* Theorems of Upgrade, for every number of retries, of ticks and of       *)
(* repetitions, and for every set of disturbances that leaves out those a  *)
(* theorem names.                                                          *)
(***************************************************************************)
EXTENDS Upgrade, TLAPS

\* The variables that are true or false.
Switches ==
  /\ posted \in BOOLEAN /\ armed \in BOOLEAN
  /\ leaving \in BOOLEAN /\ note \in BOOLEAN /\ acked \in BOOLEAN
  /\ auth \in BOOLEAN /\ updated \in BOOLEAN /\ owed \in BOOLEAN

\* TypeOK alone does not bound the counters: the flag stands while a download
\* fails and fails again, and the ticks are counted anew for every step of the
\* note.
Counters ==
  /\ flag \in 0 .. 2 /\ flash \in {0, 2, 3} /\ stage \in Stages
  /\ retries \in 0 .. MaxRetry + 2
  /\ step \in 0 .. 6 \cup {Noted}
  /\ polls \in Nat /\ polls <= LoginWait + 1 + NoteTries
  /\ result \in 0 .. 1
  /\ orders \in 0 .. MaxOrder /\ drops \in 0 .. MaxDrop /\ boots \in 0 .. MaxBoot
  /\ flag = 0 => stage = "idle" /\ retries = 0
  /\ flag = 2 => stage \notin {"getting", "writing"}
  /\ retries <= MaxRetry + 1 \/ stage = "reset_req"
  /\ step = 0 => polls = 0
  /\ step = 1 => polls <= LoginWait
  /\ step \in 2 .. 6 => polls < NoteTries

CounterInv == Switches /\ Counters

\* In the initial state nothing is counted.
LEMMA InitCounterInv == Init => CounterInv
<1> SUFFICES ASSUME Init PROVE CounterInv
  OBVIOUS
<1>1. Switches
  BY Zenon DEF Init, Switches
<1>2. Counters
  BY CountAssumption, BoundAssumption DEF Init, Counters, Stages, Noted
<1> QED
  BY <1>1, <1>2 DEF CounterInv

\* Every step keeps the switches true or false.
LEMMA NextSwitches == Switches /\ [Next]_vars => Switches'
<1> SUFFICES ASSUME Switches, [Next]_vars PROVE Switches'
  OBVIOUS
<1> USE DEF Switches, download, decision, notice, counters
<1>1. CASE Order
  BY <1>1, Zenon DEF Order, FlashAfterOrder
<1>2. CASE StartUpgrade
  BY <1>2, Zenon DEF StartUpgrade, Restart
<1>3. CASE FtpOpened
  BY <1>3, Zenon DEF FtpOpened
<1>4. CASE FtpFailed
  BY <1>4, Zenon DEF FtpFailed, MayRetry
<1>5. CASE ResetRequested
  BY <1>5, Zenon DEF ResetRequested, Restart
<1>6. CASE GotFile
  BY <1>6, Zenon DEF GotFile
<1>7. CASE UpgradeFailed
  BY <1>7, Zenon DEF UpgradeFailed, Restart, FlashAfterFailure
<1>8. CASE Updated
  BY <1>8, Zenon DEF Updated, Restart
<1>9. CASE SendReport
  BY <1>9, Zenon DEF SendReport
<1>10. CASE StartSaveTimer
  BY <1>10, Zenon DEF StartSaveTimer
<1>11. CASE SaveTimeout
  BY <1>11, Zenon DEF SaveTimeout, MayLeave
<1>12. CASE PowerDown
  BY <1>12, Zenon DEF PowerDown, Restart
<1>13. CASE NoteTask
  BY <1>13, Zenon DEF NoteTask, ReadOutcome, AwaitLogin, SendNote, AwaitReply, CheckReply, ResultRead
<1>14. CASE NoteAck
  BY <1>14, Zenon DEF NoteAck
<1>15. CASE NoteLost
  BY <1>15, Zenon DEF NoteLost
<1>16. CASE Login
  BY <1>16, Zenon DEF Login
<1>17. CASE LinkLost
  BY <1>17, Zenon DEF LinkLost
<1>18. CASE Crash
  BY <1>18, Zenon DEF Crash, Restart
<1>19. CASE UNCHANGED vars
  BY <1>19, Zenon DEF vars
<1> QED
  BY <1>1, <1>2, <1>3, <1>4, <1>5, <1>6, <1>7, <1>8, <1>9,
     <1>10, <1>11, <1>12, <1>13, <1>14, <1>15, <1>16, <1>17, <1>18, <1>19
     DEF Next

\* Every step keeps the counters within their limits.
LEMMA NextCounters == Counters /\ [Next]_vars => Counters'
<1> SUFFICES ASSUME Counters, [Next]_vars PROVE Counters'
  OBVIOUS
<1> USE CountAssumption, BoundAssumption
    DEF Counters, Stages, Noted, download, decision, notice, counters
<1>1. CASE Order
  BY <1>1 DEF Order, FlashAfterOrder
<1>2. CASE StartUpgrade
  BY <1>2 DEF StartUpgrade, Restart
<1>3. CASE FtpOpened
  BY <1>3 DEF FtpOpened
<1>4. CASE FtpFailed
  BY <1>4 DEF FtpFailed, MayRetry
<1>5. CASE ResetRequested
  BY <1>5 DEF ResetRequested, Restart
<1>6. CASE GotFile
  BY <1>6 DEF GotFile
<1>7. CASE UpgradeFailed
  BY <1>7 DEF UpgradeFailed, Restart, FlashAfterFailure
<1>8. CASE Updated
  BY <1>8 DEF Updated, Restart
<1>9. CASE SendReport
  BY <1>9 DEF SendReport
<1>10. CASE StartSaveTimer
  BY <1>10 DEF StartSaveTimer
<1>11. CASE SaveTimeout
  <2>1. UNCHANGED <<flag, flash, retries, notice, auth, updated, owed, counters>>
    BY <1>11 DEF SaveTimeout
  <2>2. \/ flag = 2 /\ stage # "reset_req" /\ stage' = "starting"
        \/ UNCHANGED stage
    BY <1>11, Zenon DEF SaveTimeout, MainFree
  <2> QED
    BY <2>1, <2>2
<1>12. CASE PowerDown
  BY <1>12 DEF PowerDown, Restart
<1>13. CASE NoteTask
  BY <1>13 DEF NoteTask, ReadOutcome, AwaitLogin, SendNote, AwaitReply, CheckReply, ResultRead
<1>14. CASE NoteAck
  BY <1>14 DEF NoteAck
<1>15. CASE NoteLost
  BY <1>15 DEF NoteLost
<1>16. CASE Login
  BY <1>16 DEF Login
<1>17. CASE LinkLost
  BY <1>17 DEF LinkLost
<1>18. CASE Crash
  BY <1>18 DEF Crash, Restart
<1>19. CASE UNCHANGED vars
  BY <1>19 DEF vars
<1> QED
  BY <1>1, <1>2, <1>3, <1>4, <1>5, <1>6, <1>7, <1>8, <1>9,
     <1>10, <1>11, <1>12, <1>13, <1>14, <1>15, <1>16, <1>17, <1>18, <1>19
     DEF Next

\* Every step keeps CounterInv.
LEMMA NextCounterInv == CounterInv /\ [Next]_vars => CounterInv'
BY NextSwitches, NextCounters DEF CounterInv

-----------------------------------------------------------------------------
\* Between the decision and the power-down nothing raises the flag.
LeavingInv == CounterInv /\ NoPowerDownInUpgrade

\* Every step keeps LeavingInv.
LEMMA NextLeavingInv == LeavingInv /\ [Next]_vars => LeavingInv'
<1> SUFFICES ASSUME LeavingInv, [Next]_vars PROVE NoPowerDownInUpgrade'
  BY NextCounterInv DEF LeavingInv
<1> USE DEF LeavingInv, CounterInv, Switches, Counters, NoPowerDownInUpgrade, download, decision,
            notice, counters
<1>1. CASE Order
  BY <1>1 DEF Order, FlashAfterOrder
<1>2. CASE StartUpgrade
  BY <1>2 DEF StartUpgrade, Restart
<1>3. CASE FtpOpened
  BY <1>3 DEF FtpOpened
<1>4. CASE FtpFailed
  BY <1>4 DEF FtpFailed, MayRetry
<1>5. CASE ResetRequested
  BY <1>5 DEF ResetRequested, Restart
<1>6. CASE GotFile
  BY <1>6 DEF GotFile
<1>7. CASE UpgradeFailed
  BY <1>7 DEF UpgradeFailed, Restart, FlashAfterFailure
<1>8. CASE Updated
  BY <1>8 DEF Updated, Restart
<1>9. CASE SendReport
  BY <1>9 DEF SendReport
<1>10. CASE StartSaveTimer
  BY <1>10 DEF StartSaveTimer
<1>11. CASE SaveTimeout
  BY <1>11 DEF SaveTimeout, MayLeave
<1>12. CASE PowerDown
  BY <1>12 DEF PowerDown, Restart
<1>13. CASE NoteTask
  BY <1>13 DEF NoteTask, ReadOutcome, AwaitLogin, SendNote, AwaitReply, CheckReply, ResultRead
<1>14. CASE NoteAck
  BY <1>14 DEF NoteAck
<1>15. CASE NoteLost
  BY <1>15 DEF NoteLost
<1>16. CASE Login
  BY <1>16 DEF Login
<1>17. CASE LinkLost
  BY <1>17 DEF LinkLost
<1>18. CASE Crash
  BY <1>18 DEF Crash, Restart
<1>19. CASE UNCHANGED vars
  BY <1>19 DEF vars
<1> QED
  BY <1>1, <1>2, <1>3, <1>4, <1>5, <1>6, <1>7, <1>8, <1>9,
     <1>10, <1>11, <1>12, <1>13, <1>14, <1>15, <1>16, <1>17, <1>18, <1>19
     DEF Next

-----------------------------------------------------------------------------
\* While a result is noted no upgrade is under way; once the note is sent the
\* outcome is not owed any more, because the link was up.
NoteInv ==
  /\ CounterInv
  /\ step # Noted => flag = 0
  /\ step \in 2 .. 6 => auth
  /\ step \in 3 .. 6 => ~owed
  /\ OutcomeKept

\* Every step keeps NoteInv.
LEMMA NextNoteInv ==
  ASSUME "order_during_note" \notin Hazards, "drop_during_note" \notin Hazards
  PROVE  NoteInv /\ [Next]_vars => NoteInv'
<1> SUFFICES ASSUME NoteInv, [Next]_vars PROVE NoteInv'
  OBVIOUS
<1>a. CounterInv'
  BY NextCounterInv DEF NoteInv
<1> USE <1>a DEF NoteInv, CounterInv, Switches, Counters, OutcomeKept, Noted, download, decision,
            notice, counters
<1>1. CASE Order
  BY <1>1 DEF Order, FlashAfterOrder
<1>2. CASE StartUpgrade
  BY <1>2 DEF StartUpgrade, Restart
<1>3. CASE FtpOpened
  BY <1>3 DEF FtpOpened
<1>4. CASE FtpFailed
  BY <1>4 DEF FtpFailed, MayRetry
<1>5. CASE ResetRequested
  BY <1>5 DEF ResetRequested, Restart
<1>6. CASE GotFile
  BY <1>6 DEF GotFile
<1>7. CASE UpgradeFailed
  BY <1>7 DEF UpgradeFailed, Restart, FlashAfterFailure
<1>8. CASE Updated
  BY <1>8 DEF Updated, Restart
<1>9. CASE SendReport
  BY <1>9 DEF SendReport
<1>10. CASE StartSaveTimer
  BY <1>10 DEF StartSaveTimer
<1>11. CASE SaveTimeout
  BY <1>11 DEF SaveTimeout, MayLeave
<1>12. CASE PowerDown
  BY <1>12 DEF PowerDown, Restart
<1>13. CASE NoteTask
  BY <1>13 DEF NoteTask, ReadOutcome, AwaitLogin, SendNote, AwaitReply, CheckReply, ResultRead
<1>14. CASE NoteAck
  BY <1>14 DEF NoteAck
<1>15. CASE NoteLost
  BY <1>15 DEF NoteLost
<1>16. CASE Login
  BY <1>16 DEF Login
<1>17. CASE LinkLost
  BY <1>17 DEF LinkLost
<1>18. CASE Crash
  BY <1>18 DEF Crash, Restart
<1>19. CASE UNCHANGED vars
  BY <1>19 DEF vars
<1> QED
  BY <1>1, <1>2, <1>3, <1>4, <1>5, <1>6, <1>7, <1>8, <1>9,
     <1>10, <1>11, <1>12, <1>13, <1>14, <1>15, <1>16, <1>17, <1>18, <1>19
     DEF Next

-----------------------------------------------------------------------------
\* Where the byte and the firmware agree: always but between the file and the
\* end of the update, and from the byte the result is read.
ResultInv ==
  /\ LeavingInv
  /\ step # Noted => flag = 0
  /\ flag # 0 => ~updated
  /\ stage = "writing" => flash = 2
  /\ stage # "writing" /\ flash # 0 => (flash = 2 <=> updated)
  /\ step \in 1 .. 6 => (result = 0 <=> updated)
  /\ ResultTrue

\* Every step keeps ResultInv.
LEMMA NextResultInv ==
  ASSUME "crash_in_update" \notin Hazards, "order_during_note" \notin Hazards
  PROVE  ResultInv /\ [Next]_vars => ResultInv'
<1> SUFFICES ASSUME ResultInv, [Next]_vars PROVE ResultInv'
  OBVIOUS
<1>a. LeavingInv'
  BY NextLeavingInv DEF ResultInv
<1> USE <1>a DEF ResultInv, LeavingInv, CounterInv, Switches, Counters, NoPowerDownInUpgrade, Stages,
            ResultTrue, Noted, download, decision, notice, counters
<1>1. CASE Order
  BY <1>1 DEF Order, FlashAfterOrder
<1>2. CASE StartUpgrade
  BY <1>2 DEF StartUpgrade, Restart
<1>3. CASE FtpOpened
  BY <1>3 DEF FtpOpened
<1>4. CASE FtpFailed
  BY <1>4 DEF FtpFailed, MayRetry
<1>5. CASE ResetRequested
  BY <1>5 DEF ResetRequested, Restart
<1>6. CASE GotFile
  BY <1>6 DEF GotFile
<1>7. CASE UpgradeFailed
  BY <1>7 DEF UpgradeFailed, Restart, FlashAfterFailure
<1>8. CASE Updated
  BY <1>8 DEF Updated, Restart
<1>9. CASE SendReport
  BY <1>9 DEF SendReport
<1>10. CASE StartSaveTimer
  BY <1>10 DEF StartSaveTimer
<1>11. CASE SaveTimeout
  <2>1. UNCHANGED <<flag, flash, notice, auth, updated, owed>>
    BY <1>11 DEF SaveTimeout
  <2>2. \/ flag = 2 /\ stage # "reset_req" /\ stage' = "starting"
        \/ UNCHANGED stage
    BY <1>11, Zenon DEF SaveTimeout, MainFree
  <2> QED
    BY <2>1, <2>2
<1>12. CASE PowerDown
  BY <1>12 DEF PowerDown, Restart
<1>13. CASE NoteTask
  BY <1>13 DEF NoteTask, ReadOutcome, AwaitLogin, SendNote, AwaitReply, CheckReply, ResultRead
<1>14. CASE NoteAck
  BY <1>14 DEF NoteAck
<1>15. CASE NoteLost
  BY <1>15 DEF NoteLost
<1>16. CASE Login
  BY <1>16 DEF Login
<1>17. CASE LinkLost
  BY <1>17 DEF LinkLost
<1>18. CASE Crash
  BY <1>18 DEF Crash, Restart
<1>19. CASE UNCHANGED vars
  BY <1>19 DEF vars
<1> QED
  BY <1>1, <1>2, <1>3, <1>4, <1>5, <1>6, <1>7, <1>8, <1>9,
     <1>10, <1>11, <1>12, <1>13, <1>14, <1>15, <1>16, <1>17, <1>18, <1>19
     DEF Next

-----------------------------------------------------------------------------
\* The counters of retries, ticks and repetitions stay within their limits,
\* under all disturbances (fota_ftp.c:152-157, UpdateFirmware.c:115-156).
THEOREM TypeCorrect == Spec => []TypeOK
<1>1. CounterInv => TypeOK
  BY DEF CounterInv, Switches, Counters, TypeOK
<1> QED
  BY <1>1, InitCounterInv, NextCounterInv, PTL DEF Spec

\* A device that downloads, or is about to, does not power down, under all
\* disturbances (Report.c:193-201).
THEOREM UpgradeStaysUp == Spec => []NoPowerDownInUpgrade
<1>1. Init => LeavingInv
  BY InitCounterInv DEF Init, LeavingInv, NoPowerDownInUpgrade
<1>2. LeavingInv /\ [Next]_vars => LeavingInv'
  BY NextLeavingInv
<1>3. LeavingInv => NoPowerDownInUpgrade
  BY DEF LeavingInv
<1> QED
  BY <1>1, <1>2, <1>3, PTL DEF Spec

\* If a note is neither interrupted by an order nor by a lost link, the outcome
\* of an order stays on record until it has been sent over a link that was up,
\* whatever crashes come (UpdateFirmware.c:144-154).
THEOREM OutcomeOnRecord ==
  ASSUME "order_during_note" \notin Hazards, "drop_during_note" \notin Hazards
  PROVE  Spec => []OutcomeKept
<1>1. Init => NoteInv
  BY InitCounterInv DEF Init, NoteInv, OutcomeKept
<1>2. NoteInv /\ [Next]_vars => NoteInv'
  BY NextNoteInv
<1>3. NoteInv => OutcomeKept
  BY DEF NoteInv
<1> QED
  BY <1>1, <1>2, <1>3, PTL DEF Spec

\* If no power fails during the update and orders come only when there is
\* nothing to note, the platform is told what happened
\* (fota_main.c:152-166, UpdateFirmware.c:99).
THEOREM NoteTellsTruth ==
  ASSUME "crash_in_update" \notin Hazards, "order_during_note" \notin Hazards
  PROVE  Spec => []ResultTrue
<1>1. Init => ResultInv
  BY InitCounterInv DEF Init, ResultInv, LeavingInv, NoPowerDownInUpgrade, ResultTrue
<1>2. ResultInv /\ [Next]_vars => ResultInv'
  BY NextResultInv
<1>3. ResultInv => ResultTrue
  BY DEF ResultInv
<1> QED
  BY <1>1, <1>2, <1>3, PTL DEF Spec
=============================================================================

---------------------------- MODULE Report_proofs ----------------------------
(***************************************************************************)
(* Theorems of Report, for every set of intervals and tracking orders that *)
(* the assumptions admit, all delays and all bounds.                       *)
(***************************************************************************)
EXTENDS Report, TLAPS

-----------------------------------------------------------------------------
(* The type invariant                                                      *)

\* TypeOK in parts; while the task counts, the interval has been read.
Flags ==
  /\ powered \in BOOLEAN /\ fresh \in BOOLEAN /\ reporting \in BOOLEAN
  /\ posted \in BOOLEAN /\ armed \in BOOLEAN /\ ackFlag \in BOOLEAN
  /\ event \in BOOLEAN /\ auth \in BOOLEAN /\ waiting \in BOOLEAN
  /\ sentNow \in BOOLEAN /\ dropped \in BOOLEAN

Clocks ==
  /\ now \in Time /\ alarm \in Time \cup {Never}
  /\ offset \in Time /\ fOffset \in Time
  /\ count \in 0 .. Cycle /\ timer \in 0 .. Overtime

Words ==
  /\ wake \in {"key", "rtc"} /\ status \in {"Off", "Init", "Wait", "On"}
  /\ cur \in {"none", "flying", "lost", "taken"}
  /\ acks \subseteq {"this", "other"} /\ update \in 0 .. 2

Spans ==
  /\ sleepTime \in SleepTimes \cup {0} /\ eSleep \in SleepTimes
  /\ status \in {"Wait", "On"} => sleepTime \in SleepTimes

Tracks ==
  /\ space \in TrackSpaces \cup {0} /\ eTrack \in TrackSpaces \cup {0}
  /\ tracks \in Nat /\ halfTrack \in TrackCounts \cup {Never}
  /\ fTrack \in [num : Nat, space : TrackSpaces \cup {0},
                 crc : Nat \X (TrackSpaces \cup {0})]

Saves == saveTime \in [interval : Nat, alarm : Time]

Counts == cmds \in Nat /\ drops \in Nat /\ boots \in Nat

TypeInv == Flags /\ Clocks /\ Words /\ Spans /\ Tracks /\ Saves /\ Counts

\* Every interval is at least one second and at most a cycle.
LEMMA SpansTyped ==
  /\ \A d \in SleepTimes \cup TrackSpaces : d \in 1 .. Cycle
  /\ TrackCounts \subseteq Nat /\ Never \notin TrackCounts
BY IntervalAssumption, CommandAssumption DEF Multiples, Never

\* A time modulo the cycle is a time of the clock, and so is one modulo an
\* interval.
LEMMA LaterTyped ==
  /\ \A t \in Int : Later(t) \in Time
  /\ \A d \in SleepTimes \cup TrackSpaces, t \in Time : t % d \in Time
<1>1. \A t \in Int : Later(t) \in Time
  BY IntervalAssumption DEF Later, Time
<1>2. ASSUME NEW d \in SleepTimes \cup TrackSpaces, NEW t \in Time
      PROVE  t % d \in Time
  <2>1. d \in 1 .. Cycle /\ t \in Nat /\ Cycle \in Nat
    BY SpansTyped, IntervalAssumption DEF Time
  <2>2. t % d \in 0 .. (d - 1)
    BY <2>1
  <2> QED
    BY <2>1, <2>2 DEF Time
<1> QED
  BY <1>1, <1>2

\* Times are numbers.
LEMMA TimesTyped == Time \subseteq Nat /\ Lead \in Nat
BY IntervalAssumption, DelayAssumption DEF Time

\* Zero is a time, a count and a delay.
LEMMA ZeroTyped == /\ 0 \in Time /\ 0 \in 0 .. Cycle
                   /\ 0 \in 0 .. Overtime /\ Overtime \in 0 .. Overtime
BY IntervalAssumption, DelayAssumption DEF Time

\* The parts hold in the initial state.
LEMMA InitTypeInv == Init => TypeInv
<1> SUFFICES ASSUME Init PROVE TypeInv
  OBVIOUS
<1>1. Flags
  BY Zenon DEF Init, Flags
<1>2. 0 \in Time /\ 0 \in 0 .. Cycle /\ 0 \in 0 .. Overtime
  BY ZeroTyped
<1>3. Clocks
  BY <1>2 DEF Init, Clocks
<1>4. Words
  BY DEF Init, Words
<1>5. Spans
  BY DEF Init, Spans
<1>6. Tracks
  BY DEF Init, Tracks, TrackRecord
<1>7. Saves
  BY <1>2 DEF Init, Saves
<1>8. Counts
  BY DEF Init, Counts
<1> QED
  BY <1>1, <1>3, <1>4, <1>5, <1>6, <1>7, <1>8 DEF TypeInv

\* The interval in force, while the task counts.
LEMMA IntervalTyped ==
  ASSUME Spans, Tracks, status \in {"Wait", "On"}
  PROVE  Interval \in SleepTimes \cup TrackSpaces
BY DEF Spans, Tracks, Interval, Tracking

\* The flags stay flags.
LEMMA FlagsKept == Flags /\ [Next]_vars => Flags'
<1> SUFFICES ASSUME Flags, [Next]_vars PROVE Flags'
  OBVIOUS
<1> USE DEF clock, mode, line, intervals, save, answer, command, net, store, history, Flags
<1>1. CASE ReportInit
  BY <1>1 DEF ReportInit
<1>2. CASE SameSecond
  BY <1>2 DEF SameSecond
<1>3. CASE CountSecond
  BY <1>3 DEF CountSecond
<1>4. CASE SendReport
  BY <1>4 DEF SendReport
<1>5. CASE ClearAck
  BY <1>5 DEF ClearAck, AckAfterSend
<1>6. CASE StartSaveTimer
  BY <1>6 DEF StartSaveTimer
<1>7. CASE SaveTimeout
  BY <1>7 DEF SaveTimeout
<1>8. CASE Report_CmdAck
  BY <1>8 DEF Report_CmdAck
<1>9. CASE Net_First_Login
  BY <1>9 DEF Net_First_Login
<1>10. CASE StartTrack
  BY <1>10 DEF StartTrack, TrackSpace
<1>11. CASE TrackCount
  BY <1>11 DEF TrackCount
<1>12. CASE StopTrack
  BY <1>12 DEF StopTrack, TrackSpace
<1>13. CASE ChangeInterval
  BY <1>13 DEF ChangeInterval, SetInterval
<1>14. CASE AlarmRings
  BY <1>14 DEF AlarmRings
<1>15. CASE SendPosition
  BY <1>15 DEF SendPosition
<1>16. CASE Deliver
  BY <1>16 DEF Deliver
<1>17. CASE Lose
  BY <1>17 DEF Lose
<1>18. CASE LinkLost
  BY <1>18 DEF LinkLost
<1>19. CASE Drain
  BY <1>19 DEF Drain
<1>20. CASE StartUpgrade
  BY <1>20 DEF StartUpgrade
<1>21. CASE RetryUpgrade
  BY <1>21 DEF RetryUpgrade
<1>22. CASE Second
  BY <1>22 DEF Second
<1>23. CASE AlarmWakes
  BY <1>23 DEF AlarmWakes, Start
<1>24. CASE KeyPowerOn
  BY <1>24 DEF KeyPowerOn, Start
<1>25. CASE Crash
  BY <1>25 DEF Crash, Start
<1>26. CASE UNCHANGED vars
  BY <1>26 DEF vars
<1> QED
  BY <1>1, <1>2, <1>3, <1>4, <1>5, <1>6, <1>7, <1>8, <1>9,
     <1>10, <1>11, <1>12, <1>13, <1>14, <1>15, <1>16, <1>17, <1>18,
     <1>19, <1>20, <1>21, <1>22, <1>23, <1>24, <1>25, <1>26
     DEF Next, ReportTask, MainTask, Environment, Power

\* Every time stays one of the clock.
LEMMA ClocksKept == TypeInv /\ [Next]_vars => Clocks'
<1> SUFFICES ASSUME TypeInv, [Next]_vars PROVE Clocks'
  OBVIOUS
<1> USE DEF clock, mode, line, intervals, save, answer, command, net, store, history, TypeInv, Clocks
<1>1. CASE ReportInit
  <2>1. sleepTime \in 0 .. Cycle
    BY SpansTyped, ZeroTyped DEF Spans
  <2>2. count' \in 0 .. Cycle
    BY <1>1, <2>1, IntervalAssumption, DelayAssumption DEF ReportInit
  <2> QED
    BY <1>1, <2>2 DEF ReportInit
<1>2. CASE SameSecond
  BY <1>2 DEF SameSecond
<1>3. CASE CountSecond
  <2>1. count' \in 0 .. Cycle
    BY <1>3, IntervalAssumption DEF CountSecond, Capped
  <2> QED
    BY <1>3, <2>1 DEF CountSecond
<1>4. CASE SendReport
  <2>1. Interval \in SleepTimes \cup TrackSpaces
    BY <1>4, IntervalTyped DEF SendReport, Reached
  <2>2. NewOffset \in Time
    BY <2>1, LaterTyped DEF NewOffset
  <2> QED
    BY <1>4, <2>2 DEF SendReport
<1>5. CASE ClearAck
  BY <1>5, ZeroTyped DEF ClearAck, AckAfterSend
<1>6. CASE StartSaveTimer
  BY <1>6, ZeroTyped DEF StartSaveTimer
<1>7. CASE SaveTimeout
  <2>1. alarm' \in {alarm, saveTime.alarm} /\ fOffset' \in {fOffset, offset}
        /\ UNCHANGED <<now, offset, count, timer>>
    BY <1>7 DEF SaveTimeout
  <2>2. saveTime.alarm \in Time
    BY DEF Saves
  <2> QED
    BY <2>1, <2>2
<1>8. CASE Report_CmdAck
  BY <1>8 DEF Report_CmdAck
<1>9. CASE Net_First_Login
  <2>1. now \in Nat /\ now % eSleep \in Nat /\ Lead \in Nat
    BY LaterTyped, TimesTyped DEF Spans
  <2>2. now + (now % eSleep) - Lead \in Int
    BY ONLY <2>1
  <2>3. Later(now + (now % eSleep) - Lead) \in Time
    BY <2>2, LaterTyped
  <2> DEFINE back == /\ wake # "rtc" /\ eSleep >= LoginMin
                     /\ now % eSleep > LoginAwake
  <2>4. alarm' = IF back THEN Later(now + (now % eSleep) - Lead) ELSE alarm
    BY <1>9 DEF Net_First_Login
  <2>5. count' = 0 \/ count' = count
    BY <1>9, Zenon DEF Net_First_Login
  <2>6. UNCHANGED <<now, offset, fOffset, timer>>
    BY <1>9 DEF Net_First_Login
  <2> QED
    BY <2>3, <2>4, <2>5, <2>6, ZeroTyped
<1>10. CASE StartTrack
  BY <1>10, ZeroTyped DEF StartTrack, TrackSpace
<1>11. CASE TrackCount
  BY <1>11, ZeroTyped DEF TrackCount
<1>12. CASE StopTrack
  BY <1>12, ZeroTyped DEF StopTrack, TrackSpace
<1>13. CASE ChangeInterval
  BY <1>13 DEF ChangeInterval, SetInterval
<1>14. CASE AlarmRings
  BY <1>14, ZeroTyped DEF AlarmRings
<1>15. CASE SendPosition
  BY <1>15, ZeroTyped DEF SendPosition
<1>16. CASE Deliver
  BY <1>16 DEF Deliver
<1>17. CASE Lose
  BY <1>17 DEF Lose
<1>18. CASE LinkLost
  BY <1>18 DEF LinkLost
<1>19. CASE Drain
  BY <1>19 DEF Drain
<1>20. CASE StartUpgrade
  BY <1>20 DEF StartUpgrade
<1>21. CASE RetryUpgrade
  BY <1>21 DEF RetryUpgrade
<1>22. CASE Second
  <2>1. now + 1 \in Int
    BY DEF Time
  <2>2. now' \in Time
    BY <1>22, <2>1, LaterTyped DEF Second
  <2>3. timer' \in 0 .. Overtime
    BY <1>22, DelayAssumption DEF Second
  <2> QED
    BY <1>22, <2>2, <2>3 DEF Second
<1>23. CASE AlarmWakes
  BY <1>23, ZeroTyped DEF AlarmWakes, Start
<1>24. CASE KeyPowerOn
  BY <1>24, ZeroTyped DEF KeyPowerOn, Start
<1>25. CASE Crash
  BY <1>25, ZeroTyped DEF Crash, Start
<1>26. CASE UNCHANGED vars
  BY <1>26 DEF vars
<1> QED
  BY <1>1, <1>2, <1>3, <1>4, <1>5, <1>6, <1>7, <1>8, <1>9,
     <1>10, <1>11, <1>12, <1>13, <1>14, <1>15, <1>16, <1>17, <1>18,
     <1>19, <1>20, <1>21, <1>22, <1>23, <1>24, <1>25, <1>26
     DEF Next, ReportTask, MainTask, Environment, Power

\* The words stay words.
LEMMA WordsKept == Words /\ [Next]_vars => Words'
<1> SUFFICES ASSUME Words, [Next]_vars PROVE Words'
  OBVIOUS
<1> USE DEF clock, mode, line, intervals, save, answer, command, net, store, history, Words
<1>1. CASE ReportInit
  BY <1>1 DEF ReportInit
<1>2. CASE SameSecond
  BY <1>2 DEF SameSecond, StatusNow
<1>3. CASE CountSecond
  BY <1>3 DEF CountSecond, StatusNow
<1>4. CASE SendReport
  BY <1>4 DEF SendReport, StatusNow
<1>5. CASE ClearAck
  BY <1>5 DEF ClearAck, AckAfterSend
<1>6. CASE StartSaveTimer
  BY <1>6 DEF StartSaveTimer
<1>7. CASE SaveTimeout
  BY <1>7 DEF SaveTimeout
<1>8. CASE Report_CmdAck
  BY <1>8 DEF Report_CmdAck
<1>9. CASE Net_First_Login
  BY <1>9 DEF Net_First_Login
<1>10. CASE StartTrack
  BY <1>10 DEF StartTrack, TrackSpace
<1>11. CASE TrackCount
  BY <1>11 DEF TrackCount
<1>12. CASE StopTrack
  BY <1>12 DEF StopTrack, TrackSpace
<1>13. CASE ChangeInterval
  BY <1>13 DEF ChangeInterval, SetInterval, WakeAfterChange
<1>14. CASE AlarmRings
  BY <1>14 DEF AlarmRings
<1>15. CASE SendPosition
  BY <1>15 DEF SendPosition
<1>16. CASE Deliver
  BY <1>16 DEF Deliver
<1>17. CASE Lose
  BY <1>17 DEF Lose
<1>18. CASE LinkLost
  BY <1>18 DEF LinkLost
<1>19. CASE Drain
  BY <1>19 DEF Drain
<1>20. CASE StartUpgrade
  BY <1>20 DEF StartUpgrade
<1>21. CASE RetryUpgrade
  BY <1>21 DEF RetryUpgrade
<1>22. CASE Second
  BY <1>22 DEF Second
<1>23. CASE AlarmWakes
  BY <1>23 DEF AlarmWakes, Start
<1>24. CASE KeyPowerOn
  BY <1>24 DEF KeyPowerOn, Start
<1>25. CASE Crash
  BY <1>25 DEF Crash, Start
<1>26. CASE UNCHANGED vars
  BY <1>26 DEF vars
<1> QED
  BY <1>1, <1>2, <1>3, <1>4, <1>5, <1>6, <1>7, <1>8, <1>9,
     <1>10, <1>11, <1>12, <1>13, <1>14, <1>15, <1>16, <1>17, <1>18,
     <1>19, <1>20, <1>21, <1>22, <1>23, <1>24, <1>25, <1>26
     DEF Next, ReportTask, MainTask, Environment, Power

\* The intervals stay ones that were set.
LEMMA SpansKept == Spans /\ Words /\ [Next]_vars => Spans'
<1> SUFFICES ASSUME Spans /\ Words, [Next]_vars PROVE Spans'
  OBVIOUS
<1> USE DEF clock, mode, line, intervals, save, answer, command, net, store, history, Spans, Words
<1>1. CASE ReportInit
  BY <1>1 DEF ReportInit
<1>2. CASE SameSecond
  BY <1>2 DEF SameSecond, Reached, StatusNow
<1>3. CASE CountSecond
  BY <1>3 DEF CountSecond, Reached, StatusNow
<1>4. CASE SendReport
  BY <1>4 DEF SendReport, Reached, StatusNow
<1>5. CASE ClearAck
  BY <1>5 DEF ClearAck, AckAfterSend
<1>6. CASE StartSaveTimer
  BY <1>6 DEF StartSaveTimer
<1>7. CASE SaveTimeout
  BY <1>7 DEF SaveTimeout
<1>8. CASE Report_CmdAck
  BY <1>8 DEF Report_CmdAck
<1>9. CASE Net_First_Login
  BY <1>9 DEF Net_First_Login
<1>10. CASE StartTrack
  BY <1>10 DEF StartTrack, TrackSpace
<1>11. CASE TrackCount
  BY <1>11 DEF TrackCount
<1>12. CASE StopTrack
  BY <1>12 DEF StopTrack, TrackSpace
<1>13. CASE ChangeInterval
  BY <1>13 DEF ChangeInterval, SetInterval
<1>14. CASE AlarmRings
  BY <1>14 DEF AlarmRings
<1>15. CASE SendPosition
  BY <1>15 DEF SendPosition
<1>16. CASE Deliver
  BY <1>16 DEF Deliver
<1>17. CASE Lose
  BY <1>17 DEF Lose
<1>18. CASE LinkLost
  BY <1>18 DEF LinkLost
<1>19. CASE Drain
  BY <1>19 DEF Drain
<1>20. CASE StartUpgrade
  BY <1>20 DEF StartUpgrade
<1>21. CASE RetryUpgrade
  BY <1>21 DEF RetryUpgrade
<1>22. CASE Second
  BY <1>22 DEF Second
<1>23. CASE AlarmWakes
  BY <1>23 DEF AlarmWakes, Start
<1>24. CASE KeyPowerOn
  BY <1>24 DEF KeyPowerOn, Start
<1>25. CASE Crash
  BY <1>25 DEF Crash, Start
<1>26. CASE UNCHANGED vars
  BY <1>26 DEF vars
<1> QED
  BY <1>1, <1>2, <1>3, <1>4, <1>5, <1>6, <1>7, <1>8, <1>9,
     <1>10, <1>11, <1>12, <1>13, <1>14, <1>15, <1>16, <1>17, <1>18,
     <1>19, <1>20, <1>21, <1>22, <1>23, <1>24, <1>25, <1>26
     DEF Next, ReportTask, MainTask, Environment, Power

\* So do the tracking orders.
LEMMA TracksKept == Tracks /\ Spans /\ [Next]_vars => Tracks'
<1> SUFFICES ASSUME Tracks /\ Spans, [Next]_vars PROVE Tracks'
  OBVIOUS
<1> USE DEF clock, mode, line, intervals, save, answer, command, net, store, history, Tracks, Spans
<1>1. CASE ReportInit
  BY <1>1 DEF ReportInit
<1>2. CASE SameSecond
  BY <1>2 DEF SameSecond
<1>3. CASE CountSecond
  BY <1>3 DEF CountSecond
<1>4. CASE SendReport
  BY <1>4 DEF SendReport, BackedUp, TracksAfter, SpaceAfter, Tracking, TrackRecord
<1>5. CASE ClearAck
  BY <1>5 DEF ClearAck, AckAfterSend
<1>6. CASE StartSaveTimer
  BY <1>6 DEF StartSaveTimer
<1>7. CASE SaveTimeout
  BY <1>7 DEF SaveTimeout
<1>8. CASE Report_CmdAck
  BY <1>8 DEF Report_CmdAck
<1>9. CASE Net_First_Login
  BY <1>9 DEF Net_First_Login
<1>10. CASE StartTrack
  BY <1>10 DEF StartTrack, TrackSpace
<1>11. CASE TrackCount
  BY <1>11, SpansTyped DEF TrackCount, TrackRecord
<1>12. CASE StopTrack
  BY <1>12 DEF StopTrack, TrackSpace
<1>13. CASE ChangeInterval
  BY <1>13 DEF ChangeInterval, SetInterval
<1>14. CASE AlarmRings
  BY <1>14 DEF AlarmRings
<1>15. CASE SendPosition
  BY <1>15 DEF SendPosition
<1>16. CASE Deliver
  BY <1>16 DEF Deliver
<1>17. CASE Lose
  BY <1>17 DEF Lose
<1>18. CASE LinkLost
  BY <1>18 DEF LinkLost
<1>19. CASE Drain
  BY <1>19 DEF Drain
<1>20. CASE StartUpgrade
  BY <1>20 DEF StartUpgrade
<1>21. CASE RetryUpgrade
  BY <1>21 DEF RetryUpgrade
<1>22. CASE Second
  BY <1>22 DEF Second
<1>23. CASE AlarmWakes
  BY <1>23 DEF AlarmWakes, Start
<1>24. CASE KeyPowerOn
  BY <1>24 DEF KeyPowerOn, Start
<1>25. CASE Crash
  BY <1>25 DEF Crash, Start
<1>26. CASE UNCHANGED vars
  BY <1>26 DEF vars
<1> QED
  BY <1>1, <1>2, <1>3, <1>4, <1>5, <1>6, <1>7, <1>8, <1>9,
     <1>10, <1>11, <1>12, <1>13, <1>14, <1>15, <1>16, <1>17, <1>18,
     <1>19, <1>20, <1>21, <1>22, <1>23, <1>24, <1>25, <1>26
     DEF Next, ReportTask, MainTask, Environment, Power

\* The timer's record holds an interval and an alarm.
LEMMA SavesKept == TypeInv /\ [Next]_vars => Saves'
<1> SUFFICES ASSUME TypeInv, [Next]_vars PROVE Saves'
  OBVIOUS
<1> USE DEF clock, mode, line, intervals, save, answer, command, net, store, history, TypeInv, Saves
<1>1. CASE ReportInit
  BY <1>1 DEF ReportInit
<1>2. CASE SameSecond
  BY <1>2 DEF SameSecond
<1>3. CASE CountSecond
  BY <1>3 DEF CountSecond
<1>4. CASE SendReport
  <2>1. Interval \in SleepTimes \cup TrackSpaces
    BY <1>4, IntervalTyped DEF SendReport, Reached
  <2>2. Interval \in Nat
    BY <2>1, SpansTyped
  <2>3. NextAlarm(Interval) \in Time
    <3>1. now \in Nat /\ Lead \in Nat
      BY TimesTyped DEF Clocks
    <3>2. now + Interval - Lead \in Int
      BY ONLY <2>2, <3>1
    <3> QED
      BY <3>2, LaterTyped DEF NextAlarm
  <2>4. saveTime' = [interval |-> Interval, alarm |-> NextAlarm(Interval)]
    BY <1>4 DEF SendReport
  <2> QED
    BY <2>2, <2>3, <2>4
<1>5. CASE ClearAck
  BY <1>5 DEF ClearAck, AckAfterSend
<1>6. CASE StartSaveTimer
  BY <1>6 DEF StartSaveTimer
<1>7. CASE SaveTimeout
  BY <1>7 DEF SaveTimeout
<1>8. CASE Report_CmdAck
  BY <1>8 DEF Report_CmdAck
<1>9. CASE Net_First_Login
  BY <1>9 DEF Net_First_Login
<1>10. CASE StartTrack
  BY <1>10 DEF StartTrack, TrackSpace
<1>11. CASE TrackCount
  BY <1>11 DEF TrackCount
<1>12. CASE StopTrack
  BY <1>12 DEF StopTrack, TrackSpace
<1>13. CASE ChangeInterval
  BY <1>13 DEF ChangeInterval, SetInterval
<1>14. CASE AlarmRings
  BY <1>14 DEF AlarmRings
<1>15. CASE SendPosition
  BY <1>15 DEF SendPosition
<1>16. CASE Deliver
  BY <1>16 DEF Deliver
<1>17. CASE Lose
  BY <1>17 DEF Lose
<1>18. CASE LinkLost
  BY <1>18 DEF LinkLost
<1>19. CASE Drain
  BY <1>19 DEF Drain
<1>20. CASE StartUpgrade
  BY <1>20 DEF StartUpgrade
<1>21. CASE RetryUpgrade
  BY <1>21 DEF RetryUpgrade
<1>22. CASE Second
  BY <1>22 DEF Second
<1>23. CASE AlarmWakes
  BY <1>23, ZeroTyped DEF AlarmWakes, Start
<1>24. CASE KeyPowerOn
  BY <1>24, ZeroTyped DEF KeyPowerOn, Start
<1>25. CASE Crash
  BY <1>25, ZeroTyped DEF Crash, Start
<1>26. CASE UNCHANGED vars
  BY <1>26 DEF vars
<1> QED
  BY <1>1, <1>2, <1>3, <1>4, <1>5, <1>6, <1>7, <1>8, <1>9,
     <1>10, <1>11, <1>12, <1>13, <1>14, <1>15, <1>16, <1>17, <1>18,
     <1>19, <1>20, <1>21, <1>22, <1>23, <1>24, <1>25, <1>26
     DEF Next, ReportTask, MainTask, Environment, Power

\* The counters count.
LEMMA CountsKept == Counts /\ [Next]_vars => Counts'
<1> SUFFICES ASSUME Counts, [Next]_vars PROVE Counts'
  OBVIOUS
<1> USE DEF clock, mode, line, intervals, save, answer, command, net, store, history, Counts
<1>1. CASE ReportInit
  BY <1>1 DEF ReportInit
<1>2. CASE SameSecond
  BY <1>2 DEF SameSecond
<1>3. CASE CountSecond
  BY <1>3 DEF CountSecond
<1>4. CASE SendReport
  BY <1>4 DEF SendReport
<1>5. CASE ClearAck
  BY <1>5 DEF ClearAck, AckAfterSend
<1>6. CASE StartSaveTimer
  BY <1>6 DEF StartSaveTimer
<1>7. CASE SaveTimeout
  BY <1>7 DEF SaveTimeout
<1>8. CASE Report_CmdAck
  BY <1>8 DEF Report_CmdAck
<1>9. CASE Net_First_Login
  BY <1>9 DEF Net_First_Login
<1>10. CASE StartTrack
  BY <1>10 DEF StartTrack, TrackSpace
<1>11. CASE TrackCount
  BY <1>11 DEF TrackCount
<1>12. CASE StopTrack
  BY <1>12 DEF StopTrack, TrackSpace
<1>13. CASE ChangeInterval
  BY <1>13 DEF ChangeInterval, SetInterval
<1>14. CASE AlarmRings
  BY <1>14 DEF AlarmRings
<1>15. CASE SendPosition
  BY <1>15 DEF SendPosition
<1>16. CASE Deliver
  BY <1>16 DEF Deliver
<1>17. CASE Lose
  BY <1>17 DEF Lose
<1>18. CASE LinkLost
  BY <1>18 DEF LinkLost
<1>19. CASE Drain
  BY <1>19 DEF Drain
<1>20. CASE StartUpgrade
  BY <1>20 DEF StartUpgrade
<1>21. CASE RetryUpgrade
  BY <1>21 DEF RetryUpgrade
<1>22. CASE Second
  BY <1>22 DEF Second
<1>23. CASE AlarmWakes
  BY <1>23 DEF AlarmWakes, Start
<1>24. CASE KeyPowerOn
  BY <1>24 DEF KeyPowerOn, Start
<1>25. CASE Crash
  BY <1>25 DEF Crash, Start
<1>26. CASE UNCHANGED vars
  BY <1>26 DEF vars
<1> QED
  BY <1>1, <1>2, <1>3, <1>4, <1>5, <1>6, <1>7, <1>8, <1>9,
     <1>10, <1>11, <1>12, <1>13, <1>14, <1>15, <1>16, <1>17, <1>18,
     <1>19, <1>20, <1>21, <1>22, <1>23, <1>24, <1>25, <1>26
     DEF Next, ReportTask, MainTask, Environment, Power

-----------------------------------------------------------------------------
\* The parts of the type invariant hold in every state.
LEMMA TypeInvariant == Spec => []TypeInv
<1>1. TypeInv /\ [Next]_vars => TypeInv'
  BY FlagsKept, ClocksKept, WordsKept, SpansKept, TracksKept, SavesKept,
     CountsKept DEF TypeInv
<1> QED
  BY InitTypeInv, <1>1, PTL DEF Spec

\* No interleaving of the tasks, no order of the platform and no restart takes
\* an alarm, an offset or a count off the clock: the counter is read modulo an
\* interval only when one has been read (Report.c:435-449, 490-520).
THEOREM TypeCorrect == Spec => []TypeOK
<1>1. TypeInv => TypeOK
  BY DEF TypeInv, TypeOK, Flags, Clocks, Words, Spans, Tracks, Saves, Counts
<1> QED
  BY <1>1, TypeInvariant, PTL

-----------------------------------------------------------------------------
(* The tracking and its record                                             *)

\* Between the halves of an order no tracking is in force; otherwise the
\* interval is that of the parameter, from which every login takes it.
OrderHalves ==
  /\ halfTrack # Never => tracks = 0 /\ space = eTrack /\ space > 0
  /\ halfTrack = Never /\ tracks > 0 => space = eTrack

\* A record that is whole has an interval, and it is that of the parameter.
WholeRecord ==
  /\ fTrack.num > 0 => fTrack.crc[2] > 0
  /\ TrackRecordValid(fTrack) /\ fTrack.num > 0 => fTrack.space = eTrack

\* The record says what is in force: no more and no less.
OnRecord ==
  halfTrack = Never =>
    /\ Tracking => /\ TrackRecordValid(fTrack)
                   /\ fTrack.num = tracks /\ fTrack.space = space
    /\ TrackRecordValid(fTrack) /\ fTrack.num > 0 /\ fTrack.space > 0 =>
         fTrack.num = tracks /\ fTrack.space = space

TrackInv == OrderHalves /\ WholeRecord /\ OnRecord

\* What a tracking order sets.
LEMMA OrderTyped ==
  /\ \A s \in TrackSpaces : s \in Nat /\ s > 0
  /\ \A n \in TrackCounts : n \in Nat /\ n > 0 /\ n # Never
  /\ Never # 0 /\ Never \notin TrackCounts
BY IntervalAssumption, CommandAssumption DEF Multiples, Never

\* The intervals of a tracking are numbers.
LEMMA TrackNumbers ==
  ASSUME Tracks
  PROVE  /\ space \in Nat /\ eTrack \in Nat /\ tracks \in Nat
         /\ fTrack.num \in Nat /\ fTrack.space \in Nat
         /\ fTrack.crc[1] \in Nat /\ fTrack.crc[2] \in Nat
         /\ fTrack.crc = <<fTrack.crc[1], fTrack.crc[2]>>
BY OrderTyped DEF Tracks

\* Either half of 0x8202.
LEMMA TrackSpaceKeeps ==
  ASSUME TypeInv, TrackInv, "retrack" \notin Hazards,
         NEW s \in TrackSpaces \cup {0}, NEW n \in TrackCounts \cup {Never},
         n = Never <=> s = 0, TrackSpace(s, n)
  PROVE  TrackInv'
<1>1. /\ fTrack' = [fTrack EXCEPT !.space = s] /\ eTrack' = s /\ space' = s
      /\ halfTrack' = n /\ UNCHANGED tracks /\ halfTrack = Never
      /\ tracks = 0 \/ n = Never
  BY DEF TrackSpace
<1>2. fTrack' = [num |-> fTrack.num, space |-> s, crc |-> fTrack.crc]
  BY <1>1 DEF TypeInv, Tracks
<1>3. OrderHalves'
  BY <1>1, OrderTyped DEF OrderHalves
<1>4. WholeRecord'
  BY <1>1, <1>2 DEF TrackInv, WholeRecord, TrackRecordValid
<1>5. OnRecord'
  BY <1>1, <1>2, OrderTyped DEF OnRecord, Tracking
<1> QED
  BY <1>3, <1>4, <1>5 DEF TrackInv

\* The interval taken from the parameter is the one in force, if any.
LEMMA RefreshKeeps ==
  ASSUME TypeInv, TrackInv, space' = eTrack,
         UNCHANGED <<tracks, halfTrack, fTrack, eTrack>>
  PROVE  TrackInv'
<1>1. UNCHANGED <<tracks, halfTrack, fTrack, eTrack>>
  OBVIOUS
<1>2. /\ space \in Nat /\ eTrack \in Nat /\ tracks \in Nat
      /\ fTrack.num \in Nat
  BY TrackNumbers DEF TypeInv
<1>3. CASE tracks > 0 \/ halfTrack # Never
  BY <1>1, <1>2, <1>3 DEF TrackInv, OrderHalves, WholeRecord, OnRecord, Tracking,
                     TrackRecordValid
<1>4. CASE ~(tracks > 0) /\ halfTrack = Never
  BY <1>1, <1>2, <1>4 DEF TrackInv, OrderHalves, WholeRecord, OnRecord, Tracking,
                     TrackRecordValid
<1> QED
  BY <1>3, <1>4

\* A restart takes from the record what it finds there.
LEMMA StartKeeps ==
  ASSUME TypeInv, TrackInv, NEW r, Start(r) PROVE TrackInv'
<1>1. /\ fTrack.num \in Nat /\ fTrack.space \in Nat /\ fTrack.crc[2] \in Nat
  BY TrackNumbers DEF TypeInv
<1>2. /\ halfTrack' = Never /\ UNCHANGED <<fTrack, eTrack>>
      /\ space' = IF TrackRecordValid(fTrack) THEN fTrack.space ELSE 0
      /\ tracks' = IF TrackRecordValid(fTrack) THEN fTrack.num ELSE 0
  BY DEF Start, store
<1>3. WholeRecord'
  BY <1>2 DEF TrackInv, WholeRecord, TrackRecordValid
<1>4. OrderHalves' /\ OnRecord'
  BY <1>1, <1>2 DEF TrackInv, OrderHalves, WholeRecord, OnRecord, Tracking,
                    TrackRecordValid
<1> QED
  BY <1>3, <1>4 DEF TrackInv

\* A report of a tracking is backed up before the next one.
LEMMA SendKeeps ==
  ASSUME TypeInv, TrackInv, SendReport PROVE TrackInv'
<1>1. /\ space \in Nat /\ eTrack \in Nat /\ tracks \in Nat
  BY TrackNumbers DEF TypeInv
<1>2. /\ tracks' = TracksAfter /\ space' = SpaceAfter /\ fTrack' = BackedUp
      /\ UNCHANGED <<halfTrack, eTrack>>
  BY DEF SendReport, command
<1>3. CASE Tracking
  <2>1. halfTrack = Never /\ tracks > 0 /\ space > 0 /\ space = eTrack
    BY <1>1, <1>3 DEF TrackInv, OrderHalves, Tracking
  <2>2. /\ tracks' = tracks - 1 /\ space' = (IF tracks = 1 THEN 0 ELSE space)
        /\ fTrack' = TrackRecord(tracks', space')
    BY <1>2, <1>3 DEF TracksAfter, SpaceAfter, BackedUp
  <2>3. /\ fTrack'.num = tracks' /\ fTrack'.space = space'
        /\ fTrack'.crc[2] = space' /\ TrackRecordValid(fTrack)'
    BY <2>2 DEF TrackRecord, TrackRecordValid
  <2>4. tracks' > 0 => space' = space
    BY <1>1, <2>2
  <2> QED
    BY <1>1, <1>2, <2>1, <2>3, <2>4 DEF TrackInv, OrderHalves, WholeRecord, OnRecord
<1>4. CASE ~Tracking
  <2>1. UNCHANGED <<tracks, space, fTrack, halfTrack, eTrack>>
    BY <1>2, <1>4 DEF TracksAfter, SpaceAfter, BackedUp
  <2> QED
    BY <2>1 DEF TrackInv, OrderHalves, WholeRecord, OnRecord, Tracking,
                TrackRecordValid
<1> QED
  BY <1>3, <1>4

\* The record goes on saying what is in force.
LEMMA TrackInvKept ==
  ASSUME "retrack" \notin Hazards
  PROVE  TypeInv /\ TrackInv /\ [Next]_vars => TrackInv'
<1> SUFFICES ASSUME TypeInv /\ TrackInv, [Next]_vars PROVE TrackInv'
  OBVIOUS
<1> USE DEF clock, mode, line, intervals, save, answer, command, net, store, history
<1>1. CASE ReportInit
  <2>1. space' = eTrack /\ UNCHANGED <<tracks, halfTrack, fTrack, eTrack>>
    BY <1>1 DEF ReportInit
  <2> QED
    BY <2>1, RefreshKeeps
<1>2. CASE SameSecond
  <2>1. UNCHANGED <<tracks, space, fTrack, halfTrack, eTrack>>
    BY <1>2 DEF SameSecond
  <2> QED
    BY <2>1 DEF TrackInv, OrderHalves, WholeRecord, OnRecord, Tracking,
                TrackRecordValid
<1>3. CASE CountSecond
  <2>1. UNCHANGED <<tracks, space, fTrack, halfTrack, eTrack>>
    BY <1>3 DEF CountSecond
  <2> QED
    BY <2>1 DEF TrackInv, OrderHalves, WholeRecord, OnRecord, Tracking,
                TrackRecordValid
<1>4. CASE SendReport
  BY <1>4, SendKeeps
<1>5. CASE ClearAck
  <2>1. UNCHANGED <<tracks, space, fTrack, halfTrack, eTrack>>
    BY <1>5 DEF ClearAck, AckAfterSend
  <2> QED
    BY <2>1 DEF TrackInv, OrderHalves, WholeRecord, OnRecord, Tracking,
                TrackRecordValid
<1>6. CASE StartSaveTimer
  <2>1. UNCHANGED <<tracks, space, fTrack, halfTrack, eTrack>>
    BY <1>6 DEF StartSaveTimer
  <2> QED
    BY <2>1 DEF TrackInv, OrderHalves, WholeRecord, OnRecord, Tracking,
                TrackRecordValid
<1>7. CASE SaveTimeout
  <2>1. UNCHANGED <<tracks, space, fTrack, halfTrack, eTrack>>
    BY <1>7 DEF SaveTimeout
  <2> QED
    BY <2>1 DEF TrackInv, OrderHalves, WholeRecord, OnRecord, Tracking,
                TrackRecordValid
<1>8. CASE Report_CmdAck
  <2>1. UNCHANGED <<tracks, space, fTrack, halfTrack, eTrack>>
    BY <1>8 DEF Report_CmdAck
  <2> QED
    BY <2>1 DEF TrackInv, OrderHalves, WholeRecord, OnRecord, Tracking,
                TrackRecordValid
<1>9. CASE Net_First_Login
  <2>1. /\ space' = eTrack \/ space' = space
        /\ UNCHANGED <<tracks, halfTrack, fTrack, eTrack>>
    BY <1>9 DEF Net_First_Login
  <2>2. CASE space' = eTrack
    BY <2>1, <2>2, RefreshKeeps
  <2>3. CASE UNCHANGED space
    BY <2>1, <2>3 DEF TrackInv, OrderHalves, WholeRecord, OnRecord, Tracking,
                      TrackRecordValid
  <2> QED
    BY <2>1, <2>2, <2>3
<1>10. CASE StartTrack
  <2>1. PICK s \in TrackSpaces, n \in TrackCounts : TrackSpace(s, n)
    BY <1>10 DEF StartTrack
  <2>2. s # 0 /\ n # Never
    BY OrderTyped
  <2> QED
    BY <2>1, <2>2, TrackSpaceKeeps
<1>11. CASE TrackCount
  <2>1. /\ tracks' = halfTrack /\ fTrack' = TrackRecord(halfTrack, space)
        /\ halfTrack' = Never /\ UNCHANGED <<space, eTrack>>
        /\ halfTrack # Never
    BY <1>11 DEF TrackCount
  <2>2. space = eTrack /\ space > 0
    BY <2>1 DEF TrackInv, OrderHalves
  <2>3. /\ fTrack'.num = tracks' /\ fTrack'.space = space'
        /\ fTrack'.crc[2] = space' /\ TrackRecordValid(fTrack)'
    BY <2>1 DEF TrackRecord, TrackRecordValid
  <2> QED
    BY <2>1, <2>2, <2>3 DEF TrackInv, OrderHalves, WholeRecord, OnRecord
<1>12. CASE StopTrack
  BY <1>12, TrackSpaceKeeps DEF StopTrack
<1>13. CASE ChangeInterval
  <2>1. space' = eTrack /\ UNCHANGED <<tracks, halfTrack, fTrack, eTrack>>
    BY <1>13 DEF ChangeInterval, SetInterval
  <2> QED
    BY <2>1, RefreshKeeps
<1>14. CASE AlarmRings
  <2>1. UNCHANGED <<tracks, space, fTrack, halfTrack, eTrack>>
    BY <1>14 DEF AlarmRings
  <2> QED
    BY <2>1 DEF TrackInv, OrderHalves, WholeRecord, OnRecord, Tracking,
                TrackRecordValid
<1>15. CASE SendPosition
  <2>1. UNCHANGED <<tracks, space, fTrack, halfTrack, eTrack>>
    BY <1>15 DEF SendPosition
  <2> QED
    BY <2>1 DEF TrackInv, OrderHalves, WholeRecord, OnRecord, Tracking,
                TrackRecordValid
<1>16. CASE Deliver
  <2>1. UNCHANGED <<tracks, space, fTrack, halfTrack, eTrack>>
    BY <1>16 DEF Deliver
  <2> QED
    BY <2>1 DEF TrackInv, OrderHalves, WholeRecord, OnRecord, Tracking,
                TrackRecordValid
<1>17. CASE Lose
  <2>1. UNCHANGED <<tracks, space, fTrack, halfTrack, eTrack>>
    BY <1>17 DEF Lose
  <2> QED
    BY <2>1 DEF TrackInv, OrderHalves, WholeRecord, OnRecord, Tracking,
                TrackRecordValid
<1>18. CASE LinkLost
  <2>1. UNCHANGED <<tracks, space, fTrack, halfTrack, eTrack>>
    BY <1>18 DEF LinkLost
  <2> QED
    BY <2>1 DEF TrackInv, OrderHalves, WholeRecord, OnRecord, Tracking,
                TrackRecordValid
<1>19. CASE Drain
  <2>1. UNCHANGED <<tracks, space, fTrack, halfTrack, eTrack>>
    BY <1>19 DEF Drain
  <2> QED
    BY <2>1 DEF TrackInv, OrderHalves, WholeRecord, OnRecord, Tracking,
                TrackRecordValid
<1>20. CASE StartUpgrade
  <2>1. UNCHANGED <<tracks, space, fTrack, halfTrack, eTrack>>
    BY <1>20 DEF StartUpgrade
  <2> QED
    BY <2>1 DEF TrackInv, OrderHalves, WholeRecord, OnRecord, Tracking,
                TrackRecordValid
<1>21. CASE RetryUpgrade
  <2>1. UNCHANGED <<tracks, space, fTrack, halfTrack, eTrack>>
    BY <1>21 DEF RetryUpgrade
  <2> QED
    BY <2>1 DEF TrackInv, OrderHalves, WholeRecord, OnRecord, Tracking,
                TrackRecordValid
<1>22. CASE Second
  <2>1. UNCHANGED <<tracks, space, fTrack, halfTrack, eTrack>>
    BY <1>22 DEF Second
  <2> QED
    BY <2>1 DEF TrackInv, OrderHalves, WholeRecord, OnRecord, Tracking,
                TrackRecordValid
<1>23. CASE AlarmWakes
  BY <1>23, StartKeeps DEF AlarmWakes
<1>24. CASE KeyPowerOn
  BY <1>24, StartKeeps DEF KeyPowerOn
<1>25. CASE Crash
  BY <1>25, StartKeeps DEF Crash
<1>26. CASE UNCHANGED vars
  <2>1. UNCHANGED <<tracks, space, fTrack, halfTrack, eTrack>>
    BY <1>26 DEF vars
  <2> QED
    BY <2>1 DEF TrackInv, OrderHalves, WholeRecord, OnRecord, Tracking,
                TrackRecordValid
<1> QED
  BY <1>1, <1>2, <1>3, <1>4, <1>5, <1>6, <1>7, <1>8, <1>9,
     <1>10, <1>11, <1>12, <1>13, <1>14, <1>15, <1>16, <1>17, <1>18,
     <1>19, <1>20, <1>21, <1>22, <1>23, <1>24, <1>25, <1>26
     DEF Next, ReportTask, MainTask, Environment, Power

\* At first nothing is tracked and nothing is on record.
LEMMA InitTrackInv == Init => TrackInv
BY DEF Init, TrackInv, OrderHalves, WholeRecord, OnRecord, Tracking,
       TrackRecord, TrackRecordValid

\* Unless an order meets a tracking that is still in force, a restart resumes a
\* tracking with the reports it has to go, and never half of an order
\* (Report.c:427, 662-699, RadioProtocol.c:745-790).
THEOREM TrackingOnRecord ==
  ASSUME "retrack" \notin Hazards PROVE Spec => TrackingSurvives
<1>1. Init => TrackInv
  BY InitTrackInv
<1>2. TypeInv /\ TrackInv /\ [Next]_vars => TrackInv'
  BY TrackInvKept
<1>3. TypeInv /\ TrackInv =>
        [Crash /\ halfTrack = Never =>
           (tracks' > 0 /\ space' > 0) = Tracking
           /\ (Tracking => tracks' = tracks)]_vars
  <2> SUFFICES ASSUME TypeInv, TrackInv, Crash, halfTrack = Never
               PROVE  /\ (tracks' > 0 /\ space' > 0) = Tracking
                      /\ Tracking => tracks' = tracks
    OBVIOUS
  <2>1. /\ space' = IF TrackRecordValid(fTrack) THEN fTrack.space ELSE 0
        /\ tracks' = IF TrackRecordValid(fTrack) THEN fTrack.num ELSE 0
    BY DEF Crash, Start
  <2>2. Tracking => tracks' = tracks /\ space' = space
    BY <2>1 DEF TrackInv, OnRecord
  <2>3. tracks' > 0 /\ space' > 0 => Tracking
    BY <2>1 DEF TrackInv, OnRecord, Tracking
  <2>4. Tracking => tracks' > 0 /\ space' > 0
    BY <2>2 DEF Tracking
  <2> QED
    BY <2>2, <2>3, <2>4 DEF Tracking
<1> QED
  BY TypeInvariant, <1>1, <1>2, <1>3, PTL DEF Spec, TrackingSurvives

-----------------------------------------------------------------------------
(* Remainders: the seconds that have an offset within an interval          *)

\* Division with remainder.
LEMMA DivMod ==
  ASSUME NEW x \in Int, NEW d \in Nat \ {0}
  PROVE  \E k \in Int, r \in 0 .. (d - 1) : r = x % d /\ x = d * k + r
<1>1. x % d \in 0 .. (d - 1)
  OBVIOUS
<1>2. x \div d \in Int /\ x = d * (x \div d) + (x % d)
  OBVIOUS
<1> QED
  BY <1>1, <1>2

\* Quotient and remainder are unique.
LEMMA ModUnique ==
  ASSUME NEW d \in Nat \ {0}, NEW k \in Int, NEW l \in Int,
         NEW r \in 0 .. (d - 1), NEW q \in 0 .. (d - 1),
         d * k + r = d * l + q
  PROVE  r = q
<1>1. d * (k - l) = q - r
  OBVIOUS
<1>2. CASE k = l
  BY <1>1, <1>2
<1>3. CASE k > l
  <2>1. d * (k - l) >= d
    BY <1>3
  <2> QED
    BY <1>1, <2>1
<1>4. CASE k < l
  <2>1. d * (l - k) >= d
    BY <1>4
  <2>2. d * (l - k) = r - q
    BY <1>1
  <2> QED
    BY <2>1, <2>2
<1> QED
  BY <1>2, <1>3, <1>4

\* Multiples of the interval do not change the remainder.
LEMMA ModShift ==
  ASSUME NEW d \in Nat \ {0}, NEW x \in Int, NEW y \in Int, NEW k \in Int,
         y = x + d * k
  PROVE  y % d = x % d
<1>1. PICK l \in Int, r \in 0 .. (d - 1) : r = x % d /\ x = d * l + r
  BY DivMod
<1>2. PICK m \in Int, q \in 0 .. (d - 1) : q = y % d /\ y = d * m + q
  BY DivMod
<1>3. d * m + q = d * (l + k) + r
  <2>1. x = d * l + r /\ y = d * m + q
    BY <1>1, <1>2
  <2> QED
    BY ONLY <2>1, y = x + d * k, d \in Nat, l \in Int, m \in Int, k \in Int,
            r \in 0 .. (d - 1), q \in 0 .. (d - 1)
<1>4. l + k \in Int
  OBVIOUS
<1>5. q = r
  BY <1>3, <1>4, ModUnique
<1> QED
  BY <1>1, <1>2, <1>5

\* The remainder modulo a multiple of the interval may be taken first.
LEMMA ModModulo ==
  ASSUME NEW d \in Nat \ {0}, NEW c \in Nat \ {0}, c % d = 0,
         NEW x \in Int, NEW y \in Int
  PROVE  ((x % c) + y) % d = (x + y) % d
<1>1. PICK m \in Int, z \in 0 .. (d - 1) : z = c % d /\ c = d * m + z
  BY DivMod
<1>2. PICK k \in Int, r \in 0 .. (c - 1) : r = x % c /\ x = c * k + r
  BY DivMod
<1>3. c = d * m /\ x = c * k + r
  BY <1>1, <1>2
<1>4. x + y = (r + y) + d * (m * k)
  BY ONLY <1>3, d \in Nat, c \in Nat, m \in Int, k \in Int, r \in 0 .. (c - 1),
          x \in Int, y \in Int
<1>5. m * k \in Int /\ r + y \in Int /\ x + y \in Int
  OBVIOUS
<1>6. (x + y) % d = (r + y) % d
  BY <1>4, <1>5, ModShift
<1> QED
  BY <1>2, <1>6

\* Two times less than an interval apart have different remainders.
LEMMA ModApart ==
  ASSUME NEW d \in Nat \ {0}, NEW x \in Int, NEW e \in 1 .. (d - 1)
  PROVE  (x - e) % d # x % d
<1>1. PICK k \in Int, r \in 0 .. (d - 1) : r = x % d /\ x = d * k + r
  BY DivMod
<1>2. x - e \in Int
  OBVIOUS
<1>3. PICK l \in Int, q \in 0 .. (d - 1) : q = (x - e) % d /\ x - e = d * l + q
  BY <1>2, DivMod
<1>4. x = d * k + r /\ x - e = d * l + q
  BY <1>1, <1>3
<1>5. ASSUME q = r PROVE FALSE
  <2>1. d * k + 0 = d * l + e
    BY ONLY <1>4, <1>5, d \in Nat, k \in Int, l \in Int, e \in 1 .. (d - 1), x \in Int,
            r \in 0 .. (d - 1), q \in 0 .. (d - 1)
  <2>2. 0 \in 0 .. (d - 1) /\ e \in 0 .. (d - 1)
    OBVIOUS
  <2>3. 0 = e
    BY <2>1, <2>2, ModUnique
  <2> QED
    BY <2>3
<1> QED
  BY <1>1, <1>3, <1>5

-----------------------------------------------------------------------------
(* No report is dropped                                                    *)

\* The ordinary course of reports: only the report task may be late, a tracking
\* may be stopped, no report is due before the one before it is decided, and no
\* login powers the device down.
InTime ==
  /\ Hazards \subseteq {"slow_task", "stop_track"}
  /\ Overtime > 0 /\ \A d \in SleepTimes \cup TrackSpaces : d > Overtime
  /\ \A d \in SleepTimes : d < LoginMin

\* A device that is awake has no alarm to come, and one that the alarm woke has
\* no tracking.
AwakeOnAlarm ==
  /\ powered => alarm = Never
  /\ ~powered => tracks = 0 /\ halfTrack = Never
  /\ wake = "rtc" => tracks = 0 /\ halfTrack = Never

\* The report whose answer is awaited is the only one, and the second in which
\* it was sent lasts until the timer runs.
OneReport ==
  /\ Undecided => powered /\ status \in {"Wait", "On"}
  /\ posted => ~armed /\ ~fresh
  /\ reporting => ~fresh /\ (posted \/ armed)

\* The task has counted no more seconds than the timer.
Counted ==
  /\ posted /\ ~reporting => count = 0
  /\ armed /\ reporting => timer = Overtime
  /\ armed /\ ~reporting =>
       count + (IF fresh THEN 1 ELSE 0) <= Overtime - timer

\* The seconds since a report that was sent on the stored offset.
Elapsed == IF posted THEN 0 ELSE Overtime - timer

OnOffset ==
  (posted \/ armed) /\ wake = "rtc" => (now - Elapsed) % sleepTime = offset

\* An answer is the answer to the report in the buffer, which was taken.
Answered ==
  /\ "this" \in acks => cur = "taken"
  /\ (posted \/ armed) /\ ~reporting /\ ackFlag => cur = "taken"

ReportInv == OneReport /\ Counted /\ OnOffset /\ Answered /\ NoReportDropped

\* While nothing is tracked, nothing is on record.
LEMMA NothingOnRecord ==
  ASSUME TypeInv, TrackInv, AwakeOnAlarm, ~powered
  PROVE  (IF TrackRecordValid(fTrack) THEN fTrack.num ELSE 0) = 0
<1>1. /\ fTrack.num \in Nat /\ fTrack.space \in Nat /\ tracks = 0 /\ halfTrack = Never
  BY TrackNumbers DEF TypeInv, AwakeOnAlarm
<1>2. TrackRecordValid(fTrack) => fTrack.crc[2] = fTrack.space
  BY DEF TrackRecordValid
<1> QED
  BY <1>1, <1>2 DEF TrackInv, WholeRecord, OnRecord

\* The alarm wakes a device that tracks nothing.
LEMMA AwakeOnAlarmKept ==
  ASSUME InTime
  PROVE  TypeInv /\ TrackInv /\ AwakeOnAlarm /\ [Next]_vars => AwakeOnAlarm'
<1> SUFFICES ASSUME TypeInv, TrackInv, AwakeOnAlarm, [Next]_vars PROVE AwakeOnAlarm'
  OBVIOUS
<1> USE DEF clock, mode, line, intervals, save, answer, command, net,
           store, history, AwakeOnAlarm
<1>1. CASE ReportInit
  BY <1>1 DEF ReportInit
<1>2. CASE SameSecond
  BY <1>2 DEF SameSecond, Reached, StatusNow
<1>3. CASE CountSecond
  BY <1>3 DEF CountSecond, Reached, StatusNow
<1>4. CASE SendReport
  <2>1. /\ tracks' = TracksAfter /\ UNCHANGED <<powered, alarm, wake, halfTrack>>
        /\ powered
    BY <1>4 DEF SendReport, Reached
  <2>2. tracks = 0 => tracks' = 0
    BY <2>1 DEF TracksAfter, Tracking
  <2> QED
    BY <2>1, <2>2
<1>5. CASE ClearAck
  BY <1>5 DEF ClearAck, AckAfterSend
<1>6. CASE StartSaveTimer
  BY <1>6 DEF StartSaveTimer
<1>7. CASE SaveTimeout
  <2>1. /\ powered' = FALSE => tracks = 0
        /\ powered' => powered /\ UNCHANGED alarm
        /\ halfTrack = Never
        /\ powered' \in BOOLEAN
        /\ UNCHANGED <<wake, tracks, halfTrack>>
    BY <1>7, Zenon DEF SaveTimeout, KeepsUp
  <2>2. powered' => alarm' = Never
    BY <2>1
  <2> QED
    BY <2>1, <2>2
<1>8. CASE Report_CmdAck
  BY <1>8 DEF Report_CmdAck
<1>9. CASE Net_First_Login
  <2>1. ~(eSleep >= LoginMin)
    <3>1. eSleep < LoginMin /\ eSleep \in Nat /\ LoginMin \in Nat
      BY SpansTyped, DelayAssumption DEF InTime, TypeInv, Spans
    <3> QED
      BY <3>1
  <2>2. powered' = TRUE /\ powered = TRUE /\ UNCHANGED <<alarm, wake, tracks, halfTrack>>
    BY <1>9, <2>1 DEF Net_First_Login, TypeInv, Flags
  <2> QED
    BY <2>2
<1>10. CASE StartTrack
  BY <1>10 DEF StartTrack, TrackSpace, InTime
<1>11. CASE TrackCount
  BY <1>11 DEF TrackCount
<1>12. CASE StopTrack
  BY <1>12 DEF StopTrack, TrackSpace, InTime
<1>13. CASE ChangeInterval
  <2>1. /\ wake' = wake \/ wake' = "key"
        /\ UNCHANGED <<powered, alarm, tracks, halfTrack>>
    BY <1>13 DEF ChangeInterval, SetInterval, WakeAfterChange
  <2> QED
    BY <2>1
<1>14. CASE AlarmRings
  <2>1. FALSE
    BY <1>14 DEF AlarmRings, TypeInv, Clocks, Time, Never
  <2> QED
    BY <2>1
<1>15. CASE SendPosition
  BY <1>15 DEF SendPosition
<1>16. CASE Deliver
  BY <1>16 DEF Deliver
<1>17. CASE Lose
  BY <1>17 DEF Lose
<1>18. CASE LinkLost
  BY <1>18 DEF LinkLost
<1>19. CASE Drain
  BY <1>19 DEF Drain
<1>20. CASE StartUpgrade
  BY <1>20 DEF StartUpgrade
<1>21. CASE RetryUpgrade
  BY <1>21 DEF RetryUpgrade
<1>22. CASE Second
  BY <1>22 DEF Second
<1>23. CASE AlarmWakes
  <2>1. ~powered /\ tracks = 0 /\ alarm' = Never /\ powered' = TRUE /\ halfTrack' = Never
        /\ tracks' = IF TrackRecordValid(fTrack) THEN fTrack.num ELSE 0
    BY <1>23 DEF AlarmWakes, Start
  <2>2. tracks' = 0
    BY <2>1, NothingOnRecord
  <2> QED
    BY <2>1, <2>2
<1>24. CASE KeyPowerOn
  BY <1>24 DEF KeyPowerOn, InTime
<1>25. CASE Crash
  BY <1>25 DEF Crash, Start
<1>26. CASE UNCHANGED vars
  BY <1>26 DEF vars
<1> QED
  BY <1>1, <1>2, <1>3, <1>4, <1>5, <1>6, <1>7, <1>8, <1>9,
     <1>10, <1>11, <1>12, <1>13, <1>14, <1>15, <1>16, <1>17, <1>18,
     <1>19, <1>20, <1>21, <1>22, <1>23, <1>24, <1>25, <1>26
     DEF Next, ReportTask, MainTask, Environment, Power

\* The next report waits until the one before it is decided: awake on its own
\* the task has counted too few seconds, and awake on the alarm the seconds that
\* have the offset are an interval apart.
LEMMA NotYetReady ==
  ASSUME InTime, TypeInv, AwakeOnAlarm, OneReport, Counted, OnOffset,
         Undecided, Reached, NewSecond
  PROVE  ~Report_IsReady
<1>1. armed /\ ~posted /\ ~reporting /\ fresh /\ status \in {"Wait", "On"}
  BY DEF OneReport, Undecided, Reached, NewSecond
<1> DEFINE e == Overtime - timer
<1>2. /\ Overtime \in Nat /\ timer \in 0 .. Overtime /\ count \in Nat /\ now \in Int
  BY DelayAssumption, TimesTyped DEF TypeInv, Clocks
<1>3. e \in 1 .. Overtime /\ count + 1 <= e
  BY <1>1, <1>2 DEF Counted
<1>4. Interval \in SleepTimes \cup TrackSpaces
  BY <1>1, IntervalTyped DEF TypeInv
<1>5. Interval \in Nat \ {0} /\ Interval > Overtime
  BY <1>4, SpansTyped DEF InTime
<1>6. e \in 1 .. (Interval - 1)
  BY <1>2, <1>3, <1>5
<1>7. CASE wake = "rtc"
  <2>1. Interval = sleepTime
    BY <1>7 DEF AwakeOnAlarm, Interval, Tracking
  <2>2. (now - e) % Interval = offset
    BY <1>1, <1>7, <2>1 DEF OnOffset, Elapsed
  <2>3. (now - e) % Interval # now % Interval
    BY <1>2, <1>5, <1>6, ModApart
  <2> QED
    BY <1>7, <2>2, <2>3 DEF Report_IsReady
<1>8. CASE wake # "rtc"
  <2>1. count + 1 < Interval
    BY <1>2, <1>3, <1>5, <1>6
  <2> QED
    BY <1>2, <1>5, <1>8, <2>1 DEF Report_IsReady
<1> QED
  BY <1>7, <1>8

\* One report at a time is on its way, and its timer is ahead of the next.
LEMMA OneReportKept ==
  ASSUME InTime
  PROVE  TypeInv /\ AwakeOnAlarm /\ OneReport /\ Counted /\ OnOffset /\ [Next]_vars =>
           OneReport' /\ Counted'
<1> SUFFICES ASSUME TypeInv, AwakeOnAlarm, OneReport, Counted, OnOffset, [Next]_vars
             PROVE  OneReport' /\ Counted'
  OBVIOUS
<1> USE DEF clock, mode, line, intervals, save, answer, command, net,
           store, history, OneReport, Counted
<1>1. CASE ReportInit
  <2>1. ~Undecided /\ UNCHANGED <<posted, armed, reporting>>
    BY <1>1 DEF ReportInit
  <2> QED
    BY <2>1 DEF Undecided
<1>2. CASE SameSecond
  <2>1. /\ status' \in {"Wait", "On"}
        /\ UNCHANGED <<powered, count, fresh, posted, armed, reporting, timer>>
    BY <1>2 DEF SameSecond, Reached, StatusNow
  <2> QED
    BY <2>1 DEF Undecided
<1>3. CASE CountSecond
  <2>1. /\ count' = Capped(count + 1) /\ fresh /\ fresh' = FALSE /\ ~reporting
        /\ status' \in {"Wait", "On"}
        /\ UNCHANGED <<powered, posted, armed, reporting, timer>>
    BY <1>3 DEF CountSecond, Reached, StatusNow, NewSecond
  <2>2. count' <= count + 1
    BY <2>1, IntervalAssumption DEF Capped, TypeInv, Clocks
  <2>3. count' \in Int /\ count \in Int /\ timer \in Int /\ Overtime \in Nat
    BY <2>1, IntervalAssumption, DelayAssumption DEF Capped, TypeInv, Clocks
  <2>4. armed => count' + 0 <= Overtime - timer
    BY <2>1, <2>2, <2>3
  <2> QED
    BY <2>1, <2>4 DEF Undecided
<1>4. CASE SendReport
  <2>1. ~Undecided
    BY <1>4, NotYetReady DEF SendReport
  <2>2. /\ powered' = powered /\ powered /\ status' \in {"Wait", "On"} /\ fresh' = FALSE
        /\ posted' = TRUE /\ reporting' = TRUE /\ UNCHANGED <<armed, timer, count>>
    BY <1>4 DEF SendReport, Reached, StatusNow
  <2> QED
    BY <2>1, <2>2 DEF Undecided
<1>5. CASE ClearAck
  <2>1. /\ count' = 0 /\ reporting /\ reporting' = FALSE
        /\ UNCHANGED <<powered, status, fresh, posted, armed, timer>>
    BY <1>5 DEF ClearAck
  <2>2. Overtime \in Int
    BY DelayAssumption
  <2> QED
    BY <2>1, <2>2 DEF Undecided
<1>6. CASE StartSaveTimer
  <2>1. /\ posted /\ posted' = FALSE /\ armed' = TRUE /\ timer' = Overtime
        /\ UNCHANGED <<powered, status, fresh, count, reporting>>
    BY <1>6 DEF StartSaveTimer
  <2>2. Overtime \in Int
    BY DelayAssumption
  <2> QED
    BY <2>1, <2>2 DEF Undecided
<1>7. CASE SaveTimeout
  <2>1. /\ armed /\ timer = 0 /\ armed' = FALSE
        /\ UNCHANGED <<status, count, fresh, posted, reporting>>
    BY <1>7 DEF SaveTimeout
  <2>2. ~posted /\ ~reporting
    BY <2>1 DEF InTime
  <2> QED
    BY <2>1, <2>2 DEF Undecided
<1>8. CASE Report_CmdAck
  <2>1. UNCHANGED <<powered, status, fresh, count, posted, armed, reporting, timer>>
    BY <1>8 DEF Report_CmdAck
  <2> QED
    BY <2>1 DEF Undecided
<1>9. CASE Net_First_Login
  <2>1. ~Undecided /\ UNCHANGED <<posted, armed, reporting>>
    BY <1>9 DEF Net_First_Login, InTime
  <2> QED
    BY <2>1 DEF Undecided
<1>10. CASE StartTrack
  <2>1. ~Undecided /\ UNCHANGED <<posted, armed, reporting>>
    BY <1>10 DEF StartTrack, TrackSpace, InTime
  <2> QED
    BY <2>1 DEF Undecided
<1>11. CASE TrackCount
  <2>1. count' = 0 /\ UNCHANGED <<powered, status, fresh, posted, armed, reporting, timer>>
    BY <1>11 DEF TrackCount
  <2>2. timer \in Int /\ Overtime \in Int /\ count \in Nat
    BY DelayAssumption DEF TypeInv, Clocks
  <2> QED
    BY <2>1, <2>2 DEF Undecided
<1>12. CASE StopTrack
  <2>1. ~Undecided /\ UNCHANGED <<posted, armed, reporting>>
    BY <1>12 DEF StopTrack, TrackSpace, InTime
  <2> QED
    BY <2>1 DEF Undecided
<1>13. CASE ChangeInterval
  <2>1. ~Undecided /\ UNCHANGED <<posted, armed, reporting>>
    BY <1>13 DEF ChangeInterval, SetInterval, InTime
  <2> QED
    BY <2>1 DEF Undecided
<1>14. CASE AlarmRings
  <2>1. UNCHANGED <<powered, status, fresh, count, posted, armed, reporting, timer>>
    BY <1>14 DEF AlarmRings
  <2> QED
    BY <2>1 DEF Undecided
<1>15. CASE SendPosition
  <2>1. count' = 0 /\ UNCHANGED <<powered, status, fresh, posted, armed, reporting, timer>>
    BY <1>15 DEF SendPosition
  <2>2. timer \in Int /\ Overtime \in Int /\ count \in Nat
    BY DelayAssumption DEF TypeInv, Clocks
  <2> QED
    BY <2>1, <2>2 DEF Undecided
<1>16. CASE Deliver
  <2>1. UNCHANGED <<powered, status, fresh, count, posted, armed, reporting, timer>>
    BY <1>16 DEF Deliver
  <2> QED
    BY <2>1 DEF Undecided
<1>17. CASE Lose
  <2>1. UNCHANGED <<powered, status, fresh, count, posted, armed, reporting, timer>>
    BY <1>17 DEF Lose
  <2> QED
    BY <2>1 DEF Undecided
<1>18. CASE LinkLost
  <2>1. UNCHANGED <<powered, status, fresh, count, posted, armed, reporting, timer>>
    BY <1>18 DEF LinkLost
  <2> QED
    BY <2>1 DEF Undecided
<1>19. CASE Drain
  <2>1. UNCHANGED <<powered, status, fresh, count, posted, armed, reporting, timer>>
    BY <1>19 DEF Drain
  <2> QED
    BY <2>1 DEF Undecided
<1>20. CASE StartUpgrade
  <2>1. UNCHANGED <<powered, status, fresh, count, posted, armed, reporting, timer>>
    BY <1>20 DEF StartUpgrade
  <2> QED
    BY <2>1 DEF Undecided
<1>21. CASE RetryUpgrade
  <2>1. UNCHANGED <<powered, status, fresh, count, posted, armed, reporting, timer>>
    BY <1>21 DEF RetryUpgrade
  <2> QED
    BY <2>1 DEF Undecided
<1>22. CASE Second
  <2>1. /\ powered => ~reporting /\ ~posted /\ (armed => timer > 0)
        /\ fresh' = TRUE /\ timer' = IF armed /\ timer > 0 THEN timer - 1 ELSE timer
        /\ UNCHANGED <<powered, status, count, posted, armed, reporting>>
    BY <1>22 DEF Second
  <2>2. /\ ~reporting /\ ~posted /\ (armed => timer > 0)
    BY <2>1 DEF Undecided
  <2>3. timer \in Int /\ Overtime \in Int /\ count \in Int
    BY DelayAssumption DEF TypeInv, Clocks
  <2>4. armed => count + 1 <= Overtime - timer'
    <3> SUFFICES ASSUME armed PROVE count + 1 <= Overtime - timer'
      OBVIOUS
    <3>1. count <= Overtime - timer /\ timer' = timer - 1
      BY <2>1, <2>2, <2>3
    <3> QED
      BY <2>3, <3>1
  <2>5. posted' = FALSE /\ reporting' = FALSE /\ (armed' = armed)
    BY <2>1, <2>2 DEF TypeInv, Flags
  <2>6. OneReport'
    BY <2>1, <2>5 DEF Undecided
  <2>7. Counted'
    BY <2>1, <2>4, <2>5
  <2> QED
    BY <2>6, <2>7
<1>23. CASE AlarmWakes
  BY <1>23 DEF AlarmWakes, Start, Undecided
<1>24. CASE KeyPowerOn
  BY <1>24 DEF KeyPowerOn, Start, Undecided
<1>25. CASE Crash
  BY <1>25 DEF Crash, Start, Undecided
<1>26. CASE UNCHANGED vars
  <2>1. UNCHANGED <<powered, status, fresh, count, posted, armed, reporting, timer>>
    BY <1>26 DEF vars
  <2> QED
    BY <2>1 DEF Undecided
<1> QED
  BY <1>1, <1>2, <1>3, <1>4, <1>5, <1>6, <1>7, <1>8, <1>9,
     <1>10, <1>11, <1>12, <1>13, <1>14, <1>15, <1>16, <1>17, <1>18,
     <1>19, <1>20, <1>21, <1>22, <1>23, <1>24, <1>25, <1>26
     DEF Next, ReportTask, MainTask, Environment, Power

\* A second later the time of the report is one second further back.
LEMMA SecondKeepsOffset ==
  ASSUME NEW d \in SleepTimes, NEW t \in Time, NEW e \in Int
  PROVE  (Later(t + 1) - (e + 1)) % d = (t - e) % d
<1>1. d \in Nat \ {0} /\ Cycle \in Nat \ {0} /\ Cycle % d = 0
  BY IntervalAssumption DEF Multiples
<1>2. PICK y \in Int, u \in Int : y = 0 - (e + 1) /\ u = t + 1
  <2>1. 0 - (e + 1) \in Int /\ t + 1 \in Int
    BY TimesTyped
  <2> QED
    BY <2>1
<1>3. (Later(u) + y) % d = (u + y) % d
  <2>1. ((u % Cycle) + y) % d = (u + y) % d
    BY <1>1, ModModulo, Zenon
  <2> QED
    BY <2>1, Zenon DEF Later
<1>4. Later(u) \in Int /\ t \in Int
  <2>1. Later(u) \in Time
    BY LaterTyped, Zenon
  <2>2. Later(u) \in Nat
    BY <2>1, TimesTyped, Zenon
  <2>3. t \in Nat
    BY TimesTyped
  <2> QED
    BY <2>2, <2>3
<1>5. u + y = t - e /\ Later(u) + y = Later(u) - (e + 1)
  BY <1>2, <1>4
<1> QED
  BY <1>2, <1>3, <1>5

\* After a wake-up by the alarm the report goes out on the stored offset.
LEMMA OnOffsetKept ==
  ASSUME InTime
  PROVE  TypeInv /\ AwakeOnAlarm /\ OneReport /\ OnOffset /\ [Next]_vars => OnOffset'
<1> SUFFICES ASSUME TypeInv, AwakeOnAlarm, OneReport, OnOffset, [Next]_vars
             PROVE  OnOffset'
  OBVIOUS
<1> USE DEF clock, mode, line, intervals, save, answer, command, net,
           store, history, OnOffset, Elapsed
<1>1. CASE ReportInit
  <2>1. ~Undecided /\ UNCHANGED <<posted, armed>>
    BY <1>1 DEF ReportInit, OneReport
  <2> QED
    BY <2>1 DEF Undecided
<1>2. CASE SameSecond
  <2>1. UNCHANGED <<posted, armed, timer, wake, now, sleepTime, offset>>
    BY <1>2 DEF SameSecond
  <2> QED
    BY <2>1
<1>3. CASE CountSecond
  <2>1. UNCHANGED <<posted, armed, timer, wake, now, sleepTime, offset>>
    BY <1>3 DEF CountSecond
  <2> QED
    BY <2>1
<1>4. CASE SendReport
  <2>1. /\ posted' = TRUE /\ Reached /\ Report_IsReady
        /\ offset' = IF wake = "rtc" THEN offset ELSE NewOffset
        /\ UNCHANGED <<now, sleepTime, wake>>
    BY <1>4 DEF SendReport
  <2>2. wake = "rtc" => offset = now % sleepTime
    BY <2>1 DEF Report_IsReady, AwakeOnAlarm, Interval, Tracking
  <2>3. now - 0 = now
    BY TimesTyped DEF TypeInv, Clocks
  <2> QED
    BY <2>1, <2>2, <2>3
<1>5. CASE ClearAck
  <2>1. UNCHANGED <<posted, armed, timer, wake, now, sleepTime, offset>>
    BY <1>5 DEF ClearAck
  <2> QED
    BY <2>1
<1>6. CASE StartSaveTimer
  <2>1. /\ posted /\ posted' = FALSE /\ timer' = Overtime
        /\ UNCHANGED <<wake, now, sleepTime, offset>>
    BY <1>6 DEF StartSaveTimer
  <2>2. Overtime - Overtime = 0 /\ Overtime \in Int
    BY DelayAssumption
  <2> QED
    BY <2>1, <2>2
<1>7. CASE SaveTimeout
  <2>1. /\ armed' = FALSE /\ posted' = posted /\ armed
    BY <1>7 DEF SaveTimeout
  <2> QED
    BY <2>1 DEF OneReport
<1>8. CASE Report_CmdAck
  <2>1. UNCHANGED <<posted, armed, timer, wake, now, sleepTime, offset>>
    BY <1>8 DEF Report_CmdAck
  <2> QED
    BY <2>1
<1>9. CASE Net_First_Login
  <2>1. ~Undecided /\ UNCHANGED <<posted, armed>>
    BY <1>9 DEF Net_First_Login, InTime
  <2> QED
    BY <2>1 DEF Undecided
<1>10. CASE StartTrack
  <2>1. ~Undecided /\ UNCHANGED <<posted, armed>>
    BY <1>10 DEF StartTrack, TrackSpace, InTime
  <2> QED
    BY <2>1 DEF Undecided
<1>11. CASE TrackCount
  <2>1. UNCHANGED <<posted, armed, timer, wake, now, sleepTime, offset>>
    BY <1>11 DEF TrackCount
  <2> QED
    BY <2>1
<1>12. CASE StopTrack
  <2>1. ~Undecided /\ UNCHANGED <<posted, armed>>
    BY <1>12 DEF StopTrack, TrackSpace, InTime
  <2> QED
    BY <2>1 DEF Undecided
<1>13. CASE ChangeInterval
  <2>1. ~Undecided /\ UNCHANGED <<posted, armed>>
    BY <1>13 DEF ChangeInterval, SetInterval, InTime
  <2> QED
    BY <2>1 DEF Undecided
<1>14. CASE AlarmRings
  <2>1. FALSE
    BY <1>14 DEF AlarmRings, AwakeOnAlarm, TypeInv, Clocks, Time, Never
  <2> QED
    BY <2>1
<1>15. CASE SendPosition
  <2>1. UNCHANGED <<posted, armed, timer, wake, now, sleepTime, offset>>
    BY <1>15 DEF SendPosition
  <2> QED
    BY <2>1
<1>16. CASE Deliver
  <2>1. UNCHANGED <<posted, armed, timer, wake, now, sleepTime, offset>>
    BY <1>16 DEF Deliver
  <2> QED
    BY <2>1
<1>17. CASE Lose
  <2>1. UNCHANGED <<posted, armed, timer, wake, now, sleepTime, offset>>
    BY <1>17 DEF Lose
  <2> QED
    BY <2>1
<1>18. CASE LinkLost
  <2>1. UNCHANGED <<posted, armed, timer, wake, now, sleepTime, offset>>
    BY <1>18 DEF LinkLost
  <2> QED
    BY <2>1
<1>19. CASE Drain
  <2>1. UNCHANGED <<posted, armed, timer, wake, now, sleepTime, offset>>
    BY <1>19 DEF Drain
  <2> QED
    BY <2>1
<1>20. CASE StartUpgrade
  <2>1. UNCHANGED <<posted, armed, timer, wake, now, sleepTime, offset>>
    BY <1>20 DEF StartUpgrade
  <2> QED
    BY <2>1
<1>21. CASE RetryUpgrade
  <2>1. UNCHANGED <<posted, armed, timer, wake, now, sleepTime, offset>>
    BY <1>21 DEF RetryUpgrade
  <2> QED
    BY <2>1
<1>22. CASE Second
  <2>1. /\ powered => ~posted /\ (armed => timer > 0)
        /\ now' = Later(now + 1) /\ timer' = IF armed /\ timer > 0 THEN timer - 1 ELSE timer
        /\ UNCHANGED <<posted, armed, wake, sleepTime, offset>>
    BY <1>22 DEF Second
  <2> SUFFICES ASSUME posted' \/ armed', wake' = "rtc"
               PROVE  (now' - Elapsed') % sleepTime' = offset'
    OBVIOUS
  <2>2. armed /\ ~posted /\ timer > 0 /\ status \in {"Wait", "On"}
    BY <2>1 DEF OneReport, Undecided
  <2>3. sleepTime \in SleepTimes /\ now \in Time /\ timer \in Int /\ Overtime \in Int
    BY <2>2, DelayAssumption DEF TypeInv, Spans, Clocks
  <2>4. (now - (Overtime - timer)) % sleepTime = offset
    BY <2>1, <2>2
  <2>5. Overtime - timer' = (Overtime - timer) + 1 /\ Overtime - timer \in Int
    BY <2>1, <2>2, <2>3
  <2>6. (Later(now + 1) - ((Overtime - timer) + 1)) % sleepTime = offset
    BY <2>3, <2>4, <2>5, SecondKeepsOffset
  <2>7. posted' = FALSE /\ now' = Later(now + 1) /\ sleepTime' = sleepTime /\ offset' = offset
    BY <2>1, <2>2 DEF TypeInv, Flags
  <2>8. Elapsed' = (Overtime - timer) + 1
    BY <2>5, <2>7
  <2> QED
    BY <2>6, <2>7, <2>8
<1>23. CASE AlarmWakes
  <2>1. posted' = FALSE /\ armed' = FALSE
    BY <1>23 DEF AlarmWakes, Start
  <2> QED
    BY <2>1
<1>24. CASE KeyPowerOn
  <2>1. posted' = FALSE /\ armed' = FALSE
    BY <1>24 DEF KeyPowerOn, Start
  <2> QED
    BY <2>1
<1>25. CASE Crash
  <2>1. posted' = FALSE /\ armed' = FALSE
    BY <1>25 DEF Crash, Start
  <2> QED
    BY <2>1
<1>26. CASE UNCHANGED vars
  <2>1. UNCHANGED <<posted, armed, timer, wake, now, sleepTime, offset>>
    BY <1>26 DEF vars
  <2> QED
    BY <2>1
<1> QED
  BY <1>1, <1>2, <1>3, <1>4, <1>5, <1>6, <1>7, <1>8, <1>9,
     <1>10, <1>11, <1>12, <1>13, <1>14, <1>15, <1>16, <1>17, <1>18,
     <1>19, <1>20, <1>21, <1>22, <1>23, <1>24, <1>25, <1>26
     DEF Next, ReportTask, MainTask, Environment, Power

\* What answers a report is the reply to it, and what gives way is decided.
LEMMA AnsweredKept ==
  ASSUME InTime
  PROVE  TypeInv /\ AwakeOnAlarm /\ ReportInv /\ [Next]_vars =>
           Answered' /\ NoReportDropped'
<1> SUFFICES ASSUME TypeInv, AwakeOnAlarm, OneReport, Counted, OnOffset, Answered,
                    NoReportDropped, [Next]_vars
             PROVE  Answered' /\ NoReportDropped'
  BY DEF ReportInv
<1> USE DEF clock, mode, line, intervals, save, answer, command, net,
           store, history, Answered, NoReportDropped
<1>1. CASE ReportInit
  <2>1. UNCHANGED <<posted, armed, reporting, ackFlag, cur, acks, dropped>>
    BY <1>1 DEF ReportInit
  <2> QED
    BY <2>1
<1>2. CASE SameSecond
  <2>1. UNCHANGED <<posted, armed, reporting, ackFlag, cur, acks, dropped>>
    BY <1>2 DEF SameSecond
  <2> QED
    BY <2>1
<1>3. CASE CountSecond
  <2>1. UNCHANGED <<posted, armed, reporting, ackFlag, cur, acks, dropped>>
    BY <1>3 DEF CountSecond
  <2> QED
    BY <2>1
<1>4. CASE SendReport
  <2>1. ~posted /\ ~armed
    BY <1>4, NotYetReady DEF SendReport, Undecided
  <2>2. /\ acks' = { "other" : a \in acks } /\ reporting' = TRUE
        /\ dropped' = (dropped \/ ((posted \/ armed) /\ cur # "taken"))
    BY <1>4 DEF SendReport
  <2> QED
    BY <2>1, <2>2
<1>5. CASE ClearAck
  <2>1. ackFlag' = FALSE /\ UNCHANGED <<cur, acks, dropped>>
    BY <1>5 DEF ClearAck, AckAfterSend
  <2> QED
    BY <2>1
<1>6. CASE StartSaveTimer
  <2>1. posted /\ UNCHANGED <<reporting, ackFlag, cur, acks, dropped>>
    BY <1>6 DEF StartSaveTimer
  <2> QED
    BY <2>1
<1>7. CASE SaveTimeout
  <2>1. armed /\ timer = 0 /\ armed' = FALSE /\ posted' = posted
        /\ dropped' = (dropped \/ (ackFlag /\ cur # "taken"))
        /\ UNCHANGED <<reporting, cur, acks>>
    BY <1>7 DEF SaveTimeout
  <2>2. ~reporting /\ ~posted
    BY <2>1 DEF OneReport, Counted, InTime
  <2> QED
    BY <2>1, <2>2
<1>8. CASE Report_CmdAck
  <2>1. PICK a \in acks : (a = "this" \/ ~Undecided) /\ acks' = acks \ {a}
    BY <1>8 DEF Report_CmdAck, InTime
  <2>2. UNCHANGED <<posted, armed, reporting, cur, dropped>>
    BY <1>8 DEF Report_CmdAck
  <2> QED
    BY <2>1, <2>2 DEF Undecided
<1>9. CASE Net_First_Login
  <2>1. UNCHANGED <<posted, armed, reporting, ackFlag, cur, acks, dropped>>
    BY <1>9 DEF Net_First_Login
  <2> QED
    BY <2>1
<1>10. CASE StartTrack
  <2>1. UNCHANGED <<posted, armed, reporting, ackFlag, cur, acks, dropped>>
    BY <1>10 DEF StartTrack, TrackSpace
  <2> QED
    BY <2>1
<1>11. CASE TrackCount
  <2>1. UNCHANGED <<posted, armed, reporting, ackFlag, cur, acks, dropped>>
    BY <1>11 DEF TrackCount
  <2> QED
    BY <2>1
<1>12. CASE StopTrack
  <2>1. UNCHANGED <<posted, armed, reporting, ackFlag, cur, acks, dropped>>
    BY <1>12 DEF StopTrack, TrackSpace
  <2> QED
    BY <2>1
<1>13. CASE ChangeInterval
  <2>1. UNCHANGED <<posted, armed, reporting, ackFlag, cur, acks, dropped>>
    BY <1>13 DEF ChangeInterval, SetInterval
  <2> QED
    BY <2>1
<1>14. CASE AlarmRings
  <2>1. UNCHANGED <<posted, armed, reporting, ackFlag, cur, acks, dropped>>
    BY <1>14 DEF AlarmRings
  <2> QED
    BY <2>1
<1>15. CASE SendPosition
  <2>1. /\ acks' = (IF auth THEN acks \cup {"other"} ELSE acks)
        /\ UNCHANGED <<posted, armed, reporting, ackFlag, cur, dropped>>
    BY <1>15 DEF SendPosition
  <2> QED
    BY <2>1
<1>16. CASE Deliver
  <2>1. cur' = "taken" /\ UNCHANGED dropped
    BY <1>16 DEF Deliver
  <2> QED
    BY <2>1
<1>17. CASE Lose
  <2>1. /\ cur' = cur \/ cur = "flying"
        /\ acks' \subseteq acks
        /\ UNCHANGED <<posted, armed, reporting, ackFlag, dropped>>
    BY <1>17 DEF Lose
  <2> QED
    BY <2>1
<1>18. CASE LinkLost
  <2>1. /\ cur' = cur \/ cur = "flying"
        /\ acks' = {}
        /\ UNCHANGED <<posted, armed, reporting, ackFlag, dropped>>
    BY <1>18 DEF LinkLost
  <2> QED
    BY <2>1
<1>19. CASE Drain
  <2>1. UNCHANGED <<posted, armed, reporting, ackFlag, cur, acks, dropped>>
    BY <1>19 DEF Drain
  <2> QED
    BY <2>1
<1>20. CASE StartUpgrade
  <2>1. UNCHANGED <<posted, armed, reporting, ackFlag, cur, acks, dropped>>
    BY <1>20 DEF StartUpgrade
  <2> QED
    BY <2>1
<1>21. CASE RetryUpgrade
  <2>1. UNCHANGED <<posted, armed, reporting, ackFlag, cur, acks, dropped>>
    BY <1>21 DEF RetryUpgrade
  <2> QED
    BY <2>1
<1>22. CASE Second
  <2>1. UNCHANGED <<posted, armed, reporting, ackFlag, cur, acks, dropped>>
    BY <1>22 DEF Second
  <2> QED
    BY <2>1
<1>23. CASE AlarmWakes
  <2>1. posted' = FALSE /\ armed' = FALSE /\ acks' = {} /\ dropped' = dropped
    BY <1>23 DEF AlarmWakes, Start
  <2> QED
    BY <2>1
<1>24. CASE KeyPowerOn
  <2>1. posted' = FALSE /\ armed' = FALSE /\ acks' = {} /\ dropped' = dropped
    BY <1>24 DEF KeyPowerOn, Start
  <2> QED
    BY <2>1
<1>25. CASE Crash
  <2>1. posted' = FALSE /\ armed' = FALSE /\ acks' = {} /\ dropped' = dropped
    BY <1>25 DEF Crash, Start
  <2> QED
    BY <2>1
<1>26. CASE UNCHANGED vars
  <2>1. UNCHANGED <<posted, armed, reporting, ackFlag, cur, acks, dropped>>
    BY <1>26 DEF vars
  <2> QED
    BY <2>1
<1> QED
  BY <1>1, <1>2, <1>3, <1>4, <1>5, <1>6, <1>7, <1>8, <1>9,
     <1>10, <1>11, <1>12, <1>13, <1>14, <1>15, <1>16, <1>17, <1>18,
     <1>19, <1>20, <1>21, <1>22, <1>23, <1>24, <1>25, <1>26
     DEF Next, ReportTask, MainTask, Environment, Power


\* With intervals longer than the wait for the answer, a report that the
\* platform does not take is saved: through lost links and answers, crashes,
\* wake-ups by the alarm, trackings and new intervals, whatever the delay of the
\* report task (Report.c:421-462, main.c:248).
THEOREM EveryReportTakenOrSaved ==
  ASSUME InTime PROVE Spec => []NoReportDropped
<1> DEFINE IInv == TrackInv /\ AwakeOnAlarm /\ ReportInv
<1>1. Init => IInv
  <2> SUFFICES ASSUME Init PROVE IInv
    OBVIOUS
  <2>1. TrackInv
    BY InitTrackInv
  <2>2. AwakeOnAlarm
    BY DEF Init, AwakeOnAlarm
  <2>3. OneReport /\ Counted /\ OnOffset
    BY DEF Init, OneReport, Counted, OnOffset, Undecided
  <2>4. Answered /\ NoReportDropped
    BY DEF Init, Answered, NoReportDropped
  <2> QED
    BY <2>1, <2>2, <2>3, <2>4 DEF ReportInv
<1>2. TypeInv /\ IInv /\ [Next]_vars => IInv'
  <2> SUFFICES ASSUME TypeInv, IInv, [Next]_vars PROVE IInv'
    OBVIOUS
  <2>1. "retrack" \notin Hazards
    BY DEF InTime
  <2>2. TrackInv'
    BY <2>1, TrackInvKept
  <2>3. AwakeOnAlarm'
    BY AwakeOnAlarmKept
  <2>4. OneReport' /\ Counted' /\ OnOffset'
    BY OneReportKept, OnOffsetKept DEF ReportInv
  <2>5. Answered' /\ NoReportDropped'
    BY AnsweredKept
  <2> QED
    BY <2>2, <2>3, <2>4, <2>5 DEF ReportInv
<1>3. IInv => NoReportDropped
  BY DEF ReportInv
<1> QED
  BY TypeInvariant, <1>1, <1>2, <1>3, PTL DEF Spec

-----------------------------------------------------------------------------
(* The alarm rings before a report                                         *)

\* No power-on by key, no new interval while a report is undecided, no login
\* that powers the device down, and trackings whose reports keep it on.
OnGrid ==
  /\ "key_wake" \notin Hazards /\ "quick_report" \notin Hazards
  /\ \A d \in SleepTimes : d < LoginMin
  /\ \A s \in TrackSpaces : s <= StayUp

\* The alarm of an undecided report fits the offset in force, which after a
\* wake-up by the alarm is the one in FRAM; the interval that counts is that of
\* the parameter.
LowPowerInv ==
  /\ powered => alarm = Never
  /\ status \in {"Wait", "On"} => sleepTime = eSleep
  /\ wake = "rtc" => offset = fOffset
  /\ (posted \/ armed) /\ saveTime.interval > StayUp =>
       (saveTime.alarm + Lead) % eSleep = offset % eSleep
  /\ ~powered => (alarm + Lead) % eSleep = fOffset % eSleep

\* What LowPowerInv reads.
asleepAt == <<powered, alarm, status, sleepTime, eSleep, wake, offset, fOffset,
              posted, armed, saveTime>>

\* One Lead after the alarm of a report the clock has the report's offset.
LEMMA AlarmOnGrid ==
  ASSUME NEW d \in SleepTimes, now \in Time
  PROVE  (NextAlarm(d) + Lead) % d = (now % d) % d
<1>1. d \in Nat \ {0} /\ Cycle \in Nat \ {0} /\ Cycle % d = 0
  BY IntervalAssumption DEF Multiples
<1>2. now \in Int /\ Lead \in Int
  BY TimesTyped
<1>3. PICK t \in Int : t = now + d - Lead
  <2>1. now + d - Lead \in Int
    BY <1>1, <1>2
  <2> QED
    BY <2>1
<1>4. ((t % Cycle) + Lead) % d = (t + Lead) % d
  <2>1. d \in Nat \ {0} /\ Cycle \in Nat \ {0} /\ Cycle % d = 0 /\ Lead \in Int
    BY <1>1, <1>2
  <2> QED
    BY <2>1, ModModulo, Zenon
<1>5. PICK u \in Int : u = t + Lead
  BY <1>2
<1>6. u = now + d * 1
  BY <1>1, <1>2, <1>3, <1>5
<1>7. u % d = now % d
  <2>1. d \in Nat \ {0} /\ now \in Int /\ 1 \in Int
    BY <1>1, <1>2
  <2> QED
    BY <2>1, <1>6, ModShift, Zenon
<1>8. (now % d) % d = now % d
  <2>1. PICK k \in Int, r \in 0 .. (d - 1) : r = now % d /\ now = d * k + r
    BY <1>1, <1>2, DivMod
  <2>2. r % d = r
    BY <1>1
  <2> QED
    BY <2>1, <2>2
<1>9. NextAlarm(d) = t % Cycle
  BY <1>3 DEF NextAlarm, Later
<1> QED
  BY <1>4, <1>5, <1>7, <1>8, <1>9

\* The alarm goes on fitting the offset.
LEMMA LowPowerInvKept ==
  ASSUME OnGrid
  PROVE  TypeInv /\ LowPowerInv /\ [Next]_vars => LowPowerInv'
<1> SUFFICES ASSUME TypeInv, LowPowerInv, [Next]_vars PROVE LowPowerInv'
  OBVIOUS
<1> USE DEF clock, mode, line, intervals, save, answer, command, net,
           store, history
<1>1. CASE ReportInit
  <2>1. /\ sleepTime' = eSleep
        /\ UNCHANGED <<powered, alarm, eSleep, wake, offset, fOffset, posted,
                       armed, saveTime>>
    BY <1>1 DEF ReportInit
  <2> QED
    BY <2>1 DEF LowPowerInv
<1>2. CASE SameSecond
  <2>1. /\ status \in {"Wait", "On"}
        /\ UNCHANGED <<powered, alarm, sleepTime, eSleep, wake, offset, fOffset,
                       posted, armed, saveTime>>
    BY <1>2 DEF SameSecond, Reached
  <2> QED
    BY <2>1 DEF LowPowerInv
<1>3. CASE CountSecond
  <2>1. /\ status \in {"Wait", "On"}
        /\ UNCHANGED <<powered, alarm, sleepTime, eSleep, wake, offset, fOffset,
                       posted, armed, saveTime>>
    BY <1>3 DEF CountSecond, Reached
  <2> QED
    BY <2>1 DEF LowPowerInv
<1>4. CASE SendReport
  <2>1. /\ status \in {"Wait", "On"} /\ Report_IsReady /\ powered
        /\ offset' = IF wake = "rtc" THEN offset ELSE NewOffset
        /\ saveTime' = [interval |-> Interval, alarm |-> NextAlarm(Interval)]
        /\ UNCHANGED <<powered, alarm, sleepTime, eSleep, wake, fOffset>>
    BY <1>4 DEF SendReport, Reached
  <2>2. sleepTime = eSleep
    BY <2>1 DEF LowPowerInv
  <2>3. offset' = now % Interval
    BY <2>1 DEF Report_IsReady, NewOffset
  <2>4. ASSUME saveTime'.interval > StayUp
        PROVE  (saveTime'.alarm + Lead) % eSleep = offset' % eSleep
    <3>1. Interval > StayUp /\ Interval \in SleepTimes \cup TrackSpaces
      BY <2>1, <2>4, IntervalTyped DEF TypeInv
    <3>2. ~Tracking
      <4> SUFFICES ASSUME Tracking PROVE FALSE
        OBVIOUS
      <4>1. Interval \in TrackSpaces
        BY OrderTyped DEF Interval, Tracking, TypeInv, Tracks
      <4>2. Interval \in Nat /\ Interval <= StayUp /\ StayUp \in Nat
        BY <4>1, OrderTyped, DelayAssumption DEF OnGrid
      <4> QED
        BY <3>1, <4>2
    <3>3. Interval = eSleep
      BY <2>2, <3>2 DEF Interval
    <3>4. now \in Time /\ eSleep \in SleepTimes
      BY DEF TypeInv, Clocks, Spans
    <3>5. (NextAlarm(eSleep) + Lead) % eSleep = (now % eSleep) % eSleep
      BY <3>4, AlarmOnGrid
    <3> QED
      BY <2>1, <2>3, <3>3, <3>5
  <2>5. wake = "rtc" => offset' = fOffset
    BY <2>1 DEF LowPowerInv
  <2> QED
    BY <2>1, <2>2, <2>4, <2>5 DEF LowPowerInv, WakesBeforeReport
<1>5. CASE ClearAck
  <2>1. UNCHANGED asleepAt
    BY <1>5 DEF asleepAt, ClearAck
  <2> QED
    BY <2>1 DEF asleepAt, LowPowerInv
<1>6. CASE StartSaveTimer
  <2>1. /\ posted
        /\ UNCHANGED <<powered, alarm, status, sleepTime, eSleep, wake, offset,
                       fOffset, saveTime>>
    BY <1>6 DEF StartSaveTimer
  <2> QED
    BY <2>1 DEF LowPowerInv
<1>7. CASE SaveTimeout
  <2> DEFINE down == powered' = FALSE
  <2>1. /\ armed /\ powered
        /\ down => /\ saveTime.interval > StayUp
                   /\ alarm' = saveTime.alarm
                   /\ fOffset' = IF wake # "rtc" THEN offset ELSE fOffset
        /\ ~down => UNCHANGED <<alarm, fOffset>>
        /\ armed' = FALSE /\ powered' \in BOOLEAN
        /\ UNCHANGED <<status, sleepTime, eSleep, wake, offset, posted, saveTime>>
    BY <1>7, Zenon DEF SaveTimeout, LowPowerPays
  <2>2. CASE down
    <3>1. fOffset' = offset
      BY <2>1, <2>2 DEF LowPowerInv
    <3>2. (saveTime.alarm + Lead) % eSleep = offset % eSleep
      BY <2>1, <2>2 DEF LowPowerInv
    <3>3. (alarm' + Lead) % eSleep' = fOffset' % eSleep'
      BY <2>1, <2>2, <3>1, <3>2
    <3> QED
      BY <2>1, <2>2, <3>1, <3>3 DEF LowPowerInv
  <2>3. CASE ~down
    <3>1. powered' = TRUE
      BY <2>1, <2>3
    <3> QED
      BY <2>1, <2>3, <3>1 DEF LowPowerInv
  <2> QED
    BY <2>2, <2>3
<1>8. CASE Report_CmdAck
  <2>1. UNCHANGED asleepAt
    BY <1>8 DEF asleepAt, Report_CmdAck
  <2> QED
    BY <2>1 DEF asleepAt, LowPowerInv
<1>9. CASE Net_First_Login
  <2>1. ~(eSleep >= LoginMin)
    <3>1. eSleep < LoginMin /\ eSleep \in Nat /\ LoginMin \in Nat
      BY SpansTyped, DelayAssumption DEF OnGrid, TypeInv, Spans
    <3> QED
      BY <3>1
  <2>2. /\ powered' = TRUE /\ powered /\ status' = "Init"
        /\ UNCHANGED <<alarm, eSleep, wake, offset, fOffset, posted, armed, saveTime>>
    BY <1>9, <2>1, Zenon DEF Net_First_Login
  <2> QED
    BY <2>2 DEF LowPowerInv
<1>10. CASE StartTrack
  <2>1. UNCHANGED asleepAt
    BY <1>10 DEF asleepAt, StartTrack, TrackSpace
  <2> QED
    BY <2>1 DEF asleepAt, LowPowerInv
<1>11. CASE TrackCount
  <2>1. UNCHANGED asleepAt
    BY <1>11 DEF asleepAt, TrackCount
  <2> QED
    BY <2>1 DEF asleepAt, LowPowerInv
<1>12. CASE StopTrack
  <2>1. UNCHANGED asleepAt
    BY <1>12 DEF asleepAt, StopTrack, TrackSpace
  <2> QED
    BY <2>1 DEF asleepAt, LowPowerInv
<1>13. CASE ChangeInterval
  <2>1. ~Undecided /\ powered
    BY <1>13 DEF ChangeInterval, SetInterval, OnGrid
  <2>2. /\ sleepTime' = eSleep' /\ (wake' = wake \/ wake' = "key")
        /\ UNCHANGED <<powered, alarm, offset, fOffset, posted, armed, saveTime>>
    BY <1>13 DEF ChangeInterval, SetInterval, WakeAfterChange
  <2> QED
    BY <2>1, <2>2 DEF LowPowerInv, Undecided
<1>14. CASE AlarmRings
  <2>1. FALSE
    BY <1>14 DEF AlarmRings, LowPowerInv, TypeInv, Clocks, Time, Never
  <2> QED
    BY <2>1
<1>15. CASE SendPosition
  <2>1. UNCHANGED asleepAt
    BY <1>15 DEF asleepAt, SendPosition
  <2> QED
    BY <2>1 DEF asleepAt, LowPowerInv
<1>16. CASE Deliver
  <2>1. UNCHANGED asleepAt
    BY <1>16 DEF asleepAt, Deliver
  <2> QED
    BY <2>1 DEF asleepAt, LowPowerInv
<1>17. CASE Lose
  <2>1. UNCHANGED asleepAt
    BY <1>17 DEF asleepAt, Lose
  <2> QED
    BY <2>1 DEF asleepAt, LowPowerInv
<1>18. CASE LinkLost
  <2>1. UNCHANGED asleepAt
    BY <1>18 DEF asleepAt, LinkLost
  <2> QED
    BY <2>1 DEF asleepAt, LowPowerInv
<1>19. CASE Drain
  <2>1. UNCHANGED asleepAt
    BY <1>19 DEF asleepAt, Drain
  <2> QED
    BY <2>1 DEF asleepAt, LowPowerInv
<1>20. CASE StartUpgrade
  <2>1. UNCHANGED asleepAt
    BY <1>20 DEF asleepAt, StartUpgrade
  <2> QED
    BY <2>1 DEF asleepAt, LowPowerInv
<1>21. CASE RetryUpgrade
  <2>1. UNCHANGED asleepAt
    BY <1>21 DEF asleepAt, RetryUpgrade
  <2> QED
    BY <2>1 DEF asleepAt, LowPowerInv
<1>22. CASE Second
  <2>1. UNCHANGED asleepAt
    BY <1>22 DEF asleepAt, Second
  <2> QED
    BY <2>1 DEF asleepAt, LowPowerInv
<1>23. CASE AlarmWakes
  <2>1. /\ powered' = TRUE /\ alarm' = Never /\ offset' = fOffset /\ status' = "Off"
        /\ posted' = FALSE /\ armed' = FALSE /\ UNCHANGED fOffset
    BY <1>23 DEF AlarmWakes, Start
  <2> QED
    BY <2>1 DEF LowPowerInv
<1>24. CASE KeyPowerOn
  BY <1>24 DEF KeyPowerOn, OnGrid
<1>25. CASE Crash
  <2>1. /\ powered /\ powered' = TRUE /\ UNCHANGED alarm /\ wake' = "key" /\ status' = "Off"
        /\ posted' = FALSE /\ armed' = FALSE
    BY <1>25 DEF Crash, Start
  <2> QED
    BY <2>1 DEF LowPowerInv
<1>26. CASE UNCHANGED vars
  <2>1. UNCHANGED asleepAt
    BY <1>26 DEF asleepAt, vars
  <2> QED
    BY <2>1 DEF asleepAt, LowPowerInv
<1> QED
  BY <1>1, <1>2, <1>3, <1>4, <1>5, <1>6, <1>7, <1>8, <1>9,
     <1>10, <1>11, <1>12, <1>13, <1>14, <1>15, <1>16, <1>17, <1>18,
     <1>19, <1>20, <1>21, <1>22, <1>23, <1>24, <1>25, <1>26
     DEF Next, ReportTask, MainTask, Environment, Power


\* The device sleeps towards its next report: through late and foreign replies,
\* trackings stopped and set again, changed intervals, lost links and crashes
\* (Report.c:454, 490-520).
THEOREM SleepsTowardsReport ==
  ASSUME OnGrid PROVE Spec => []WakesBeforeReport
<1>1. Init => LowPowerInv
  BY DEF Init, LowPowerInv
<1>2. TypeInv /\ LowPowerInv /\ [Next]_vars => LowPowerInv'
  BY LowPowerInvKept
<1>3. LowPowerInv => WakesBeforeReport
  BY DEF LowPowerInv, WakesBeforeReport
<1> QED
  BY TypeInvariant, <1>1, <1>2, <1>3, PTL DEF Spec
==============================================================================

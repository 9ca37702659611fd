--------------------------- MODULE SysCtrl_proofs ---------------------------
(***************************************************************************)
(* Theorems of SysCtrl, for every length of a second, size of the mailbox  *)
(* and set of admitted disturbances.                                       *)
(***************************************************************************)
EXTENDS SysCtrl, SequenceTheorems, TLAPS

\* The two entries that the theorems are about are in the table.
LEMMA Entries == "io" \in Tasks /\ "delay" \in Tasks
<1>1. MyTimerTask[4] = "io" /\ MyTimerTask[5] = "delay" /\ Len(MyTimerTask) = 8
  BY DEF MyTimerTask
<1> QED
  BY <1>1 DEF Tasks

\* The table keeps its shape, and io its entry.
TableInv == enabled \in [Tasks -> BOOLEAN] /\ enabled["io"] = TRUE

\* Every step keeps the table: only delay and the tasks that leave ctr alone
\* are switched off.
LEMMA NextTableInv == TableInv /\ [Next]_vars => TableInv'
<1> SUFFICES ASSUME TableInv, [Next]_vars PROVE TableInv'
  OBVIOUS
<1> USE Entries DEF TableInv, table, sysCtrl, command
<1>1. CASE Tick
  BY <1>1 DEF Tick
<1>2. CASE \E c \in Commands : Accept(c)
  BY <1>2 DEF Accept
<1>3. CASE SetTimerTask
  BY <1>3 DEF SetTimerTask, SwitchOn
<1>4. CASE SaveRecord
  BY <1>4 DEF SaveRecord
<1>5. CASE RunTask
  BY <1>5 DEF RunTask, CtrOf
<1>6. CASE NothingDelayed
  BY <1>6 DEF NothingDelayed
<1>7. CASE StartDelayed
  BY <1>7 DEF StartDelayed
<1>8. CASE SendPosition
  BY <1>8 DEF SendPosition
<1>9. CASE SendFails
  BY <1>9 DEF SendFails
<1>10. CASE BackUpFirst
  BY <1>10 DEF BackUpFirst
<1>11. CASE Reset
  BY <1>11 DEF Reset, PowerCycle
<1>12. CASE Shutdown
  BY <1>12 DEF Shutdown, PowerCycle
<1>13. CASE Finish
  BY <1>13 DEF Finish
<1>14. CASE ClrTimerTask
  BY <1>14 DEF ClrTimerTask
<1>15. CASE UNCHANGED vars
  BY <1>15 DEF vars
<1> QED
  BY <1>1, <1>2, <1>3, <1>4, <1>5, <1>6, <1>7, <1>8,
     <1>9, <1>10, <1>11, <1>12, <1>13, <1>14, <1>15
     DEF Next, Main, Control

\* A command is on its way: the entry is on or about to be switched on.
Armed == enabled["delay"] = TRUE \/ accepting = TRUE

\* Why the last command is not stranded: one that comes while DelayTrigTimeTask
\* runs is not counted on, so what the end of a handler clears, and what
\* ClrTimerTask switches off, is the command it has just run.
CommandInv ==
  /\ TableInv
  /\ owed # "none" => owed \in Commands /\ Armed /\ Carries(owed)
  /\ handler \in {"finish", "clear"} => owed = "none"
  /\ handler = "act" /\ owed # "none" =>
       owed = running \/ (owed = "reset" /\ running = "restart")

\* Every step keeps CommandInv.
LEMMA NextCommandInv == CommandInv /\ [Next]_vars => CommandInv'
<1> SUFFICES ASSUME CommandInv, [Next]_vars PROVE CommandInv'
  OBVIOUS
<1>a. TableInv'
  BY NextTableInv DEF CommandInv
<1> USE <1>a, Entries DEF CommandInv, TableInv, Carries, Armed, table, sysCtrl, command
<1>1. CASE Tick
  BY <1>1 DEF Tick
<1>2. CASE \E c \in Commands : Accept(c)
  BY <1>2 DEF Accept, Commands
<1>3. CASE SetTimerTask
  <2>1. enabled'["delay"] = TRUE
    BY <1>3 DEF SetTimerTask, SwitchOn
  <2>2. UNCHANGED <<owed, cmd, handler, running>>
    BY <1>3 DEF SetTimerTask
  <2> QED
    BY <2>1, <2>2
<1>4. CASE SaveRecord
  BY <1>4 DEF SaveRecord
<1>5. CASE RunTask
  BY <1>5 DEF RunTask, CtrOf
<1>6. CASE NothingDelayed
  <2>1. owed = "none"
    BY <1>6 DEF NothingDelayed, Commands
  <2>2. UNCHANGED <<enabled, accepting, owed, cmd>> /\ handler' = "clear"
    BY <1>6 DEF NothingDelayed
  <2> QED
    BY <2>1, <2>2
<1>7. CASE StartDelayed
  <2>1. UNCHANGED <<enabled, accepting, owed, cmd>>
    BY <1>7 DEF StartDelayed
  <2>2. handler' = "act" /\ running' = cmd
    BY <1>7 DEF StartDelayed
  <2> QED
    BY <2>1, <2>2
<1>8. CASE SendPosition
  BY <1>8 DEF SendPosition
<1>9. CASE SendFails
  BY <1>9 DEF SendFails
<1>10. CASE BackUpFirst
  BY <1>10 DEF BackUpFirst
<1>11. CASE Reset
  BY <1>11 DEF Reset, PowerCycle
<1>12. CASE Shutdown
  BY <1>12 DEF Shutdown, PowerCycle
<1>13. CASE Finish
  BY <1>13 DEF Finish
<1>14. CASE ClrTimerTask
  BY <1>14 DEF ClrTimerTask
<1>15. CASE UNCHANGED vars
  BY <1>15 DEF vars
<1> QED
  BY <1>1, <1>2, <1>3, <1>4, <1>5, <1>6, <1>7, <1>8,
     <1>9, <1>10, <1>11, <1>12, <1>13, <1>14, <1>15
     DEF Next, Main, Control

-----------------------------------------------------------------------------
\* The inputs are scanned for ever, whatever commands arrive and however long
\* they take (SysCtrl.c:84-87).
THEOREM InputsAlwaysScanned == Spec => []IoNeverStops
<1>1. Init => TableInv
  BY Entries DEF Init, TableInv
<1>2. TableInv => IoNeverStops
  BY DEF TableInv, IoNeverStops
<1> QED
  BY <1>1, <1>2, NextTableInv, PTL DEF Spec

\* Whenever commands arrive, the last one that did not come in the middle of a
\* delayed command is not forgotten before it is carried out, however long a
\* command takes and whatever stale messages wait in the mailbox
\* (Report.c:489-622, SysCtrl.c:84-87, Taskschedule.c:129-134).
THEOREM CommandsKept == Spec => []NoCommandStranded
<1>1. Init => CommandInv
  BY Entries DEF Init, CommandInv, TableInv
<1>2. CommandInv /\ [Next]_vars => CommandInv'
  BY NextCommandInv
<1>3. CommandInv => NoCommandStranded
  BY Zenon DEF CommandInv, NoCommandStranded, Armed
<1> QED
  BY <1>1, <1>2, <1>3, PTL DEF Spec

-----------------------------------------------------------------------------
(* The type invariant                                                      *)

\* The tasks of the table.
LEMMA TasksListed ==
  Tasks = {"gps", "heartbeat", "sleep", "io", "delay", "speed", "area", "corner"}
<1>1. Len(MyTimerTask) = 8
  BY DEF MyTimerTask
<1>2. Tasks = { MyTimerTask[i] : i \in {1, 2, 3, 4, 5, 6, 7, 8} }
  <2>1. 1 .. 8 = {1, 2, 3, 4, 5, 6, 7, 8}
    OBVIOUS
  <2> QED
    BY <1>1, <2>1 DEF Tasks
<1> QED
  BY <1>2 DEF MyTimerTask

\* The scan posts entries of the table and nothing else.
LEMMA PostsTyped == DuePosts \in Seq(Tasks)
<1>1. \A t \in Tasks : Post(t) \in Seq(Tasks)
  BY DEF Post
<1>2. /\ "gps" \in Tasks /\ "heartbeat" \in Tasks /\ "sleep" \in Tasks
      /\ "io" \in Tasks /\ "delay" \in Tasks /\ "speed" \in Tasks
      /\ "area" \in Tasks /\ "corner" \in Tasks
  BY TasksListed
<1>3. \A s, r \in Seq(Tasks) : s \o r \in Seq(Tasks)
  BY ConcatProperties
<1> QED
  BY <1>1, <1>2, <1>3 DEF DuePosts

\* Every period is a number of ticks.
LEMMA PeriodsTyped == \A t \in Tasks : TaskExTimer(t) \in Nat
BY SecondAssumption DEF TaskExTimer

\* The mailbox and the words of TypeOK; the table is TableTyped.
MailTyped == box \in Seq(Tasks)

TableTyped == enabled \in [Tasks -> BOOLEAN] /\ left \in [Tasks -> Nat]

WordsTyped ==
  /\ ctr \in BOOLEAN /\ handler \in {"idle", "act", "finish", "clear"}
  /\ running \in Commands \cup {"none"} /\ cmd \in Commands \cup {"none"}
  /\ accepting \in BOOLEAN
  /\ owed \in Commands \cup {"none"} /\ dirty \in BOOLEAN

\* A mailbox that overflows keeps what came first, and what is read is gone.
LEMMA MailKept == MailTyped /\ [Next]_vars => MailTyped'
<1> SUFFICES ASSUME MailTyped, [Next]_vars PROVE MailTyped'
  OBVIOUS
<1> USE DEF MailTyped, table, sysCtrl, command
<1>1. CASE Tick
  <2> DEFINE posted == box \o DuePosts
  <2>1. posted \in Seq(Tasks)
    BY PostsTyped, ConcatProperties
  <2>2. SubSeq(posted, 1, BoxSize) \in Seq(Tasks) \/ ~(Len(posted) > BoxSize)
    <3> SUFFICES ASSUME Len(posted) > BoxSize
                 PROVE  SubSeq(posted, 1, BoxSize) \in Seq(Tasks)
      OBVIOUS
    <3>1. \A i \in 1 .. BoxSize : posted[i] \in Tasks
      <4> HIDE DEF posted
      <4> QED
        BY <2>1, BoxSizeAssumption
    <3> HIDE DEF posted
    <3> QED
      BY <3>1, BoxSizeAssumption, SubSeqProperties
  <2>3. box' = IF Len(posted) > BoxSize THEN SubSeq(posted, 1, BoxSize)
                                        ELSE posted
    BY <1>1 DEF Tick
  <2> HIDE DEF posted
  <2> QED
    BY <2>1, <2>2, <2>3
<1>2. CASE \E c \in Commands : Accept(c)
  BY <1>2 DEF Accept
<1>3. CASE SetTimerTask
  BY <1>3 DEF SetTimerTask
<1>4. CASE SaveRecord
  BY <1>4 DEF SaveRecord
<1>5. CASE RunTask
  BY <1>5, HeadTailProperties DEF RunTask
<1>6. CASE NothingDelayed
  BY <1>6, HeadTailProperties DEF NothingDelayed
<1>7. CASE StartDelayed
  BY <1>7, HeadTailProperties DEF StartDelayed
<1>8. CASE SendPosition
  BY <1>8 DEF SendPosition
<1>9. CASE SendFails
  BY <1>9 DEF SendFails
<1>10. CASE BackUpFirst
  BY <1>10 DEF BackUpFirst
<1>11. CASE Reset
  BY <1>11 DEF Reset, PowerCycle
<1>12. CASE Shutdown
  BY <1>12 DEF Shutdown, PowerCycle
<1>13. CASE Finish
  BY <1>13 DEF Finish
<1>14. CASE ClrTimerTask
  BY <1>14 DEF ClrTimerTask
<1>15. CASE UNCHANGED vars
  BY <1>15 DEF vars
<1> QED
  BY <1>1, <1>2, <1>3, <1>4, <1>5, <1>6, <1>7, <1>8,
     <1>9, <1>10, <1>11, <1>12, <1>13, <1>14, <1>15
     DEF Next, Main, Control

\* An entry is counted down only while its time has not come.
LEMMA TableKept ==
  TableTyped /\ MailTyped /\ WordsTyped /\ [Next]_vars => TableTyped'
<1> SUFFICES ASSUME TableTyped, MailTyped, WordsTyped, [Next]_vars
             PROVE  TableTyped'
  OBVIOUS
<1> USE DEF TableTyped, table, sysCtrl, command
<1>1. CASE Tick
  <2>1. /\ UNCHANGED enabled
        /\ left' = [t \in Tasks |->
                      CASE t \in Due -> TaskExTimer(t)
                        [] enabled[t] /\ t \notin Due -> left[t] - 1
                        [] OTHER -> left[t]]
    BY <1>1 DEF Tick
  <2>2. ASSUME NEW t \in Tasks, enabled[t], t \notin Due
        PROVE  left[t] - 1 \in Nat
    BY <2>2 DEF Due
  <2>3. ASSUME NEW t \in Tasks
        PROVE  (CASE t \in Due -> TaskExTimer(t)
                  [] enabled[t] /\ t \notin Due -> left[t] - 1
                  [] OTHER -> left[t]) \in Nat
    <3>1. TaskExTimer(t) \in Nat /\ left[t] \in Nat
      BY PeriodsTyped
    <3> QED
      BY <2>2, <3>1
  <2> QED
    BY <2>1, <2>3
<1>2. CASE \E c \in Commands : Accept(c)
  BY <1>2 DEF Accept
<1>3. CASE SetTimerTask
  BY <1>3, Entries, PeriodsTyped DEF SetTimerTask, SwitchOn
<1>4. CASE SaveRecord
  BY <1>4 DEF SaveRecord
<1>5. CASE RunTask
  <2>1. Head(box) \in Tasks
    BY <1>5, HeadTailProperties DEF RunTask, MailTyped
  <2>2. ctr' \in BOOLEAN
    BY <1>5 DEF RunTask, CtrOf, WordsTyped
  <2>3. /\ enabled' = [enabled EXCEPT ![Head(box)] = @ /\ ctr']
        /\ UNCHANGED left
    BY <1>5 DEF RunTask
  <2>4. (enabled[Head(box)] /\ ctr') \in BOOLEAN
    OBVIOUS
  <2> QED
    BY <2>1, <2>3, <2>4
<1>6. CASE NothingDelayed
  BY <1>6 DEF NothingDelayed
<1>7. CASE StartDelayed
  BY <1>7 DEF StartDelayed
<1>8. CASE SendPosition
  BY <1>8 DEF SendPosition
<1>9. CASE SendFails
  BY <1>9 DEF SendFails
<1>10. CASE BackUpFirst
  BY <1>10 DEF BackUpFirst
<1>11. CASE Reset
  BY <1>11 DEF Reset, PowerCycle
<1>12. CASE Shutdown
  BY <1>12 DEF Shutdown, PowerCycle
<1>13. CASE Finish
  BY <1>13 DEF Finish
<1>14. CASE ClrTimerTask
  BY <1>14, Entries DEF ClrTimerTask
<1>15. CASE UNCHANGED vars
  BY <1>15 DEF vars
<1> QED
  BY <1>1, <1>2, <1>3, <1>4, <1>5, <1>6, <1>7, <1>8,
     <1>9, <1>10, <1>11, <1>12, <1>13, <1>14, <1>15
     DEF Next, Main, Control

\* The command under way and the one that waits are commands.
LEMMA WordsKept == WordsTyped /\ [Next]_vars => WordsTyped'
<1> SUFFICES ASSUME WordsTyped, [Next]_vars PROVE WordsTyped'
  OBVIOUS
<1> USE DEF WordsTyped, table, sysCtrl, command
<1>1. CASE Tick
  BY <1>1 DEF Tick
<1>2. CASE \E c \in Commands : Accept(c)
  BY <1>2 DEF Accept
<1>3. CASE SetTimerTask
  BY <1>3 DEF SetTimerTask
<1>4. CASE SaveRecord
  BY <1>4 DEF SaveRecord
<1>5. CASE RunTask
  BY <1>5 DEF RunTask, CtrOf
<1>6. CASE NothingDelayed
  BY <1>6 DEF NothingDelayed
<1>7. CASE StartDelayed
  BY <1>7 DEF StartDelayed
<1>8. CASE SendPosition
  BY <1>8 DEF SendPosition
<1>9. CASE SendFails
  BY <1>9 DEF SendFails
<1>10. CASE BackUpFirst
  BY <1>10 DEF BackUpFirst, Commands
<1>11. CASE Reset
  BY <1>11 DEF Reset, PowerCycle
<1>12. CASE Shutdown
  BY <1>12 DEF Shutdown, PowerCycle
<1>13. CASE Finish
  BY <1>13 DEF Finish
<1>14. CASE ClrTimerTask
  BY <1>14 DEF ClrTimerTask
<1>15. CASE UNCHANGED vars
  BY <1>15 DEF vars
<1> QED
  BY <1>1, <1>2, <1>3, <1>4, <1>5, <1>6, <1>7, <1>8,
     <1>9, <1>10, <1>11, <1>12, <1>13, <1>14, <1>15
     DEF Next, Main, Control

\* Whatever arrives and however full the mailbox is: only entries of the table
\* are posted, and no entry is counted below zero (Taskschedule.c:165-186).
THEOREM TypeCorrect == Spec => []TypeOK
<1>1. Init => TableTyped /\ MailTyped /\ WordsTyped
  <2> SUFFICES ASSUME Init PROVE TableTyped /\ MailTyped /\ WordsTyped
    OBVIOUS
  <2>1. TableTyped
    BY DEF Init, TableTyped
  <2>2. MailTyped
    BY DEF Init, MailTyped
  <2>3. WordsTyped
    BY DEF Init, WordsTyped
  <2> QED
    BY <2>1, <2>2, <2>3
<1>2. TableTyped /\ MailTyped /\ WordsTyped /\ [Next]_vars =>
        TableTyped' /\ MailTyped' /\ WordsTyped'
  BY TableKept, MailKept, WordsKept
<1>3. TableTyped /\ MailTyped /\ WordsTyped => TypeOK
  BY DEF TypeOK, TableTyped, MailTyped, WordsTyped
<1> QED
  BY <1>1, <1>2, <1>3, PTL DEF Spec
=============================================================================

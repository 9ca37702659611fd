--------------------------- MODULE Params_proofs ----------------------------
(***************************************************************************)
(* Theorems of Params, for every set of parameters and values, every       *)
(* length of a command, and every set of disturbances that leaves out      *)
(* those a theorem names.                                                  *)
(***************************************************************************)
EXTENDS Params, FiniteSetTheorems, SequenceTheorems, TLAPS

\* The order of the defaults is a sequence of all parameters.
LEMMA OrderOfAll ==
  /\ Order \in Seq(Param) /\ Order # <<>>
  /\ \A p \in Param : \E i \in DOMAIN Order : Order[i] = p
<1> DEFINE n == Cardinality(Param)
           Covers(s) == \A p \in Param : \E i \in DOMAIN s : s[i] = p
<1>1. n \in Nat /\ ExistsBijection(1 .. n, Param)
  BY FS_CardinalityType, ParamAssumption
<1>2. PICK f \in [1 .. n -> Param] : Covers(f)
  BY <1>1 DEF ExistsBijection, Bijection, Surjection
<1>3. Order \in [1 .. n -> Param] /\ Covers(Order)
  BY <1>2 DEF Order
<1>4. Order \in Seq(Param)
  BY <1>1, <1>3
<1>5. Order # <<>>
  <2>1. PICK p \in Param : TRUE
    BY ParamAssumption
  <2>2. PICK i \in DOMAIN Order : Order[i] = p
    BY <2>1, <1>3
  <2>3. i \in 1 .. n
    BY <2>2, <1>3
  <2> QED
    BY <2>3, <1>1, <1>3
<1> QED
  BY <1>3, <1>4, <1>5

\* So are the writes of the defaults.
LEMMA DefaultsOfAll ==
  /\ Defaults \in Seq(Param \X Value) /\ Defaults # <<>>
  /\ \A p \in Param : \E i \in DOMAIN Defaults : Defaults[i][1] = p
<1>1. DOMAIN Defaults = DOMAIN Order
  BY DEF Defaults
<1>2. \A i \in DOMAIN Order : Defaults[i] = <<Order[i], Default>> /\ Order[i] \in Param
  BY OrderOfAll DEF Defaults
<1>3. Defaults \in Seq(Param \X Value)
  <2>1. Defaults = [i \in 1 .. Len(Order) |-> <<Order[i], Default>>]
    BY OrderOfAll DEF Defaults
  <2>2. \A i \in 1 .. Len(Order) : <<Order[i], Default>> \in Param \X Value
    BY OrderOfAll, ParamAssumption
  <2> QED
    BY <2>1, <2>2, OrderOfAll
<1>4. Defaults # <<>>
  BY <1>1, OrderOfAll
<1> QED
  BY <1>1, <1>2, <1>3, <1>4, OrderOfAll

\* A write, and what it leaves.
LEMMA WritesTyped ==
  /\ Param \X Value \subseteq Writes
  /\ \A v \in Written : Stored(v) \in Value \cup {Blank, Bad}
BY DEF Writes, Written, Stored

-----------------------------------------------------------------------------
(* The type invariant                                                      *)

\* TypeOK in parts, and what makes the head of the list exist where the code
\* uses it.
Switches == /\ file \in BOOLEAN /\ up \in BOOLEAN /\ resetting \in BOOLEAN
            /\ fresh \in BOOLEAN /\ init \in BOOLEAN

Records == /\ record \in [Param -> Value \cup {Blank, Bad}]
           /\ ram \in [Param -> Value \cup {Blank}]

Lists == /\ items \in Seq(Writes) /\ asked \in Seq(Writes)
         /\ pc \notin {"idle", "done", "error"} => items # <<>>

Words == /\ pc \in Places
         /\ kind \in {"platform", "serial", "sms", "restore", "default"}
         /\ answer \in {"none", "ok", "silent"}

Numbers == /\ try \in 1 .. 2
           /\ cmds \in 0 .. MaxCmd /\ logins \in 0 .. MaxLogin
           /\ boots \in 0 .. MaxBoot

Rereading == /\ todo \in SUBSET Reported
             /\ held \subseteq todo \X (Value \cup {Blank, Bad})

TypeInv == Switches /\ Records /\ Lists /\ Words /\ Numbers /\ Rereading

\* The parts hold in the initial state.
LEMMA InitTypeInv == Init => TypeInv
<1> SUFFICES ASSUME Init PROVE TypeInv
  OBVIOUS
<1>1. Switches
  BY Zenon DEF Init, Switches
<1>2. Records
  BY DEF Init, Records
<1>3. Lists
  BY DEF Init, Lists
<1>4. Words
  BY DEF Init, Words, Places
<1>5. Numbers
  BY BoundAssumption DEF Init, Numbers
<1>6. Rereading
  BY DEF Init, Rereading
<1> QED
  BY <1>1, <1>2, <1>3, <1>4, <1>5, <1>6 DEF TypeInv

\* The head of the list is a write.
LEMMA HeadTyped ==
  ASSUME Lists, items # <<>>
  PROVE  /\ item \in Param /\ value \in Written \cup Unfit
         /\ Tail(items) \in Seq(Writes) /\ Len(items) \in Nat \ {0}
         /\ Len(items) > 1 => Tail(items) # <<>>
<1>1. items \in Seq(Writes) /\ Len(items) \in Nat \ {0}
  BY DEF Lists
<1>2. items[1] \in Param \X (Written \cup Unfit)
  BY <1>1, ParamAssumption DEF Writes, AnyParam, Unfit
<1>3. Tail(items) \in Seq(Writes) /\ Len(Tail(items)) = Len(items) - 1
  BY <1>1
<1>4. item \in Param /\ value \in Written \cup Unfit
  BY <1>2 DEF item, value
<1>5. Len(items) > 1 => Tail(items) # <<>>
  <2>1. Tail(items) = <<>> <=> Len(Tail(items)) = 0
    BY <1>3, EmptySeq, Zenon
  <2> QED
    BY <2>1, <1>1, <1>3
<1> QED
  BY <1>1, <1>3, <1>4, <1>5

\* Refreshing keeps the copies typed.
LEMMA RefreshTyped ==
  ASSUME Records, NEW set, Refresh(set)
  PROVE  ram' \in [Param -> Value \cup {Blank}]
BY DEF Records, Refresh, Refreshed

\* What a torn write leaves is a record.
LEMMA TornTyped ==
  ASSUME Records, TornWrite
  PROVE  record' \in [Param -> Value \cup {Blank, Bad}]
<1>1. CASE UNCHANGED record
  BY <1>1 DEF Records
<1>2. CASE record' = [record EXCEPT ![item] = Bad]
  BY <1>2 DEF Records
<1> QED
  BY <1>1, <1>2 DEF TornWrite

\* So is what a write leaves.
LEMMA WriteTyped ==
  ASSUME Records, Lists, items # <<>>, value \notin Unfit, WriteRecord
  PROVE  record' \in [Param -> Value \cup {Blank, Bad}]
<1>1. Stored(value) \in Value \cup {Blank, Bad}
  BY HeadTyped, WritesTyped
<1>2. CASE record' = [record EXCEPT ![item] = Stored(value)]
  BY <1>1, <1>2 DEF Records
<1>3. CASE UNCHANGED record
  BY <1>3 DEF Records
<1>4. CASE record' = [record EXCEPT ![item] = Bad]
  BY <1>4 DEF Records
<1> QED
  BY <1>2, <1>3, <1>4 DEF WriteRecord

\* The switches stay switches.
LEMMA SwitchesKept == Switches /\ [Next]_vars => Switches'
<1> SUFFICES ASSUME Switches, [Next]_vars PROVE Switches'
  OBVIOUS
<1> USE DEF Switches, disk, work, report, counters
<1>1. CASE Write
  BY <1>1, Zenon DEF Write, WriteRecord, AfterAgain
<1>2. CASE Verify
  BY <1>2, Zenon DEF Verify
<1>3. CASE Returned
  BY <1>3, Zenon DEF Returned, Tries
<1>4. CASE Compare
  BY <1>4, Zenon DEF Compare
<1>5. CASE Update
  BY <1>5, Zenon DEF Update
<1>6. CASE NextItem
  BY <1>6, Zenon DEF NextItem
<1>7. CASE Finish
  BY <1>7, Zenon DEF Finish, Answered
<1>8. CASE FirstStart
  BY <1>8, Zenon DEF FirstStart, Begin
<1>9. CASE Started
  BY <1>9, Zenon DEF Started
<1>10. CASE ReportInit
  BY <1>10, Zenon DEF ReportInit
<1>11. CASE ReportRead
  BY <1>11, Zenon DEF ReportRead
<1>12. CASE ReportAssign
  BY <1>12, Zenon DEF ReportAssign
<1>13. CASE Command
  BY <1>13, Zenon DEF Command, Begin
<1>14. CASE Restore
  BY <1>14, Zenon DEF Restore, Begin
<1>15. CASE Login
  BY <1>15, Zenon DEF Login
<1>16. CASE Restart
  BY <1>16, Zenon DEF Restart, PowerOff
<1>17. CASE Crash
  BY <1>17, Zenon DEF Crash, PowerOff
<1>18. CASE UNCHANGED vars
  BY <1>18, Zenon DEF vars
<1>19. CASE PassOver
  BY <1>19, Zenon DEF PassOver
<1> QED
  BY <1>1, <1>2, <1>3, <1>4, <1>5, <1>6, <1>7, <1>8, <1>9,
     <1>10, <1>11, <1>12, <1>13, <1>14, <1>15, <1>16, <1>17, <1>18, <1>19
     DEF Next, MainTask, ReportTask

\* Records and copies stay typed.
LEMMA RecordsKept == Records /\ Lists /\ Rereading /\ [Next]_vars => Records'
<1> SUFFICES ASSUME Records /\ Lists /\ Rereading, [Next]_vars PROVE Records'
  OBVIOUS
<1> USE DEF disk, work, report, counters
<1>1. CASE Write
  BY <1>1, WriteTyped DEF Write, WriteRecord, AfterAgain, Records, Lists
<1>2. CASE Verify
  BY <1>2 DEF Verify, Records
<1>3. CASE Returned
  BY <1>3 DEF Returned, Tries, Records
<1>4. CASE Compare
  BY <1>4 DEF Compare, Records
<1>5. CASE Update
  BY <1>5, RefreshTyped DEF Update, Records
<1>6. CASE NextItem
  BY <1>6 DEF NextItem, Records
<1>7. CASE Finish
  BY <1>7 DEF Finish, Answered, Records
<1>8. CASE FirstStart
  BY <1>8 DEF FirstStart, Begin, Records
<1>9. CASE Started
  BY <1>9, RefreshTyped DEF Started, Records
<1>10. CASE ReportInit
  BY <1>10 DEF ReportInit, Records
<1>11. CASE ReportRead
  BY <1>11 DEF ReportRead, Records
<1>12. CASE ReportAssign
  <2>1. PICK h \in held :
          ram' = IF h[2] \in Value THEN [ram EXCEPT ![h[1]] = h[2]] ELSE ram
    BY <1>12 DEF ReportAssign
  <2> QED
    BY <1>12, <2>1 DEF ReportAssign, Records
<1>13. CASE Command
  BY <1>13 DEF Command, Begin, Records
<1>14. CASE Restore
  BY <1>14 DEF Restore, Begin, Records
<1>15. CASE Login
  BY <1>15, RefreshTyped DEF Login, Records
<1>16. CASE Restart
  BY <1>16, TornTyped DEF Restart, PowerOff, Records
<1>17. CASE Crash
  BY <1>17, TornTyped DEF Crash, PowerOff, Records
<1>18. CASE UNCHANGED vars
  BY <1>18 DEF vars, Records
<1>19. CASE PassOver
  BY <1>19 DEF PassOver, Records
<1> QED
  BY <1>1, <1>2, <1>3, <1>4, <1>5, <1>6, <1>7, <1>8, <1>9,
     <1>10, <1>11, <1>12, <1>13, <1>14, <1>15, <1>16, <1>17, <1>18, <1>19
     DEF Next, MainTask, ReportTask

\* The lists stay lists, and the command in progress has a write to go on with.
LEMMA ListsKept == Lists /\ [Next]_vars => Lists'
<1> SUFFICES ASSUME Lists, [Next]_vars PROVE Lists'
  OBVIOUS
<1> USE DEF Lists, disk, work, report, counters
<1>1. CASE Write
  BY <1>1 DEF Write, WriteRecord, AfterAgain
<1>2. CASE Verify
  BY <1>2 DEF Verify
<1>3. CASE Returned
  BY <1>3 DEF Returned, Tries
<1>4. CASE Compare
  BY <1>4 DEF Compare
<1>5. CASE Update
  BY <1>5 DEF Update
<1>6. CASE NextItem
  BY <1>6, HeadTyped DEF NextItem
<1>7. CASE Finish
  BY <1>7 DEF Finish, Answered
<1>8. CASE FirstStart
  BY <1>8, DefaultsOfAll, WritesTyped DEF FirstStart, Begin
<1>9. CASE Started
  BY <1>9 DEF Started
<1>10. CASE ReportInit
  BY <1>10 DEF ReportInit
<1>11. CASE ReportRead
  BY <1>11 DEF ReportRead
<1>12. CASE ReportAssign
  BY <1>12 DEF ReportAssign
<1>13. CASE Command
  <2>1. CASE \E k \in {"platform", "serial"} :
               \E list \in UNION { [1 .. n -> Writes] : n \in 1 .. MaxLength } :
                 Begin(k, list)
    <3>1. PICK n \in 1 .. MaxLength : \E list \in [1 .. n -> Writes] :
            items' = list /\ asked' = list
      BY <2>1 DEF Begin
    <3>2. PICK list \in [1 .. n -> Writes] : items' = list /\ asked' = list
      BY <3>1
    <3>3. list \in Seq(Writes) /\ Len(list) = n
      BY <3>2, BoundAssumption
    <3> QED
      BY <3>1, <3>2, <3>3, BoundAssumption
  <2>2. CASE \E w \in Reported \X Value : Begin("sms", <<w>>)
    <3>1. PICK w \in Reported \X Value : items' = <<w>> /\ asked' = <<w>>
      BY <2>2 DEF Begin
    <3>2. w \in Writes
      BY <3>1, WritesTyped, ParamAssumption
    <3> QED
      BY <3>1, <3>2
  <2> QED
    BY <1>13, <2>1, <2>2 DEF Command
<1>14. CASE Restore
  BY <1>14, DefaultsOfAll, WritesTyped DEF Restore, Begin
<1>15. CASE Login
  BY <1>15 DEF Login
<1>16. CASE Restart
  BY <1>16 DEF Restart, PowerOff
<1>17. CASE Crash
  BY <1>17 DEF Crash, PowerOff
<1>18. CASE UNCHANGED vars
  BY <1>18 DEF vars
<1>19. CASE PassOver
  BY <1>19 DEF PassOver
<1> QED
  BY <1>1, <1>2, <1>3, <1>4, <1>5, <1>6, <1>7, <1>8, <1>9,
     <1>10, <1>11, <1>12, <1>13, <1>14, <1>15, <1>16, <1>17, <1>18, <1>19
     DEF Next, MainTask, ReportTask

\* So do the words.
LEMMA WordsKept == Words /\ [Next]_vars => Words'
<1> SUFFICES ASSUME Words, [Next]_vars PROVE Words'
  OBVIOUS
<1> USE DEF Words, Places, disk, work, report, counters
<1>1. CASE Write
  BY <1>1 DEF Write, WriteRecord, AfterAgain
<1>2. CASE Verify
  BY <1>2 DEF Verify
<1>3. CASE Returned
  BY <1>3 DEF Returned, Tries
<1>4. CASE Compare
  BY <1>4 DEF Compare
<1>5. CASE Update
  BY <1>5 DEF Update
<1>6. CASE NextItem
  BY <1>6 DEF NextItem
<1>7. CASE Finish
  BY <1>7 DEF Finish, Answered
<1>8. CASE FirstStart
  BY <1>8 DEF FirstStart, Begin
<1>9. CASE Started
  BY <1>9 DEF Started
<1>10. CASE ReportInit
  BY <1>10 DEF ReportInit
<1>11. CASE ReportRead
  BY <1>11 DEF ReportRead
<1>12. CASE ReportAssign
  BY <1>12 DEF ReportAssign
<1>13. CASE Command
  BY <1>13 DEF Command, Begin
<1>14. CASE Restore
  BY <1>14 DEF Restore, Begin
<1>15. CASE Login
  BY <1>15 DEF Login
<1>16. CASE Restart
  BY <1>16 DEF Restart, PowerOff
<1>17. CASE Crash
  BY <1>17 DEF Crash, PowerOff
<1>18. CASE UNCHANGED vars
  BY <1>18 DEF vars
<1>19. CASE PassOver
  BY <1>19 DEF PassOver
<1> QED
  BY <1>1, <1>2, <1>3, <1>4, <1>5, <1>6, <1>7, <1>8, <1>9,
     <1>10, <1>11, <1>12, <1>13, <1>14, <1>15, <1>16, <1>17, <1>18, <1>19
     DEF Next, MainTask, ReportTask

\* The counters stay within their bounds.
LEMMA NumbersKept == Numbers /\ [Next]_vars => Numbers'
<1> SUFFICES ASSUME Numbers, [Next]_vars PROVE Numbers'
  OBVIOUS
<1> USE BoundAssumption DEF Numbers, disk, work, report, counters
<1>1. CASE Write
  BY <1>1 DEF Write, WriteRecord, AfterAgain
<1>2. CASE Verify
  BY <1>2 DEF Verify
<1>3. CASE Returned
  BY <1>3 DEF Returned, Tries
<1>4. CASE Compare
  BY <1>4 DEF Compare
<1>5. CASE Update
  BY <1>5 DEF Update
<1>6. CASE NextItem
  BY <1>6 DEF NextItem
<1>7. CASE Finish
  BY <1>7 DEF Finish, Answered
<1>8. CASE FirstStart
  BY <1>8 DEF FirstStart, Begin
<1>9. CASE Started
  BY <1>9 DEF Started
<1>10. CASE ReportInit
  BY <1>10 DEF ReportInit
<1>11. CASE ReportRead
  BY <1>11 DEF ReportRead
<1>12. CASE ReportAssign
  BY <1>12 DEF ReportAssign
<1>13. CASE Command
  BY <1>13 DEF Command, Begin
<1>14. CASE Restore
  BY <1>14 DEF Restore, Begin
<1>15. CASE Login
  BY <1>15 DEF Login
<1>16. CASE Restart
  BY <1>16 DEF Restart, PowerOff
<1>17. CASE Crash
  BY <1>17 DEF Crash, PowerOff
<1>18. CASE UNCHANGED vars
  BY <1>18 DEF vars
<1>19. CASE PassOver
  BY <1>19 DEF PassOver
<1> QED
  BY <1>1, <1>2, <1>3, <1>4, <1>5, <1>6, <1>7, <1>8, <1>9,
     <1>10, <1>11, <1>12, <1>13, <1>14, <1>15, <1>16, <1>17, <1>18, <1>19
     DEF Next, MainTask, ReportTask

\* The report task holds what it has read of a copy it has yet to refresh.
LEMMA RereadingKept == Rereading /\ Records /\ [Next]_vars => Rereading'
<1> SUFFICES ASSUME Rereading /\ Records, [Next]_vars PROVE Rereading'
  OBVIOUS
<1> USE DEF Rereading, Records, disk, work, report, counters
<1>1. CASE Write
  BY <1>1 DEF Write, WriteRecord, AfterAgain
<1>2. CASE Verify
  BY <1>2 DEF Verify
<1>3. CASE Returned
  BY <1>3 DEF Returned, Tries
<1>4. CASE Compare
  BY <1>4 DEF Compare
<1>5. CASE Update
  BY <1>5 DEF Update
<1>6. CASE NextItem
  BY <1>6 DEF NextItem
<1>7. CASE Finish
  BY <1>7 DEF Finish, Answered
<1>8. CASE FirstStart
  BY <1>8 DEF FirstStart, Begin
<1>9. CASE Started
  BY <1>9 DEF Started
<1>10. CASE ReportInit
  BY <1>10 DEF ReportInit
<1>11. CASE ReportRead
  <2>1. PICK p \in todo : held' = {<<p, record[p]>>}
    BY <1>11 DEF ReportRead
  <2>2. p \in Param
    BY <2>1, ParamAssumption
  <2> QED
    BY <1>11, <2>1, <2>2 DEF ReportRead
<1>12. CASE ReportAssign
  <2>1. held' = {} /\ (todo' = todo \/ todo' \subseteq todo)
    BY <1>12 DEF ReportAssign
  <2> QED
    BY <2>1
<1>13. CASE Command
  BY <1>13 DEF Command, Begin
<1>14. CASE Restore
  BY <1>14 DEF Restore, Begin
<1>15. CASE Login
  BY <1>15 DEF Login
<1>16. CASE Restart
  BY <1>16 DEF Restart, PowerOff
<1>17. CASE Crash
  BY <1>17 DEF Crash, PowerOff
<1>18. CASE UNCHANGED vars
  BY <1>18 DEF vars
<1>19. CASE PassOver
  BY <1>19 DEF PassOver
<1> QED
  BY <1>1, <1>2, <1>3, <1>4, <1>5, <1>6, <1>7, <1>8, <1>9,
     <1>10, <1>11, <1>12, <1>13, <1>14, <1>15, <1>16, <1>17, <1>18, <1>19
     DEF Next, MainTask, ReportTask

-----------------------------------------------------------------------------
\* The parts of the type invariant hold in every state.
LEMMA TypeInvariant == Spec => []TypeInv
<1>1. TypeInv /\ [Next]_vars => TypeInv'
  BY SwitchesKept, RecordsKept, ListsKept, WordsKept, NumbersKept, RereadingKept
     DEF TypeInv
<1> QED
  BY InitTypeInv, <1>1, PTL DEF Spec

\* All state of the parameters stays typed: in particular a command in the
\* main task and the record that the report task holds survive each other
\* (FilePram.c:367-414, Report.c:635-648).
THEOREM TypeCorrect == Spec => []TypeOK
<1>1. TypeInv => TypeOK
  BY DEF TypeInv, TypeOK, Switches, Records, Lists, Words, Numbers, Rereading
<1> QED
  BY <1>1, TypeInvariant, PTL

-----------------------------------------------------------------------------
(* The first start                                                         *)

\* No disturbance reaches the file: the first start is neither cut off nor
\* hindered, no write leaves half a record and no number is too short.
Calm == Hazards \cap {"crash_in_first_start", "fail_in_first_start",
                      "half_write", "short_value"} = {}

\* Then only values are written, and they are stored as they are.
LEMMA CalmWritten ==
  ASSUME Calm
  PROVE  Written = Value /\ \A v \in Value : Stored(v) = v
BY RecordAssumption DEF Calm, Written, Stored

\* A write takes place or, in service, does not.
LEMMA CalmWrite ==
  ASSUME Calm, Lists, items # <<>>, value \notin Unfit, WriteRecord
  PROVE  /\ item \in Param /\ value \in Value
         /\ \/ record' = [record EXCEPT ![item] = value]
            \/ up /\ UNCHANGED record
<1>1. item \in Param /\ value \in Value /\ Stored(value) = value
  BY HeadTyped, CalmWritten
<1> QED
  BY <1>1 DEF WriteRecord, Calm

\* And nothing is torn.
LEMMA CalmTorn == ASSUME Calm, TornWrite PROVE UNCHANGED record
BY DEF TornWrite, Calm

\* The device is in service only with a file, commands come only in service,
\* and the report task waits for the first login.
HasFile == /\ ~file => pc = "idle" /\ ~up
           /\ resetting => up

HasCommand == /\ ~up => kind = "default"
              /\ up /\ pc # "idle" => kind # "default"

HasLogin == ~up => ~init /\ ~fresh /\ todo = {} /\ held = {}

StartInv == HasFile /\ HasCommand /\ HasLogin

\* There is a file once the device has started.
LEMMA HasFileKept == HasFile /\ [Next]_vars => HasFile'
<1> SUFFICES ASSUME HasFile, [Next]_vars PROVE HasFile'
  OBVIOUS
<1> USE DEF HasFile, disk, work, report, counters
<1>1. CASE Write
  BY <1>1 DEF Write, WriteRecord, AfterAgain
<1>2. CASE Verify
  BY <1>2 DEF Verify
<1>3. CASE Returned
  BY <1>3 DEF Returned, Tries
<1>4. CASE Compare
  BY <1>4 DEF Compare
<1>5. CASE Update
  BY <1>5 DEF Update
<1>6. CASE NextItem
  BY <1>6 DEF NextItem
<1>7. CASE Finish
  BY <1>7 DEF Finish, Answered
<1>8. CASE FirstStart
  BY <1>8 DEF FirstStart, Begin
<1>9. CASE Started
  BY <1>9 DEF Started
<1>10. CASE ReportInit
  BY <1>10 DEF ReportInit
<1>11. CASE ReportRead
  BY <1>11 DEF ReportRead
<1>12. CASE ReportAssign
  BY <1>12 DEF ReportAssign
<1>13. CASE Command
  BY <1>13 DEF Command, Begin
<1>14. CASE Restore
  BY <1>14 DEF Restore, Begin
<1>15. CASE Login
  BY <1>15 DEF Login
<1>16. CASE Restart
  BY <1>16 DEF Restart, PowerOff
<1>17. CASE Crash
  BY <1>17 DEF Crash, PowerOff
<1>18. CASE UNCHANGED vars
  BY <1>18 DEF vars
<1>19. CASE PassOver
  BY <1>19 DEF PassOver
<1> QED
  BY <1>1, <1>2, <1>3, <1>4, <1>5, <1>6, <1>7, <1>8, <1>9,
     <1>10, <1>11, <1>12, <1>13, <1>14, <1>15, <1>16, <1>17, <1>18, <1>19
     DEF Next, MainTask, ReportTask

\* Only the first start writes before the device is in service.
LEMMA HasCommandKept == HasCommand /\ [Next]_vars => HasCommand'
<1> SUFFICES ASSUME HasCommand, [Next]_vars PROVE HasCommand'
  OBVIOUS
<1> USE DEF HasCommand, disk, work, report, counters
<1>1. CASE Write
  BY <1>1 DEF Write, WriteRecord, AfterAgain
<1>2. CASE Verify
  BY <1>2 DEF Verify
<1>3. CASE Returned
  BY <1>3 DEF Returned, Tries
<1>4. CASE Compare
  BY <1>4 DEF Compare
<1>5. CASE Update
  BY <1>5 DEF Update
<1>6. CASE NextItem
  BY <1>6 DEF NextItem
<1>7. CASE Finish
  BY <1>7 DEF Finish, Answered
<1>8. CASE FirstStart
  BY <1>8 DEF FirstStart, Begin
<1>9. CASE Started
  BY <1>9 DEF Started
<1>10. CASE ReportInit
  BY <1>10 DEF ReportInit
<1>11. CASE ReportRead
  BY <1>11 DEF ReportRead
<1>12. CASE ReportAssign
  BY <1>12 DEF ReportAssign
<1>13. CASE Command
  BY <1>13 DEF Command, Begin
<1>14. CASE Restore
  BY <1>14 DEF Restore, Begin
<1>15. CASE Login
  BY <1>15 DEF Login
<1>16. CASE Restart
  BY <1>16 DEF Restart, PowerOff
<1>17. CASE Crash
  BY <1>17 DEF Crash, PowerOff
<1>18. CASE UNCHANGED vars
  BY <1>18 DEF vars
<1>19. CASE PassOver
  BY <1>19 DEF PassOver
<1> QED
  BY <1>1, <1>2, <1>3, <1>4, <1>5, <1>6, <1>7, <1>8, <1>9,
     <1>10, <1>11, <1>12, <1>13, <1>14, <1>15, <1>16, <1>17, <1>18, <1>19
     DEF Next, MainTask, ReportTask

\* The report task does nothing before a login.
LEMMA HasLoginKept == HasLogin /\ HasFile /\ [Next]_vars => HasLogin'
<1> SUFFICES ASSUME HasLogin /\ HasFile, [Next]_vars PROVE HasLogin'
  OBVIOUS
<1> USE DEF HasLogin, HasFile, disk, work, report, counters
<1>1. CASE Write
  BY <1>1 DEF Write, WriteRecord, AfterAgain
<1>2. CASE Verify
  BY <1>2 DEF Verify
<1>3. CASE Returned
  BY <1>3 DEF Returned, Tries
<1>4. CASE Compare
  BY <1>4 DEF Compare
<1>5. CASE Update
  BY <1>5 DEF Update
<1>6. CASE NextItem
  BY <1>6 DEF NextItem
<1>7. CASE Finish
  BY <1>7 DEF Finish, Answered
<1>8. CASE FirstStart
  BY <1>8 DEF FirstStart, Begin
<1>9. CASE Started
  BY <1>9 DEF Started
<1>10. CASE ReportInit
  BY <1>10 DEF ReportInit
<1>11. CASE ReportRead
  BY <1>11 DEF ReportRead
<1>12. CASE ReportAssign
  BY <1>12 DEF ReportAssign
<1>13. CASE Command
  BY <1>13 DEF Command, Begin
<1>14. CASE Restore
  BY <1>14 DEF Restore, Begin
<1>15. CASE Login
  BY <1>15 DEF Login
<1>16. CASE Restart
  BY <1>16 DEF Restart, PowerOff
<1>17. CASE Crash
  BY <1>17 DEF Crash, PowerOff
<1>18. CASE UNCHANGED vars
  BY <1>18 DEF vars
<1>19. CASE PassOver
  BY <1>19 DEF PassOver
<1> QED
  BY <1>1, <1>2, <1>3, <1>4, <1>5, <1>6, <1>7, <1>8, <1>9,
     <1>10, <1>11, <1>12, <1>13, <1>14, <1>15, <1>16, <1>17, <1>18, <1>19
     DEF Next, MainTask, ReportTask

\* The facts on service hold from the start.
LEMMA StartInvariant == Spec => [](TypeInv /\ StartInv)
<1>1. Init => StartInv
  BY DEF Init, StartInv, HasFile, HasCommand, HasLogin
<1>2. StartInv /\ [Next]_vars => StartInv'
  BY HasFileKept, HasCommandKept, HasLoginKept DEF StartInv
<1> QED
  BY TypeInvariant, <1>1, <1>2, PTL DEF Spec

\* Before the device is in service every parameter has its value or waits for
\* its default, the list holds nothing but defaults, and they go through at the
\* first attempt.
Pending(p) == /\ pc \notin {"idle", "done"}
              /\ \E i \in DOMAIN items : items[i][1] = p

Placed == ~up => pc \in {"idle", "write", "verify", "returned", "next", "done"}

Taken == ~up /\ pc \in {"verify", "returned", "next"} => record[item] = value

Defaulted == ~up => \A i \in DOMAIN items : items[i][2] = Default

Covered == ~up /\ file => \A p \in Param : record[p] \in Value \/ Pending(p)

FirstInv == Placed /\ Defaulted /\ Taken /\ Covered /\ Readable

\* What is written before the device is in service is a default.
LEMMA DefaultInHand ==
  ASSUME Lists, Defaulted, ~up, items # <<>>
  PROVE  value \in Value /\ value \notin Unfit
<1>1. 1 \in DOMAIN items
  BY DEF Lists
<1> QED
  BY <1>1, ParamAssumption, RecordAssumption DEF Defaulted, value, Unfit

\* What waits in a list is its head or waits in its tail.
LEMMA TailPending ==
  ASSUME Lists, items # <<>>, NEW p, NEW i \in DOMAIN items, items[i][1] = p
  PROVE  p = item \/ \E j \in DOMAIN Tail(items) : Tail(items)[j][1] = p
<1>1. items \in Seq(Writes) /\ Len(items) \in Nat \ {0} /\ i \in 1 .. Len(items)
  BY DEF Lists
<1>2. CASE i = 1
  BY <1>2 DEF item
<1>3. CASE i # 1
  <2>1. i - 1 \in 1 .. Len(Tail(items)) /\ Tail(items)[i - 1] = items[i]
    BY <1>1, <1>3
  <2>2. i - 1 \in DOMAIN Tail(items)
    BY <2>1, <1>1
  <2> QED
    BY <2>1, <2>2
<1> QED
  BY <1>2, <1>3

\* The defaults take the short way through a write.
LEMMA PlacedKept ==
  ASSUME Calm
  PROVE  TypeInv /\ StartInv /\ FirstInv /\ [Next]_vars => Placed'
<1> SUFFICES ASSUME TypeInv /\ StartInv /\ FirstInv, [Next]_vars PROVE Placed'
  OBVIOUS
<1> USE DEF disk, work, report, counters, TypeInv, StartInv, FirstInv, HasFile, HasCommand, HasLogin, Placed, Taken
<1>1. CASE Write
  BY <1>1 DEF Write, WriteRecord, AfterAgain
<1>2. CASE Verify
  <2>1. CASE up
    BY <1>2, <2>1 DEF Verify
  <2>2. CASE ~up
    <3>1. items # <<>> /\ record[item] = value
      BY <1>2, <2>2 DEF Verify, Lists
    <3>2. value \in Value /\ Stored(value) = value
      BY <2>2, <3>1, DefaultInHand, CalmWritten
    <3> QED
      BY <1>2, <2>2, <3>1, <3>2 DEF Verify
  <2> QED
    BY <2>1, <2>2, Zenon
<1>3. CASE Returned
  <2>1. CASE up
    BY <1>3, <2>1 DEF Returned
  <2>2. CASE ~up
    <3>1. pc = "returned" /\ kind = "default"
      BY <1>3, <2>2 DEF Returned
    <3>2. pc' = "next" /\ up' = up
      BY <1>3, <3>1 DEF Returned
    <3> QED
      BY <3>2
  <2> QED
    BY <2>1, <2>2, Zenon
<1>4. CASE Compare
  BY <1>4 DEF Compare
<1>5. CASE Update
  BY <1>5 DEF Update
<1>6. CASE NextItem
  BY <1>6 DEF NextItem
<1>7. CASE Finish
  BY <1>7 DEF Finish, Answered
<1>8. CASE FirstStart
  BY <1>8 DEF FirstStart, Begin
<1>9. CASE Started
  BY <1>9 DEF Started
<1>10. CASE ReportInit
  BY <1>10 DEF ReportInit
<1>11. CASE ReportRead
  BY <1>11 DEF ReportRead
<1>12. CASE ReportAssign
  BY <1>12 DEF ReportAssign
<1>13. CASE Command
  BY <1>13 DEF Command, Begin
<1>14. CASE Restore
  BY <1>14 DEF Restore, Begin
<1>15. CASE Login
  BY <1>15 DEF Login
<1>16. CASE Restart
  BY <1>16 DEF Restart, PowerOff
<1>17. CASE Crash
  BY <1>17 DEF Crash, PowerOff
<1>18. CASE UNCHANGED vars
  BY <1>18 DEF vars
<1>19. CASE PassOver
  <2>1. items # <<>>
    BY <1>19 DEF PassOver, Lists
  <2>2. up
    BY <1>19, <2>1, DefaultInHand DEF PassOver
  <2> QED
    BY <1>19, <2>2 DEF PassOver
<1> QED
  BY <1>1, <1>2, <1>3, <1>4, <1>5, <1>6, <1>7, <1>8, <1>9,
     <1>10, <1>11, <1>12, <1>13, <1>14, <1>15, <1>16, <1>17, <1>18, <1>19
     DEF Next, MainTask, ReportTask

\* Before the device is in service no list but that of the defaults is begun.
LEMMA DefaultedKept ==
  TypeInv /\ StartInv /\ FirstInv /\ [Next]_vars => Defaulted'
<1> SUFFICES ASSUME TypeInv /\ StartInv /\ FirstInv, [Next]_vars PROVE Defaulted'
  OBVIOUS
<1> USE DEF disk, work, report, counters, TypeInv, StartInv, FirstInv, HasFile, HasCommand, HasLogin, Placed, Defaulted
<1>1. CASE Write
  BY <1>1 DEF Write
<1>2. CASE Verify
  BY <1>2 DEF Verify
<1>3. CASE Returned
  BY <1>3 DEF Returned, Tries
<1>4. CASE Compare
  BY <1>4 DEF Compare
<1>5. CASE Update
  BY <1>5 DEF Update
<1>6. CASE NextItem
  <2> SUFFICES ASSUME ~up, NEW i \in DOMAIN Tail(items)
               PROVE  Tail(items)[i][2] = Default
    BY <1>6 DEF NextItem
  <2>1. items \in Seq(Writes) /\ items # <<>>
    BY <1>6 DEF NextItem, Lists
  <2>2. Tail(items)[i] = items[i + 1] /\ i + 1 \in DOMAIN items
    BY <2>1
  <2> QED
    BY <2>2
<1>7. CASE Finish
  BY <1>7 DEF Finish, Answered
<1>8. CASE FirstStart
  BY <1>8, OrderOfAll DEF FirstStart, Begin, Defaults
<1>9. CASE Started
  BY <1>9 DEF Started
<1>10. CASE ReportInit
  BY <1>10 DEF ReportInit
<1>11. CASE ReportRead
  BY <1>11 DEF ReportRead
<1>12. CASE ReportAssign
  BY <1>12 DEF ReportAssign
<1>13. CASE Command
  BY <1>13 DEF Command, Begin
<1>14. CASE Restore
  BY <1>14 DEF Restore, Begin
<1>15. CASE Login
  BY <1>15 DEF Login
<1>16. CASE Restart
  BY <1>16 DEF Restart, PowerOff
<1>17. CASE Crash
  BY <1>17 DEF Crash, PowerOff
<1>18. CASE UNCHANGED vars
  BY <1>18 DEF vars
<1>19. CASE PassOver
  BY <1>19 DEF PassOver
<1> QED
  BY <1>1, <1>2, <1>3, <1>4, <1>5, <1>6, <1>7, <1>8, <1>9,
     <1>10, <1>11, <1>12, <1>13, <1>14, <1>15, <1>16, <1>17, <1>18, <1>19
     DEF Next, MainTask, ReportTask

\* What the first start has written is in the file.
LEMMA TakenKept ==
  ASSUME Calm
  PROVE  TypeInv /\ StartInv /\ FirstInv /\ [Next]_vars => Taken'
<1> SUFFICES ASSUME TypeInv /\ StartInv /\ FirstInv, [Next]_vars PROVE Taken'
  OBVIOUS
<1> USE DEF disk, work, report, counters, TypeInv, StartInv, FirstInv, HasFile, HasCommand, HasLogin, Placed, Taken, item, value
<1>1. CASE Write
  <2>1. items # <<>> /\ record \in [Param -> Value \cup {Blank, Bad}]
    BY <1>1 DEF Write, Lists, Records
  <2>2. items[1][1] \in Param
    BY <2>1, HeadTyped DEF item
  <2>3. \/ record' = [record EXCEPT ![items[1][1]] = items[1][2]]
        \/ up
    BY <1>1, <2>1, CalmWrite DEF Write, item, value
  <2> QED
    BY <1>1, <2>1, <2>2, <2>3 DEF Write
<1>2. CASE Verify
  BY <1>2 DEF Verify
<1>3. CASE Returned
  BY <1>3 DEF Returned, Tries
<1>4. CASE Compare
  BY <1>4 DEF Compare
<1>5. CASE Update
  BY <1>5 DEF Update
<1>6. CASE NextItem
  BY <1>6 DEF NextItem
<1>7. CASE Finish
  BY <1>7 DEF Finish, Answered
<1>8. CASE FirstStart
  BY <1>8 DEF FirstStart, Begin
<1>9. CASE Started
  BY <1>9 DEF Started
<1>10. CASE ReportInit
  BY <1>10 DEF ReportInit
<1>11. CASE ReportRead
  BY <1>11 DEF ReportRead
<1>12. CASE ReportAssign
  BY <1>12 DEF ReportAssign
<1>13. CASE Command
  BY <1>13 DEF Command, Begin
<1>14. CASE Restore
  BY <1>14 DEF Restore, Begin
<1>15. CASE Login
  BY <1>15 DEF Login
<1>16. CASE Restart
  BY <1>16 DEF Restart, PowerOff
<1>17. CASE Crash
  BY <1>17 DEF Crash, PowerOff
<1>18. CASE UNCHANGED vars
  BY <1>18 DEF vars
<1>19. CASE PassOver
  <2>1. items # <<>>
    BY <1>19 DEF PassOver, Lists
  <2>2. up
    BY <1>19, <2>1, DefaultInHand DEF PassOver
  <2> QED
    BY <1>19, <2>2 DEF PassOver
<1> QED
  BY <1>1, <1>2, <1>3, <1>4, <1>5, <1>6, <1>7, <1>8, <1>9,
     <1>10, <1>11, <1>12, <1>13, <1>14, <1>15, <1>16, <1>17, <1>18, <1>19
     DEF Next, MainTask, ReportTask

\* A parameter has its value or waits for it.
LEMMA CoveredKept ==
  ASSUME Calm
  PROVE  TypeInv /\ StartInv /\ FirstInv /\ [Next]_vars => Covered'
<1> SUFFICES ASSUME TypeInv /\ StartInv /\ FirstInv, [Next]_vars PROVE Covered'
  OBVIOUS
<1> USE DEF disk, work, report, counters, TypeInv, StartInv, FirstInv, HasFile, HasCommand, HasLogin, Placed, Taken, Covered, Pending, Readable
<1>1. CASE Write
  <2>1. items # <<>>
    BY <1>1 DEF Write, Lists
  <2>2. /\ item \in Param /\ value \in Value
        /\ record' = [record EXCEPT ![item] = value] \/ UNCHANGED record
    BY <1>1, <2>1, CalmWrite DEF Write
  <2>3. \A p \in Param : record[p] \in Value => record'[p] \in Value
    BY <2>2 DEF Records
  <2> QED
    BY <1>1, <2>3 DEF Write, AfterAgain
<1>2. CASE Verify
  BY <1>2 DEF Verify
<1>3. CASE Returned
  BY <1>3 DEF Returned, Tries
<1>4. CASE Compare
  BY <1>4 DEF Compare
<1>5. CASE Update
  BY <1>5 DEF Update
<1>6. CASE NextItem
  <2> SUFFICES ASSUME ~up, file, NEW p \in Param
               PROVE  record[p] \in Value \/ Pending(p)'
    BY <1>6 DEF NextItem
  <2>1. items # <<>>
    BY <1>6 DEF NextItem, Lists
  <2>2. record[item] \in Value
    BY <1>6, <2>1, DefaultInHand DEF NextItem
  <2>3. CASE p = item
    BY <2>2, <2>3
  <2>4. CASE record[p] \in Value
    BY <2>4
  <2>5. CASE p # item /\ record[p] \notin Value
    <3>1. PICK i \in DOMAIN items : items[i][1] = p
      BY <2>5
    <3>2. PICK j \in DOMAIN Tail(items) : Tail(items)[j][1] = p
      BY <2>1, <2>5, <3>1, TailPending
    <3>3. Len(items) > 1
      BY <2>1, <3>2, HeadTyped, EmptySeq
    <3> QED
      BY <1>6, <3>2, <3>3 DEF NextItem
  <2> QED
    BY <2>3, <2>4, <2>5
<1>7. CASE Finish
  BY <1>7 DEF Finish, Answered
<1>8. CASE FirstStart
  BY <1>8, DefaultsOfAll DEF FirstStart, Begin
<1>9. CASE Started
  BY <1>9 DEF Started
<1>10. CASE ReportInit
  BY <1>10 DEF ReportInit
<1>11. CASE ReportRead
  BY <1>11 DEF ReportRead
<1>12. CASE ReportAssign
  BY <1>12 DEF ReportAssign
<1>13. CASE Command
  BY <1>13 DEF Command, Begin
<1>14. CASE Restore
  BY <1>14 DEF Restore, Begin
<1>15. CASE Login
  BY <1>15 DEF Login
<1>16. CASE Restart
  <2>1. UNCHANGED record
    BY <1>16, CalmTorn DEF Restart
  <2>3. up
    BY <1>16 DEF Restart
  <2>2. \A p \in Param : record[p] \in Value
    BY <2>3
  <2> QED
    BY <2>1, <2>2
<1>17. CASE Crash
  BY <1>17, CalmTorn DEF Crash, PowerOff, Calm
<1>18. CASE UNCHANGED vars
  BY <1>18 DEF vars
<1>19. CASE PassOver
  BY <1>19 DEF PassOver
<1> QED
  BY <1>1, <1>2, <1>3, <1>4, <1>5, <1>6, <1>7, <1>8, <1>9,
     <1>10, <1>11, <1>12, <1>13, <1>14, <1>15, <1>16, <1>17, <1>18, <1>19
     DEF Next, MainTask, ReportTask

\* In service every parameter keeps a value.
LEMMA ReadableKept ==
  ASSUME Calm
  PROVE  TypeInv /\ StartInv /\ FirstInv /\ [Next]_vars => Readable'
<1> SUFFICES ASSUME TypeInv /\ StartInv /\ FirstInv, [Next]_vars PROVE Readable'
  OBVIOUS
<1> USE DEF disk, work, report, counters, TypeInv, StartInv, FirstInv, HasFile, HasCommand, HasLogin, Placed, Taken, Covered, Pending, Readable
<1>1. CASE Write
  <2>1. items # <<>>
    BY <1>1 DEF Write, Lists
  <2>2. /\ item \in Param /\ value \in Value
        /\ record' = [record EXCEPT ![item] = value] \/ UNCHANGED record
    BY <1>1, <2>1, CalmWrite DEF Write
  <2> QED
    BY <1>1, <2>2 DEF Write, Records
<1>2. CASE Verify
  BY <1>2 DEF Verify
<1>3. CASE Returned
  BY <1>3 DEF Returned, Tries
<1>4. CASE Compare
  BY <1>4 DEF Compare
<1>5. CASE Update
  BY <1>5 DEF Update
<1>6. CASE NextItem
  BY <1>6 DEF NextItem
<1>7. CASE Finish
  BY <1>7 DEF Finish, Answered
<1>8. CASE FirstStart
  BY <1>8 DEF FirstStart, Begin
<1>9. CASE Started
  BY <1>9 DEF Started
<1>10. CASE ReportInit
  BY <1>10 DEF ReportInit
<1>11. CASE ReportRead
  BY <1>11 DEF ReportRead
<1>12. CASE ReportAssign
  BY <1>12 DEF ReportAssign
<1>13. CASE Command
  BY <1>13 DEF Command, Begin
<1>14. CASE Restore
  BY <1>14 DEF Restore, Begin
<1>15. CASE Login
  BY <1>15 DEF Login
<1>16. CASE Restart
  BY <1>16 DEF Restart, PowerOff
<1>17. CASE Crash
  BY <1>17 DEF Crash, PowerOff
<1>18. CASE UNCHANGED vars
  BY <1>18 DEF vars
<1>19. CASE PassOver
  BY <1>19 DEF PassOver
<1> QED
  BY <1>1, <1>2, <1>3, <1>4, <1>5, <1>6, <1>7, <1>8, <1>9,
     <1>10, <1>11, <1>12, <1>13, <1>14, <1>15, <1>16, <1>17, <1>18, <1>19
     DEF Next, MainTask, ReportTask

\* The same for all of the first start.
LEMMA FirstInvariant == ASSUME Calm PROVE Spec => [](TypeInv /\ StartInv /\ FirstInv)
<1>1. Init => FirstInv
  BY DEF Init, FirstInv, Placed, Defaulted, Taken, Covered, Readable
<1>2. TypeInv /\ StartInv /\ FirstInv /\ [Next]_vars => FirstInv'
  BY PlacedKept, DefaultedKept, TakenKept, CoveredKept, ReadableKept DEF FirstInv
<1> QED
  BY StartInvariant, <1>1, <1>2, PTL DEF Spec

\* If the first start is neither cut off nor hindered, no write leaves half a
\* record and no command carries a number that is too short, a device in
\* service can read every parameter, whatever writes fail and whenever power
\* does (SystemInit.c:93-146, FilePram.c:367-414).
THEOREM AlwaysReadable == ASSUME Calm PROVE Spec => []Readable
<1>1. FirstInv => Readable
  BY DEF FirstInv
<1> QED
  BY <1>1, FirstInvariant, PTL

-----------------------------------------------------------------------------
(* The answer to the serial port                                           *)

\* A command that has been answered is over; one that is not has the rest of
\* its list before it.
Quiet == answer # "none" => pc = "idle"

Rest == /\ Len(items) \in Nat /\ Len(asked) \in Nat
        /\ pc = "done" => Len(items) = 0
        /\ pc # "idle" =>
             /\ Len(items) <= Len(asked)
             /\ \A i \in 1 .. Len(items) :
                  items[i] = asked[Len(asked) - Len(items) + i]

\* What the serial port has had compared is in the file, and what it has gone
\* past is too unless it was too long or the parameter comes again further on.
Compared ==
  kind = "serial" /\ pc \in {"update", "next"} =>
    value # Unknown /\ (value # Long => record[item] = value)

\* The file holds the value at place j of the list, unless it is too long or
\* followed by another that fits.
Last(j) == \A k \in 1 .. Len(asked) :
             k > j /\ asked[k][2] # Long => asked[k][1] # asked[j][1]

Held(j) == /\ asked[j][2] # Unknown
           /\ asked[j][2] # Long /\ Last(j) => record[asked[j][1]] = asked[j][2]

Settled == kind = "serial" /\ pc # "idle" =>
             \A j \in 1 .. Len(asked) - Len(items) : Held(j)

Kept == kind = "serial" /\ answer = "ok" => \A j \in 1 .. Len(asked) : Held(j)

AnswerInv == Quiet /\ Rest /\ Compared /\ Settled /\ Kept

\* The lengths of the lists are numbers.
LEMMA LengthsTyped == ASSUME Lists
                      PROVE  Len(items) \in Nat /\ Len(asked) \in Nat
BY DEF Lists

\* An empty list has no length.
LEMMA EmptyLength == Len(<<>>) = 0
OBVIOUS

\* A command that has been answered is over.
LEMMA QuietKept == TypeInv /\ StartInv /\ FirstInv /\ AnswerInv /\ [Next]_vars => Quiet'
<1> SUFFICES ASSUME TypeInv /\ StartInv /\ FirstInv /\ AnswerInv, [Next]_vars PROVE Quiet'
  OBVIOUS
<1> USE DEF disk, work, report, counters, TypeInv, StartInv, FirstInv, HasFile, HasCommand, HasLogin, AnswerInv, Quiet
<1>1. CASE Write
  BY <1>1 DEF Write, WriteRecord, AfterAgain
<1>2. CASE Verify
  BY <1>2 DEF Verify
<1>3. CASE Returned
  BY <1>3 DEF Returned, Tries
<1>4. CASE Compare
  BY <1>4 DEF Compare
<1>5. CASE Update
  BY <1>5 DEF Update
<1>6. CASE NextItem
  BY <1>6 DEF NextItem
<1>7. CASE Finish
  BY <1>7 DEF Finish, Answered
<1>8. CASE FirstStart
  BY <1>8 DEF FirstStart, Begin
<1>9. CASE Started
  BY <1>9 DEF Started
<1>10. CASE ReportInit
  BY <1>10 DEF ReportInit
<1>11. CASE ReportRead
  BY <1>11 DEF ReportRead
<1>12. CASE ReportAssign
  BY <1>12 DEF ReportAssign
<1>13. CASE Command
  BY <1>13 DEF Command, Begin
<1>14. CASE Restore
  BY <1>14 DEF Restore, Begin
<1>15. CASE Login
  BY <1>15 DEF Login
<1>16. CASE Restart
  BY <1>16 DEF Restart, PowerOff
<1>17. CASE Crash
  BY <1>17 DEF Crash, PowerOff
<1>18. CASE UNCHANGED vars
  BY <1>18 DEF vars
<1>19. CASE PassOver
  BY <1>19 DEF PassOver
<1> QED
  BY <1>1, <1>2, <1>3, <1>4, <1>5, <1>6, <1>7, <1>8, <1>9,
     <1>10, <1>11, <1>12, <1>13, <1>14, <1>15, <1>16, <1>17, <1>18, <1>19
     DEF Next, MainTask, ReportTask

\* The list in hand is the rest of what was asked.
LEMMA RestKept == TypeInv /\ StartInv /\ FirstInv /\ AnswerInv /\ [Next]_vars => Rest'
<1> SUFFICES ASSUME TypeInv /\ StartInv /\ FirstInv /\ AnswerInv, [Next]_vars PROVE Rest'
  OBVIOUS
<1> USE DEF disk, work, report, counters, TypeInv, StartInv, FirstInv, HasFile, HasCommand, HasLogin, AnswerInv, Rest
<1>1. CASE Write
  BY <1>1 DEF Write, WriteRecord, AfterAgain
<1>2. CASE Verify
  BY <1>2 DEF Verify
<1>3. CASE Returned
  BY <1>3 DEF Returned, Tries
<1>4. CASE Compare
  BY <1>4 DEF Compare
<1>5. CASE Update
  BY <1>5 DEF Update
<1>6. CASE NextItem
  <2>1. items # <<>> /\ items' = Tail(items) /\ UNCHANGED asked
    BY <1>6 DEF NextItem, Lists
  <2>2. /\ items \in Seq(Writes) /\ Len(items) \in Nat \ {0}
        /\ Len(Tail(items)) = Len(items) - 1
    BY <2>1 DEF Lists
  <2>3. \A i \in 1 .. Len(Tail(items)) : Tail(items)[i] = items[i + 1]
    BY <2>2
  <2>4. pc' = "done" => Len(items) = 1
    BY <1>6, <2>2 DEF NextItem
  <2> HIDE DEF TypeInv
  <2>5. Len(items') = Len(items) - 1
    BY <2>1, <2>2
  <2>6. \A i \in 1 .. Len(items') :
          items'[i] = asked[Len(asked) - Len(items') + i]
    <3> SUFFICES ASSUME NEW i \in 1 .. Len(items')
                 PROVE  items'[i] = asked[Len(asked) - Len(items') + i]
      OBVIOUS
    <3>1. items'[i] = items[i + 1] /\ i + 1 \in 1 .. Len(items)
      BY <2>1, <2>2, <2>3, <2>5
    <3>2. items[i + 1] = asked[Len(asked) - Len(items) + (i + 1)]
      BY <1>6, <3>1 DEF NextItem
    <3>3. Len(asked) - Len(items) + (i + 1) = Len(asked) - Len(items') + i
      BY <2>2, <2>5
    <3> QED
      BY <3>1, <3>2, <3>3
  <2>7. Len(items') <= Len(asked) /\ Len(items') \in Nat
    BY <1>6, <2>2, <2>5 DEF NextItem
  <2> QED
    BY <2>1, <2>2, <2>4, <2>5, <2>6, <2>7
<1>7. CASE Finish
  <2>1. items' = <<>> /\ pc' = "idle" /\ UNCHANGED asked
    BY <1>7 DEF Finish
  <2> QED
    BY <2>1, LengthsTyped, EmptyLength
<1>8. CASE FirstStart
  <2>1. items' = asked'
    BY <1>8 DEF FirstStart, Begin
  <2>2. Lists' /\ pc' = "write"
    BY <1>8, ListsKept DEF FirstStart, Begin, Next, MainTask
  <2>3. Len(items)' \in Nat
    BY <2>2 DEF Lists
  <2> QED
    BY <2>1, <2>2, <2>3
<1>9. CASE Started
  <2>1. items' = <<>> /\ pc' = "idle" /\ UNCHANGED asked
    BY <1>9 DEF Started
  <2> QED
    BY <2>1, LengthsTyped, EmptyLength
<1>10. CASE ReportInit
  BY <1>10 DEF ReportInit
<1>11. CASE ReportRead
  BY <1>11 DEF ReportRead
<1>12. CASE ReportAssign
  BY <1>12 DEF ReportAssign
<1>13. CASE Command
  <2>1. items' = asked'
    BY <1>13 DEF Command, Begin
  <2>2. Lists' /\ pc' = "write"
    BY <1>13, ListsKept DEF Command, Begin, Next, MainTask
  <2>3. Len(items)' \in Nat
    BY <2>2 DEF Lists
  <2> QED
    BY <2>1, <2>2, <2>3
<1>14. CASE Restore
  <2>1. items' = asked'
    BY <1>14 DEF Restore, Begin
  <2>2. Lists' /\ pc' = "write"
    BY <1>14, ListsKept DEF Restore, Begin, Next, MainTask
  <2>3. Len(items)' \in Nat
    BY <2>2 DEF Lists
  <2> QED
    BY <2>1, <2>2, <2>3
<1>15. CASE Login
  BY <1>15 DEF Login
<1>16. CASE Restart
  <2>1. items' = <<>> /\ asked' = <<>> /\ pc' = "idle"
    BY <1>16 DEF Restart, PowerOff
  <2> QED
    BY <2>1, EmptyLength
<1>17. CASE Crash
  <2>1. items' = <<>> /\ asked' = <<>> /\ pc' = "idle"
    BY <1>17 DEF Crash, PowerOff
  <2> QED
    BY <2>1, EmptyLength
<1>18. CASE UNCHANGED vars
  BY <1>18 DEF vars
<1>19. CASE PassOver
  BY <1>19 DEF PassOver
<1> QED
  BY <1>1, <1>2, <1>3, <1>4, <1>5, <1>6, <1>7, <1>8, <1>9,
     <1>10, <1>11, <1>12, <1>13, <1>14, <1>15, <1>16, <1>17, <1>18, <1>19
     DEF Next, MainTask, ReportTask

\* What has been compared is in the file: the record could be read.
LEMMA ComparedKept ==
  ASSUME Calm
  PROVE  TypeInv /\ StartInv /\ FirstInv /\ AnswerInv /\ [Next]_vars => Compared'
<1> SUFFICES ASSUME TypeInv /\ StartInv /\ FirstInv /\ AnswerInv, [Next]_vars PROVE Compared'
  OBVIOUS
<1> USE DEF disk, work, report, counters, TypeInv, StartInv, FirstInv, HasFile, HasCommand, HasLogin, AnswerInv, Compared, item, value
<1>1. CASE Write
  BY <1>1 DEF Write, WriteRecord, AfterAgain
<1>2. CASE Verify
  BY <1>2 DEF Verify
<1>3. CASE Returned
  BY <1>3 DEF Returned, Tries
<1>4. CASE Compare
  <2>1. CASE kind = "serial"
    <3>1. up /\ items # <<>>
      BY <1>4, <2>1 DEF Compare, Lists
    <3>2. record[item] \in Value
      BY <3>1, HeadTyped DEF Readable
    <3> QED
      BY <1>4, <3>2, RecordAssumption DEF Compare, Equal
  <2>2. CASE kind # "serial"
    BY <1>4, <2>2 DEF Compare
  <2> QED
    BY <2>1, <2>2
<1>5. CASE Update
  BY <1>5 DEF Update
<1>6. CASE NextItem
  BY <1>6 DEF NextItem
<1>7. CASE Finish
  BY <1>7 DEF Finish, Answered
<1>8. CASE FirstStart
  BY <1>8 DEF FirstStart, Begin
<1>9. CASE Started
  BY <1>9 DEF Started
<1>10. CASE ReportInit
  BY <1>10 DEF ReportInit
<1>11. CASE ReportRead
  BY <1>11 DEF ReportRead
<1>12. CASE ReportAssign
  BY <1>12 DEF ReportAssign
<1>13. CASE Command
  BY <1>13 DEF Command, Begin
<1>14. CASE Restore
  BY <1>14 DEF Restore, Begin
<1>15. CASE Login
  BY <1>15 DEF Login
<1>16. CASE Restart
  BY <1>16 DEF Restart, PowerOff
<1>17. CASE Crash
  BY <1>17 DEF Crash, PowerOff
<1>18. CASE UNCHANGED vars
  BY <1>18 DEF vars
<1>19. CASE PassOver
  BY <1>19, RecordAssumption DEF PassOver, Unfit
<1> QED
  BY <1>1, <1>2, <1>3, <1>4, <1>5, <1>6, <1>7, <1>8, <1>9,
     <1>10, <1>11, <1>12, <1>13, <1>14, <1>15, <1>16, <1>17, <1>18, <1>19
     DEF Next, MainTask, ReportTask

\* What the command has gone past stays in the file.
LEMMA SettledKept ==
  ASSUME Calm
  PROVE  TypeInv /\ StartInv /\ FirstInv /\ AnswerInv /\ [Next]_vars => Settled'
<1> SUFFICES ASSUME TypeInv /\ StartInv /\ FirstInv /\ AnswerInv, [Next]_vars PROVE Settled'
  OBVIOUS
<1> USE DEF disk, work, report, counters, TypeInv, StartInv, FirstInv, HasFile, HasCommand, HasLogin, AnswerInv, Rest, Compared, Settled, Held, Last
<1>1. CASE Write
  <2> SUFFICES ASSUME kind = "serial", NEW j \in 1 .. Len(asked) - Len(items),
                      asked[j][2] # Long, Last(j)
               PROVE  record'[asked[j][1]] = asked[j][2]
    BY <1>1 DEF Write
  <2>1. items # <<>>
    BY <1>1 DEF Write, Lists
  <2>2. Len(items) \in Nat \ {0} /\ 1 \in 1 .. Len(items)
    BY <2>1, HeadTyped
  <2>3. items[1] = asked[Len(asked) - Len(items) + 1]
    BY <1>1, <2>2 DEF Write
  <2>4. /\ Len(asked) - Len(items) + 1 \in 1 .. Len(asked)
        /\ Len(asked) - Len(items) + 1 > j
    BY <1>1, <2>2 DEF Write
  <2>5. item # asked[j][1]
    <3>1. items[1][2] # Long
      BY <1>1 DEF Write, Unfit, value
    <3> QED
      BY <2>3, <2>4, <3>1 DEF item
  <2>6. record[asked[j][1]] = asked[j][2]
    BY <1>1 DEF Write
  <2>7. record' = [record EXCEPT ![item] = value] \/ UNCHANGED record
    BY <1>1, <2>1, CalmWrite DEF Write
  <2>8. asked[j][1] \in Param
    <3>1. asked[j] \in Writes
      BY <2>2 DEF Lists
    <3> QED
      BY <3>1, ParamAssumption DEF Writes, AnyParam
  <2> QED
    BY <2>5, <2>6, <2>7, <2>8 DEF Records
<1>2. CASE Verify
  BY <1>2 DEF Verify
<1>3. CASE Returned
  BY <1>3 DEF Returned, Tries
<1>4. CASE Compare
  BY <1>4 DEF Compare
<1>5. CASE Update
  BY <1>5 DEF Update
<1>6. CASE NextItem
  <2> SUFFICES ASSUME kind = "serial", NEW j \in 1 .. Len(asked) - Len(items)'
               PROVE  Held(j)
    BY <1>6 DEF NextItem
  <2>1. items # <<>>
    BY <1>6 DEF NextItem, Lists
  <2>2. Len(items) \in Nat \ {0} /\ 1 \in 1 .. Len(items)
    BY <2>1, HeadTyped
  <2>3. Len(items') = Len(items) - 1
    BY <1>6, <2>1 DEF NextItem, Lists
  <2>4. CASE j = Len(asked) - Len(items) + 1
    <3>1. items[1] = asked[j]
      BY <1>6, <2>2, <2>4 DEF NextItem
    <3> QED
      BY <1>6, <3>1 DEF NextItem, item, value
  <2>5. CASE j # Len(asked) - Len(items) + 1
    <3>1. j \in 1 .. Len(asked) - Len(items)
      BY <2>2, <2>3, <2>5
    <3> QED
      BY <1>6, <3>1 DEF NextItem
  <2> QED
    BY <2>4, <2>5
<1>7. CASE Finish
  BY <1>7 DEF Finish, Answered
<1>8. CASE FirstStart
  <2>1. items' = asked'
    BY <1>8 DEF FirstStart, Begin
  <2>2. Lists'
    BY <1>8, ListsKept DEF Next, MainTask
  <2>3. Len(asked)' - Len(items)' = 0
    BY <2>1, <2>2 DEF Lists
  <2> QED
    BY <2>3
<1>9. CASE Started
  BY <1>9 DEF Started
<1>10. CASE ReportInit
  BY <1>10 DEF ReportInit
<1>11. CASE ReportRead
  BY <1>11 DEF ReportRead
<1>12. CASE ReportAssign
  BY <1>12 DEF ReportAssign
<1>13. CASE Command
  <2>1. items' = asked'
    BY <1>13 DEF Command, Begin
  <2>2. Lists'
    BY <1>13, ListsKept DEF Next, MainTask
  <2>3. Len(asked)' - Len(items)' = 0
    BY <2>1, <2>2 DEF Lists
  <2> QED
    BY <2>3
<1>14. CASE Restore
  <2>1. items' = asked'
    BY <1>14 DEF Restore, Begin
  <2>2. Lists'
    BY <1>14, ListsKept DEF Next, MainTask
  <2>3. Len(asked)' - Len(items)' = 0
    BY <2>1, <2>2 DEF Lists
  <2> QED
    BY <2>3
<1>15. CASE Login
  BY <1>15 DEF Login
<1>16. CASE Restart
  BY <1>16 DEF Restart, PowerOff
<1>17. CASE Crash
  BY <1>17 DEF Crash, PowerOff
<1>18. CASE UNCHANGED vars
  BY <1>18 DEF vars
<1>19. CASE PassOver
  BY <1>19 DEF PassOver
<1> QED
  BY <1>1, <1>2, <1>3, <1>4, <1>5, <1>6, <1>7, <1>8, <1>9,
     <1>10, <1>11, <1>12, <1>13, <1>14, <1>15, <1>16, <1>17, <1>18, <1>19
     DEF Next, MainTask, ReportTask

\* What was answered stays in the file until the next command.
LEMMA AnswerKept ==
  ASSUME Calm
  PROVE  TypeInv /\ StartInv /\ FirstInv /\ AnswerInv /\ [Next]_vars => Kept'
<1> SUFFICES ASSUME TypeInv /\ StartInv /\ FirstInv /\ AnswerInv, [Next]_vars PROVE Kept'
  OBVIOUS
<1> USE DEF disk, work, report, counters, TypeInv, StartInv, FirstInv, HasFile, HasCommand, HasLogin, AnswerInv, Quiet, Rest, Settled, Kept, Held, Last
<1>1. CASE Write
  BY <1>1 DEF Write, WriteRecord, AfterAgain
<1>2. CASE Verify
  BY <1>2 DEF Verify
<1>3. CASE Returned
  BY <1>3 DEF Returned, Tries
<1>4. CASE Compare
  BY <1>4 DEF Compare
<1>5. CASE Update
  BY <1>5 DEF Update
<1>6. CASE NextItem
  BY <1>6 DEF NextItem
<1>7. CASE Finish
  <2> SUFFICES ASSUME kind = "serial", answer' = "ok",
                      NEW j \in 1 .. Len(asked)
               PROVE  Held(j)
    BY <1>7 DEF Finish
  <2>1. pc = "done"
    BY <1>7 DEF Finish, Answered
  <2>2. j \in 1 .. Len(asked) - Len(items)
    BY <2>1
  <2> QED
    BY <2>1, <2>2
<1>8. CASE FirstStart
  BY <1>8 DEF FirstStart, Begin
<1>9. CASE Started
  BY <1>9 DEF Started
<1>10. CASE ReportInit
  BY <1>10 DEF ReportInit
<1>11. CASE ReportRead
  BY <1>11 DEF ReportRead
<1>12. CASE ReportAssign
  BY <1>12 DEF ReportAssign
<1>13. CASE Command
  BY <1>13 DEF Command, Begin
<1>14. CASE Restore
  BY <1>14 DEF Restore, Begin
<1>15. CASE Login
  BY <1>15 DEF Login
<1>16. CASE Restart
  BY <1>16 DEF Restart, PowerOff
<1>17. CASE Crash
  BY <1>17 DEF Crash, PowerOff
<1>18. CASE UNCHANGED vars
  BY <1>18 DEF vars
<1>19. CASE PassOver
  BY <1>19 DEF PassOver
<1> QED
  BY <1>1, <1>2, <1>3, <1>4, <1>5, <1>6, <1>7, <1>8, <1>9,
     <1>10, <1>11, <1>12, <1>13, <1>14, <1>15, <1>16, <1>17, <1>18, <1>19
     DEF Next, MainTask, ReportTask

\* The same for every command of the serial port.
LEMMA AnswerInvariant ==
  ASSUME Calm PROVE Spec => [](TypeInv /\ StartInv /\ FirstInv /\ AnswerInv)
<1>1. Init => AnswerInv
  BY EmptyLength DEF Init, AnswerInv, Quiet, Rest, Compared, Settled, Kept
<1>2. TypeInv /\ StartInv /\ FirstInv /\ AnswerInv /\ [Next]_vars => AnswerInv'
  BY QuietKept, RestKept, ComparedKept, SettledKept, AnswerKept DEF AnswerInv
<1> QED
  BY FirstInvariant, <1>1, <1>2, PTL DEF Spec

\* In the same circumstances the file holds every value of an answered serial
\* command that fits its field, whatever the list repeats and passes over, until
\* the next command: the comparison reads back each parameter of the list before
\* the next one is written, and an unknown identifier ends the list without an
\* answer (E2ParamApp.c:155, 179-218, ComParam.c:53-55).
THEOREM AnswersTrue == ASSUME Calm PROVE Spec => []AnswerTrue
<1>1. TypeInv /\ AnswerInv => AnswerTrue
  <2> SUFFICES ASSUME TypeInv, AnswerInv, answer = "ok", kind = "serial",
                      NEW w \in Final(asked)
               PROVE  w[2] # Unknown /\ record[w[1]] = w[2]
    BY DEF AnswerTrue
  <2>1. DOMAIN asked = 1 .. Len(asked)
    BY DEF TypeInv, Lists
  <2>2. PICK j \in Fitting(asked) :
          /\ w = asked[j]
          /\ \A k \in Fitting(asked) : k > j => asked[k][1] # asked[j][1]
    BY DEF Final
  <2>3. j \in 1 .. Len(asked) /\ asked[j][2] # Long /\ Last(j)
    BY <2>1, <2>2 DEF Fitting, Last
  <2> QED
    BY <2>2, <2>3 DEF AnswerInv, Kept, Held
<1> QED
  BY <1>1, AnswerInvariant, PTL

-----------------------------------------------------------------------------
(* The copies in RAM                                                       *)

\* The report task holds what is in the file, because nobody writes while it
\* holds anything.
HeldTrue == \A h \in held : h[2] = record[h[1]]

\* The copies follow the file but for a restart that is due, for what the
\* report task has yet to refresh, and for the parameter that is being written.
Excused == resetting \/ (kind = "restore" /\ pc # "idle")

Due(p) == p \notin Reported \/ fresh \/ (todo # {} /\ p \notin todo)

BeingWritten(p) ==
  /\ p = item /\ record[p] = value
  /\ pc \in {"write", "verify", "rewrite", "returned", "returned0", "compare",
             "update"}

Agree == up /\ ~Excused =>
           \A p \in Param : Due(p) => ram[p] = record[p] \/ BeingWritten(p)

RamInv == HeldTrue /\ Agree

\* What the report task holds stays true.
LEMMA HeldKept ==
  ASSUME "stale_update" \notin Hazards
  PROVE  TypeInv /\ StartInv /\ FirstInv /\ RamInv /\ [Next]_vars => HeldTrue'
<1> SUFFICES ASSUME TypeInv /\ StartInv /\ FirstInv /\ RamInv, [Next]_vars PROVE HeldTrue'
  OBVIOUS
<1> USE DEF disk, work, report, counters, TypeInv, StartInv, FirstInv, HasFile, HasCommand, HasLogin, RamInv, HeldTrue
<1>1. CASE Write
  <2>1. held = {} /\ UNCHANGED held
    BY <1>1 DEF Write
  <2> QED
    BY <2>1
<1>2. CASE Verify
  BY <1>2 DEF Verify
<1>3. CASE Returned
  BY <1>3 DEF Returned, Tries
<1>4. CASE Compare
  BY <1>4 DEF Compare
<1>5. CASE Update
  BY <1>5 DEF Update
<1>6. CASE NextItem
  BY <1>6 DEF NextItem
<1>7. CASE Finish
  BY <1>7 DEF Finish, Answered
<1>8. CASE FirstStart
  BY <1>8 DEF FirstStart, Begin
<1>9. CASE Started
  BY <1>9 DEF Started
<1>10. CASE ReportInit
  BY <1>10 DEF ReportInit
<1>11. CASE ReportRead
  <2>1. PICK p \in todo : held' = {<<p, record[p]>>}
    BY <1>11 DEF ReportRead
  <2> QED
    BY <1>11, <2>1 DEF ReportRead
<1>12. CASE ReportAssign
  BY <1>12 DEF ReportAssign
<1>13. CASE Command
  BY <1>13 DEF Command, Begin
<1>14. CASE Restore
  BY <1>14 DEF Restore, Begin
<1>15. CASE Login
  BY <1>15 DEF Login
<1>16. CASE Restart
  BY <1>16 DEF Restart, PowerOff
<1>17. CASE Crash
  BY <1>17 DEF Crash, PowerOff
<1>18. CASE UNCHANGED vars
  BY <1>18 DEF vars
<1>19. CASE PassOver
  BY <1>19 DEF PassOver
<1> QED
  BY <1>1, <1>2, <1>3, <1>4, <1>5, <1>6, <1>7, <1>8, <1>9,
     <1>10, <1>11, <1>12, <1>13, <1>14, <1>15, <1>16, <1>17, <1>18, <1>19
     DEF Next, MainTask, ReportTask

\* The copies go on following the file.
LEMMA AgreeKept ==
  ASSUME Calm
  PROVE  TypeInv /\ StartInv /\ FirstInv /\ RamInv /\ [Next]_vars => Agree'
<1> SUFFICES ASSUME TypeInv /\ StartInv /\ FirstInv /\ RamInv, [Next]_vars PROVE Agree'
  OBVIOUS
<1> USE DEF disk, work, report, counters, TypeInv, StartInv, FirstInv, HasFile, HasCommand, HasLogin, RamInv
<1>1. CASE Write
  <2> SUFFICES ASSUME up', ~Excused', NEW p \in Param, Due(p)'
               PROVE  ram'[p] = record'[p] \/ BeingWritten(p)'
    BY DEF Agree
  <2>1. items # <<>> /\ up /\ ~Excused /\ Due(p)
    BY <1>1 DEF Write, Lists, Due, Excused, AfterAgain
  <2>2. /\ item \in Param
        /\ record' = [record EXCEPT ![item] = value] \/ UNCHANGED record
    BY <1>1, <2>1, CalmWrite DEF Write
  <2>3. ram[p] = record[p] \/ BeingWritten(p)
    BY <2>1 DEF Agree
  <2>4. CASE p = item /\ record' = [record EXCEPT ![item] = value]
    <3>1. record'[p] = value
      BY <2>2, <2>4 DEF Records
    <3> QED
      BY <1>1, <2>4, <3>1 DEF Write, AfterAgain, BeingWritten, item, value
  <2>5. CASE p # item \/ UNCHANGED record
    <3>1. record'[p] = record[p]
      BY <2>2, <2>5 DEF Records
    <3> QED
      BY <1>1, <2>3, <3>1 DEF Write, AfterAgain, BeingWritten, item, value
  <2> QED
    BY <2>2, <2>4, <2>5
<1>2. CASE Verify
  <2> SUFFICES ASSUME up', ~Excused', NEW p \in Param, Due(p)'
               PROVE  ram'[p] = record'[p] \/ BeingWritten(p)'
    BY DEF Agree
  <2>1. /\ up /\ ~Excused /\ Due(p)
        /\ UNCHANGED <<ram, record, items, kind>>
    BY <1>2 DEF Verify, Due, Excused
  <2> QED
    BY <1>2, <2>1 DEF Verify, Agree, BeingWritten, item, value
<1>3. CASE Returned
  <2> SUFFICES ASSUME up', ~Excused', NEW p \in Param, Due(p)'
               PROVE  ram'[p] = record'[p] \/ BeingWritten(p)'
    BY DEF Agree
  <2>1. /\ up /\ ~Excused /\ Due(p)
        /\ UNCHANGED <<ram, record, items, kind>>
    BY <1>3 DEF Returned, Due, Excused
  <2>2. kind \in {"platform", "serial", "sms"}
    BY <1>3, <2>1 DEF Returned, Words, Excused
  <2>3. pc' \in {"write", "compare", "update"}
    BY <1>3, <2>2 DEF Returned
  <2> QED
    BY <1>3, <2>1, <2>3 DEF Returned, Agree, BeingWritten, item, value
<1>4. CASE Compare
  <2> SUFFICES ASSUME up', ~Excused', NEW p \in Param, Due(p)'
               PROVE  ram'[p] = record'[p] \/ BeingWritten(p)'
    BY DEF Agree
  <2>1. /\ up /\ ~Excused /\ Due(p) /\ items # <<>>
        /\ UNCHANGED <<ram, record, items>>
    BY <1>4 DEF Compare, Due, Excused, Lists
  <2>2. ram[p] = record[p] \/ BeingWritten(p)
    BY <2>1 DEF Agree
  <2>3. record[p] \in Value
    BY <2>1 DEF Readable
  <2> QED
    BY <1>4, <2>1, <2>2, <2>3 DEF Compare, Equal, BeingWritten, item, value
<1>5. CASE Update
  <2> SUFFICES ASSUME up', ~Excused', NEW p \in Param, Due(p)'
               PROVE  ram'[p] = record'[p] \/ BeingWritten(p)'
    BY DEF Agree
  <2>1. /\ up /\ ~Excused /\ Due(p) /\ items # <<>>
        /\ UNCHANGED <<record, items>>
    BY <1>5 DEF Update, Due, Excused, Lists
  <2>2. ram[p] = record[p] \/ BeingWritten(p)
    BY <2>1 DEF Agree
  <2>3. record[p] \in Value
    BY <2>1 DEF Readable
  <2>4. ram'[p] = record[p] \/ (ram'[p] = ram[p] /\ p # item)
    BY <1>5, <2>3 DEF Update, Refresh, Refreshed
  <2> QED
    BY <2>1, <2>2, <2>4 DEF BeingWritten
<1>6. CASE NextItem
  <2> SUFFICES ASSUME up', ~Excused', NEW p \in Param, Due(p)'
               PROVE  ram'[p] = record'[p] \/ BeingWritten(p)'
    BY DEF Agree
  <2>1. up /\ ~Excused /\ Due(p) /\ UNCHANGED <<record, ram>>
    BY <1>6 DEF NextItem, Due, Excused
  <2> QED
    BY <1>6, <2>1 DEF NextItem, Agree, BeingWritten
<1>7. CASE Finish
  <2> SUFFICES ASSUME up', ~Excused', NEW p \in Param, Due(p)'
               PROVE  ram'[p] = record'[p] \/ BeingWritten(p)'
    BY DEF Agree
  <2>1. up /\ ~Excused /\ Due(p) /\ UNCHANGED <<record, ram>>
    BY <1>7 DEF Finish, Due, Excused
  <2> QED
    BY <1>7, <2>1 DEF Finish, Agree, BeingWritten
<1>8. CASE FirstStart
  BY <1>8 DEF FirstStart, Begin, Agree, Excused, Due, BeingWritten
<1>9. CASE Started
  <2> SUFFICES ASSUME up', ~Excused', NEW p \in Param, Due(p)'
               PROVE  ram'[p] = record'[p] \/ BeingWritten(p)'
    BY DEF Agree
  <2>1. p \notin Reported
    BY <1>9 DEF Started, Due
  <2>2. record[p] \in Value
    BY <1>9 DEF Started, Covered, Pending
  <2> QED
    BY <1>9, <2>1, <2>2 DEF Started, Refresh, Refreshed
<1>10. CASE ReportInit
  <2> SUFFICES ASSUME up', ~Excused', NEW p \in Param, Due(p)'
               PROVE  ram'[p] = record'[p] \/ BeingWritten(p)'
    BY DEF Agree
  <2>1. /\ up /\ ~Excused /\ Due(p)
        /\ UNCHANGED <<ram, record, items, pc>>
    BY <1>10 DEF ReportInit, Due, Excused
  <2> QED
    BY <1>10, <2>1 DEF ReportInit, Agree, BeingWritten, item, value
<1>11. CASE ReportRead
  <2> SUFFICES ASSUME up', ~Excused', NEW p \in Param, Due(p)'
               PROVE  ram'[p] = record'[p] \/ BeingWritten(p)'
    BY DEF Agree
  <2>1. /\ up /\ ~Excused /\ Due(p)
        /\ UNCHANGED <<ram, record, items, pc>>
    BY <1>11 DEF ReportRead, Due, Excused
  <2> QED
    BY <1>11, <2>1 DEF ReportRead, Agree, BeingWritten, item, value
<1>12. CASE ReportAssign
  <2> SUFFICES ASSUME up', ~Excused', NEW p \in Param, Due(p)'
               PROVE  ram'[p] = record'[p] \/ BeingWritten(p)'
    BY DEF Agree
  <2>1. PICK h \in held :
          /\ ram' = IF h[2] \in Value THEN [ram EXCEPT ![h[1]] = h[2]] ELSE ram
          /\ todo' = todo \ {h[1]}
    BY <1>12 DEF ReportAssign
  <2>2. h[1] \in todo /\ h[1] \in Param /\ h[2] = record[h[1]]
    BY <2>1, ParamAssumption DEF Rereading, HeldTrue
  <2>3. up /\ ~Excused /\ UNCHANGED <<record, items, pc>>
    BY <1>12 DEF ReportAssign, Excused
  <2>4. ram' = [ram EXCEPT ![h[1]] = record[h[1]]]
    BY <2>1, <2>2, <2>3 DEF Readable
  <2>5. CASE p = h[1]
    BY <2>2, <2>3, <2>4, <2>5 DEF Records
  <2>6. CASE p # h[1]
    <3>1. Due(p)
      BY <1>12, <2>1, <2>2, <2>6 DEF ReportAssign, Due
    <3>2. ram'[p] = ram[p]
      BY <2>2, <2>4, <2>6 DEF Records
    <3> QED
      BY <2>3, <3>1, <3>2 DEF Agree, BeingWritten, item, value
  <2> QED
    BY <2>5, <2>6
<1>13. CASE Command
  <2> SUFFICES ASSUME up', ~Excused', NEW p \in Param, Due(p)'
               PROVE  ram'[p] = record'[p] \/ BeingWritten(p)'
    BY DEF Agree
  <2>1. /\ up /\ pc = "idle" /\ ~resetting /\ Due(p)
        /\ UNCHANGED <<record, ram>>
    BY <1>13 DEF Command, Begin, Due, Excused
  <2> QED
    BY <2>1 DEF Agree, Excused, BeingWritten
<1>14. CASE Restore
  <2> SUFFICES ASSUME up', ~Excused', NEW p \in Param, Due(p)'
               PROVE  ram'[p] = record'[p] \/ BeingWritten(p)'
    BY DEF Agree
  <2>1. /\ up /\ pc = "idle" /\ ~resetting /\ Due(p)
        /\ UNCHANGED <<record, ram>>
    BY <1>14 DEF Restore, Begin, Due, Excused
  <2> QED
    BY <2>1 DEF Agree, Excused, BeingWritten
<1>15. CASE Login
  <2> SUFFICES ASSUME up', ~Excused', NEW p \in Param, Due(p)'
               PROVE  ram'[p] = record'[p] \/ BeingWritten(p)'
    BY DEF Agree
  <2>1. up /\ pc = "idle" /\ ~Excused /\ Due(p) /\ UNCHANGED record
    BY <1>15 DEF Login, Due, Excused
  <2>2. ram[p] = record[p] /\ record[p] \in Value
    BY <2>1 DEF Agree, BeingWritten, Readable
  <2> QED
    BY <1>15, <2>1, <2>2 DEF Login, Refresh, Refreshed
<1>16. CASE Restart
  BY <1>16 DEF Restart, PowerOff, Agree
<1>17. CASE Crash
  BY <1>17 DEF Crash, PowerOff, Agree
<1>18. CASE UNCHANGED vars
  BY <1>18 DEF vars, Agree, Excused, Due, BeingWritten, item, value
<1>19. CASE PassOver
  <2> SUFFICES ASSUME up', ~Excused', NEW p \in Param, Due(p)'
               PROVE  ram'[p] = record'[p] \/ BeingWritten(p)'
    BY DEF Agree
  <2>1. up /\ ~Excused /\ Due(p) /\ UNCHANGED <<record, ram>>
    BY <1>19 DEF PassOver, Due, Excused
  <2>2. record[p] \in Value /\ value \notin Value
    BY <1>19, <2>1, RecordAssumption DEF PassOver, Readable, Unfit
  <2> QED
    BY <2>1, <2>2 DEF Agree, BeingWritten
<1> QED
  BY <1>1, <1>2, <1>3, <1>4, <1>5, <1>6, <1>7, <1>8, <1>9,
     <1>10, <1>11, <1>12, <1>13, <1>14, <1>15, <1>16, <1>17, <1>18, <1>19
     DEF Next, MainTask, ReportTask

\* The same for all copies.
LEMMA RamInvariant ==
  ASSUME Calm, "stale_update" \notin Hazards
  PROVE  Spec => [](TypeInv /\ StartInv /\ FirstInv /\ RamInv)
<1>1. Init => RamInv
  BY DEF Init, RamInv, HeldTrue, Agree
<1>2. TypeInv /\ StartInv /\ FirstInv /\ RamInv /\ [Next]_vars => RamInv'
  BY HeldKept, AgreeKept DEF RamInv
<1> QED
  BY FirstInvariant, <1>1, <1>2, PTL DEF Spec

\* If moreover nothing is written while the report task holds a record, the
\* copies in RAM are what the file says whenever both tasks rest and no restart
\* is due, though two tasks refresh them and a write may fail twice
\* (Report.c:635-648, E2ParamApp.c:206-207).
THEOREM CopiesAgree ==
  ASSUME Calm, "stale_update" \notin Hazards PROVE Spec => []RamAgrees
<1>1. RamInv => RamAgrees
  BY DEF RamInv, Agree, Excused, Due, BeingWritten, RamAgrees
<1> QED
  BY <1>1, RamInvariant, PTL
=============================================================================

------------------------------- MODULE Params -------------------------------
(***************************************************************************)
(* The parameter file (FilePram.c), its writers (E2ParamApp.c, ComParam.c, *)
(* Sms.c, RadioProtocol.c), the first start (SystemInit.c) and the copies  *)
(* of parameters that the modules keep in RAM.                             *)
(*                                                                         *)
(* Every parameter is one record with an additive checksum in a file.  The *)
(* main task writes it: for the platform (0x8103, and the factory defaults *)
(* of 0x8105), for the serial port, for an SMS and at the first start.  A  *)
(* write is read back and, when the checksum differs, written once more.   *)
(* The copies are refreshed after a write by the main task and after a     *)
(* login by the main task and by the report task, which reads the file and *)
(* assigns what it has read while the main task goes on.                   *)
(*                                                                         *)
(* A record is a value, or tells nothing: never written, or with a         *)
(* checksum that does not fit.  Two values are taken to have different     *)
(* checksums and to be within the limits of their module.  The special     *)
(* identifiers (0xF238, 0x1FFFF) are left out, and so is the delayed       *)
(* command that follows the factory defaults but for the restart it makes, *)
(* and a value of no bytes.                                                *)
(***************************************************************************)
EXTENDS Integers, Sequences, FiniteSets

CONSTANTS
  Param,     \* parameters
  Once,      \* those whose default is tried once (E2_TERMINAL_HEARTBEAT_ID)
  Reported,  \* those of Report.c (E2_SLEEP_REPORT_TIME_ID)
  Value,     \* their values
  Default,   \* the default of every parameter
  Short,     \* a number with fewer bytes than the parameter has
  Long,      \* a value that is passed over: with more bytes than the parameter
             \* has, or of a parameter that cannot be set
  Unknown,   \* any value under an identifier that no parameter has
  Blank,     \* a record never written; a copy with the module's own default
  Bad,       \* a record whose checksum does not fit
  Hazards,   \* the disturbances admitted
  MaxLength, \* bound: parameters of a command
  MaxCmd,    \* bound: commands
  MaxLogin,  \* bound: logins
  MaxBoot    \* bound: power failures

Disturbances ==
  { "crash_in_first_start", \* power fails before all defaults are written
    "fail_in_first_start",  \* writes fail while the defaults are written
    "half_write",           \* a write that fails leaves part of the record
    "short_value",          \* a command carries a number that is too short
    "stale_update" }        \* a write while the report task holds a record

ASSUME ParamAssumption == /\ IsFiniteSet(Param) /\ Param # {}
                          /\ Once \subseteq Param /\ Reported \subseteq Param
                          /\ Default \in Value
ASSUME RecordAssumption == /\ {Short, Long, Unknown, Blank, Bad} \cap Value = {}
                           /\ Bad # Blank /\ Long # Unknown
                           /\ Short \notin {Long, Unknown}
ASSUME HazardsAssumption == Hazards \subseteq Disturbances
ASSUME BoundAssumption == /\ MaxLength \in Nat \ {0} /\ MaxCmd \in Nat
                          /\ MaxLogin \in Nat /\ MaxBoot \in Nat

VARIABLES
  file,    \* PRAM_FILE_NAME exists
  record,  \* what it holds of every parameter
  ram,     \* the copies in the modules
  up,      \* ProjectInitFinshFlag
  pc,      \* where the main task is in its command
  kind,    \* who asked for it
  items,   \* the writes that remain of it
  try,     \* the attempt at the first of them
  asked,   \* all writes of the command
  answer,  \* the answer to the last command
  resetting, \* TIME_DELAY_TRIG runs with command 7
  fresh,   \* the copies of Report.c have been refreshed since the start
  init,    \* ReportStatus_Init: the report task is to refresh its copies
  todo,    \* the copies it has yet to refresh
  held,    \* the <<parameter, record>> that it has read and not yet assigned
  cmds, logins, boots

disk == <<file, record>>
work == <<kind, items, try, asked, answer>>
report == <<fresh, init, todo, held>>
counters == <<cmds, logins, boots>>
vars == <<disk, ram, up, pc, work, resetting, report, counters>>

Written == Value \cup (IF "short_value" \in Hazards THEN {Short} ELSE {})

\* What a list may hold that is not written.
Unfit == {Long, Unknown}

\* An identifier that nobody has names no parameter: any one fills the pair.
AnyParam == CHOOSE p \in Param : TRUE

Writes == (Param \X (Written \cup {Long})) \cup {<<AnyParam, Unknown>>}

\* The record that a value leaves: a short one has its checksum where the
\* length of the parameter does not look for it.
Stored(v) == IF v = Short THEN Bad ELSE v

\* The defaults are written one after the other (the shorter list is a fault
\* for the mutation checks).
Order == CHOOSE s \in [1 .. Cardinality(Param) -> Param] :
           \A p \in Param : \E i \in DOMAIN s : s[i] = p
DefaultsFewer == [i \in 1 .. Len(Order) - 1 |-> <<Order[i], Default>>]

Defaults == [i \in DOMAIN Order |-> <<Order[i], Default>>]

\* A fault for the mutation checks.
TriesUntilWritten(k, p) == 9

\* EepromPram_WritePram is called a second time when it has returned 0.
Tries(k, p) ==
  CASE k \in {"platform", "serial"} -> 1
    [] k = "sms" -> 2
    [] OTHER -> IF p \in Once THEN 1 ELSE 2

Init ==
  /\ file = FALSE /\ record = [p \in Param |-> Blank]
  /\ ram = [p \in Param |-> Blank] /\ up = FALSE
  /\ pc = "idle" /\ kind = "default" /\ items = <<>> /\ try = 1
  /\ asked = <<>> /\ answer = "none" /\ resetting = FALSE
  /\ fresh = FALSE /\ init = FALSE /\ todo = {} /\ held = {}
  /\ cmds = 0 /\ logins = 0 /\ boots = 0

-----------------------------------------------------------------------------
(* EepromPram_WritePramEx: write, read back, write again                   *)

\* Faults for the mutation checks.
AfterAgainVerify == "verify"

\* After the second write nobody looks again.
AfterAgain == "returned0"

item == items[1][1]
value == items[1][2]

\* E2prom_WriteBytes and what it may leave of the record.
WriteRecord ==
  \/ record' = [record EXCEPT ![item] = Stored(value)]
  \/ /\ up \/ "fail_in_first_start" \in Hazards
     /\ \/ UNCHANGED record
        \/ "half_write" \in Hazards /\ record' = [record EXCEPT ![item] = Bad]

Write ==
  /\ pc \in {"write", "rewrite"} /\ value \notin Unfit
  /\ held = {} \/ "stale_update" \in Hazards
  /\ WriteRecord
  /\ pc' = IF pc = "write" THEN "verify" ELSE AfterAgain
  /\ UNCHANGED <<file, ram, up, work, resetting, report, counters>>

Verify ==
  /\ pc = "verify"
  /\ pc' = IF record[item] = Stored(value) THEN "returned" ELSE "rewrite"
  /\ UNCHANGED <<disk, ram, up, work, resetting, report, counters>>

\* What the callers do with the result: the list of the platform and the
\* serial port ignores it and reads the parameter, the others may try again.
Returned ==
  /\ pc \in {"returned", "returned0"}
  /\ LET again == pc = "returned0" /\ try < Tries(kind, item)
     IN  /\ pc' = CASE again -> "write"
                    [] ~again /\ kind \in {"platform", "serial"} -> "compare"
                    [] ~again /\ kind = "sms" -> "update"
                    [] OTHER -> "next"
         /\ try' = IF again THEN try + 1 ELSE 1
  /\ UNCHANGED <<disk, ram, up, kind, items, asked, answer, resetting, report, counters>>

-----------------------------------------------------------------------------
(* E2ParamApp_DisposeWriteParam                                            *)

\* Before the write: a value too long for its field is passed over and the list
\* goes on, an identifier that the table lacks ends it with NOACK.
PassOver ==
  /\ pc = "write" /\ value \in Unfit
  /\ pc' = IF value = Long THEN "next" ELSE "error"
  /\ UNCHANGED <<disk, ram, up, work, resetting, report, counters>>

\* Faults for the mutation checks.
EqualAlways(v, r) == TRUE
RefreshedNever(p) == ram[p]

\* The comparison runs over the length that EepromPram_ReadPramEx returned,
\* which is 0 when the record tells nothing.
Equal(v, r) == r \in Value => r = v

Compare ==
  /\ pc = "compare"
  /\ pc' = IF Equal(value, record[item]) THEN "update" ELSE "error"
  /\ UNCHANGED <<disk, ram, up, work, resetting, report, counters>>

\* HeartBeat_UpdatePram falls back on a value of its own when the record tells
\* nothing, Report_UpdatePram keeps what it has.
Refreshed(p) ==
  IF record[p] \in Value THEN record[p]
  ELSE IF p \in Reported THEN ram[p] ELSE Blank

Refresh(set) == ram' = [p \in Param |-> IF p \in set THEN Refreshed(p) ELSE ram[p]]

\* EepromPram_UpdateVariable: Report_UpdatePram refreshes all its copies.
Update ==
  /\ pc = "update"
  /\ Refresh(IF item \in Reported THEN Reported ELSE {item})
  /\ pc' = "next"
  /\ UNCHANGED <<disk, up, work, resetting, report, counters>>

NextItem ==
  /\ pc = "next"
  /\ items' = Tail(items)
  /\ pc' = IF Len(items) > 1 THEN "write" ELSE "done"
  /\ UNCHANGED <<disk, ram, up, kind, try, asked, answer, resetting, report, counters>>

\* The platform's command is confirmed whatever has happened, the serial
\* port's answered only on success, and an SMS with the text of success.
Answered == IF kind = "serial" /\ pc = "error" THEN "silent" ELSE "ok"

\* The end of a command; after the factory defaults the delayed restart.
Finish ==
  /\ up /\ pc \in {"done", "error"}
  /\ answer' = Answered
  /\ items' = <<>> /\ try' = 1 /\ pc' = "idle"
  /\ resetting' = (resetting \/ kind = "restore")
  /\ UNCHANGED <<disk, ram, up, kind, asked, report, counters>>

-----------------------------------------------------------------------------
(* Commands                                                                *)

Begin(k, list) ==
  /\ pc = "idle"
  /\ pc' = "write"
  /\ kind' = k /\ items' = list /\ try' = 1
  /\ asked' = list /\ answer' = "none"

\* 0x8103, ComParam_DisposeParamCmd and Sms_Set_ReportTime.
Command ==
  /\ up /\ cmds < MaxCmd
  /\ \/ \E k \in {"platform", "serial"} :
          \E list \in UNION { [1 .. n -> Writes] : n \in 1 .. MaxLength } :
            Begin(k, list)
     \/ \E w \in Reported \X Value : Begin("sms", <<w>>)
  /\ cmds' = cmds + 1
  /\ UNCHANGED <<disk, ram, up, resetting, report, logins, boots>>

\* 0x8105 command 5.
Restore ==
  /\ up /\ cmds < MaxCmd
  /\ Begin("restore", Defaults)
  /\ cmds' = cmds + 1
  /\ UNCHANGED <<disk, ram, up, resetting, report, logins, boots>>

-----------------------------------------------------------------------------
(* The login and the report task                                           *)

\* A login in the main task; not after an alarm, when only the report task
\* refreshes the copies.
Login ==
  /\ up /\ pc = "idle" /\ logins < MaxLogin
  /\ logins' = logins + 1
  /\ init' = TRUE
  /\ \/ Refresh(Reported)
     \/ UNCHANGED ram
  /\ UNCHANGED <<disk, up, pc, work, resetting, fresh, todo, held, cmds, boots>>

\* ReportStatus_Init in the report task.
ReportInit ==
  /\ init /\ todo = {}
  /\ init' = FALSE /\ todo' = Reported
  /\ UNCHANGED <<disk, ram, up, pc, work, resetting, fresh, held, counters>>

\* Report_UpdatePram reads a record ...
ReportRead ==
  /\ held = {}
  /\ \E p \in todo : held' = {<<p, record[p]>>}
  /\ UNCHANGED <<disk, ram, up, pc, work, resetting, fresh, init, todo, counters>>

\* ... and assigns it if it could be read.
ReportAssign ==
  /\ \E h \in held :
       /\ ram' = IF h[2] \in Value THEN [ram EXCEPT ![h[1]] = h[2]] ELSE ram
       /\ todo' = todo \ {h[1]}
  /\ fresh' = (fresh \/ todo' = {})
  /\ held' = {}
  /\ UNCHANGED <<disk, up, pc, work, resetting, init, counters>>

-----------------------------------------------------------------------------
(* Power                                                                   *)

\* CheckFirstPowerOn: the file that does not exist is created, empty.
FirstStart ==
  /\ ~up /\ ~file
  /\ file' = TRUE
  /\ Begin("default", Defaults)
  /\ UNCHANGED <<record, ram, up, resetting, report, counters>>

\* PowerOnUpdata refreshes the copies of the other modules.
Started ==
  /\ ~up /\ file /\ pc \in {"idle", "done"}
  /\ up' = TRUE
  /\ Refresh(Param \ Reported)
  /\ pc' = "idle" /\ items' = <<>> /\ try' = 1
  /\ UNCHANGED <<disk, kind, asked, answer, resetting, report, counters>>

PowerOff ==
  /\ up' = FALSE /\ ram' = [p \in Param |-> Blank]
  /\ pc' = "idle" /\ kind' = "default" /\ items' = <<>> /\ try' = 1
  /\ asked' = <<>> /\ answer' = "none" /\ resetting' = FALSE
  /\ fresh' = FALSE /\ init' = FALSE /\ todo' = {} /\ held' = {}
  /\ UNCHANGED file

\* Power fails, or a reset comes, in a write between two of its bytes.
TornWrite ==
  \/ UNCHANGED record
  \/ /\ "half_write" \in Hazards /\ pc \in {"write", "rewrite"}
     /\ record' = [record EXCEPT ![item] = Bad]

\* Commands 7 and 5 of DelayTrigTimeTask, in a task of its own: the main task
\* may have begun another command.
Restart ==
  /\ resetting
  /\ PowerOff /\ TornWrite
  /\ UNCHANGED counters

Crash ==
  /\ boots < MaxBoot
  /\ ~up => "crash_in_first_start" \in Hazards
  /\ boots' = boots + 1
  /\ PowerOff /\ TornWrite
  /\ UNCHANGED <<cmds, logins>>

-----------------------------------------------------------------------------
MainTask == \/ Write \/ PassOver \/ Verify \/ Returned \/ Compare \/ Update \/ NextItem
            \/ Finish \/ FirstStart \/ Started

ReportTask == ReportInit \/ ReportRead \/ ReportAssign

Next == \/ MainTask \/ ReportTask \/ Command \/ Restore \/ Login
        \/ Restart \/ Crash

Spec == Init /\ [][Next]_vars

\* The two tasks run, and the delayed command comes.
Fairness == WF_vars(MainTask) /\ WF_vars(ReportTask) /\ WF_vars(Restart)

FairSpec == Spec /\ Fairness

-----------------------------------------------------------------------------
Places == {"idle", "write", "verify", "rewrite", "returned", "returned0",
           "compare", "update", "next", "done", "error"}

TypeOK ==
  /\ file \in BOOLEAN /\ up \in BOOLEAN
  /\ record \in [Param -> Value \cup {Blank, Bad}]
  /\ ram \in [Param -> Value \cup {Blank}]
  /\ pc \in Places
  /\ kind \in {"platform", "serial", "sms", "restore", "default"}
  /\ items \in Seq(Writes) /\ asked \in Seq(Writes)
  /\ try \in 1 .. 2
  /\ answer \in {"none", "ok", "silent"} /\ resetting \in BOOLEAN
  /\ fresh \in BOOLEAN /\ init \in BOOLEAN /\ todo \in SUBSET Reported
  /\ held \subseteq todo \X (Value \cup {Blank, Bad})
  /\ cmds \in 0 .. MaxCmd /\ logins \in 0 .. MaxLogin /\ boots \in 0 .. MaxBoot

\* A device in service can read every parameter, whatever commands, failing
\* writes and power failures it has seen (SystemInit.c:93-146).
Readable == up => \A p \in Param : record[p] \in Value

\* When neither task is at work and no restart is due, the copies in RAM are
\* what the file says: those of Report.c from the first login on, for all that
\* two tasks refresh them (Report.c:635-648, E2ParamApp.c:206-207).
RamAgrees ==
  up /\ pc = "idle" /\ ~resetting /\ ~init /\ todo = {} =>
    \A p \in Param : p \notin Reported \/ fresh => ram[p] = record[p]

\* The last value that a list gives to each of its parameters, but for those
\* that are too long.
Fitting(list) == { j \in DOMAIN list : list[j][2] # Long }

Final(list) ==
  { list[j] : j \in { k \in Fitting(list) :
                         \A l \in Fitting(list) : l > k => list[l][1] # list[k][1] } }

\* A serial command is answered only if the file holds every value of it that
\* fits its field, and does so until the next command comes; an identifier that
\* nobody knows, anywhere in the list, leaves it unanswered
\* (ComParam.c:53-55, E2ParamApp.c:155, 197-205, 210-218).
AnswerTrue ==
  answer = "ok" /\ kind = "serial" =>
    \A w \in Final(asked) : w[2] # Unknown /\ record[w[1]] = w[2]

\* An answered serial command had no value that was passed over
\* (E2ParamApp.c:155, 210-213).
AnsweredWhole ==
  answer = "ok" /\ kind = "serial" =>
    \A j \in DOMAIN asked : asked[j][2] \notin Unfit

\* Every command ends, on a file system that never takes a write too
\* (FilePram.c:408-411).
CommandsEnd == pc # "idle" ~> pc = "idle"
=============================================================================

-------------------------- MODULE BlindStore_proofs --------------------------
(***************************************************************************)
(* What the blind-area store holds: no slot is presented that was never    *)
(* written, no record is lost silently, and the upload implements          *)
(* BlindStore.                                                             *)
(***************************************************************************)
EXTENDS BlindUpload_proofs, SequenceTheorems

(* The end of an upload. *)

\* The timeout decides the fate of its pack, and the next one does not begin
\* before the callback is over.
CallbackInv == /\ closing => ~Outstanding /\ pc \in {"take", "sleep"}
               /\ pc = "probe" => posted > 0 \/ timer

\* After a timeout no pack is out, and the blind task waits.
LEMMA TimeoutDecides ==
  ASSUME IndInv, OneToken, ReportTimeout
  PROVE  /\ ~Outstanding' /\ ~Preparing /\ Outstanding
         /\ pc \in {"take", "sleep"} /\ pc' = pc /\ ~Preparing'
<1>1. /\ sem \in Nat /\ posted \in Nat /\ taskAuth \in BOOLEAN
      /\ pc \in {"take", "backup", "read", "advance", "send", "probe", "sleep"}
  BY DEF IndInv, TypeOK
<1>2. timer /\ timer' = FALSE /\ pc' = pc /\ posted' = posted
  BY DEF ReportTimeout, task
<1>3. ~(pc = "probe" /\ posted = 0)
  BY DEF ReportTimeout
<1>4. posted = 0 /\ pc \in {"take", "sleep"}
  BY <1>1, <1>2, <1>3 DEF OneToken, Tokens
<1> QED
  BY <1>2, <1>4 DEF Outstanding, Preparing

\* Every step keeps CallbackInv, if no login comes into a running upload and
\* the callback is faster than the blind task.
LEMMA NextCallbackInv ==
  ASSUME "relogin" \notin Hazards, "late_probe_reset" \notin Hazards
  PROVE  IndInv /\ OneToken /\ CallbackInv /\ [Next]_vars => CallbackInv'
<1> SUFFICES ASSUME IndInv, OneToken, CallbackInv, [Next]_vars
             PROVE  CallbackInv'
  OBVIOUS
<1> USE DEF CallbackInv, Outstanding, Preparing, ctrl, task, mainTask, net, power
<1>1. posted \in Nat /\ timer \in BOOLEAN
  BY DEF IndInv, TypeOK
<1>2. CASE BlindTask
  <2>1. CASE TakeSemaphore
    BY <1>1, <2>1 DEF TakeSemaphore
  <2>2. CASE FindEmpty \/ SleepOver \/ NodeBackup
    BY <1>1, <2>2 DEF FindEmpty, SleepOver, NodeBackup
  <2>3. CASE PackNothing \/ ReadSlot \/ PassSlot \/ PackDone
    BY <1>1, <2>3 DEF PackNothing, ReadSlot, PassSlot, PackDone
  <2>4. CASE BulkUpTrans \/ SetProbe
    BY <1>1, <2>4 DEF BulkUpTrans, SetProbe
  <2> QED
    BY <1>2, <2>1, <2>2, <2>3, <2>4 DEF BlindTask
<1>3. CASE MainTask
  <2>1. CASE StartReportTimer \/ ResetProbe \/ ReportAck
    BY <1>1, <2>1 DEF StartReportTimer, ResetProbe, ReportAck, MainFree
  <2>2. CASE ReportTimeout
    <3>1. ~Outstanding' /\ pc' \in {"take", "sleep"}
      BY <2>2, TimeoutDecides
    <3> QED
      BY <3>1
  <2> QED
    BY <1>3, <2>1, <2>2 DEF MainTask
<1>4. CASE Save
  BY <1>4 DEF Save, SaveWrite, SaveCount
<1>5. CASE Environment
  BY <1>5 DEF Environment, Login, LinkLost, Deauthorise, LinkDies,
              PlatformReplies, PlatformSilent
<1>6. CASE Power
  <2>1. CASE PowerDown \/ BackUpNode \/ PlannedReset
    BY <2>1 DEF PowerDown, BackUpNode, PlannedReset, SaveNodeAndStop
  <2>2. CASE WakeUp \/ Crash
    <3>1. closing' = FALSE /\ pc' = "take"
      BY <2>2, Zenon DEF WakeUp, Crash, Restart
    <3> QED
      BY <3>1
  <2> QED
    BY <1>6, <2>1, <2>2 DEF Power
<1>7. CASE UNCHANGED vars
  BY <1>7 DEF vars
<1> QED
  BY <1>2, <1>3, <1>4, <1>5, <1>6, <1>7 DEF Next

-----------------------------------------------------------------------------
(* No slot is presented that was never written. *)

\* Every slot that the control record c presents was written.
Filled(c) == \A i \in 1 .. c.len : slot[SlotAt(c, i)] # None

\* NoPhantom is not inductive alone: the slot under the tail is written before
\* the save is counted, and a timeout that replays a save finds its slot
\* written since the copy was taken.
FillInv ==
  /\ Filled(q) /\ Filled(node)
  /\ ~Idle => slot[q.tail] # None
  /\ Outstanding =>
       /\ Filled(backup)
       /\ windowSaves = 0 => Idle /\ q.tail = backup.tail /\ (Preparing \/ probe)
       /\ windowSaves # 0 => slot[backup.tail] # None

\* What a timeout restores was written, if the replayed save was.
LEMMA ResumeFilled ==
  ASSUME NEW b \in Control, InShape(b), b.len > 0, Filled(b), NEW p \in BOOLEAN,
         p \/ slot[b.tail] # None
  PROVE  Filled(NodeResume(b, p))
<1>1. CASE p
  BY <1>1 DEF NodeResume
<1>2. CASE ~p
  <2> DEFINE m == AdvanceTail(MakeRoom(b))
  <2>1. NodeResume(b, p) = m
    BY <1>2 DEF NodeResume, MakeRoom, IsCirQueueEmpty, Control
  <2>2. b.len \in 1 .. Cap
    BY CapAssumption DEF Control
  <2>3. ASSUME NEW i \in 1 .. m.len PROVE slot[SlotAt(m, i)] # None
    <3>1. CASE b.len = Cap
      <4>1. /\ m.len = Cap /\ SlotAt(m, Cap) = b.tail
            /\ \A j \in 1 .. Cap - 1 : SlotAt(m, j) = SlotAt(b, j + 1)
        BY <3>1, SaveSlots
      <4>2. i = Cap \/ (i \in 1 .. Cap - 1 /\ i + 1 \in 1 .. b.len)
        BY <2>3, <3>1, <4>1, CapAssumption
      <4> QED
        BY <1>2, <4>1, <4>2 DEF Filled
    <3>2. CASE b.len < Cap
      <4>1. /\ m.len = b.len + 1 /\ SlotAt(m, b.len + 1) = b.tail
            /\ \A j \in 1 .. b.len : SlotAt(m, j) = SlotAt(b, j)
        BY <3>2, SaveSlots
      <4>2. i = b.len + 1 \/ i \in 1 .. b.len
        BY <2>2, <2>3, <4>1
      <4> QED
        BY <1>2, <4>1, <4>2 DEF Filled
    <3> QED
      BY <2>2, <3>1, <3>2, CapAssumption
  <2> QED
    BY <2>1, <2>3 DEF Filled
<1> QED
  BY <1>1, <1>2

\* Every step keeps FillInv.
LEMMA NextFillInv ==
  ASSUME "overlapping_save" \notin Hazards, Savers \subseteq {"main"}
  PROVE  IndInv /\ ShapeInv /\ OneToken /\ CallbackInv /\ FillInv /\ [Next]_vars
           => FillInv'
<1> SUFFICES ASSUME IndInv, ShapeInv, OneToken, CallbackInv, FillInv, [Next]_vars
             PROVE  FillInv'
  OBVIOUS
<1>1. /\ q \in Control /\ backup \in Control /\ node \in Control
      /\ slot \in [Index -> Nat] /\ probe \in BOOLEAN /\ windowSaves \in Nat
      /\ saving \in [Savers -> Nat] /\ nextRec \in Nat /\ nextRec >= 1
      /\ posted \in Nat /\ timer \in BOOLEAN
      /\ pc = "advance" => q.len > 0
      /\ Outstanding => backup.len > 0
      /\ InShape(backup)
      /\ Preparing => Idle
  BY DEF IndInv, TypeOK, ShapeInv, QueueShape
<1>2. MainFree => Idle
  BY DEF MainFree, Idle
<1>3. ASSUME UNCHANGED <<q, node, slot, saving, backup, windowSaves, probe>>,
             Outstanding' => Outstanding,
             Outstanding' /\ Preparing => Preparing'
      PROVE  FillInv'
  BY <1>3 DEF FillInv, Filled, Idle
<1>4. CASE BlindTask
  <2> USE DEF ctrl, task, mainTask, net, power, history
  <2>1. CASE TakeSemaphore \/ FindEmpty \/ SleepOver
    BY <2>1, <1>3 DEF TakeSemaphore, FindEmpty, SleepOver, Outstanding, Preparing
  <2>2. CASE NodeBackup
    <3>1. /\ backup' = q /\ Idle /\ windowSaves' = 0 /\ Preparing'
          /\ UNCHANGED <<q, slot, node, saving>>
      BY <2>2 DEF NodeBackup, Preparing
    <3> QED
      BY <3>1 DEF FillInv, Filled, Idle
  <2>3. CASE PackNothing \/ ReadSlot \/ PackDone \/ BulkUpTrans
    BY <2>3, <1>3 DEF PackNothing, ReadSlot, PackDone, BulkUpTrans, Outstanding,
                      Preparing
  <2>4. CASE PassSlot
    <3>1. /\ q' = AdvanceHead(q) /\ q.len > 0 /\ Outstanding /\ Preparing /\ Preparing'
          /\ UNCHANGED <<slot, node, backup, saving, probe, windowSaves>>
      BY <1>1, <2>4 DEF PassSlot, Outstanding, Preparing
    <3>2. Filled(q)' /\ q'.tail = q.tail
      BY <1>1, <3>1, PassedSlots DEF FillInv, Filled
    <3> QED
      BY <3>1, <3>2 DEF FillInv, Filled, Idle
  <2>5. CASE SetProbe
    <3>1. /\ probe' = TRUE /\ Outstanding
          /\ UNCHANGED <<q, slot, node, backup, saving, windowSaves>>
      BY <2>5 DEF SetProbe, Outstanding, Preparing
    <3> QED
      BY <3>1 DEF FillInv, Filled, Idle
  <2> QED
    BY <1>4, <2>1, <2>2, <2>3, <2>4, <2>5 DEF BlindTask
<1>5. CASE MainTask
  <2>1. CASE StartReportTimer \/ ReportAck
    BY <1>1, <2>1, <1>3 DEF StartReportTimer, ReportAck, Outstanding, Preparing,
                            ctrl, task, history
  <2>2. CASE ResetProbe
    <3>1. /\ ~Outstanding' /\ UNCHANGED <<q, slot, node, saving>>
      BY <2>2 DEF ResetProbe, CallbackInv, Outstanding, Preparing, task
    <3> QED
      BY <3>1 DEF FillInv, Filled, Idle
  <2>3. CASE ReportTimeout
    <3>1. ~Outstanding' /\ ~Preparing /\ Outstanding
      BY <2>3, TimeoutDecides
    <3>2. Idle /\ UNCHANGED <<slot, saving>>
      BY <1>2, <2>3 DEF ReportTimeout
    <3>3. Filled(NodeResume(backup, probe))
      <4>1. probe \/ slot[backup.tail] # None
        BY <3>1 DEF FillInv
      <4> QED
        BY <1>1, <3>1, <4>1, ResumeFilled DEF FillInv
    <3>4. q' = q \/ q' = NodeResume(backup, probe)
      BY <2>3, Zenon DEF ReportTimeout
    <3>5. node' = q' \/ node' = node
      BY <2>3, Zenon DEF ReportTimeout
    <3>6. Filled(q)'
      BY <3>2, <3>3, <3>4 DEF FillInv, Filled
    <3>7. Filled(node)'
      BY <3>2, <3>5, <3>6 DEF FillInv, Filled
    <3> QED
      BY <3>1, <3>2, <3>6, <3>7 DEF FillInv, Idle
  <2> QED
    BY <1>5, <2>1, <2>2, <2>3 DEF MainTask
<1>6. CASE Save
  <2>1. PICK s \in Savers : SaveWrite(s) \/ SaveCount(s)
    BY <1>6 DEF Save
  <2>2. CASE SaveWrite(s)
    <3>1. /\ Idle /\ ~Preparing /\ q' = MakeRoom(q)
          /\ slot' = [slot EXCEPT ![q'.tail] = nextRec]
          /\ UNCHANGED <<node, backup, probe, pc, posted, timer>>
      BY <2>2 DEF SaveWrite, ctrl, task, mainTask
    <3>2. InShape(q)
      BY <3>1 DEF ShapeInv, QueueShape
    <3>3. q'.tail = q.tail /\ q.tail \in Index /\ MakeRoom(q) \in Control
      BY <1>1, <3>1, <3>2, SaveSlots, MakeRoomType DEF Control
    <3>4. /\ slot'[q.tail] # None
          /\ \A i \in Index : slot[i] # None => slot'[i] # None
      BY <1>1, <3>1, <3>3 DEF None
    <3>5. Filled(q)'
      <4>1. ASSUME NEW i \in 1 .. MakeRoom(q).len
            PROVE  slot'[SlotAt(MakeRoom(q), i)] # None
        <5>1. CASE SlotAt(MakeRoom(q), i) = q.tail
          BY <5>1, <3>4
        <5>2. CASE \E j \in 1 .. q.len : SlotAt(MakeRoom(q), i) = SlotAt(q, j)
          <6>1. PICK j \in 1 .. q.len : SlotAt(MakeRoom(q), i) = SlotAt(q, j)
            BY <5>2
          <6>2. j \in 1 .. Cap + 1
            BY <1>1, <6>1, CapAssumption DEF Control
          <6>3. SlotAt(q, j) \in Index /\ slot[SlotAt(q, j)] # None
            BY <1>1, <6>1, <6>2, SlotAtValue DEF FillInv, Filled
          <6> QED
            BY <3>4, <6>1, <6>3
        <5> QED
          BY <1>1, <3>2, <5>1, <5>2, RoomSlots
      <4> QED
        BY <3>1, <4>1 DEF Filled
    <3>6. ASSUME NEW c \in Control, Filled(c)
          PROVE  \A i \in 1 .. c.len : slot'[SlotAt(c, i)] # None
      <4>1. ASSUME NEW i \in 1 .. c.len PROVE slot'[SlotAt(c, i)] # None
        <5>1. i \in 1 .. Cap + 1
          BY <4>1, CapAssumption DEF Control
        <5> QED
          BY <3>4, <3>6, <4>1, <5>1, SlotAtValue DEF Filled
      <4> QED
        BY <4>1
    <3>7. Filled(node)'
      BY <1>1, <3>1, <3>6 DEF FillInv, Filled
    <3>8. Outstanding' => /\ Outstanding /\ Filled(backup)' /\ windowSaves' # 0
                          /\ slot'[backup'.tail] # None
      <4> SUFFICES ASSUME Outstanding'
                   PROVE  /\ Outstanding /\ Filled(backup)' /\ windowSaves' # 0
                          /\ slot'[backup'.tail] # None
        OBVIOUS
      <4>1. Outstanding
        BY <3>1 DEF Outstanding, Preparing
      <4>2. windowSaves' = windowSaves + 1
        BY <2>2, <4>1 DEF SaveWrite
      <4>3. Filled(backup)'
        BY <1>1, <3>1, <3>6, <4>1 DEF FillInv, Filled
      <4>4. slot'[backup.tail] # None
        <5>1. backup.tail \in Index
          BY <1>1 DEF Control
        <5> QED
          BY <3>4, <4>1, <5>1 DEF FillInv
      <4> QED
        BY <1>1, <3>1, <4>1, <4>2, <4>3, <4>4
    <3> QED
      BY <3>1, <3>3, <3>4, <3>5, <3>7, <3>8 DEF FillInv
  <2>3. CASE SaveCount(s)
    <3>1. /\ saving[s] # None /\ q' = AdvanceTail(q)
          /\ saving' = [saving EXCEPT ![s] = None]
          /\ UNCHANGED <<slot, node, backup, pc, posted, timer, windowSaves>>
      BY <2>3 DEF SaveCount, task, mainTask
    <3>2. ~Idle /\ Idle' /\ InShape(AdvanceTail(q))
      BY <1>1, <3>1 DEF Idle, ShapeInv, None
    <3>3. Filled(q)'
      <4>1. ASSUME NEW i \in 1 .. AdvanceTail(q).len
            PROVE  slot[SlotAt(AdvanceTail(q), i)] # None
        <5>1. CASE i <= q.len /\ SlotAt(AdvanceTail(q), i) = SlotAt(q, i)
          <6>1. AdvanceTail(q) \in Control
            BY <1>1, AdvanceTailType
          <6>2. i \in 1 .. q.len
            BY <4>1, <5>1, <6>1, <1>1 DEF Control
          <6> QED
            BY <5>1, <6>2 DEF FillInv, Filled
        <5>2. CASE SlotAt(AdvanceTail(q), i) = q.tail
          BY <3>2, <5>2 DEF FillInv
        <5> QED
          BY <1>1, <3>2, <5>1, <5>2, CountedSlots
      <4> QED
        BY <3>1, <4>1 DEF Filled
    <3>4. Outstanding' => Outstanding /\ windowSaves # 0
      BY <3>1, <3>2 DEF Outstanding, Preparing, FillInv
    <3> QED
      BY <3>1, <3>2, <3>3, <3>4 DEF FillInv, Filled
  <2> QED
    BY <2>1, <2>2, <2>3
<1>7. CASE Environment
  <2>1. UNCHANGED <<q, node, slot, saving, backup, windowSaves, probe, pc, posted, timer>>
    BY <1>7 DEF Environment, Login, LinkLost, Deauthorise, LinkDies,
                PlatformReplies, PlatformSilent, ctrl, task, mainTask, history
  <2> QED
    BY <2>1, <1>3 DEF Outstanding, Preparing
<1>8. CASE Power
  <2>1. CASE PowerDown \/ BackUpNode \/ PlannedReset
    <3>1. node' = q /\ UNCHANGED <<q, slot, saving, backup, windowSaves, probe, pc, posted, timer>>
      BY <2>1 DEF PowerDown, BackUpNode, PlannedReset, SaveNodeAndStop, task,
                  mainTask, history
    <3> QED
      BY <3>1 DEF FillInv, Filled, Idle, Outstanding, Preparing
  <2>2. CASE WakeUp \/ Crash
    <3>1. Restart
      BY <2>2 DEF WakeUp, Crash
    <3>2. /\ q' = node /\ node' = node /\ slot' = slot /\ posted' = 0
          /\ timer' = FALSE /\ pc' = "take" /\ saving' = [s \in Savers |-> None]
      BY <3>1, Zenon DEF Restart
    <3>3. ~Outstanding' /\ Idle'
      BY <3>2 DEF Outstanding, Preparing, Idle
    <3> QED
      BY <3>2, <3>3 DEF FillInv, Filled
  <2> QED
    BY <1>8, <2>1, <2>2 DEF Power
<1>9. CASE UNCHANGED vars
  BY <1>9, <1>3 DEF vars, ctrl, task, mainTask, history, Outstanding, Preparing
<1> QED
  BY <1>4, <1>5, <1>6, <1>7, <1>8, <1>9 DEF Next

\* If saves do not overlap the preparation of a pack or a reset, no login comes
\* into a running upload and the callback is faster than the blind task, the
\* store never presents a slot that was never written: not after a crash, a
\* late reply or several saves during an upload (Blind.c:189-410).
THEOREM NothingPhantom ==
  ASSUME Hazards \subseteq {"second_save", "late_reply"}, Savers \subseteq {"main"}
  PROVE  Spec => []NoPhantom
<1> DEFINE Inv == IndInv /\ ShapeInv /\ OneToken /\ CallbackInv /\ FillInv
<1>1. Init => Inv
  <2> SUFFICES ASSUME Init PROVE Inv
    OBVIOUS
  <2>1. ShapeInv
    BY EmptyControlShape DEF Init, ShapeInv, QueueShape, Preparing, Idle, None
  <2>2. OneToken /\ CallbackInv
    BY DEF Init, OneToken, Tokens, CallbackInv
  <2>3. ~Outstanding /\ Idle
    BY DEF Init, Outstanding, Preparing, Idle
  <2>4. q.len = 0 /\ node.len = 0
    BY DEF Init, EmptyControl
  <2>5. FillInv
    BY <2>3, <2>4 DEF FillInv, Filled
  <2> QED
    BY <2>1, <2>2, <2>5, InitIndInv
<1>2. Inv /\ [Next]_vars => Inv'
  BY NextIndInv, NextShapeInv, NextOneToken, NextCallbackInv, NextFillInv
<1>3. Inv => NoPhantom
  BY DEF FillInv, Filled, NoPhantom, Live
<1> QED
  BY <1>1, <1>2, <1>3, PTL DEF Spec

-----------------------------------------------------------------------------
(* The records of the store, as BlindStore sees them. *)

\* The control record once the save in progress is counted.
Shown == IF Idle THEN q ELSE AdvanceTail(q)

\* While a pack is out, the queue in RAM ends where the copy does, or after
\* the one save that has come since.
WindowInv ==
  Outstanding =>
    IF windowSaves = 0
      THEN /\ Idle /\ (Preparing \/ probe)
           /\ q.tail = backup.tail /\ q.len <= backup.len
      ELSE /\ ~(Idle /\ (Preparing \/ probe))
           /\ Shown.tail = Succ(backup.tail)
           /\ Shown.len <= IF backup.len = Cap THEN Cap ELSE backup.len + 1

\* The ordinary course of events, without restarts: the assumptions of the
\* refinement.
Ordinary == Hazards = {} /\ Savers \subseteq {"main"} /\ MaxBoot = 0

\* What the other invariants give.
Sound == /\ IndInv /\ ShapeInv /\ OneToken /\ CallbackInv
         /\ powered

\* Without restarts Power writes the control record to flash and no more.
LEMMA PowerIsBackUp ==
  ASSUME Ordinary, Sound, Power
  PROVE  BackUpNode
<1>1. boots \in Nat /\ MaxBoot = 0 /\ powered
  BY DEF Sound, IndInv, TypeOK, Ordinary
<1>2. ~(boots < MaxBoot)
  BY <1>1
<1>3. ~PowerDown /\ ~PlannedReset
  BY <1>2 DEF PowerDown, PlannedReset, SaveNodeAndStop
<1>4. ~WakeUp
  BY <1>1 DEF WakeUp
<1>5. ~Crash
  BY <1>2 DEF Crash
<1> QED
  BY <1>3, <1>4, <1>5 DEF Power

\* Nothing restarts.
LEMMA NextSound == ASSUME Ordinary PROVE Sound /\ [Next]_vars => Sound'
<1> SUFFICES ASSUME Sound, [Next]_vars PROVE powered'
  BY NextIndInv, NextShapeInv, NextOneToken, NextCallbackInv DEF Sound, Ordinary
<1>1. boots \in Nat /\ MaxBoot = 0 /\ powered
  BY DEF Sound, IndInv, TypeOK, Ordinary
<1>2. CASE BlindTask
  BY <1>1, <1>2 DEF BlindTask, TakeSemaphore, FindEmpty, SleepOver, NodeBackup, PackNothing,
              ReadSlot, PassSlot, PackDone, BulkUpTrans, SetProbe, power
<1>3. CASE MainTask
  BY <1>1, <1>3 DEF MainTask, StartReportTimer, ReportTimeout, ResetProbe, ReportAck, power
<1>4. CASE Save \/ Environment
  BY <1>1, <1>4 DEF Save, SaveWrite, SaveCount, Environment, Login, LinkLost, Deauthorise,
              LinkDies, PlatformReplies, PlatformSilent, power
<1>5. CASE Power
  BY <1>1, <1>5, PowerIsBackUp DEF BackUpNode, power
<1>6. CASE UNCHANGED vars
  BY <1>1, <1>6 DEF vars, power
<1> QED
  BY <1>2, <1>3, <1>4, <1>5, <1>6 DEF Next

\* Every step keeps WindowInv.
LEMMA NextWindowInv ==
  ASSUME Ordinary
  PROVE  Sound /\ WindowInv /\ [Next]_vars => WindowInv'
<1> SUFFICES ASSUME Sound, WindowInv, [Next]_vars PROVE WindowInv'
  OBVIOUS
<1>1. /\ q \in Control /\ backup \in Control /\ windowSaves \in Nat
      /\ probe \in BOOLEAN /\ timer \in BOOLEAN /\ posted \in Nat
      /\ saving \in [Savers -> Nat] /\ nextRec \in Nat /\ nextRec >= 1
      /\ pc = "advance" => q.len > 0
      /\ Outstanding => backup.len > 0
      /\ Preparing => Idle
      /\ Savers \subseteq {"main"} /\ Hazards = {}
  BY DEF Sound, IndInv, TypeOK, ShapeInv, Ordinary
<1>2. ASSUME UNCHANGED <<q, saving, backup, windowSaves, probe>>,
             Outstanding' => Outstanding, Outstanding' => (Preparing' <=> Preparing)
      PROVE  WindowInv'
  BY <1>2 DEF WindowInv, Shown, Idle
<1>3. CASE BlindTask
  <2> USE DEF ctrl, task, mainTask, net, power, history
  <2>1. CASE TakeSemaphore \/ FindEmpty \/ SleepOver
    BY <2>1, <1>2 DEF TakeSemaphore, FindEmpty, SleepOver, Outstanding, Preparing
  <2>2. CASE NodeBackup
    <3>1. /\ backup' = q /\ Idle /\ windowSaves' = 0 /\ Preparing'
          /\ UNCHANGED <<q, saving>>
      BY <1>1, <2>2 DEF NodeBackup, Preparing
    <3>2. q.len <= q.len
      BY <1>1 DEF Control
    <3> QED
      BY <3>1, <3>2 DEF WindowInv, Idle
  <2>3. CASE PackNothing \/ ReadSlot \/ PackDone \/ BulkUpTrans
    BY <2>3, <1>2 DEF PackNothing, ReadSlot, PackDone, BulkUpTrans, Outstanding,
                      Preparing
  <2>4. CASE PassSlot
    <3>1. /\ q' = AdvanceHead(q) /\ q.len > 0 /\ Outstanding /\ Preparing /\ Preparing'
          /\ UNCHANGED <<backup, saving, probe, windowSaves>>
      BY <1>1, <2>4 DEF PassSlot, Outstanding, Preparing
    <3>2. q'.tail = q.tail /\ q'.len = q.len - 1
      BY <1>1, <3>1, PassedSlots
    <3>3. windowSaves = 0 /\ Idle /\ q.tail = backup.tail /\ q.len <= backup.len
      BY <1>1, <3>1 DEF WindowInv
    <3>4. q'.len <= backup.len
      BY <1>1, <3>2, <3>3 DEF Control
    <3> QED
      BY <3>1, <3>2, <3>3, <3>4 DEF WindowInv, Idle
  <2>5. CASE SetProbe
    <3>1. /\ probe' = TRUE /\ Outstanding /\ Preparing /\ Idle
          /\ UNCHANGED <<q, backup, saving, windowSaves>>
      BY <1>1, <2>5 DEF SetProbe, Outstanding, Preparing
    <3> QED
      BY <3>1 DEF WindowInv, Shown, Idle
  <2> QED
    BY <1>3, <2>1, <2>2, <2>3, <2>4, <2>5 DEF BlindTask
<1>4. CASE MainTask
  <2>1. CASE StartReportTimer \/ ReportAck
    BY <1>1, <2>1, <1>2 DEF StartReportTimer, ReportAck, Outstanding, Preparing,
                            ctrl, task, history
  <2>2. CASE ResetProbe
    <3>1. ~Outstanding'
      BY <2>2 DEF ResetProbe, Sound, CallbackInv, Outstanding, Preparing, task
    <3> QED
      BY <3>1 DEF WindowInv
  <2>3. CASE ReportTimeout
    <3>1. ~Outstanding'
      BY <2>3, TimeoutDecides DEF Sound
    <3> QED
      BY <3>1 DEF WindowInv
  <2> QED
    BY <1>4, <2>1, <2>2, <2>3 DEF MainTask
<1>5. CASE Save
  <2>1. PICK s \in Savers : SaveWrite(s) \/ SaveCount(s)
    BY <1>5 DEF Save
  <2>2. CASE SaveWrite(s)
    <3>1. /\ Idle /\ ~Preparing /\ q' = MakeRoom(q)
          /\ saving' = [saving EXCEPT ![s] = nextRec]
          /\ Outstanding => windowSaves = 0
          /\ windowSaves' = IF Outstanding THEN windowSaves + 1 ELSE windowSaves
          /\ UNCHANGED <<backup, probe, pc, posted, timer>>
      BY <1>1, <2>2 DEF SaveWrite, ctrl, task, mainTask
    <3>2. ~Idle'
      BY <1>1, <3>1 DEF Idle, None
    <3>3. CASE Outstanding
      <4>1. windowSaves' = 1 /\ q.tail = backup.tail /\ q.len <= backup.len
        BY <3>1, <3>3 DEF WindowInv
      <4> DEFINE m == AdvanceTail(MakeRoom(q))
      <4>2. /\ m.tail = Succ(q.tail)
            /\ q.len = Cap => m.len = Cap
            /\ q.len < Cap => m.len = q.len + 1
        <5>1. InShape(q)
          BY <3>1 DEF Sound, ShapeInv, QueueShape
        <5> QED
          BY <1>1, <5>1, SaveSlots
      <4>3. Shown' = m
        BY <3>1, <3>2 DEF Shown
      <4> HIDE DEF m
      <4>4. m.len <= IF backup.len = Cap THEN Cap ELSE backup.len + 1
        <5>1. q.len \in 0 .. Cap /\ backup.len \in 0 .. Cap
          BY <1>1 DEF Control
        <5>2. CASE q.len = Cap
          BY <4>1, <4>2, <5>1, <5>2, CapAssumption
        <5>3. CASE q.len < Cap
          BY <4>1, <4>2, <5>1, <5>3, CapAssumption
        <5> QED
          BY <5>1, <5>2, <5>3, CapAssumption
      <4> QED
        BY <3>1, <3>2, <4>1, <4>2, <4>3, <4>4 DEF WindowInv
    <3>4. CASE ~Outstanding
      BY <3>1, <3>4 DEF WindowInv, Outstanding, Preparing
    <3> QED
      BY <3>3, <3>4
  <2>3. CASE SaveCount(s)
    <3>1. /\ saving[s] # None /\ q' = AdvanceTail(q)
          /\ saving' = [saving EXCEPT ![s] = None] /\ probe' = FALSE
          /\ UNCHANGED <<backup, pc, posted, timer, windowSaves>>
      BY <2>3 DEF SaveCount, task, mainTask
    <3>2. ~Idle /\ Idle'
      BY <1>1, <3>1 DEF Idle, None
    <3>3. ~Preparing /\ ~Preparing' /\ (Outstanding' <=> Outstanding)
      BY <1>1, <3>1, <3>2 DEF Outstanding, Preparing
    <3>4. Shown' = Shown
      BY <3>1, <3>2 DEF Shown
    <3> QED
      BY <3>1, <3>2, <3>3, <3>4 DEF WindowInv
  <2> QED
    BY <2>1, <2>2, <2>3
<1>6. CASE Environment
  <2>1. UNCHANGED <<q, saving, backup, windowSaves, probe, pc, posted, timer>>
    BY <1>6 DEF Environment, Login, LinkLost, Deauthorise, LinkDies,
                PlatformReplies, PlatformSilent, ctrl, task, mainTask, history
  <2> QED
    BY <2>1, <1>2 DEF Outstanding, Preparing
<1>7. CASE Power
  <2>1. UNCHANGED <<q, saving, backup, windowSaves, probe, pc, posted, timer>>
    BY <1>7, PowerIsBackUp DEF BackUpNode, task, mainTask, history
  <2> QED
    BY <2>1, <1>2 DEF Outstanding, Preparing
<1>8. CASE UNCHANGED vars
  BY <1>8, <1>2 DEF vars, ctrl, task, mainTask, history, Outstanding, Preparing
<1> QED
  BY <1>3, <1>4, <1>5, <1>6, <1>7, <1>8 DEF Next

\* A reply belongs to the pack that is out.
ReplyInv ==
  /\ ~Outstanding \/ pc \in {"read", "advance", "send"} =>
       uplink = <<>> /\ replies = 0 /\ ~reportAck
  /\ uplink = <<>> \/ uplink = <<packed>>
  /\ replies > 0 \/ reportAck => packed \subseteq delivered

\* Every step keeps ReplyInv.
LEMMA NextReplyInv ==
  ASSUME Ordinary
  PROVE  Sound /\ ReplyInv /\ [Next]_vars => ReplyInv'
<1> SUFFICES ASSUME Sound, ReplyInv, [Next]_vars PROVE ReplyInv'
  OBVIOUS
<1>1. /\ timer \in BOOLEAN /\ posted \in Nat /\ reportAck \in BOOLEAN /\ replies \in Nat
      /\ sem \in Nat /\ taskAuth \in BOOLEAN
      /\ Hazards = {}
  BY DEF Sound, IndInv, TypeOK, Ordinary
<1>2. ASSUME UNCHANGED <<packed, delivered>>,
             \/ UNCHANGED <<uplink, replies>>
             \/ uplink' = <<>> /\ replies' = 0,
             reportAck' = reportAck \/ ~reportAck',
             Outstanding => Outstanding',
             pc' \in {"read", "advance", "send"} => pc \in {"read", "advance", "send"}
      PROVE  ReplyInv'
  BY <1>1, <1>2 DEF ReplyInv
<1>3. CASE BlindTask
  <2> USE DEF ctrl, task, mainTask, net, power, history
  <2>1. CASE TakeSemaphore \/ FindEmpty \/ SleepOver
    BY <2>1, <1>2 DEF TakeSemaphore, FindEmpty, SleepOver, Outstanding, Preparing
  <2>2. CASE NodeBackup
    <3>1. ~Outstanding
      BY <1>1, <2>2 DEF NodeBackup, Sound, OneToken, Tokens, Outstanding, Preparing
    <3> QED
      BY <1>1, <2>2, <3>1 DEF NodeBackup, ReplyInv
  <2>3. CASE PackNothing \/ PassSlot \/ PackDone
    BY <2>3, <1>2 DEF PackNothing, PassSlot, PackDone, Outstanding, Preparing
  <2>4. CASE ReadSlot
    <3>1. uplink = <<>> /\ replies = 0 /\ ~reportAck
      BY <2>4 DEF ReadSlot, ReplyInv
    <3> QED
      BY <2>4, <3>1 DEF ReadSlot, ReplyInv
  <2>5. CASE BulkUpTrans
    <3>1. uplink = <<>> /\ replies = 0 /\ ~reportAck
      BY <2>5 DEF BulkUpTrans, ReplyInv
    <3>2. /\ uplink' = <<>> \/ uplink' = <<packed>>
          /\ UNCHANGED <<packed, replies, reportAck, delivered>>
      BY <2>5, <3>1 DEF BulkUpTrans
    <3>3. pc' = "probe" /\ Outstanding'
      BY <2>5 DEF BulkUpTrans, Outstanding, Preparing
    <3> QED
      BY <3>1, <3>2, <3>3 DEF ReplyInv
  <2>6. CASE SetProbe
    <3>1. Outstanding'
      BY <2>6 DEF SetProbe, Sound, CallbackInv, Outstanding, Preparing
    <3> QED
      BY <2>6, <3>1, <1>2 DEF SetProbe
  <2> QED
    BY <1>3, <2>1, <2>2, <2>3, <2>4, <2>5, <2>6 DEF BlindTask
<1>4. CASE MainTask
  <2>1. CASE StartReportTimer
    BY <1>1, <2>1, <1>2 DEF StartReportTimer, Outstanding, Preparing, task, net, history
  <2>2. CASE ResetProbe
    BY <2>2, <1>2 DEF ResetProbe, Outstanding, Preparing, task, net, history
  <2>3. CASE ReportAck
    <3>1. /\ replies > 0 /\ reportAck' = TRUE
          /\ UNCHANGED <<pc, posted, timer, uplink, packed, delivered>>
      BY <2>3 DEF ReportAck, task, history
    <3>2. /\ Outstanding /\ ~(pc \in {"read", "advance", "send"})
          /\ packed \subseteq delivered
      BY <1>1, <3>1 DEF ReplyInv
    <3>3. Outstanding' /\ ~(pc' \in {"read", "advance", "send"})
      BY <3>1, <3>2 DEF Outstanding, Preparing
    <3> QED
      BY <3>1, <3>2, <3>3 DEF ReplyInv
  <2>4. CASE ReportTimeout
    <3>1. uplink = <<>> /\ replies = 0 /\ reportAck' = FALSE
      BY <1>1, <2>4 DEF ReportTimeout
    <3>2. uplink' = <<>> /\ replies' = 0
      BY <2>4, <3>1 DEF ReportTimeout
    <3> QED
      BY <3>1, <3>2 DEF ReplyInv
  <2> QED
    BY <1>4, <2>1, <2>2, <2>3, <2>4 DEF MainTask
<1>5. CASE Save
  BY <1>5, <1>2 DEF Save, SaveWrite, SaveCount, Outstanding, Preparing, task,
                    mainTask, net
<1>6. CASE Environment
  <2> USE DEF ctrl, task, mainTask, history
  <2>1. CASE Login \/ LinkLost \/ Deauthorise \/ LinkDies
    BY <2>1, <1>2 DEF Login, LinkLost, Deauthorise, LinkDies, Outstanding, Preparing
  <2>2. CASE PlatformReplies \/ PlatformSilent
    <3>1. uplink = <<packed>>
      BY <2>2 DEF PlatformReplies, PlatformSilent, ReplyInv
    <3>2. Head(uplink) = packed /\ Tail(uplink) = <<>>
      BY <3>1
    <3>3. uplink' = <<>> /\ delivered' = delivered \cup packed
      BY <2>2, <3>2 DEF PlatformReplies, PlatformSilent
    <3>4. UNCHANGED <<pc, packed, posted, timer, reportAck>>
      BY <2>2 DEF PlatformReplies, PlatformSilent
    <3>5. Outstanding /\ ~(pc \in {"read", "advance", "send"})
      BY <2>2 DEF PlatformReplies, PlatformSilent, ReplyInv
    <3>6. Outstanding' /\ ~(pc' \in {"read", "advance", "send"})
      BY <3>4, <3>5 DEF Outstanding, Preparing
    <3> QED
      BY <3>3, <3>4, <3>6 DEF ReplyInv
  <2> QED
    BY <1>6, <2>1, <2>2 DEF Environment
<1>7. CASE Power
  BY <1>7, <1>2, PowerIsBackUp DEF BackUpNode, task, mainTask, net, history, Outstanding,
                                  Preparing
<1>8. CASE UNCHANGED vars
  BY <1>8, <1>2 DEF vars, task, mainTask, net, history, Outstanding, Preparing
<1> QED
  BY <1>3, <1>4, <1>5, <1>6, <1>7, <1>8 DEF Next

-----------------------------------------------------------------------------
(* The control record that BlindStore is shown. *)

\* What Settled is in each case: the queue, the copy, or the copy with the one
\* save since.  The queue in RAM is its end.
SettledFacts ==
  /\ ~Outstanding => Settled = Shown
  /\ Outstanding /\ windowSaves = 0 => Settled = backup /\ Shown = q
  /\ Outstanding /\ windowSaves # 0 => Settled = AdvanceTail(MakeRoom(backup))
  /\ Settled \in Control /\ InShape(Settled)
  /\ Shown \in Control /\ InShape(Shown)
  /\ Shown.tail = Settled.tail /\ Shown.len <= Settled.len

\* These facts follow from the window of the pack that is out.
LEMMA SettledValue == Sound /\ WindowInv => SettledFacts
<1> SUFFICES ASSUME Sound, WindowInv PROVE SettledFacts
  OBVIOUS
<1>1. /\ q \in Control /\ backup \in Control /\ InShape(backup)
      /\ Outstanding => backup.len > 0
      /\ Preparing => Idle
      /\ Idle => InShape(q)
      /\ ~Idle => InShape(AdvanceTail(q))
  BY DEF Sound, IndInv, TypeOK, ShapeInv, QueueShape, Idle
<1>2. Shown \in Control /\ InShape(Shown)
  BY <1>1, AdvanceTailType DEF Shown
<1>3. ASSUME Outstanding
      PROVE  /\ NodeResume(backup, TRUE) = backup
             /\ NodeResume(backup, FALSE) = AdvanceTail(MakeRoom(backup))
  BY <1>1, <1>3 DEF NodeResume, MakeRoom, IsCirQueueEmpty, Control
<1>4. CASE ~Outstanding
  <2>1. Settled = Shown
    BY <1>4 DEF Settled, Pending, Shown
  <2>2. Shown.len <= Shown.len
    BY <1>2 DEF Control
  <2> QED
    BY <1>2, <1>4, <2>1, <2>2 DEF SettledFacts
<1>5. CASE Outstanding /\ windowSaves = 0
  <2>1. /\ Idle /\ (Preparing \/ probe) = TRUE
        /\ q.tail = backup.tail /\ q.len <= backup.len
    BY <1>5 DEF WindowInv, Preparing
  <2>2. Settled = backup /\ Shown = q
    BY <1>3, <1>5, <2>1 DEF Settled, Pending, Shown
  <2> QED
    BY <1>1, <1>2, <1>5, <2>1, <2>2 DEF SettledFacts
<1>6. CASE Outstanding /\ windowSaves # 0
  <2>1. /\ ~(Idle /\ (Preparing \/ probe))
        /\ Shown.tail = Succ(backup.tail)
        /\ Shown.len <= IF backup.len = Cap THEN Cap ELSE backup.len + 1
    BY <1>6 DEF WindowInv
  <2>2. Settled = NodeResume(backup, FALSE)
    <3>1. CASE ~Idle
      BY <1>6, <3>1 DEF Settled
    <3>2. CASE Idle
      <4>1. (Preparing \/ probe) = FALSE
        BY <2>1, <3>2
      <4> QED
        BY <1>6, <3>2, <4>1 DEF Settled, Pending
    <3> QED
      BY <3>1, <3>2
  <2> DEFINE m == AdvanceTail(MakeRoom(backup))
  <2>3. Settled = m
    BY <1>3, <1>6, <2>2
  <2>4. /\ m \in Control /\ InShape(m) /\ m.tail = Succ(backup.tail)
        /\ backup.len = Cap => m.len = Cap
        /\ backup.len < Cap => m.len = backup.len + 1
    BY <1>1, SaveSlots
  <2>5. backup.len \in 0 .. Cap
    BY <1>1 DEF Control
  <2> HIDE DEF m
  <2>6. Shown.len <= m.len
    BY <2>1, <2>4, <2>5, CapAssumption
  <2> QED
    BY <1>2, <1>6, <2>1, <2>3, <2>4, <2>6 DEF SettledFacts, m
<1> QED
  BY <1>4, <1>5, <1>6

\* Nothing that BlindStore sees of the queue is changed.
Unmoved == Settled' = Settled /\ Shown' = Shown /\ slot' = slot /\ nextRec' = nextRec

\* What a step does to the store: a save, a confirmation, or nothing.  The step
\* that passes a record moves the queue in RAM and nothing else.
LEMMA StoreStep ==
  ASSUME Ordinary, Sound, WindowInv, ReplyInv, SettledFacts, SettledFacts', Next
  PROVE  \/ Unmoved /\ q' = q /\ (\A s \in Savers : ~SaveCount(s))
             /\ (packed' = packed \/ NodeBackup \/ ReadSlot)
             /\ (pc' = "advance" => pc = "advance" \/ ReadSlot)
             /\ UNCHANGED <<saving, saved, evicted>>
         \/ Unmoved /\ (\E s \in Savers : SaveCount(s))
         \/ PassSlot /\ Settled' = Settled
         \/ ReportTimeout /\ ~reportAck /\ Settled' = Settled /\ Shown' = Settled
         \/ ReportTimeout /\ reportAck /\ Settled' = Shown /\ Shown' = Shown /\ Shown = q
         \/ \E s \in Savers : SaveWrite(s) /\ Settled' = AdvanceTail(MakeRoom(Settled))
              /\ Shown' = AdvanceTail(MakeRoom(Shown)) /\ Shown = q
              /\ Pending = Settled
              /\ slot' = [slot EXCEPT ![Settled.tail] = nextRec]
<1>1. /\ q \in Control /\ backup \in Control /\ windowSaves \in Nat
      /\ probe \in BOOLEAN /\ timer \in BOOLEAN /\ posted \in Nat
      /\ saving \in [Savers -> Nat] /\ nextRec \in Nat /\ nextRec >= 1
      /\ pc = "advance" => q.len > 0
      /\ Outstanding => backup.len > 0
      /\ Preparing => Idle
      /\ Savers \subseteq {"main"} /\ Hazards = {}
  BY DEF Sound, IndInv, TypeOK, ShapeInv, Ordinary
<1>2. ASSUME UNCHANGED <<q, slot, saving, backup, probe, nextRec>>,
             Outstanding' <=> Outstanding, Preparing' <=> Preparing
      PROVE  Unmoved
  <2>1. Idle' <=> Idle
    BY <1>2 DEF Idle
  <2>2. Pending' = Pending
    <3>1. CASE Outstanding
      <4>1. CASE Preparing \/ probe
        <5>1. (Preparing \/ probe) = TRUE /\ (Preparing \/ probe)' = TRUE
          BY <1>2, <4>1
        <5> QED
          BY <1>2, <3>1, <5>1 DEF Pending
      <4>2. CASE ~(Preparing \/ probe)
        <5>1. (Preparing \/ probe) = FALSE /\ (Preparing \/ probe)' = FALSE
          BY <1>2, <4>2
        <5> QED
          BY <1>2, <3>1, <5>1 DEF Pending
      <4> QED
        BY <4>1, <4>2
    <3>2. CASE ~Outstanding
      BY <1>2, <3>2 DEF Pending
    <3> QED
      BY <3>1, <3>2
  <2> QED
    BY <1>2, <2>1, <2>2 DEF Unmoved, Settled, Shown
<1>3. CASE BlindTask
  <2> USE DEF ctrl, task, mainTask, net, power, history
  <2>0. ASSUME NEW s \in Savers, SaveCount(s) PROVE pc' = pc
    BY <2>0 DEF SaveCount
  <2>1. CASE TakeSemaphore \/ FindEmpty \/ SleepOver
    <3>1. /\ UNCHANGED <<q, slot, saving, saved, evicted, backup, probe, nextRec, packed>>
          /\ pc' # pc /\ pc' # "advance"
          /\ (Outstanding' <=> Outstanding) /\ (Preparing' <=> Preparing)
      BY <2>1 DEF TakeSemaphore, FindEmpty, SleepOver, Outstanding, Preparing
    <3> QED
      BY <1>2, <2>0, <3>1
  <2>2. CASE NodeBackup
    <3>1. /\ ~Outstanding /\ Idle /\ Idle' /\ backup' = q /\ windowSaves' = 0 /\ Outstanding'
          /\ UNCHANGED <<q, slot, saving, saved, evicted, nextRec>>
          /\ pc' # pc /\ pc' # "advance"
      BY <1>1, <2>2 DEF NodeBackup, Sound, IndInv, TypeOK, OneToken, Tokens, Outstanding,
                        Preparing, Idle
    <3>2. Settled = q /\ Shown = q /\ Settled' = q /\ Shown' = q
      BY <3>1 DEF SettledFacts, Shown
    <3> QED
      BY <2>0, <2>2, <3>1, <3>2 DEF Unmoved
  <2>3. CASE PackNothing \/ PackDone \/ BulkUpTrans
    <3>1. /\ UNCHANGED <<q, slot, saving, saved, evicted, backup, probe, nextRec, packed>>
          /\ (pc' # pc \/ items' # items) /\ pc' # "advance"
          /\ (Outstanding' <=> Outstanding) /\ (Preparing' <=> Preparing)
      <4>1. CASE PackNothing
        <5>1. items' # items
          BY <4>1, PackNumAssumption DEF PackNothing, Sound, IndInv, TypeOK
        <5> QED
          BY <4>1, <5>1 DEF PackNothing, Outstanding, Preparing
      <4>2. CASE PackDone \/ BulkUpTrans
        BY <4>2 DEF PackDone, BulkUpTrans, Outstanding, Preparing
      <4> QED
        BY <2>3, <4>1, <4>2
    <3>2. ASSUME NEW s \in Savers, SaveCount(s) PROVE items' = items /\ pc' = pc
      BY <3>2 DEF SaveCount
    <3> QED
      BY <1>2, <3>1, <3>2
  <2>4. CASE ReadSlot
    <3>1. /\ UNCHANGED <<q, slot, saving, saved, evicted, backup, probe, nextRec>>
          /\ pc' # pc
          /\ (Outstanding' <=> Outstanding) /\ (Preparing' <=> Preparing)
      BY <2>4 DEF ReadSlot, Outstanding, Preparing
    <3> QED
      BY <1>2, <2>0, <2>4, <3>1
  <2>5. CASE PassSlot
    <3>1. /\ Outstanding /\ Outstanding' /\ UNCHANGED <<backup, windowSaves>> /\ Preparing
      BY <2>5 DEF PassSlot, Outstanding, Preparing
    <3>2. windowSaves = 0
      BY <1>1, <3>1 DEF WindowInv
    <3> QED
      BY <2>5, <3>1, <3>2 DEF SettledFacts
  <2>6. CASE SetProbe
    <3>1. /\ Outstanding /\ Outstanding' /\ Idle /\ Idle' /\ windowSaves = 0
          /\ UNCHANGED <<q, slot, saving, saved, evicted, backup, windowSaves, nextRec, packed>>
          /\ pc' # pc /\ pc' # "advance"
      <4>1. Outstanding /\ Outstanding' /\ Preparing
        BY <2>6 DEF SetProbe, Sound, CallbackInv, Outstanding, Preparing
      <4>2. Idle /\ windowSaves = 0
        BY <1>1, <4>1 DEF WindowInv
      <4> QED
        BY <2>6, <4>1, <4>2 DEF SetProbe, Idle
    <3>2. Settled' = Settled /\ Shown' = Shown
      BY <3>1 DEF SettledFacts
    <3> QED
      BY <2>0, <3>1, <3>2 DEF Unmoved
  <2> QED
    BY <1>3, <2>1, <2>2, <2>3, <2>4, <2>5, <2>6 DEF BlindTask
<1>0. ASSUME NEW s \in Savers, SaveCount(s) PROVE saving' # saving
  BY <1>0, <1>1 DEF SaveCount, None
<1>4. CASE MainTask
  <2>1. CASE StartReportTimer \/ ReportAck \/ ResetProbe
    <3>1. CASE StartReportTimer \/ ReportAck
      <4>1. /\ UNCHANGED <<q, slot, saving, saved, evicted, backup, probe, nextRec, packed, pc>>
            /\ (Outstanding' <=> Outstanding) /\ (Preparing' <=> Preparing)
        BY <1>1, <3>1 DEF StartReportTimer, ReportAck, Outstanding, Preparing, ctrl, task,
                          history
      <4> QED
        BY <1>0, <1>2, <4>1
    <3>2. CASE ResetProbe
      <4>1. /\ UNCHANGED <<q, slot, saving, saved, evicted, backup, nextRec, packed, pc>>
            /\ ~Outstanding /\ ~Outstanding' /\ (Idle' <=> Idle)
        BY <3>2 DEF ResetProbe, Sound, CallbackInv, Outstanding, Preparing, task, history,
                    Idle
      <4>2. Settled' = Settled /\ Shown' = Shown
        BY <4>1 DEF SettledFacts, Shown
      <4> QED
        BY <1>0, <4>1, <4>2 DEF Unmoved
    <3> QED
      BY <2>1, <3>1, <3>2
  <2>2. CASE ReportTimeout
    <3>1. Idle /\ Idle' /\ ~Outstanding' /\ Outstanding /\ ~Preparing
      <4>1. Idle /\ saving' = saving
        BY <1>1, <2>2 DEF ReportTimeout, MainFree, Idle
      <4> QED
        BY <2>2, <4>1, TimeoutDecides DEF Sound, Idle
    <3>2. Shown = q /\ Settled' = q' /\ Shown' = q'
      BY <3>1 DEF SettledFacts, Shown
    <3>3. CASE reportAck
      <4>1. q' = q
        BY <2>2, <3>3 DEF ReportTimeout
      <4> QED
        BY <2>2, <3>2, <3>3, <4>1
    <3>4. CASE ~reportAck
      <4>1. q' = NodeResume(backup, probe)
        BY <2>2, <3>4, Zenon DEF ReportTimeout
      <4>2. (Preparing \/ probe) = probe
        BY <1>1, <3>1
      <4>3. Settled = NodeResume(backup, probe)
        BY <3>1, <4>2 DEF Settled, Pending
      <4> QED
        BY <2>2, <3>2, <3>4, <4>1, <4>3
    <3> QED
      BY <3>3, <3>4
  <2> QED
    BY <1>4, <2>1, <2>2 DEF MainTask
<1>5. CASE Save
  <2>1. PICK s \in Savers : SaveWrite(s) \/ SaveCount(s)
    BY <1>5 DEF Save
  <2>2. CASE SaveWrite(s)
    <3>1. /\ Idle /\ ~Preparing /\ q' = MakeRoom(q)
          /\ slot' = [slot EXCEPT ![MakeRoom(q).tail] = nextRec]
          /\ saving' = [saving EXCEPT ![s] = nextRec]
          /\ Outstanding => windowSaves = 0
          /\ windowSaves' = IF Outstanding THEN windowSaves + 1 ELSE windowSaves
          /\ UNCHANGED <<backup, probe, pc, posted, timer>>
      BY <1>1, <2>2 DEF SaveWrite, ctrl, task, mainTask
    <3>2. ~Idle' /\ (Outstanding' <=> Outstanding)
      BY <1>1, <3>1 DEF Idle, None, Outstanding, Preparing
    <3>3. Shown = q /\ Shown' = AdvanceTail(MakeRoom(q))
      BY <3>1, <3>2 DEF Shown
    <3>4. MakeRoom(q).tail = q.tail
      <4>1. InShape(q)
        BY <3>3 DEF SettledFacts
      <4> QED
        BY <1>1, <4>1, SaveSlots
    <3>5. Settled' = AdvanceTail(MakeRoom(Settled))
      <4>1. CASE Outstanding
        <5>1. windowSaves = 0 /\ windowSaves' # 0 /\ Outstanding'
          BY <3>1, <3>2, <4>1
        <5> QED
          BY <3>1, <4>1, <5>1 DEF SettledFacts
      <4>2. CASE ~Outstanding
        BY <3>2, <3>3, <4>2 DEF SettledFacts
      <4> QED
        BY <4>1, <4>2
    <3>6. Pending = Settled
      BY <3>1 DEF Settled
    <3>7. slot' = [slot EXCEPT ![Settled.tail] = nextRec]
      BY <3>1, <3>3, <3>4 DEF SettledFacts
    <3> QED
      BY <2>2, <3>3, <3>5, <3>6, <3>7
  <2>3. CASE SaveCount(s)
    <3>1. /\ saving[s] # None /\ q' = AdvanceTail(q)
          /\ saving' = [saving EXCEPT ![s] = None] /\ probe' = FALSE
          /\ UNCHANGED <<slot, nextRec, backup, pc, posted, timer, windowSaves>>
      BY <2>3 DEF SaveCount, task, mainTask
    <3>2. ~Idle /\ Idle'
      BY <1>1, <3>1 DEF Idle, None
    <3>3. (Outstanding' <=> Outstanding) /\ (Outstanding => windowSaves # 0)
      BY <1>1, <3>1, <3>2 DEF Outstanding, Preparing, WindowInv
    <3>4. Shown' = Shown
      BY <3>1, <3>2 DEF Shown
    <3>5. Settled' = Settled
      BY <3>1, <3>3, <3>4 DEF SettledFacts
    <3> QED
      BY <2>3, <3>1, <3>4, <3>5 DEF Unmoved
  <2> QED
    BY <2>1, <2>2, <2>3
<1>6. CASE Environment \/ Power
  <2>1. UNCHANGED <<q, slot, saving, saved, evicted, backup, probe, nextRec, packed, pc, posted,
                    timer>>
    <3>1. CASE Environment
      BY <3>1 DEF Environment, Login, LinkLost, Deauthorise, LinkDies, PlatformReplies,
                  PlatformSilent, ctrl, task, mainTask, history
    <3>2. CASE Power
      BY <3>2, PowerIsBackUp DEF BackUpNode, task, mainTask, history
    <3> QED
      BY <1>6, <3>1, <3>2
  <2>2. (Outstanding' <=> Outstanding) /\ (Preparing' <=> Preparing)
    BY <2>1 DEF Outstanding, Preparing
  <2> QED
    BY <1>0, <1>2, <2>1, <2>2
<1> QED
  BY <1>3, <1>4, <1>5, <1>6 DEF Next

-----------------------------------------------------------------------------
(* The records in the slots. *)

\* The records of s in the order of c, followed by r, are those of t in the
\* order of m; without room the oldest one has given way.
Appended(c, s, r, m, t) ==
  /\ c.len \in 0 .. Cap /\ m.len \in 1 .. Cap
  /\ t[SlotAt(m, m.len)] = r
  /\ c.len = Cap => /\ m.len = Cap
                    /\ \A i \in 1 .. Cap - 1 : t[SlotAt(m, i)] = s[SlotAt(c, i + 1)]
  /\ c.len < Cap => /\ m.len = c.len + 1
                    /\ \A i \in 1 .. c.len : t[SlotAt(m, i)] = s[SlotAt(c, i)]

\* This is what a save into the slot at the tail does.
LEMMA SaveContents ==
  ASSUME NEW c \in Control, InShape(c), NEW s \in [Index -> Nat], NEW r \in Nat,
         NEW m, m = AdvanceTail(MakeRoom(c)),
         NEW t, t = [s EXCEPT ![c.tail] = r]
  PROVE  Appended(c, s, r, m, t)
<1> USE DEF Appended
<1>1. c.len \in 0 .. Cap /\ c.tail \in Index
  BY DEF Control
<1>2. t[c.tail] = r /\ \A x \in Index : x # c.tail => t[x] = s[x]
  BY <1>1
<1>3. CASE c.len = Cap
  <2>1. /\ m.len = Cap /\ SlotAt(m, Cap) = c.tail /\ SlotAt(c, 1) = c.tail
        /\ \A i \in 1 .. Cap - 1 : SlotAt(m, i) = SlotAt(c, i + 1)
    BY <1>3, SaveSlots
  <2>2. ASSUME NEW i \in 1 .. Cap - 1
        PROVE  t[SlotAt(m, i)] = s[SlotAt(c, i + 1)]
    <3>1. i + 1 \in 1 .. Cap /\ 1 \in 1 .. Cap /\ i + 1 # 1 /\ i + 1 \in 1 .. Cap + 1
      BY CapAssumption
    <3>2. SlotAt(c, i + 1) # c.tail
      BY <2>1, <3>1, SlotAtDiffers
    <3>3. SlotAt(c, i + 1) \in Index
      BY <3>1, SlotAtValue
    <3> QED
      BY <1>2, <2>1, <3>2, <3>3
  <2> QED
    BY <1>1, <1>2, <1>3, <2>1, <2>2, CapAssumption
<1>4. CASE c.len < Cap
  <2>1. /\ m.len = c.len + 1 /\ SlotAt(m, c.len + 1) = c.tail
        /\ \A i \in 1 .. c.len : SlotAt(m, i) = SlotAt(c, i)
    BY <1>4, SaveSlots
  <2>2. ASSUME NEW i \in 1 .. c.len
        PROVE  t[SlotAt(m, i)] = s[SlotAt(c, i)]
    <3>1. i \in 1 .. Cap /\ c.len + 1 \in 1 .. Cap /\ i # c.len + 1 /\ i \in 1 .. Cap + 1
      BY <1>1, <1>4, CapAssumption
    <3>2. SlotAt(c, i) # c.tail
      BY <3>1, SlotAtDiffers, SlotAtTail
    <3>3. SlotAt(c, i) \in Index
      BY <3>1, SlotAtValue
    <3> QED
      BY <1>2, <2>1, <3>2, <3>3
  <2>3. c.len # Cap /\ m.len \in 1 .. Cap
    BY <1>1, <1>4, <2>1, CapAssumption
  <2> QED
    BY <1>1, <1>2, <1>4, <2>1, <2>2, <2>3
<1> QED
  BY <1>1, <1>3, <1>4, CapAssumption

\* The numbers that have been given to records.
Known == 1 .. (nextRec - 1)

\* The store holds records that were put, and those that the queue in RAM has
\* passed are in the pack.
ContentInv ==
  /\ \A i \in 1 .. Settled.len : slot[SlotAt(Settled, i)] \in Known
  /\ packed \subseteq Known
  /\ \A i \in 1 .. (Settled.len - Shown.len) : slot[SlotAt(Settled, i)] \in packed
  /\ pc = "advance" => slot[q.head] \in packed

\* The oldest record of the queue in RAM, as the store sees it.
LEMMA HeadIsNext ==
  ASSUME Sound, WindowInv, Preparing, q.len > 0
  PROVE  /\ Settled.len - q.len + 1 \in 1 .. Settled.len /\ Shown = q
         /\ q.head = SlotAt(Settled, Settled.len - q.len + 1)
<1>1. SettledFacts
  BY SettledValue
<1>2. Idle /\ Shown = q /\ q \in Control
  BY DEF Sound, IndInv, TypeOK, ShapeInv, Shown
<1>3. q.head \in 0 .. Cap - 1 /\ q.len \in 1 .. Cap /\ Settled.len \in 0 .. Cap
  BY <1>1, <1>2, CapAssumption DEF SettledFacts, Control, Index
<1>4. SlotAt(q, 1) = q.head
  <2>1. SlotAt(q, 1) = IF q.head + 1 - 1 < Cap THEN q.head + 1 - 1 ELSE q.head + 1 - 1 - Cap
    BY <1>2, SlotAtValue, CapAssumption
  <2> QED
    BY <1>3, <2>1, CapAssumption
<1>5. SlotAt(q, 1) = SlotAt(Settled, Settled.len - q.len + 1)
  BY <1>1, <1>2, <1>3, SameEnd DEF SettledFacts
<1>6. q.len <= Settled.len
  BY <1>1, <1>2 DEF SettledFacts
<1> QED
  BY <1>2, <1>3, <1>4, <1>5, <1>6

\* Every step keeps ContentInv.
LEMMA NextContentInv ==
  ASSUME Ordinary, Sound, WindowInv, ReplyInv, Sound', WindowInv', ContentInv,
         [Next]_vars
  PROVE  ContentInv'
<1>1. SettledFacts /\ SettledFacts'
  <2>1. SettledFacts
    BY SettledValue
  <2>2. SettledFacts'
    BY SettledValue, PTL
  <2> QED
    BY <2>1, <2>2
<1>2. /\ slot \in [Index -> Nat] /\ nextRec \in Nat /\ nextRec >= 1
      /\ q \in Control
      /\ Settled.len \in 0 .. Cap /\ Shown.len \in 0 .. Cap
      /\ pc = "advance" => q.len > 0
  BY <1>1 DEF Sound, IndInv, TypeOK, ShapeInv, SettledFacts, Control
<1>3. CASE UNCHANGED vars
  BY <1>3 DEF vars, ctrl, task, mainTask, history, ContentInv, Settled, Shown, Pending,
              Idle, Outstanding, Preparing, Known
<1>4. CASE Next
  <2>1. CASE Unmoved /\ q' = q /\ (packed' = packed \/ NodeBackup \/ ReadSlot)
               /\ (pc' = "advance" => pc = "advance" \/ ReadSlot)
    <3>1. CASE ReadSlot
      <4>1. Preparing /\ q.len > 0 /\ packed' = packed \cup {slot[q.head]}
        BY <1>2, <3>1 DEF ReadSlot, Preparing, IsCirQueueEmpty, Control
      <4>2. slot[q.head] \in Known
        BY <4>1, HeadIsNext DEF ContentInv
      <4> QED
        BY <2>1, <4>1, <4>2 DEF ContentInv, Unmoved, Known
    <3>2. CASE NodeBackup
      <4>1. packed' = {} /\ pc' # "advance" /\ Settled.len - Shown.len = 0
        <5>1. /\ pc = "backup" /\ sem \in Nat /\ posted \in Nat /\ timer \in BOOLEAN
              /\ Tokens <= 1
          <6>1. TypeOK /\ OneToken
            BY DEF Sound, IndInv
          <6> QED
            BY <3>2, <6>1 DEF NodeBackup, TypeOK, OneToken
        <5>2. ~Outstanding
          <6>1. ~timer /\ posted = 0
            BY <5>1 DEF Tokens
          <6> QED
            BY <5>1, <6>1 DEF Outstanding, Preparing
        <5> QED
          BY <1>1, <1>2, <3>2, <5>2 DEF NodeBackup, SettledFacts
      <4> QED
        BY <2>1, <4>1 DEF ContentInv, Unmoved, Known
    <3>3. CASE packed' = packed /\ ~ReadSlot
      BY <2>1, <3>3 DEF ContentInv, Unmoved, Known
    <3> QED
      BY <2>1, <3>1, <3>2, <3>3
  <2>2. CASE Unmoved /\ \E s \in Savers : SaveCount(s)
    <3>1. PICK s \in Savers : SaveCount(s)
      BY <2>2
    <3>2. packed' = packed /\ pc' = pc
      BY <3>1 DEF SaveCount, task
    <3>3. pc # "advance"
      <4>1. ~Idle
        BY <3>1 DEF SaveCount, Idle
      <4> QED
        BY <4>1 DEF Sound, ShapeInv, Preparing
    <3> QED
      BY <2>2, <3>2, <3>3 DEF ContentInv, Unmoved, Known
  <2>3. CASE PassSlot /\ Settled' = Settled
    <3>1. /\ Preparing /\ Preparing' /\ pc = "advance" /\ pc' = "read" /\ q' = AdvanceHead(q)
          /\ UNCHANGED <<slot, packed, nextRec, saving>>
      BY <2>3 DEF PassSlot, Preparing
    <3>2. /\ Shown = q /\ q.head = SlotAt(Settled, Settled.len - q.len + 1)
      BY <1>2, <3>1, HeadIsNext
    <3>3. q'.len = q.len - 1
      BY <1>2, <3>1, PassedSlots
    <3>4. Shown' = q'
      <4>1. Idle'
        BY <3>1 DEF Sound, ShapeInv
      <4> QED
        BY <4>1 DEF Shown
    <3>5. ASSUME NEW i \in 1 .. (Settled.len - q'.len)
          PROVE  slot[SlotAt(Settled, i)] \in packed
      <4>1. i \in 1 .. (Settled.len - q.len) \/ i = Settled.len - q.len + 1
        BY <1>2, <3>2, <3>3
      <4> QED
        BY <3>1, <3>2, <4>1 DEF ContentInv
    <3> QED
      BY <2>3, <3>1, <3>4, <3>5 DEF ContentInv, Known
  <2>4. CASE ReportTimeout /\ Settled' = Shown' /\ (Settled' = Settled \/ Settled' = Shown)
    <3>1. UNCHANGED <<slot, packed, nextRec>> /\ pc' # "advance"
      <4>1. pc' \in {"take", "sleep"}
        BY <2>4, TimeoutDecides DEF Sound
      <4> QED
        BY <2>4, <4>1 DEF ReportTimeout, task
    <3>2. ASSUME NEW i \in 1 .. Shown.len
          PROVE  slot[SlotAt(Shown, i)] \in Known
      <4>1. /\ SlotAt(Shown, i) = SlotAt(Settled, Settled.len - Shown.len + i)
            /\ Shown.len <= Settled.len
        BY <1>1, SameEnd DEF SettledFacts
      <4>2. Settled.len - Shown.len + i \in 1 .. Settled.len
        BY <1>2, <4>1
      <4> QED
        BY <4>1, <4>2 DEF ContentInv
    <3>3. \A i \in 1 .. Settled'.len : slot[SlotAt(Settled', i)] \in Known
      BY <2>4, <3>2 DEF ContentInv
    <3>4. Settled'.len - Shown'.len = 0
      BY <1>2, <2>4
    <3> QED
      BY <3>1, <3>3, <3>4 DEF ContentInv, Known
  <2>5. CASE \E s \in Savers :
               SaveWrite(s) /\ Settled' = AdvanceTail(MakeRoom(Settled))
                 /\ Shown' = AdvanceTail(MakeRoom(Shown)) /\ Shown = q
                 /\ Pending = Settled
                 /\ slot' = [slot EXCEPT ![Settled.tail] = nextRec]
    <3>1. PICK s \in Savers :
            SaveWrite(s) /\ Settled' = AdvanceTail(MakeRoom(Settled))
              /\ Shown' = AdvanceTail(MakeRoom(Shown))
              /\ slot' = [slot EXCEPT ![Settled.tail] = nextRec]
      BY <2>5
    <3>2. /\ ~Preparing /\ nextRec' = nextRec + 1 /\ packed' = packed /\ pc' = pc
      BY <3>1 DEF SaveWrite, task, Sound, Ordinary
    <3>3. /\ Known \subseteq Known' /\ nextRec \in Known'
      BY <1>2, <3>2 DEF Known
    <3>4. Appended(Settled, slot, nextRec, Settled', slot')
      <4>1. Settled \in Control /\ InShape(Settled) /\ nextRec \in Nat
        BY <1>1, <1>2 DEF SettledFacts
      <4> QED
        BY <1>2, <3>1, <4>1, SaveContents
    <3>5. /\ Shown.len = Cap => Shown'.len = Cap
          /\ Shown.len < Cap => Shown'.len = Shown.len + 1
          /\ Shown.len <= Settled.len
      BY <1>1, <3>1, SaveSlots DEF SettledFacts
    <3> USE DEF Appended
    <3>6. ASSUME NEW i \in 1 .. Settled'.len
          PROVE  slot'[SlotAt(Settled', i)] \in Known'
      <4>1. CASE i = Settled'.len
        BY <3>3, <3>4, <4>1
      <4>2. CASE i # Settled'.len /\ Settled.len = Cap
        <5>1. i \in 1 .. Cap - 1 /\ i + 1 \in 1 .. Settled.len
          BY <3>4, <4>2, CapAssumption
        <5> QED
          BY <3>3, <3>4, <4>2, <5>1 DEF ContentInv
      <4>3. CASE i # Settled'.len /\ Settled.len < Cap
        <5>1. i \in 1 .. Settled.len
          BY <3>4, <4>3, CapAssumption
        <5> QED
          BY <3>3, <3>4, <4>3, <5>1 DEF ContentInv
      <4> QED
        BY <1>2, <4>1, <4>2, <4>3, CapAssumption
    <3>7. ASSUME NEW i \in 1 .. (Settled'.len - Shown'.len)
          PROVE  slot'[SlotAt(Settled', i)] \in packed
      <4>1. CASE Settled.len = Cap
        <5>1. Shown.len < Cap
          BY <1>2, <3>4, <3>5, <3>7, <4>1, CapAssumption
        <5>2. i \in 1 .. Cap - 1 /\ i + 1 \in 1 .. (Settled.len - Shown.len)
          BY <1>2, <3>4, <3>5, <3>7, <4>1, <5>1, CapAssumption
        <5> QED
          BY <3>4, <4>1, <5>2 DEF ContentInv
      <4>2. CASE Settled.len < Cap
        <5>1. i \in 1 .. Settled.len /\ i \in 1 .. (Settled.len - Shown.len)
          BY <1>2, <3>4, <3>5, <3>7, <4>2, CapAssumption
        <5> QED
          BY <3>4, <4>2, <5>1 DEF ContentInv
      <4> QED
        BY <1>2, <4>1, <4>2, CapAssumption
    <3>8. pc' # "advance" /\ packed' \subseteq Known'
      BY <3>2, <3>3 DEF Preparing, ContentInv
    <3> QED
      BY <3>2, <3>6, <3>7, <3>8 DEF ContentInv
  <2> QED
    BY <1>1, <1>4, <2>1, <2>2, <2>3, <2>4, <2>5, StoreStep
<1> QED
  BY <1>3, <1>4

-----------------------------------------------------------------------------
(* No record is lost silently. *)

\* A record that was saved waits in the store, reached the platform, or was
\* overwritten; the one whose save is in progress stands under the tail.
LossInv ==
  /\ saved \subseteq Known
  /\ \A s \in Savers : saving[s] # None =>
       /\ saving[s] = nextRec - 1 /\ slot[q.tail] = nextRec - 1
       /\ nextRec - 1 \notin saved
  /\ \A r \in saved : \/ \E i \in 1 .. Settled.len : slot[SlotAt(Settled, i)] = r
                      \/ r \in delivered \cup evicted

\* The history of the records only grows.
LEMMA HistoryGrows ==
  ASSUME Ordinary, Sound, Next
  PROVE  delivered \subseteq delivered' /\ evicted \subseteq evicted'
<1>1. CASE BlindTask \/ MainTask
  BY <1>1 DEF BlindTask, TakeSemaphore, FindEmpty, SleepOver, NodeBackup, PackNothing,
              ReadSlot, PassSlot, PackDone, BulkUpTrans, SetProbe, MainTask,
              StartReportTimer, ReportTimeout, ResetProbe, ReportAck, history
<1>2. CASE Save
  BY <1>2 DEF Save, SaveWrite, SaveCount
<1>3. CASE Environment
  BY <1>3 DEF Environment, Login, LinkLost, Deauthorise, LinkDies, PlatformReplies,
              PlatformSilent, history
<1>4. CASE Power
  BY <1>4, PowerIsBackUp DEF BackUpNode, history
<1> QED
  BY <1>1, <1>2, <1>3, <1>4 DEF Next

\* Every step keeps LossInv.
LEMMA NextLossInv ==
  ASSUME Ordinary, Sound, WindowInv, ReplyInv, ContentInv, Sound', WindowInv', LossInv,
         [Next]_vars
  PROVE  LossInv'
<1>1. SettledFacts /\ SettledFacts'
  <2>1. SettledFacts
    BY SettledValue
  <2>2. SettledFacts'
    BY SettledValue, PTL
  <2> QED
    BY <2>1, <2>2
<1>2. /\ slot \in [Index -> Nat] /\ nextRec \in Nat /\ nextRec >= 1
      /\ q \in Control /\ q.tail \in Index
      /\ saving \in [Savers -> Nat] /\ Savers \subseteq {"main"} /\ Hazards = {}
      /\ Settled.len \in 0 .. Cap /\ Shown.len \in 0 .. Cap
      /\ Preparing => Idle
  BY <1>1 DEF Sound, IndInv, TypeOK, ShapeInv, SettledFacts, Control, Ordinary
<1>3. CASE UNCHANGED vars
  BY <1>3 DEF vars, ctrl, task, mainTask, history, net, LossInv, Settled, Shown, Pending,
              Idle, Outstanding, Preparing, Known
<1>4. CASE Next
  <2>0. delivered \subseteq delivered' /\ evicted \subseteq evicted'
    BY <1>4, HistoryGrows
  <2>a. ASSUME Idle', saved' = saved, nextRec' = nextRec,
               \A r \in saved : \/ \E i \in 1 .. Settled'.len : slot'[SlotAt(Settled', i)] = r
                                \/ r \in delivered' \cup evicted'
        PROVE  LossInv'
    BY <2>a DEF LossInv, Known, Idle
  <2>1. CASE Unmoved /\ q' = q /\ UNCHANGED <<saving, saved, evicted>>
    BY <2>0, <2>1 DEF LossInv, Unmoved, Known
  <2>2. CASE Unmoved /\ \E s \in Savers : SaveCount(s)
    <3>1. PICK s \in Savers : SaveCount(s)
      BY <2>2
    <3>2. /\ saving[s] # None /\ q' = AdvanceTail(q)
          /\ saving' = [saving EXCEPT ![s] = None]
          /\ saved' = saved \cup {saving[s]}
      BY <3>1 DEF SaveCount
    <3>3. ~Idle /\ Idle'
      BY <1>2, <3>2 DEF Idle, None
    <3>4. saving[s] = nextRec - 1 /\ slot[q.tail] = nextRec - 1 /\ nextRec - 1 \in Known
      BY <1>2, <3>2 DEF LossInv, None, Known
    <3>5. /\ Settled.len \in 1 .. Settled.len
          /\ SlotAt(Settled, Settled.len) = q.tail
      <4>1. Shown.tail = Succ(q.tail) /\ Shown.len > 0
        BY <1>2, <3>3, AdvanceTailType DEF Shown, AdvanceTail
      <4>2. Settled.tail = Succ(q.tail) /\ Settled.len > 0
        BY <1>1, <1>2, <4>1 DEF SettledFacts
      <4> QED
        BY <1>1, <1>2, <4>2, LastSlot DEF SettledFacts
    <3>6. ASSUME NEW r \in saved'
          PROVE  \/ \E i \in 1 .. Settled'.len : slot'[SlotAt(Settled', i)] = r
                 \/ r \in delivered' \cup evicted'
      <4>1. CASE r \in saved
        BY <2>0, <2>2, <4>1 DEF LossInv, Unmoved
      <4>2. CASE r = saving[s]
        BY <2>2, <3>4, <3>5, <4>2 DEF Unmoved
      <4> QED
        BY <3>2, <4>1, <4>2
    <3>7. saved' \subseteq Known'
      BY <2>2, <3>2, <3>4 DEF LossInv, Unmoved, Known
    <3> QED
      BY <3>3, <3>6, <3>7 DEF LossInv, Idle
  <2>3. CASE PassSlot /\ Settled' = Settled
    <3>1. /\ Idle' /\ UNCHANGED <<slot, saved, nextRec>>
      BY <1>2, <2>3 DEF PassSlot, Preparing, Idle, history
    <3> QED
      BY <2>0, <2>3, <2>a, <3>1 DEF LossInv
  <2>4. CASE ReportTimeout
    <3>1. Idle' /\ UNCHANGED <<slot, saved, nextRec, packed>>
      BY <1>2, <2>4 DEF ReportTimeout, MainFree, Idle, history, task
    <3>2. CASE Settled' = Settled
      BY <2>0, <2>a, <3>1, <3>2 DEF LossInv
    <3>3. CASE reportAck /\ Settled' = Shown
      <4>1. ASSUME NEW r \in saved
            PROVE  \/ \E i \in 1 .. Shown.len : slot[SlotAt(Shown, i)] = r
                   \/ r \in delivered' \cup evicted'
        <5>1. CASE r \in delivered \cup evicted
          BY <2>0, <5>1
        <5>2. CASE \E i \in 1 .. Settled.len : slot[SlotAt(Settled, i)] = r
          <6>1. PICK i \in 1 .. Settled.len : slot[SlotAt(Settled, i)] = r
            BY <5>2
          <6>2. CASE i <= Settled.len - Shown.len
            <7>1. r \in packed
              <8>1. i \in 1 .. (Settled.len - Shown.len)
                BY <1>2, <6>2
              <8> QED
                BY <6>1, <8>1 DEF ContentInv
            <7>2. packed \subseteq delivered
              BY <3>3 DEF ReplyInv
            <7> QED
              BY <2>0, <7>1, <7>2
          <6>3. CASE i > Settled.len - Shown.len
            <7> DEFINE j == i - (Settled.len - Shown.len)
            <7>1. j \in 1 .. Shown.len /\ i = Settled.len - Shown.len + j
              BY <1>2, <6>3
            <7> HIDE DEF j
            <7>2. SlotAt(Shown, j) = SlotAt(Settled, Settled.len - Shown.len + j)
              BY <1>1, <7>1, SameEnd DEF SettledFacts
            <7>3. slot[SlotAt(Shown, j)] = r
              BY <6>1, <7>1, <7>2
            <7> QED
              BY <7>1, <7>3
          <6> QED
            BY <1>2, <6>2, <6>3
        <5> QED
          BY <5>1, <5>2 DEF LossInv
      <4> QED
        BY <2>a, <3>1, <3>3, <4>1
    <3>4. CASE Unmoved
      BY <3>2, <3>4 DEF Unmoved
    <3>5. ~PassSlot /\ (\A s \in Savers : ~SaveWrite(s))
      <4>1. timer' = FALSE /\ timer
        BY <2>4 DEF ReportTimeout
      <4> QED
        BY <4>1 DEF PassSlot, SaveWrite, mainTask
    <3> QED
      BY <1>1, <1>4, <3>2, <3>3, <3>4, <3>5, StoreStep
  <2>5. CASE \E s \in Savers :
               SaveWrite(s) /\ Settled' = AdvanceTail(MakeRoom(Settled))
                 /\ Shown' = AdvanceTail(MakeRoom(Shown)) /\ Shown = q
                 /\ Pending = Settled
                 /\ slot' = [slot EXCEPT ![Settled.tail] = nextRec]
    <3>1. PICK s \in Savers :
            SaveWrite(s) /\ Settled' = AdvanceTail(MakeRoom(Settled))
              /\ Shown = q /\ Pending = Settled
              /\ slot' = [slot EXCEPT ![Settled.tail] = nextRec]
      BY <2>5
    <3>2. /\ Idle /\ nextRec' = nextRec + 1 /\ saved' = saved
          /\ saving' = [saving EXCEPT ![s] = nextRec] /\ q' = MakeRoom(q)
          /\ evicted' = IF IsCirQueueFull(Settled)
                          THEN evicted \cup {slot[Settled.head]} ELSE evicted
      BY <1>2, <3>1 DEF SaveWrite
    <3>3. Appended(Settled, slot, nextRec, Settled', slot')
      <4>1. Settled \in Control /\ InShape(Settled) /\ nextRec \in Nat
        BY <1>1, <1>2 DEF SettledFacts
      <4> QED
        BY <1>2, <3>1, <4>1, SaveContents
    <3>4. q'.tail = q.tail /\ slot'[q.tail] = nextRec
      <4>1. InShape(q) /\ Settled.tail = q.tail
        BY <1>1, <3>1 DEF SettledFacts
      <4>2. MakeRoom(q).tail = q.tail
        BY <1>2, <4>1, SaveSlots
      <4> QED
        BY <1>2, <3>1, <3>2, <4>1, <4>2
    <3>5. /\ nextRec' - 1 = nextRec /\ saved \subseteq Known' /\ nextRec \notin saved
      BY <1>2, <3>2 DEF LossInv, Known
    <3>6. \A t \in Savers : saving'[t] = nextRec
      BY <1>2, <3>2
    <3>7. ASSUME NEW r \in saved
          PROVE  \/ \E i \in 1 .. Settled'.len : slot'[SlotAt(Settled', i)] = r
                 \/ r \in delivered' \cup evicted'
      <4>1. CASE r \in delivered \cup evicted
        BY <2>0, <4>1
      <4>2. CASE \E i \in 1 .. Settled.len : slot[SlotAt(Settled, i)] = r
        <5>1. PICK i \in 1 .. Settled.len : slot[SlotAt(Settled, i)] = r
          BY <4>2
        <5>2. CASE Settled.len = Cap /\ i = 1
          <6>1. SlotAt(Settled, 1) = Settled.head
            <7>1. Settled \in Control /\ Settled.head \in 0 .. Cap - 1
              BY <1>1 DEF SettledFacts, Control, Index
            <7>2. SlotAt(Settled, 1) = IF Settled.head + 1 - 1 < Cap
                                         THEN Settled.head + 1 - 1
                                         ELSE Settled.head + 1 - 1 - Cap
              BY <7>1, SlotAtValue, CapAssumption
            <7> QED
              BY <7>1, <7>2, CapAssumption
          <6> QED
            BY <3>2, <5>1, <5>2, <6>1 DEF IsCirQueueFull
        <5>3. CASE Settled.len = Cap /\ i # 1
          <6> DEFINE j == i - 1
          <6>1. j \in 1 .. Cap - 1 /\ j + 1 = i
            BY <5>1, <5>3, CapAssumption
          <6> HIDE DEF j
          <6>2. slot'[SlotAt(Settled', j)] = r /\ j \in 1 .. Settled'.len
            BY <3>3, <5>1, <5>3, <6>1, CapAssumption DEF Appended
          <6> QED
            BY <6>2
        <5>4. CASE Settled.len < Cap
          <6>1. slot'[SlotAt(Settled', i)] = r /\ i \in 1 .. Settled'.len
            BY <1>2, <3>3, <5>1, <5>4, CapAssumption DEF Appended
          <6> QED
            BY <6>1
        <5> QED
          BY <1>2, <5>2, <5>3, <5>4, CapAssumption
      <4> QED
        BY <4>1, <4>2 DEF LossInv
    <3> QED
      BY <3>2, <3>4, <3>5, <3>6, <3>7 DEF LossInv
  <2> QED
    BY <1>1, <1>4, <2>1, <2>2, <2>3, <2>4, <2>5, StoreStep
<1> QED
  BY <1>3, <1>4

\* The invariant of the refinement.
StoreInv == Sound /\ WindowInv /\ ReplyInv /\ ContentInv /\ LossInv

\* The store is empty and the queue idle at the start.
LEMMA InitStoreInv == Init => StoreInv
<1> SUFFICES ASSUME Init PROVE StoreInv
  OBVIOUS
<1>1. ShapeInv
  BY EmptyControlShape DEF Init, ShapeInv, QueueShape, Preparing, Idle, None
<1>2. OneToken /\ CallbackInv /\ powered
  BY DEF Init, OneToken, Tokens, CallbackInv
<1>3. ~Outstanding /\ Idle
  BY DEF Init, Outstanding, Preparing, Idle
<1>4. Sound
  BY <1>1, <1>2, InitIndInv DEF Sound
<1>5. WindowInv /\ ReplyInv
  BY <1>3 DEF WindowInv, ReplyInv, Init
<1>6. Settled = EmptyControl /\ Shown = EmptyControl
  BY <1>3 DEF Init, Settled, Pending, Shown
<1>7. EmptyControl.len = 0
  BY DEF EmptyControl
<1>8. ContentInv
  BY <1>6, <1>7 DEF ContentInv, Init, Known
<1>9. LossInv
  BY <1>3 DEF LossInv, Init, Idle
<1> QED
  BY <1>4, <1>5, <1>8, <1>9 DEF StoreInv

\* Every step keeps the invariant of the refinement.
LEMMA NextStoreInv ==
  ASSUME Ordinary
  PROVE  StoreInv /\ [Next]_vars => StoreInv'
<1> SUFFICES ASSUME StoreInv, [Next]_vars PROVE StoreInv'
  OBVIOUS
<1>1. Sound' /\ WindowInv' /\ ReplyInv'
  BY NextSound, NextWindowInv, NextReplyInv DEF StoreInv
<1>2. ContentInv' /\ LossInv'
  BY <1>1, NextContentInv, NextLossInv DEF StoreInv
<1> QED
  BY <1>1, <1>2 DEF StoreInv

\* In the ordinary course of events, between restarts, a saved record leaves the
\* store only to the platform or because the store was full and it was the
\* oldest, whatever the capacity, the pack size and the order of saves, lost
\* replies, dropped and dead links and logins (Blind.c:345-410, 461-506).
THEOREM NothingLost ==
  ASSUME Ordinary
  PROVE  Spec => []NoSilentLoss
<1>1. Init => StoreInv
  BY InitStoreInv
<1>2. StoreInv /\ [Next]_vars => StoreInv'
  BY NextStoreInv
<1>3. StoreInv => NoSilentLoss
  <2> SUFFICES ASSUME StoreInv, NEW r \in saved, r \notin delivered \cup evicted
               PROVE  r \in Kept
    BY DEF NoSilentLoss
  <2>1. SettledFacts
    BY SettledValue DEF StoreInv
  <2>2. PICK i \in 1 .. Settled.len : slot[SlotAt(Settled, i)] = r
    BY DEF StoreInv, LossInv
  <2>3. ASSUME NEW j \in 1 .. Pending.len, slot[SlotAt(Pending, j)] = r
        PROVE  r \in Kept
    BY <2>3 DEF Kept, Live
  <2>4. CASE Idle
    BY <2>2, <2>3, <2>4 DEF Settled
  <2>5. CASE ~Idle
    <3>1. slot[q.tail] # r /\ q \in Control /\ ~Preparing
      BY <2>5 DEF StoreInv, LossInv, Idle, Sound, IndInv, TypeOK, ShapeInv
    <3>2. CASE ~Outstanding
      <4>1. Pending = q /\ Settled = AdvanceTail(q) /\ InShape(AdvanceTail(q))
        BY <2>1, <2>5, <3>2 DEF Pending, Settled, SettledFacts
      <4>2. i <= q.len /\ SlotAt(Settled, i) = SlotAt(q, i)
        BY <2>2, <3>1, <4>1, CountedSlots
      <4>3. i \in 1 .. q.len
        BY <2>1, <2>2, <3>1, <4>2 DEF SettledFacts, Control
      <4> QED
        BY <2>2, <2>3, <4>1, <4>2, <4>3
    <3>3. CASE Outstanding
      <4>1. /\ backup \in Control /\ InShape(backup) /\ probe \in BOOLEAN
            /\ Shown = AdvanceTail(q) /\ windowSaves # 0
        BY <2>5, <3>3 DEF StoreInv, Sound, IndInv, TypeOK, ShapeInv, QueueShape, Shown,
                          WindowInv
      <4>2. Settled = AdvanceTail(MakeRoom(backup))
        BY <2>1, <3>3, <4>1 DEF SettledFacts
      <4>3. CASE ~probe
        <5>1. (Preparing \/ probe) = FALSE
          BY <3>1, <4>3
        <5>2. Pending = Settled
          BY <2>5, <3>3, <5>1 DEF Pending, Settled
        <5> QED
          BY <2>2, <2>3, <5>2
      <4>4. CASE probe
        <5>1. Pending = backup
          BY <3>3, <4>4 DEF Pending, NodeResume
        <5>2. q.tail = backup.tail
          <6>1. Succ(q.tail) = Succ(backup.tail)
            BY <2>1, <3>1, <4>1, <4>2, SaveSlots DEF SettledFacts, AdvanceTail
          <6> QED
            BY <3>1, <4>1, <6>1, SuccInjective DEF Control
        <5>3. backup.len \in 0 .. Cap
          BY <4>1 DEF Control
        <5>4. CASE backup.len = Cap
          <6>1. /\ Settled.len = Cap /\ SlotAt(Settled, Cap) = backup.tail
                /\ \A j \in 1 .. Cap - 1 : SlotAt(Settled, j) = SlotAt(backup, j + 1)
            BY <4>1, <4>2, <5>4, SaveSlots
          <6>2. i \in 1 .. Cap - 1 /\ i + 1 \in 1 .. backup.len
            BY <2>2, <3>1, <5>2, <5>4, <6>1, CapAssumption
          <6> QED
            BY <2>2, <2>3, <5>1, <6>1, <6>2
        <5>5. CASE backup.len < Cap
          <6>1. /\ Settled.len = backup.len + 1 /\ SlotAt(Settled, backup.len + 1) = backup.tail
                /\ \A j \in 1 .. backup.len : SlotAt(Settled, j) = SlotAt(backup, j)
            BY <4>1, <4>2, <5>5, SaveSlots
          <6>2. i \in 1 .. backup.len
            BY <2>2, <3>1, <5>2, <5>3, <6>1
          <6> QED
            BY <2>2, <2>3, <5>1, <6>1, <6>2
        <5> QED
          BY <5>3, <5>4, <5>5, CapAssumption
      <4> QED
        BY <4>3, <4>4
    <3> QED
      BY <3>2, <3>3
  <2> QED
    BY <2>4, <2>5
<1> QED
  BY <1>1, <1>2, <1>3, PTL DEF Spec

-----------------------------------------------------------------------------
(* The upload implements the abstract store. *)

\* The records of a control record, oldest first.
EntriesOf(c, s) == [i \in 1 .. c.len |-> s[SlotAt(c, i)]]

\* They are a sequence as long as the control record says.
LEMMA EntriesOfType ==
  ASSUME NEW c \in Control, NEW s \in [Index -> Nat]
  PROVE  /\ EntriesOf(c, s) \in Seq(Nat)
         /\ Len(EntriesOf(c, s)) = c.len
         /\ \A i \in 1 .. c.len : EntriesOf(c, s)[i] = s[SlotAt(c, i)]
<1>1. c.len \in 0 .. Cap
  BY DEF Control
<1>2. ASSUME NEW i \in 1 .. c.len PROVE s[SlotAt(c, i)] \in Nat
  <2>1. i \in 1 .. Cap + 1
    BY <1>1, CapAssumption
  <2> QED
    BY <2>1, SlotAtValue
<1>3. EntriesOf(c, s) \in [1 .. c.len -> Nat]
  BY <1>2 DEF EntriesOf
<1>4. EntriesOf(c, s) \in Seq(Nat) /\ Len(EntriesOf(c, s)) = c.len
  BY <1>1, <1>3, SeqDef
<1> QED
  BY <1>4 DEF EntriesOf

\* A save appends its record.
LEMMA AppendedEntries ==
  ASSUME NEW c \in Control, NEW s \in [Index -> Nat], NEW r \in Nat,
         NEW m \in Control, NEW t \in [Index -> Nat], Appended(c, s, r, m, t)
  PROVE  LET e == EntriesOf(c, s) IN
         EntriesOf(m, t) = Append(IF Len(e) = Cap THEN Tail(e) ELSE e, r)
<1> DEFINE e == EntriesOf(c, s)
           f == EntriesOf(m, t)
<1>1. /\ e \in Seq(Nat) /\ Len(e) = c.len /\ \A i \in 1 .. c.len : e[i] = s[SlotAt(c, i)]
      /\ f \in Seq(Nat) /\ Len(f) = m.len /\ \A i \in 1 .. m.len : f[i] = t[SlotAt(m, i)]
  BY EntriesOfType
<1>2. /\ c.len \in 0 .. Cap /\ m.len \in 1 .. Cap
      /\ t[SlotAt(m, m.len)] = r
  BY DEF Appended
<1> HIDE DEF e, f
<1>3. CASE c.len = Cap
  <2>1. /\ m.len = Cap
        /\ \A i \in 1 .. Cap - 1 : t[SlotAt(m, i)] = s[SlotAt(c, i + 1)]
    BY <1>3 DEF Appended
  <2>2. e # <<>>
    BY <1>1, <1>3, CapAssumption, EmptySeq
  <2>3. /\ Tail(e) \in Seq(Nat) /\ Len(Tail(e)) = Cap - 1
        /\ \A i \in 1 .. Len(Tail(e)) : Tail(e)[i] = e[i + 1]
    BY <1>1, <1>3, <2>2, HeadTailProperties
  <2> DEFINE g == Append(Tail(e), r)
  <2>4. /\ g \in Seq(Nat) /\ Len(g) = Cap
        /\ \A i \in 1 .. Cap - 1 : g[i] = e[i + 1]
        /\ g[Cap] = r
    <3>1. /\ g \in Seq(Nat) /\ Len(g) = Len(Tail(e)) + 1
          /\ \A i \in 1 .. Len(Tail(e)) : g[i] = Tail(e)[i]
          /\ g[Len(Tail(e)) + 1] = r
      BY <2>3, AppendProperties
    <3>2. Len(Tail(e)) + 1 = Cap
      BY <2>3, CapAssumption
    <3> HIDE DEF g
    <3> QED
      BY <2>3, <3>1, <3>2
  <2> HIDE DEF g
  <2>5. ASSUME NEW i \in 1 .. Cap PROVE f[i] = g[i]
    <3>1. CASE i = Cap
      BY <1>1, <1>2, <2>1, <2>4, <3>1
    <3>2. CASE i < Cap
      <4>1. i \in 1 .. Cap - 1 /\ i + 1 \in 1 .. c.len
        BY <1>3, <3>2, CapAssumption
      <4> QED
        BY <1>1, <2>1, <2>4, <4>1
    <3> QED
      BY <3>1, <3>2, CapAssumption
  <2>6. f = g
    BY <1>1, <2>1, <2>4, <2>5, SeqEqual
  <2> QED
    BY <1>1, <1>3, <2>6 DEF e, f, g
<1>4. CASE c.len < Cap
  <2>1. /\ m.len = c.len + 1
        /\ \A i \in 1 .. c.len : t[SlotAt(m, i)] = s[SlotAt(c, i)]
    BY <1>4 DEF Appended
  <2> DEFINE g == Append(e, r)
  <2>2. /\ g \in Seq(Nat) /\ Len(g) = m.len
        /\ \A i \in 1 .. c.len : g[i] = e[i]
        /\ g[m.len] = r
    <3>1. /\ g \in Seq(Nat) /\ Len(g) = Len(e) + 1
          /\ \A i \in 1 .. Len(e) : g[i] = e[i]
          /\ g[Len(e) + 1] = r
      BY <1>1, AppendProperties
    <3> HIDE DEF g
    <3> QED
      BY <1>1, <2>1, <3>1
  <2> HIDE DEF g
  <2>3. ASSUME NEW i \in 1 .. m.len PROVE f[i] = g[i]
    <3>1. i = m.len \/ i \in 1 .. c.len
      BY <1>2, <2>1
    <3> QED
      BY <1>1, <1>2, <2>1, <2>2, <3>1
  <2>4. f = g
    BY <1>1, <2>2, <2>3, SeqEqual
  <2>5. Len(e) # Cap
    BY <1>1, <1>2, <1>4, CapAssumption
  <2> QED
    BY <2>4, <2>5 DEF e, f, g
<1> QED
  BY <1>2, <1>3, <1>4, CapAssumption

\* Of two queues that end at the same slot the shorter one holds the later
\* records.
LEMMA SameEndEntries ==
  ASSUME NEW c \in Control, InShape(c), NEW d \in Control, InShape(d),
         c.tail = d.tail, d.len <= c.len, NEW s \in [Index -> Nat]
  PROVE  EntriesOf(d, s) = SubSeq(EntriesOf(c, s), c.len - d.len + 1, c.len)
<1> DEFINE e == EntriesOf(c, s)
           f == EntriesOf(d, s)
           g == SubSeq(e, c.len - d.len + 1, c.len)
<1>1. /\ e \in Seq(Nat) /\ Len(e) = c.len /\ \A i \in 1 .. c.len : e[i] = s[SlotAt(c, i)]
      /\ f \in Seq(Nat) /\ Len(f) = d.len /\ \A i \in 1 .. d.len : f[i] = s[SlotAt(d, i)]
  BY EntriesOfType
<1>2. c.len \in 0 .. Cap /\ d.len \in 0 .. Cap
  BY DEF Control
<1> HIDE DEF e, f
<1> DEFINE k == c.len - d.len + 1
<1>3. k \in 1 .. Cap + 1 /\ c.len - k + 1 = d.len
  BY <1>2, CapAssumption
<1>4. \A i \in k .. c.len : e[i] \in Nat
  <2>1. ASSUME NEW i \in k .. c.len PROVE e[i] \in Nat
    <3>1. i \in 1 .. Len(e)
      BY <1>1, <1>2, <1>3, CapAssumption
    <3> QED
      BY <1>1, <3>1, ElementOfSeq
  <2> QED
    BY <2>1
<1>5. /\ g \in Seq(Nat)
      /\ Len(g) = IF k <= c.len THEN c.len - k + 1 ELSE 0
      /\ \A i \in 1 .. c.len - k + 1 : g[i] = e[k + i - 1]
  <2>1. k \in Int /\ c.len \in Int
    BY <1>2, <1>3, CapAssumption
  <2> HIDE DEF k
  <2> QED
    BY <1>4, <2>1, SubSeqProperties DEF k
<1>6. Len(g) = d.len
  BY <1>2, <1>3, <1>5
<1>7. ASSUME NEW i \in 1 .. d.len PROVE f[i] = g[i]
  <2>1. g[i] = e[c.len - d.len + i] /\ c.len - d.len + i \in 1 .. c.len
    BY <1>2, <1>3, <1>5
  <2>2. SlotAt(d, i) = SlotAt(c, c.len - d.len + i)
    BY SameEnd
  <2> QED
    BY <1>1, <2>1, <2>2
<1> HIDE DEF g, k
<1>8. f = g
  BY <1>1, <1>5, <1>6, <1>7, SeqEqual
<1> QED
  BY <1>8 DEF e, f, g, k


\* The platform gets records that were put, and the step that brings them to it
\* changes nothing in the terminal.
LEMMA DeliveredStep ==
  ASSUME Ordinary, Sound, ReplyInv, ContentInv, Next
  PROVE  \/ delivered' = delivered
         \/ /\ \E some \in SUBSET Known : delivered' = delivered \cup some
            /\ UNCHANGED <<pc, timer, nextRec>>
<1>1. CASE PlatformReplies \/ PlatformSilent
  <2>1. uplink = <<packed>>
    BY <1>1 DEF PlatformReplies, PlatformSilent, ReplyInv
  <2>2. Head(uplink) = packed
    BY <2>1
  <2>3. delivered' = delivered \cup packed /\ packed \in SUBSET Known
    BY <1>1, <2>2 DEF PlatformReplies, PlatformSilent, ContentInv
  <2>4. UNCHANGED <<pc, timer, nextRec>>
    BY <1>1 DEF PlatformReplies, PlatformSilent, task, mainTask
  <2> QED
    BY <2>3, <2>4
<1>2. CASE BlindTask \/ MainTask
  BY <1>2 DEF BlindTask, TakeSemaphore, FindEmpty, SleepOver, NodeBackup, PackNothing,
              ReadSlot, PassSlot, PackDone, BulkUpTrans, SetProbe, MainTask,
              StartReportTimer, ReportTimeout, ResetProbe, ReportAck, history
<1>3. CASE Save
  BY <1>3 DEF Save, SaveWrite, SaveCount
<1>4. CASE Environment
  BY <1>1, <1>4 DEF Environment, Login, LinkLost, Deauthorise, LinkDies, history
<1>5. CASE Power
  BY <1>5, PowerIsBackUp DEF BackUpNode, history
<1> QED
  BY <1>2, <1>3, <1>4, <1>5 DEF Next

\* Before the first save the abstract store is empty.
LEMMA InitStore == Init => Store!Init
<1> SUFFICES ASSUME Init PROVE Store!Init
  OBVIOUS
<1>1. Settled = EmptyControl
  BY DEF Init, Settled, Pending, Outstanding, Preparing, Idle
<1>2. EmptyControl \in Control /\ EmptyControl.len = 0
  BY EmptyControlShape DEF EmptyControl
<1>3. slot \in [Index -> Nat]
  BY DEF Init, None
<1>4. EntriesOf(Settled, slot) \in Seq(Nat) /\ Len(EntriesOf(Settled, slot)) = 0
  BY <1>1, <1>2, <1>3, EntriesOfType
<1>5. EntriesOf(Settled, slot) = <<>>
  BY <1>4, EmptySeq
<1>6. [i \in 1 .. Settled.len |-> slot[SlotAt(Settled, i)]] = <<>>
  BY <1>5 DEF EntriesOf
<1>7. nextRec - 1 = 0 /\ delivered = {}
  BY DEF Init
<1> QED
  BY <1>6, <1>7 DEF Store!Init

\* Every step of the upload is a step of the abstract store, or leaves it as it
\* is: a save puts, an acknowledged timeout confirms, the platform receives.
LEMMA NextStore ==
  ASSUME Ordinary, StoreInv, StoreInv', [Next]_vars
  PROVE  [Store!Next]_(Store!vars)
<1> DEFINE e == EntriesOf(Settled, slot)
<1>1. SettledFacts /\ SettledFacts'
  <2>1. SettledFacts
    BY SettledValue DEF StoreInv
  <2>2. SettledFacts'
    BY SettledValue, PTL DEF StoreInv
  <2> QED
    BY <2>1, <2>2
<1>2. /\ slot \in [Index -> Nat] /\ slot' \in [Index -> Nat] /\ nextRec \in Nat
      /\ timer \in BOOLEAN
      /\ Settled \in Control /\ InShape(Settled) /\ Settled' \in Control
      /\ Shown \in Control /\ InShape(Shown)
      /\ Shown.tail = Settled.tail /\ Shown.len <= Settled.len
  <2>1. TypeOK /\ TypeOK'
    BY DEF StoreInv, Sound, IndInv
  <2>2. /\ slot \in [Index -> Nat] /\ slot' \in [Index -> Nat] /\ nextRec \in Nat
        /\ timer \in BOOLEAN
    BY <2>1 DEF TypeOK
  <2> QED
    BY <1>1, <2>1, <2>2 DEF SettledFacts
<1>3. ASSUME Settled' = Settled, UNCHANGED <<slot, delivered, nextRec>>
      PROVE  UNCHANGED Store!vars
  BY <1>3 DEF Store!vars
<1>4. CASE UNCHANGED vars
  <2>1. /\ Settled' = Settled /\ UNCHANGED <<slot, delivered, nextRec>>
    BY <1>4 DEF vars, ctrl, task, mainTask, history, Settled, Pending, Idle, Outstanding,
                Preparing
  <2> QED
    BY <1>3, <2>1
<1>5. CASE Next
  <2>1. CASE delivered' # delivered
    <3>1. /\ \E some \in SUBSET Known : delivered' = delivered \cup some
          /\ UNCHANGED <<pc, timer, nextRec>>
      BY <1>5, <2>1, DeliveredStep DEF StoreInv
    <3>2. ~PassSlot /\ ~ReportTimeout /\ (\A s \in Savers : ~SaveWrite(s))
      BY <1>2, <3>1 DEF PassSlot, ReportTimeout, SaveWrite
    <3>3. Settled' = Settled /\ slot' = slot
      BY <1>1, <1>5, <3>2, StoreStep DEF StoreInv, Unmoved
    <3> QED
      BY <3>1, <3>3 DEF Store!Next, Store!Receive, Known
  <2>2. CASE delivered' = delivered
    <3>1. CASE Unmoved
      BY <1>3, <2>2, <3>1 DEF Unmoved
    <3>2. CASE PassSlot /\ Settled' = Settled
      <4>1. UNCHANGED <<slot, nextRec>>
        BY <3>2 DEF PassSlot
      <4> QED
        BY <1>3, <2>2, <3>2, <4>1
    <3>3. CASE ReportTimeout /\ Settled' = Settled
      <4>1. UNCHANGED <<slot, nextRec>>
        BY <3>3 DEF ReportTimeout
      <4> QED
        BY <1>3, <2>2, <3>3, <4>1
    <3>4. CASE ReportTimeout /\ reportAck /\ Settled' = Shown
      <4> DEFINE n == Settled.len - Shown.len
      <4>1. UNCHANGED <<slot, nextRec>>
        BY <3>4 DEF ReportTimeout
      <4>2. Settled.len \in 0 .. Cap /\ Shown.len \in 0 .. Cap /\ n \in 0 .. Settled.len
        BY <1>2, CapAssumption DEF Control
      <4>3. /\ e \in Seq(Nat) /\ Len(e) = Settled.len
            /\ \A i \in 1 .. Settled.len : e[i] = slot[SlotAt(Settled, i)]
        BY <1>2, EntriesOfType
      <4>4. EntriesOf(Shown, slot) = SubSeq(e, n + 1, Len(e))
        BY <1>2, <4>3, SameEndEntries
      <4>5. ASSUME NEW i \in 1 .. n PROVE e[i] \in delivered
        <5>1. i \in 1 .. Settled.len /\ slot[SlotAt(Settled, i)] \in packed
          BY <4>2 DEF StoreInv, ContentInv
        <5>2. packed \subseteq delivered
          BY <3>4 DEF StoreInv, ReplyInv
        <5> QED
          BY <4>3, <5>1, <5>2
      <4>6. e' = EntriesOf(Shown, slot)
        BY <3>4, <4>1 DEF EntriesOf
      <4>7. CASE n = 0
        <5>1. SubSeq(e, 1, Len(e)) = e
          BY <4>3, SubSeqFull
        <5>2. e' = e
          BY <4>4, <4>6, <4>7, <5>1
        <5> QED
          BY <2>2, <4>1, <5>2 DEF Store!vars, EntriesOf
      <4>8. CASE n # 0
        <5>1. n \in 1 .. Len(e)
          BY <4>2, <4>3, <4>8
        <5>2. /\ \E k \in 1 .. Len(e) :
                   /\ \A i \in 1 .. k : e[i] \in delivered
                   /\ e' = SubSeq(e, k + 1, Len(e))
              /\ delivered' = delivered /\ nextRec' = nextRec
          BY <2>2, <4>1, <4>4, <4>5, <4>6, <5>1
        <5> QED
          BY <5>2 DEF Store!Next, Store!Confirm, EntriesOf
      <4> QED
        BY <4>7, <4>8
    <3>5. CASE \E s \in Savers :
                 SaveWrite(s) /\ Settled' = AdvanceTail(MakeRoom(Settled))
                   /\ Shown' = AdvanceTail(MakeRoom(Shown)) /\ Shown = q
                   /\ Pending = Settled
                   /\ slot' = [slot EXCEPT ![Settled.tail] = nextRec]
      <4>1. /\ nextRec' = nextRec + 1
            /\ Settled' = AdvanceTail(MakeRoom(Settled))
            /\ slot' = [slot EXCEPT ![Settled.tail] = nextRec]
        BY <3>5 DEF SaveWrite
      <4>2. Appended(Settled, slot, nextRec, Settled', slot')
        BY <1>2, <4>1, SaveContents
      <4>3. EntriesOf(Settled', slot')
              = Append(IF Len(e) = Cap THEN Tail(e) ELSE e, nextRec)
        BY <1>2, <4>2, AppendedEntries
      <4>4. e' = Append(IF Len(e) = Cap THEN Tail(e) ELSE e, nextRec)
        BY <4>3 DEF EntriesOf
      <4>5. nextRec = (nextRec - 1) + 1 /\ nextRec' - 1 = (nextRec - 1) + 1
        BY <1>2, <4>1
      <4>6. e' = Append(IF Len(e) = Cap THEN Tail(e) ELSE e, (nextRec - 1) + 1)
        BY <4>4, <4>5
      <4> QED
        BY <2>2, <4>5, <4>6 DEF Store!Next, Store!Put, EntriesOf
    <3> QED
      BY <1>1, <1>5, <3>1, <3>2, <3>3, <3>4, <3>5, StoreStep DEF StoreInv
  <2> QED
    BY <2>1, <2>2
<1> QED
  BY <1>4, <1>5

\* In the ordinary course of events, between restarts, packs, timeouts, replies
\* and the copy of the control record together are the abstract queue, for every
\* capacity, pack size and order of events (Blind.c:189-506).
THEOREM ImplementsTheStore ==
  ASSUME Ordinary
  PROVE  Spec => ImplementsStore
<1>1. Init => StoreInv
  BY InitStoreInv
<1>2. StoreInv /\ [Next]_vars => StoreInv'
  BY NextStoreInv
<1>3. StoreInv /\ StoreInv' /\ [Next]_vars => [Store!Next]_(Store!vars)
  BY NextStore
<1> QED
  BY <1>1, <1>2, <1>3, InitStore, PTL DEF Spec, ImplementsStore, Store!Spec
=============================================================================

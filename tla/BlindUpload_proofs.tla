-------------------------- MODULE BlindUpload_proofs --------------------------
(***************************************************************************)
(* Theorems of BlindUpload, for every capacity, pack size, set of savers   *)
(* and set of admitted disturbances.                                       *)
(***************************************************************************)
EXTENDS BlindUpload, TLAPS

-----------------------------------------------------------------------------
(* What the updates of the control record preserve                         *)

\* The successor of a slot index is the next one, or 0 after the last.
LEMMA SuccValue ==
  ASSUME NEW i \in Index
  PROVE  /\ Succ(i) \in Index
         /\ Succ(i) = IF i = Cap - 1 THEN 0 ELSE i + 1
BY CapAssumption, SMT DEF Succ, Index

\* An empty control record is well formed.
LEMMA EmptyControlShape == EmptyControl \in Control /\ InShape(EmptyControl)
BY CapAssumption DEF EmptyControl, Control, Index, InShape

\* Making room keeps the record within the flash area and drops no count.
LEMMA MakeRoomType ==
  ASSUME NEW c \in Control
  PROVE  /\ MakeRoom(c) \in Control
         /\ MakeRoom(c).len = c.len
BY SuccValue DEF MakeRoom, Control, IsCirQueueEmpty

\* Counting a written record keeps the record within the flash area and
\* leaves the queue non-empty.
LEMMA AdvanceTailType ==
  ASSUME NEW c \in Control
  PROVE  /\ AdvanceTail(c) \in Control
         /\ AdvanceTail(c).len > 0
<1>1. Succ(c.tail) \in Index
  BY SuccValue DEF Control
<1>2. (IF IsCirQueueFull(c) THEN c.len ELSE c.len + 1) \in 1 .. Cap
  BY CapAssumption DEF Control, IsCirQueueFull
<1>3. c.head \in Index
  BY DEF Control
<1> QED
  BY <1>1, <1>2, <1>3, CapAssumption DEF AdvanceTail, Control

\* Passing a record keeps the control record within the flash area, provided
\* there was one to pass.
LEMMA AdvanceHeadType ==
  ASSUME NEW c \in Control, c.len > 0
  PROVE  AdvanceHead(c) \in Control
<1>1. Succ(c.head) \in Index
  BY SuccValue DEF Control
<1>2. c.len - 1 \in 0 .. Cap
  BY CapAssumption DEF Control
<1> QED
  BY <1>1, <1>2 DEF AdvanceHead, Control

\* What a timeout restores lies within the flash area and is not empty.
LEMMA NodeResumeType ==
  ASSUME NEW b \in Control, b.len > 0, NEW p \in BOOLEAN
  PROVE  /\ NodeResume(b, p) \in Control
         /\ NodeResume(b, p).len > 0
<1> DEFINE c == IF b.tail = b.head THEN [b EXCEPT !.head = Succ(@)] ELSE b
<1>1. c \in Control
  BY SuccValue DEF Control
<1>2. AdvanceTail(c) \in Control /\ AdvanceTail(c).len > 0
  BY <1>1, AdvanceTailType
<1> QED
  BY <1>2 DEF NodeResume

-----------------------------------------------------------------------------
\* The same updates keep head, tail and len consistent.

\* A save: room is made and the record is counted.
LEMMA SaveShape ==
  ASSUME NEW c \in Control, InShape(c)
  PROVE  InShape(AdvanceTail(MakeRoom(c)))
<1> DEFINE m == MakeRoom(c)
<1>1. c.head \in Index /\ c.tail \in Index /\ c.len \in 0 .. Cap
  BY DEF Control
<1>2. m \in Control /\ m.len = c.len /\ m.tail = c.tail
  BY MakeRoomType DEF MakeRoom, Control
<1>3. m.head = IF c.len # 0 /\ c.tail = c.head THEN Succ(c.head) ELSE c.head
  BY <1>1 DEF MakeRoom, Control, IsCirQueueEmpty
<1>4. /\ AdvanceTail(m).head = m.head
      /\ AdvanceTail(m).tail = Succ(c.tail)
      /\ AdvanceTail(m).len = IF c.len = Cap THEN Cap ELSE c.len + 1
  BY <1>2 DEF AdvanceTail, Control, IsCirQueueFull
<1>5. /\ Succ(c.head) = IF c.head = Cap - 1 THEN 0 ELSE c.head + 1
      /\ Succ(c.tail) = IF c.tail = Cap - 1 THEN 0 ELSE c.tail + 1
  BY <1>1, SuccValue
<1> HIDE DEF m
<1>6. InShape(AdvanceTail(m))
  <2>1. CASE c.len = Cap
    BY <2>1, <1>1, <1>3, <1>4, <1>5, CapAssumption DEF InShape, Index
  <2>2. CASE c.len < Cap
    BY <2>2, <1>1, <1>3, <1>4, <1>5, CapAssumption, SMTT(30) DEF InShape, Index
  <2> QED
    BY <1>1, <2>1, <2>2, CapAssumption
<1> QED
  BY <1>6 DEF m

\* A dequeue of a non-empty queue.
LEMMA AdvanceHeadShape ==
  ASSUME NEW c \in Control, InShape(c), c.len > 0
  PROVE  InShape(AdvanceHead(c))
<1>1. c.head \in Index /\ c.tail \in Index /\ c.len \in 1 .. Cap
  BY CapAssumption DEF Control
<1>2. /\ AdvanceHead(c).head = Succ(c.head)
      /\ AdvanceHead(c).tail = c.tail
      /\ AdvanceHead(c).len = c.len - 1
  BY DEF AdvanceHead, Control
<1>3. Succ(c.head) = IF c.head = Cap - 1 THEN 0 ELSE c.head + 1
  BY <1>1, SuccValue
<1> QED
  BY <1>1, <1>2, <1>3, CapAssumption, SMT DEF InShape, Index

\* A timeout, with or without the replay of one save.
LEMMA NodeResumeShape ==
  ASSUME NEW b \in Control, InShape(b), b.len > 0, NEW p \in BOOLEAN
  PROVE  InShape(NodeResume(b, p))
<1>1. CASE p
  BY <1>1 DEF NodeResume
<1>2. CASE ~p
  <2>1. NodeResume(b, p) = AdvanceTail(MakeRoom(b))
    BY <1>2 DEF NodeResume, MakeRoom, IsCirQueueEmpty, Control
  <2> QED
    BY <2>1, SaveShape
<1> QED
  BY <1>1, <1>2

-----------------------------------------------------------------------------
(* Where the waiting records are. *)

\* The i-th slot from the head, also one past the last.
LEMMA SlotAtValue ==
  ASSUME NEW c \in Control, NEW i \in 1 .. Cap + 1
  PROVE  /\ SlotAt(c, i) \in Index
         /\ SlotAt(c, i) = IF c.head + i - 1 < Cap THEN c.head + i - 1
                                                 ELSE c.head + i - 1 - Cap
<1>1. c.head \in 0 .. Cap - 1
  BY DEF Control, Index
<1>2. c.head + i - 1 \in Nat /\ c.head + i - 1 < 2 * Cap
  BY <1>1, CapAssumption
<1>3. ASSUME NEW n \in Nat, n < 2 * Cap
      PROVE  n % Cap = IF n < Cap THEN n ELSE n - Cap
  BY <1>3, CapAssumption, SMT
<1>4. SlotAt(c, i) = IF c.head + i - 1 < Cap THEN c.head + i - 1
                                             ELSE c.head + i - 1 - Cap
  <2> DEFINE n == c.head + i - 1
  <2>1. n \in Nat /\ n < 2 * Cap /\ SlotAt(c, i) = n % Cap
    BY <1>2 DEF SlotAt
  <2> HIDE DEF n
  <2>2. SlotAt(c, i) = IF n < Cap THEN n ELSE n - Cap
    BY <1>3, <2>1
  <2> QED
    BY <2>2, <1>1, CapAssumption DEF n
<1> QED
  BY <1>1, <1>2, <1>4, CapAssumption DEF Index

\* Different places in the queue are different slots.
LEMMA SlotAtDiffers ==
  ASSUME NEW c \in Control, NEW i \in 1 .. Cap, NEW j \in 1 .. Cap, i # j
  PROVE  SlotAt(c, i) # SlotAt(c, j)
<1>1. c.head \in 0 .. Cap - 1
  BY DEF Control, Index
<1> QED
  BY <1>1, SlotAtValue, CapAssumption

\* The tail is one past the last waiting record.
LEMMA SlotAtTail ==
  ASSUME NEW c \in Control, InShape(c)
  PROVE  SlotAt(c, c.len + 1) = c.tail
<1>1. c.head \in 0 .. Cap - 1 /\ c.tail \in 0 .. Cap - 1 /\ c.len \in 0 .. Cap
  BY DEF Control, Index
<1>2. SlotAt(c, c.len + 1) = IF c.head + c.len < Cap THEN c.head + c.len
                                                     ELSE c.head + c.len - Cap
  BY <1>1, SlotAtValue, CapAssumption
<1> QED
  BY <1>1, <1>2, CapAssumption DEF InShape

\* Of two queues that end at the same slot the shorter one is the end of the
\* longer one.
LEMMA SameEnd ==
  ASSUME NEW c \in Control, InShape(c), NEW d \in Control, InShape(d),
         c.tail = d.tail, d.len <= c.len, NEW i \in 1 .. d.len
  PROVE  SlotAt(d, i) = SlotAt(c, c.len - d.len + i)
<1>1. /\ c.head \in 0 .. Cap - 1 /\ c.tail \in 0 .. Cap - 1 /\ c.len \in 0 .. Cap
      /\ d.head \in 0 .. Cap - 1 /\ d.len \in 0 .. Cap
  BY DEF Control, Index
<1>2. SlotAt(d, i) = IF d.head + i - 1 < Cap THEN d.head + i - 1
                                            ELSE d.head + i - 1 - Cap
  BY <1>1, SlotAtValue, CapAssumption
<1>3. c.len - d.len + i \in 1 .. Cap
  BY <1>1, CapAssumption
<1>4. SlotAt(c, c.len - d.len + i) =
        IF c.head + (c.len - d.len + i) - 1 < Cap
          THEN c.head + (c.len - d.len + i) - 1
          ELSE c.head + (c.len - d.len + i) - 1 - Cap
  BY <1>3, SlotAtValue, CapAssumption
<1> QED
  BY <1>1, <1>2, <1>4, CapAssumption DEF InShape

\* A save takes the tail slot, after the oldest record if there is no room.
LEMMA SaveSlots ==
  ASSUME NEW c \in Control, InShape(c),
         NEW m, m = AdvanceTail(MakeRoom(c))
  PROVE  /\ m \in Control /\ InShape(m)
         /\ MakeRoom(c).tail = c.tail
         /\ m.tail = Succ(c.tail)
         /\ c.len = Cap =>
              /\ m.len = Cap /\ SlotAt(m, Cap) = c.tail /\ SlotAt(c, 1) = c.tail
              /\ \A i \in 1 .. Cap - 1 : SlotAt(m, i) = SlotAt(c, i + 1)
         /\ c.len < Cap =>
              /\ m.len = c.len + 1 /\ SlotAt(m, c.len + 1) = c.tail
              /\ \A i \in 1 .. c.len : SlotAt(m, i) = SlotAt(c, i)
<1>1. c.head \in 0 .. Cap - 1 /\ c.tail \in 0 .. Cap - 1 /\ c.len \in 0 .. Cap
  BY DEF Control, Index
<1>2. MakeRoom(c) \in Control /\ MakeRoom(c).len = c.len /\ MakeRoom(c).tail = c.tail
  BY MakeRoomType DEF MakeRoom, Control
<1>3. MakeRoom(c).head = IF c.len # 0 /\ c.tail = c.head THEN Succ(c.head) ELSE c.head
  BY <1>1 DEF MakeRoom, Control, IsCirQueueEmpty
<1>4. /\ m.head = MakeRoom(c).head
      /\ m.tail = Succ(c.tail)
      /\ m.len = IF c.len = Cap THEN Cap ELSE c.len + 1
  BY <1>2 DEF AdvanceTail, Control, IsCirQueueFull
<1>5. m \in Control /\ InShape(m)
  BY <1>2, AdvanceTailType, SaveShape
<1>6. /\ Succ(c.head) = IF c.head = Cap - 1 THEN 0 ELSE c.head + 1
      /\ Succ(c.head) \in 0 .. Cap - 1
  BY <1>1, SuccValue DEF Index
<1>7. /\ \A i \in 1 .. Cap : SlotAt(c, i) = IF c.head + i - 1 < Cap THEN c.head + i - 1
                                                              ELSE c.head + i - 1 - Cap
      /\ \A i \in 1 .. Cap : SlotAt(m, i) = IF m.head + i - 1 < Cap THEN m.head + i - 1
                                                              ELSE m.head + i - 1 - Cap
  BY <1>5, SlotAtValue, CapAssumption
<1>8. CASE c.len = Cap
  <2>1. c.tail = c.head /\ m.head = Succ(c.head) /\ m.len = Cap
    BY <1>1, <1>3, <1>4, <1>8, CapAssumption DEF InShape
  <2>2. SlotAt(c, 1) = c.tail
    BY <2>1, <1>1, <1>7, CapAssumption
  <2>3. SlotAt(m, Cap) = c.tail
    BY <2>1, <1>1, <1>6, <1>7, CapAssumption
  <2>4. ASSUME NEW i \in 1 .. Cap - 1
        PROVE  SlotAt(m, i) = SlotAt(c, i + 1)
    BY <2>1, <1>1, <1>6, <1>7, CapAssumption
  <2> QED
    BY <1>2, <1>4, <1>5, <1>8, <2>1, <2>2, <2>3, <2>4, CapAssumption
<1>9. CASE c.len < Cap
  <2>1. m.head = c.head /\ m.len = c.len + 1
    BY <1>1, <1>3, <1>4, <1>9, CapAssumption DEF InShape
  <2>2. SlotAt(c, c.len + 1) = c.tail
    BY SlotAtTail
  <2>3. SlotAt(m, c.len + 1) = SlotAt(c, c.len + 1)
    BY <2>1, <1>1, <1>7, <1>9, CapAssumption
  <2>4. ASSUME NEW i \in 1 .. c.len
        PROVE  SlotAt(m, i) = SlotAt(c, i)
    BY <2>1, <1>1, <1>7, <1>9, CapAssumption
  <2>5. c.len # Cap
    BY <1>9, <1>1, CapAssumption
  <2> QED
    BY <1>2, <1>4, <1>5, <1>9, <2>1, <2>2, <2>3, <2>4, <2>5
<1> QED
  BY <1>1, <1>8, <1>9, CapAssumption

\* What the tail has just passed is the last waiting record.
LEMMA LastSlot ==
  ASSUME NEW c \in Control, InShape(c), c.len > 0,
         NEW t \in Index, c.tail = Succ(t)
  PROVE  SlotAt(c, c.len) = t
<1>1. c.head \in 0 .. Cap - 1 /\ c.tail \in 0 .. Cap - 1 /\ c.len \in 1 .. Cap
  BY CapAssumption DEF Control, Index
<1>2. SlotAt(c, c.len) = IF c.head + c.len - 1 < Cap THEN c.head + c.len - 1
                                                    ELSE c.head + c.len - 1 - Cap
  BY <1>1, SlotAtValue, CapAssumption
<1>3. t \in 0 .. Cap - 1 /\ c.tail = IF t = Cap - 1 THEN 0 ELSE t + 1
  BY SuccValue DEF Index
<1>4. CASE t = Cap - 1
  <2>1. c.tail = 0
    BY <1>3, <1>4
  <2>2. c.head + c.len = Cap
    BY <1>1, <2>1, CapAssumption DEF InShape
  <2>3. c.head + c.len - 1 = Cap - 1 /\ Cap - 1 < Cap
    BY <1>1, <2>2, CapAssumption
  <2> QED
    BY <1>2, <1>4, <2>3
<1>5. CASE t < Cap - 1
  <2>1. c.tail = t + 1
    BY <1>3, <1>5, CapAssumption
  <2>2. c.head + c.len = t + 1 \/ c.head + c.len = t + 1 + Cap
    BY <1>1, <1>3, <2>1, CapAssumption DEF InShape
  <2>3. \/ c.head + c.len - 1 = t
        \/ c.head + c.len - 1 >= Cap /\ c.head + c.len - 1 - Cap = t
    BY <1>1, <1>3, <2>2, CapAssumption
  <2>4. t < Cap
    BY <1>3, CapAssumption
  <2> QED
    BY <1>1, <1>2, <1>3, <2>3, <2>4, CapAssumption
<1> QED
  BY <1>3, <1>4, <1>5, CapAssumption

\* Two slots with the same successor are one.
LEMMA SuccInjective ==
  ASSUME NEW i \in Index, NEW j \in Index, Succ(i) = Succ(j)
  PROVE  i = j
<1>1. i \in 0 .. Cap - 1 /\ j \in 0 .. Cap - 1
  BY DEF Index
<1> QED
  BY <1>1, SuccValue, CapAssumption

\* Making room uncovers the slot that is written next and no other.
LEMMA RoomSlots ==
  ASSUME NEW c \in Control, InShape(c), NEW i \in 1 .. MakeRoom(c).len
  PROVE  \/ SlotAt(MakeRoom(c), i) = c.tail
         \/ \E j \in 1 .. c.len : SlotAt(MakeRoom(c), i) = SlotAt(c, j)
<1> DEFINE m == MakeRoom(c)
<1>1. c.head \in 0 .. Cap - 1 /\ c.tail \in 0 .. Cap - 1 /\ c.len \in 0 .. Cap
  BY DEF Control, Index
<1>2. m \in Control /\ m.len = c.len
  BY MakeRoomType
<1>3. CASE c.len # 0 /\ c.tail = c.head
  <2>1. c.len = Cap
    BY <1>1, <1>3, CapAssumption DEF InShape
  <2>2. /\ m.head = Succ(c.head)
        /\ Succ(c.head) = IF c.head = Cap - 1 THEN 0 ELSE c.head + 1
    BY <1>1, <1>3, SuccValue DEF MakeRoom, Control, IsCirQueueEmpty, Index
  <2>3. i \in 1 .. Cap
    BY <1>2, <2>1
  <2>4. SlotAt(m, i) = IF m.head + i - 1 < Cap THEN m.head + i - 1
                                              ELSE m.head + i - 1 - Cap
    BY <1>2, <2>3, SlotAtValue, CapAssumption
  <2> HIDE DEF m
  <2>5. CASE i = Cap
    BY <1>1, <1>3, <2>2, <2>4, <2>5, CapAssumption DEF m
  <2>6. CASE i < Cap
    <3>1. i + 1 \in 1 .. c.len
      BY <2>1, <2>3, <2>6, CapAssumption
    <3>2. SlotAt(c, i + 1) = IF c.head + (i + 1) - 1 < Cap THEN c.head + (i + 1) - 1
                                                ELSE c.head + (i + 1) - 1 - Cap
      BY <3>1, <2>1, SlotAtValue, CapAssumption
    <3>3. SlotAt(m, i) = SlotAt(c, i + 1)
      BY <1>1, <2>2, <2>3, <2>4, <2>6, <3>2, CapAssumption
    <3> QED
      BY <3>1, <3>3 DEF m
  <2> QED
    BY <2>3, <2>5, <2>6, CapAssumption
<1>4. CASE ~(c.len # 0 /\ c.tail = c.head)
  <2>1. MakeRoom(c) = c
    BY <1>4 DEF MakeRoom, IsCirQueueEmpty
  <2> QED
    BY <2>1
<1> QED
  BY <1>3, <1>4

\* Counting a record shows the slot at the tail and no other.
LEMMA CountedSlots ==
  ASSUME NEW c \in Control, InShape(AdvanceTail(c)),
         NEW i \in 1 .. AdvanceTail(c).len
  PROVE  \/ i <= c.len /\ SlotAt(AdvanceTail(c), i) = SlotAt(c, i)
         \/ c.len < Cap /\ i = c.len + 1 /\ SlotAt(AdvanceTail(c), i) = c.tail
<1> DEFINE m == AdvanceTail(c)
<1>1. c.head \in 0 .. Cap - 1 /\ c.tail \in Index /\ c.len \in 0 .. Cap
  BY DEF Control, Index
<1>2. m \in Control /\ m.len > 0
  BY AdvanceTailType
<1>3. /\ m.head = c.head /\ m.tail = Succ(c.tail)
      /\ m.len = IF c.len = Cap THEN Cap ELSE c.len + 1
  BY <1>1 DEF AdvanceTail, IsCirQueueFull
<1> HIDE DEF m
<1>4. CASE i <= c.len
  BY <1>3, <1>4 DEF SlotAt, m
<1>5. CASE i > c.len
  <2>1. c.len < Cap /\ i = m.len /\ i = c.len + 1
    BY <1>1, <1>3, <1>5, CapAssumption DEF m
  <2>2. SlotAt(m, m.len) = c.tail
    BY <1>1, <1>2, <1>3, LastSlot DEF m
  <2> QED
    BY <2>1, <2>2 DEF m
<1>6. c.len \in Nat /\ i \in Nat
  BY <1>1, <1>2 DEF m, Control
<1> QED
  BY <1>4, <1>5, <1>6

\* Passing the oldest record leaves the others in their places.
LEMMA PassedSlots ==
  ASSUME NEW c \in Control, c.len > 0
  PROVE  /\ AdvanceHead(c).len = c.len - 1 /\ AdvanceHead(c).tail = c.tail
         /\ \A i \in 1 .. AdvanceHead(c).len :
              i + 1 \in 1 .. c.len /\ SlotAt(AdvanceHead(c), i) = SlotAt(c, i + 1)
<1> DEFINE m == AdvanceHead(c)
<1>1. c.head \in 0 .. Cap - 1 /\ c.len \in 1 .. Cap
  BY CapAssumption DEF Control, Index
<1>2. m \in Control
  BY AdvanceHeadType
<1>3. /\ m.head = Succ(c.head) /\ m.len = c.len - 1 /\ m.tail = c.tail
      /\ Succ(c.head) = IF c.head = Cap - 1 THEN 0 ELSE c.head + 1
  BY <1>1, SuccValue DEF AdvanceHead, Control, Index
<1> HIDE DEF m
<1>4. ASSUME NEW i \in 1 .. m.len
      PROVE  i + 1 \in 1 .. c.len /\ SlotAt(m, i) = SlotAt(c, i + 1)
  <2>1. i \in 1 .. Cap /\ i + 1 \in 1 .. c.len /\ i + 1 \in 1 .. Cap
    BY <1>1, <1>3, CapAssumption
  <2>2. SlotAt(m, i) = IF m.head + i - 1 < Cap THEN m.head + i - 1
                                              ELSE m.head + i - 1 - Cap
    BY <1>2, <2>1, SlotAtValue, CapAssumption
  <2>3. SlotAt(c, i + 1) = IF c.head + (i + 1) - 1 < Cap THEN c.head + (i + 1) - 1
                                              ELSE c.head + (i + 1) - 1 - Cap
    BY <2>1, SlotAtValue, CapAssumption
  <2> QED
    BY <1>1, <1>3, <2>1, <2>2, <2>3, CapAssumption
<1> QED
  BY <1>3, <1>4 DEF m

-----------------------------------------------------------------------------
(* The inductive invariant                                                 *)

\* TypeOK is not inductive alone: a record is passed only when one waits, and
\* a timeout restores a copy that was taken of a non-empty queue.
IndInv == /\ TypeOK
          /\ pc = "advance" => q.len > 0 /\ items < PackNum
          /\ Outstanding => backup.len > 0

\* No pack is under way.
LEMMA EmptyUplink == <<>> \in Seq(SUBSET Nat)
OBVIOUS

\* In the initial state the queue is empty and no pack is out.
LEMMA InitIndInv == Init => IndInv
<1> SUFFICES ASSUME Init PROVE IndInv
  OBVIOUS
<1>1. EmptyControl \in Control
  BY EmptyControlShape
<1>2. slot \in [Index -> Nat] /\ saving \in [Savers -> Nat]
  BY DEF Init, None
<1>3. uplink \in Seq(SUBSET Nat)
  BY DEF Init
<1>4. 0 \in 0 .. PackNum
  BY PackNumAssumption
<1>5. TypeOK
  BY <1>1, <1>2, <1>3, <1>4 DEF Init, TypeOK
<1>6. ~Outstanding /\ pc # "advance"
  BY DEF Init, Outstanding, Preparing
<1> QED
  BY <1>5, <1>6 DEF IndInv

\* A step of the blind task keeps the invariant.
LEMMA BlindTaskIndInv == IndInv /\ BlindTask => IndInv'
<1> SUFFICES ASSUME IndInv, BlindTask PROVE IndInv'
  OBVIOUS
<1> USE DEF IndInv, TypeOK, Outstanding, Preparing, ctrl, task, mainTask, net,
            power, history
<1>1. CASE TakeSemaphore
  BY <1>1 DEF TakeSemaphore
<1>2. CASE FindEmpty
  BY <1>2 DEF FindEmpty
<1>3. CASE SleepOver
  BY <1>3 DEF SleepOver, GiveSemaphore
<1>4. CASE NodeBackup
  <2>1. q.len > 0
    BY <1>4 DEF NodeBackup, IsCirQueueEmpty, Control
  <2>2. items' \in 0 .. PackNum
    BY <1>4, PackNumAssumption DEF NodeBackup
  <2> QED
    BY <1>4, <2>1, <2>2 DEF NodeBackup
<1>5. CASE PackNothing
  BY <1>5, PackNumAssumption DEF PackNothing
<1>6. CASE ReadSlot
  <2>1. q.len > 0 /\ slot[q.head] \in Nat
    BY <1>6 DEF ReadSlot, IsCirQueueEmpty, Control
  <2> QED
    BY <1>6, <2>1 DEF ReadSlot
<1>7. CASE PassSlot
  <2>1. q' \in Control
    BY <1>7, AdvanceHeadType DEF PassSlot
  <2>2. items' \in 0 .. PackNum
    BY <1>7, PackNumAssumption DEF PassSlot
  <2> QED
    BY <1>7, <2>1, <2>2 DEF PassSlot
<1>8. CASE PackDone
  BY <1>8 DEF PackDone
<1>9. CASE BulkUpTrans
  <2>1. uplink \in Seq(SUBSET Nat) /\ packed \in SUBSET Nat
    OBVIOUS
  <2>2. Append(uplink, packed) \in Seq(SUBSET Nat)
    BY ONLY <2>1
  <2>3. uplink' \in Seq(SUBSET Nat)
    BY <1>9, <2>1, <2>2 DEF BulkUpTrans
  <2> QED
    BY <1>9, <2>3 DEF BulkUpTrans
<1>10. CASE SetProbe
  BY <1>10 DEF SetProbe
<1> QED
  BY <1>1, <1>2, <1>3, <1>4, <1>5, <1>6, <1>7, <1>8, <1>9, <1>10 DEF BlindTask

\* A step of the main task keeps the invariant.
LEMMA MainTaskIndInv == IndInv /\ MainTask => IndInv'
<1> SUFFICES ASSUME IndInv, MainTask PROVE IndInv'
  OBVIOUS
<1> USE DEF IndInv, TypeOK, Outstanding, Preparing, ctrl, task, mainTask, net,
            power, history
<1>1. CASE StartReportTimer
  BY <1>1 DEF StartReportTimer
<1>2. CASE ReportTimeout
  <2>1. timer /\ backup.len > 0
    BY <1>2 DEF ReportTimeout
  <2>2. NodeResume(backup, probe) \in Control /\ NodeResume(backup, probe).len > 0
    BY <2>1, NodeResumeType
  <2>3. q' \in Control /\ (q' = q \/ q'.len > 0)
    BY <1>2, <2>2 DEF ReportTimeout
  <2>4. node' \in Control
    BY <1>2, <2>3 DEF ReportTimeout
  <2>5. uplink' \in Seq(SUBSET Nat) /\ replies' \in Nat /\ link' \in BOOLEAN
    <3>1. \/ link' = FALSE /\ uplink' = <<>> /\ replies' = 0
          \/ UNCHANGED <<link, uplink, replies>>
      BY <1>2, Zenon DEF ReportTimeout
    <3>2. replies' \in Nat
      BY <3>1
    <3>3. link' \in BOOLEAN
      BY <3>1, Zenon DEF IndInv, TypeOK
    <3>4. uplink' \in Seq(SUBSET Nat)
      BY <3>1, EmptyUplink, Zenon DEF IndInv, TypeOK
    <3> QED
      BY <3>2, <3>3, <3>4
  <2>6. /\ sham' \in {0, sham, sham + 1} /\ sem' \in {sem, sem + 1}
        /\ timer' = FALSE /\ reportAck' = FALSE /\ closing' = TRUE
    BY <1>2, ZenonT(30) DEF ReportTimeout, GiveSemaphore
  <2>7. auth' \in BOOLEAN
    BY <1>2 DEF ReportTimeout, StaysOnline
  <2>8. UNCHANGED <<slot, backup, probe, task, posted, saving, power, nextRec,
                    history>>
    BY <1>2 DEF ReportTimeout
  <2>9. sham' \in Nat /\ sem' \in Nat
    BY <2>6
  <2>10. TypeOK'
    BY <2>3, <2>4, <2>5, <2>6, <2>7, <2>8, <2>9
  <2>11. (pc = "advance" => q.len > 0 /\ items < PackNum)'
    BY <2>3, <2>8
  <2>12. (Outstanding => backup.len > 0)'
    BY <2>1, <2>8
  <2> QED
    BY <2>10, <2>11, <2>12
<1>3. CASE ResetProbe
  BY <1>3 DEF ResetProbe
<1>4. CASE ReportAck
  BY <1>4 DEF ReportAck
<1> QED
  BY <1>1, <1>2, <1>3, <1>4 DEF MainTask

\* A step of a save keeps the invariant.
LEMMA SaveIndInv == IndInv /\ Save => IndInv'
<1> SUFFICES ASSUME IndInv, NEW s \in Savers, SaveWrite(s) \/ SaveCount(s)
             PROVE  IndInv'
  BY DEF Save
<1> USE DEF IndInv, TypeOK, Outstanding, Preparing, task, mainTask, net,
            power
<1>1. CASE SaveWrite(s)
  <2>1. q' = MakeRoom(q) /\ slot' = [slot EXCEPT ![MakeRoom(q).tail] = nextRec]
    BY <1>1 DEF SaveWrite
  <2>2. q' \in Control /\ q'.len = q.len
    BY <2>1, MakeRoomType
  <2>3. slot' \in [Index -> Nat]
    BY <2>1
  <2>4. evicted' \subseteq Nat
    <3>1. IsCirQueueFull(Pending) => Pending.head \in Index
      <4>1. CASE Outstanding
        <5>1. backup.len > 0
          BY <4>1
        <5>2. Pending \in Control
          BY <4>1, <5>1, NodeResumeType DEF Pending
        <5> QED
          BY <5>2 DEF Control
      <4>2. CASE ~Outstanding
        BY <4>2 DEF Pending, Control
      <4> QED
        BY <4>1, <4>2
    <3> QED
      BY <1>1, <3>1 DEF SaveWrite
  <2>5. /\ saving' \in [Savers -> Nat] /\ nextRec' \in Nat /\ windowSaves' \in Nat
        /\ UNCHANGED <<node, backup, probe, task, mainTask, sem, net, power,
                       saved, delivered>>
    BY <1>1 DEF SaveWrite
  <2> QED
    BY <2>2, <2>3, <2>4, <2>5
<1>2. CASE SaveCount(s)
  <2>1. q' \in Control /\ q'.len > 0
    BY <1>2, AdvanceTailType DEF SaveCount
  <2>2. /\ saving' \in [Savers -> Nat] /\ probe' \in BOOLEAN /\ saved' \subseteq Nat
        /\ UNCHANGED <<slot, node, backup, task, mainTask, sem, net, power,
                       nextRec, windowSaves, delivered, evicted>>
    BY <1>2 DEF SaveCount, None
  <2> QED
    BY <2>1, <2>2
<1> QED
  BY <1>1, <1>2

\* A step of the connection or of the platform keeps the invariant.
LEMMA EnvironmentIndInv == IndInv /\ Environment => IndInv'
<1> SUFFICES ASSUME IndInv, Environment PROVE IndInv'
  OBVIOUS
<1> USE DEF IndInv, TypeOK, Outstanding, Preparing, ctrl, task, mainTask, net,
            power, history
<1>1. CASE Login
  BY <1>1 DEF Login, GiveSemaphore
<1>2. CASE LinkLost
  BY <1>2, EmptyUplink, ZenonT(60) DEF LinkLost
<1>3. CASE Deauthorise
  BY <1>3, ZenonT(60) DEF Deauthorise
<1>4. CASE LinkDies
  BY <1>4, EmptyUplink, ZenonT(60) DEF LinkDies
<1>5. ASSUME uplink # <<>>
      PROVE  Tail(uplink) \in Seq(SUBSET Nat) /\ Head(uplink) \in SUBSET Nat
  BY <1>5
<1>6. CASE PlatformReplies
  <2>1. /\ uplink' = Tail(uplink) /\ delivered' = delivered \cup Head(uplink)
        /\ replies' = replies + 1
    BY <1>6, Zenon DEF PlatformReplies
  <2>2. uplink' \in Seq(SUBSET Nat) /\ Head(uplink) \in SUBSET Nat
    BY <1>5, <1>6, <2>1 DEF PlatformReplies
  <2>3. delivered' \subseteq Nat
    BY <2>1, <2>2, Zenon DEF IndInv, TypeOK
  <2>4. replies' \in Nat
    BY <2>1
  <2> QED
    BY <1>6, <2>2, <2>3, <2>4 DEF PlatformReplies
<1>7. CASE PlatformSilent
  <2>1. uplink' \in Seq(SUBSET Nat) /\ delivered' \subseteq Nat
    BY <1>5, <1>7 DEF PlatformSilent
  <2> QED
    BY <1>7, <2>1 DEF PlatformSilent
<1> QED
  BY <1>1, <1>2, <1>3, <1>4, <1>6, <1>7 DEF Environment

\* A power cycle or a crash keeps the invariant.
LEMMA PowerIndInv == IndInv /\ Power => IndInv'
<1> SUFFICES ASSUME IndInv, Power PROVE IndInv'
  OBVIOUS
<1> USE DEF IndInv, TypeOK, Outstanding, Preparing, ctrl, task, mainTask, net,
            power, history
<1>1. ASSUME SaveNodeAndStop PROVE IndInv'
  <2>1. node' = q /\ powered' = FALSE /\ boots' = boots + 1
    BY <1>1, Zenon DEF SaveNodeAndStop
  <2>2. UNCHANGED <<q, slot, backup, probe, task, mainTask, sem, saving, net,
                    logins, nextRec, history>>
    BY <1>1 DEF SaveNodeAndStop
  <2>3. TypeOK'
    <3>1. powered' \in BOOLEAN
      BY <2>1, Zenon
    <3>2. node' \in Control /\ boots' \in Nat
      BY <2>1
    <3> QED
      BY <2>2, <3>1, <3>2
  <2>4. (pc = "advance" => q.len > 0 /\ items < PackNum)'
    BY <2>2
  <2>5. (Outstanding => backup.len > 0)'
    BY <2>2
  <2> QED
    BY <2>3, <2>4, <2>5
<1>2. ASSUME Restart, boots' \in Nat, evicted' \subseteq Nat PROVE IndInv'
  <2>1. 0 \in 0 .. PackNum
    BY PackNumAssumption
  <2>2. EmptyControl \in Control
    BY EmptyControlShape
  <2>3. /\ q' \in Control /\ backup' \in Control /\ items' \in 0 .. PackNum
        /\ packed' \subseteq Nat /\ saving' \in [Savers -> Nat]
    BY <1>2, <2>1, <2>2 DEF Restart, None
  <2>4. uplink' \in Seq(SUBSET Nat)
    BY <1>2, EmptyUplink, Zenon DEF Restart
  <2>5. /\ probe' = FALSE /\ taskAuth' = FALSE /\ reportAck' = FALSE
        /\ timer' = FALSE /\ closing' = FALSE /\ auth' = FALSE
        /\ link' = FALSE /\ powered' = TRUE
    BY <1>2, Zenon DEF Restart
  <2>6. /\ pc' = "take" /\ sem' = 0 /\ sham' = 0 /\ posted' = 0
        /\ replies' = 0 /\ windowSaves' = 0
        /\ UNCHANGED <<slot, node, nextRec, logins, saved, delivered>>
    BY <1>2, Zenon DEF Restart
  <2>7. TypeOK'
    BY <1>2, <2>3, <2>4, <2>5, <2>6
  <2>8. ~Outstanding' /\ pc' # "advance"
    BY <2>5, <2>6
  <2> QED
    BY <2>7, <2>8
<1>3. CASE PowerDown
  BY <1>1, <1>3 DEF PowerDown
<1>4. CASE PlannedReset
  BY <1>1, <1>4 DEF PlannedReset
<1>7. CASE BackUpNode
  BY <1>7 DEF BackUpNode
<1>5. CASE WakeUp
  BY <1>2, <1>5 DEF WakeUp
<1>6. CASE Crash
  <2>1. Restart /\ boots' \in Nat
    BY <1>6 DEF Crash
  <2>2. evicted' \subseteq Nat
    BY <1>6 DEF Crash
  <2> QED
    BY <1>2, <2>1, <2>2
<1> QED
  BY <1>3, <1>4, <1>5, <1>6, <1>7 DEF Power

\* Every step keeps the invariant.
LEMMA NextIndInv == IndInv /\ [Next]_vars => IndInv'
<1> SUFFICES ASSUME IndInv, [Next]_vars PROVE IndInv'
  OBVIOUS
<1>1. CASE Next
  BY <1>1, BlindTaskIndInv, MainTaskIndInv, SaveIndInv, EnvironmentIndInv,
     PowerIndInv DEF Next
<1>2. CASE UNCHANGED vars
  BY <1>2 DEF IndInv, TypeOK, Outstanding, Preparing, vars, ctrl, task,
              mainTask, net, power, history
<1> QED
  BY <1>1, <1>2

\* No interleaving, crash, late reply or second login takes the control record
\* out of the flash area reserved for the queue, or its count past the number
\* of slots.
THEOREM TypeCorrect == Spec => []TypeOK
<1>1. Init => IndInv
  BY InitIndInv
<1>2. IndInv /\ [Next]_vars => IndInv'
  BY NextIndInv
<1>3. IndInv => TypeOK
  BY DEF IndInv
<1> QED
  BY <1>1, <1>2, <1>3, PTL DEF Spec

-----------------------------------------------------------------------------
(* The tokens. *)

\* TokenHeld is not inductive alone: a task that read the flag before a login
\* goes to sleep without giving its token back, and then the token of that
\* login must still be in the semaphore.
TokenInv == /\ TokenHeld
            /\ auth /\ ~taskAuth /\ pc = "backup" => sem >= 1

\* Every step keeps a token while the terminal is logged in.
LEMMA NextTokenInv == IndInv /\ TokenInv /\ [Next]_vars => TokenInv'
<1> SUFFICES ASSUME IndInv, TokenInv, [Next]_vars PROVE TokenInv'
  OBVIOUS
<1> USE DEF TokenInv, TokenHeld, Tokens, ctrl, task, mainTask, net, power
<1>1. /\ sem \in Nat /\ posted \in Nat /\ timer \in BOOLEAN /\ auth \in BOOLEAN
      /\ taskAuth \in BOOLEAN
  BY DEF IndInv, TypeOK
<1>2. CASE BlindTask
  <2>1. CASE TakeSemaphore
    BY <1>1, <2>1 DEF TakeSemaphore
  <2>2. CASE FindEmpty
    BY <1>1, <2>2 DEF FindEmpty
  <2>3. CASE SleepOver
    BY <1>1, <2>3 DEF SleepOver, GiveSemaphore
  <2>4. CASE NodeBackup
    BY <1>1, <2>4 DEF NodeBackup
  <2>5. CASE PackNothing
    BY <1>1, <2>5 DEF PackNothing
  <2>6. CASE ReadSlot
    BY <1>1, <2>6 DEF ReadSlot
  <2>7. CASE PassSlot
    BY <1>1, <2>7 DEF PassSlot
  <2>8. CASE PackDone
    BY <1>1, <2>8 DEF PackDone
  <2>9. CASE BulkUpTrans
    BY <1>1, <2>9 DEF BulkUpTrans
  <2>10. CASE SetProbe
    BY <1>1, <2>10 DEF SetProbe
  <2> QED
    BY <1>2, <2>1, <2>2, <2>3, <2>4, <2>5, <2>6, <2>7, <2>8, <2>9, <2>10
       DEF BlindTask
<1>3. CASE MainTask
  <2>1. CASE StartReportTimer
    BY <1>1, <2>1 DEF StartReportTimer
  <2>2. CASE ReportTimeout
    <3>1. auth' => sem' = sem + 1
      BY <2>2, Zenon DEF ReportTimeout, GiveSemaphore
    <3>2. auth' => auth
      BY <2>2, Zenon DEF ReportTimeout, StaysOnline
    <3>3. timer' = FALSE /\ UNCHANGED <<task, posted>>
      BY <2>2 DEF ReportTimeout
    <3> QED
      BY <1>1, <3>1, <3>2, <3>3
  <2>3. CASE ResetProbe
    BY <1>1, <2>3 DEF ResetProbe
  <2>4. CASE ReportAck
    BY <1>1, <2>4 DEF ReportAck
  <2> QED
    BY <1>3, <2>1, <2>2, <2>3, <2>4 DEF MainTask
<1>4. CASE Save
  BY <1>1, <1>4 DEF Save, SaveWrite, SaveCount
<1>5. CASE Environment
  <2>1. CASE Login
    BY <1>1, <2>1 DEF Login, GiveSemaphore
  <2>2. CASE LinkLost \/ Deauthorise
    BY <1>1, <2>2 DEF LinkLost, Deauthorise
  <2>3. CASE LinkDies \/ PlatformReplies \/ PlatformSilent
    BY <1>1, <2>3 DEF LinkDies, PlatformReplies, PlatformSilent
  <2> QED
    BY <1>5, <2>1, <2>2, <2>3 DEF Environment
<1>6. CASE Power
  <2>1. CASE PowerDown \/ BackUpNode \/ PlannedReset
    BY <1>1, <2>1 DEF PowerDown, BackUpNode, PlannedReset, SaveNodeAndStop
  <2>2. CASE WakeUp \/ Crash
    <3>1. auth' = FALSE
      BY <2>2, Zenon DEF WakeUp, Crash, Restart
    <3> QED
      BY <3>1
  <2> QED
    BY <1>6, <2>1, <2>2 DEF Power
<1>7. CASE UNCHANGED vars
  BY <1>7 DEF vars
<1> QED
  BY <1>2, <1>3, <1>4, <1>5, <1>6, <1>7 DEF Next

\* Whatever the order of logins, link losses, timeouts and crashes, a terminal
\* that is logged in never loses the right to upload the next pack.
THEOREM TokenNeverLost == Spec => []TokenHeld
<1>1. Init => IndInv /\ TokenInv
  BY InitIndInv DEF Init, TokenInv, TokenHeld
<1>2. IndInv /\ TokenInv /\ [Next]_vars => IndInv' /\ TokenInv'
  BY NextIndInv, NextTokenInv
<1>3. TokenInv => TokenHeld
  BY DEF TokenInv
<1> QED
  BY <1>1, <1>2, <1>3, PTL DEF Spec

-----------------------------------------------------------------------------
(* One pack at a time. *)

\* Without a login into a running upload no step makes a second token.
LEMMA NextOneToken ==
  ASSUME "relogin" \notin Hazards
  PROVE  IndInv /\ OneToken /\ [Next]_vars => OneToken'
<1> SUFFICES ASSUME IndInv, OneToken, [Next]_vars PROVE OneToken'
  OBVIOUS
<1> USE DEF OneToken, Tokens, ctrl, task, mainTask, net, power
<1>1. /\ sem \in Nat /\ posted \in Nat /\ timer \in BOOLEAN
      /\ taskAuth \in BOOLEAN
  BY DEF IndInv, TypeOK
<1>2. CASE BlindTask
  <2>1. CASE TakeSemaphore
    BY <1>1, <2>1 DEF TakeSemaphore
  <2>2. CASE FindEmpty
    BY <1>1, <2>2 DEF FindEmpty
  <2>3. CASE SleepOver
    BY <1>1, <2>3 DEF SleepOver, GiveSemaphore
  <2>4. CASE NodeBackup
    BY <1>1, <2>4 DEF NodeBackup
  <2>5. CASE PackNothing \/ ReadSlot \/ PassSlot \/ PackDone
    BY <1>1, <2>5 DEF PackNothing, ReadSlot, PassSlot, PackDone
  <2>6. CASE BulkUpTrans
    BY <1>1, <2>6 DEF BulkUpTrans
  <2>7. CASE SetProbe
    BY <1>1, <2>7 DEF SetProbe
  <2> QED
    BY <1>2, <2>1, <2>2, <2>3, <2>4, <2>5, <2>6, <2>7 DEF BlindTask
<1>3. CASE MainTask
  <2>1. CASE StartReportTimer
    BY <1>1, <2>1 DEF StartReportTimer
  <2>2. CASE ReportTimeout
    <3>1. sem' = sem \/ sem' = sem + 1
      BY <2>2, Zenon DEF ReportTimeout, GiveSemaphore
    <3>2. timer /\ timer' = FALSE /\ UNCHANGED <<task, posted>>
      BY <2>2 DEF ReportTimeout
    <3> QED
      BY <1>1, <3>1, <3>2
  <2>3. CASE ResetProbe \/ ReportAck
    BY <1>1, <2>3 DEF ResetProbe, ReportAck
  <2> QED
    BY <1>3, <2>1, <2>2, <2>3 DEF MainTask
<1>4. CASE Save
  BY <1>1, <1>4 DEF Save, SaveWrite, SaveCount
<1>5. CASE Environment
  <2>1. CASE Login
    BY <1>1, <2>1 DEF Login, GiveSemaphore, Outstanding
  <2>2. CASE LinkLost \/ Deauthorise
    BY <1>1, <2>2 DEF LinkLost, Deauthorise
  <2>3. CASE LinkDies \/ PlatformReplies \/ PlatformSilent
    BY <1>1, <2>3 DEF LinkDies, PlatformReplies, PlatformSilent
  <2> QED
    BY <1>5, <2>1, <2>2, <2>3 DEF Environment
<1>6. CASE Power
  <2>1. CASE PowerDown \/ BackUpNode \/ PlannedReset
    BY <1>1, <2>1 DEF PowerDown, BackUpNode, PlannedReset, SaveNodeAndStop
  <2>2. CASE WakeUp \/ Crash
    <3>1. sem' = 0 /\ posted' = 0 /\ timer' = FALSE /\ pc' = "take"
      BY <2>2, Zenon DEF WakeUp, Crash, Restart
    <3> QED
      BY <3>1
  <2> QED
    BY <1>6, <2>1, <2>2 DEF Power
<1>7. CASE UNCHANGED vars
  BY <1>7 DEF vars
<1> QED
  BY <1>2, <1>3, <1>4, <1>5, <1>6, <1>7 DEF Next

\* As long as no login comes into a running upload, a pack is prepared only
\* after the fate of the one before is decided, whatever else goes wrong.
THEOREM OnePackAtATime ==
  ASSUME "relogin" \notin Hazards
  PROVE  Spec => []OnePackOut
<1>1. Init => IndInv /\ OneToken
  BY InitIndInv DEF Init, OneToken, Tokens
<1>2. IndInv /\ OneToken /\ [Next]_vars => IndInv' /\ OneToken'
  BY NextIndInv, NextOneToken
<1>3. IndInv /\ OneToken => OnePackOut
  BY DEF IndInv, TypeOK, OneToken, Tokens, OnePackOut, Preparing
<1> QED
  BY <1>1, <1>2, <1>3, PTL DEF Spec

-----------------------------------------------------------------------------
(* The shape of the queue. *)

\* QueueShape is not inductive alone: in the middle of a save the head has
\* moved and the count has not, and then nothing else may touch the record.
ShapeInv == /\ QueueShape
            /\ nextRec >= 1
            /\ Preparing => Idle
            /\ \A s \in Savers : saving[s] # None => InShape(AdvanceTail(q))

\* Every step keeps the shape, if saves do not overlap the preparation of a
\* pack, only the main task saves and no other task resets the device then.
LEMMA NextShapeInv ==
  ASSUME "overlapping_save" \notin Hazards, "reset_in_save" \notin Hazards,
         Savers \subseteq {"main"}
  PROVE  IndInv /\ ShapeInv /\ [Next]_vars => ShapeInv'
<1> SUFFICES ASSUME IndInv, ShapeInv, [Next]_vars PROVE ShapeInv'
  OBVIOUS
<1> USE DEF ShapeInv, QueueShape, Idle, Preparing, None, ctrl, task, mainTask,
            net, power
<1>1. /\ q \in Control /\ backup \in Control /\ node \in Control
      /\ probe \in BOOLEAN /\ saving \in [Savers -> Nat] /\ nextRec \in Nat
      /\ pc = "advance" => q.len > 0
      /\ timer => backup.len > 0
  BY DEF IndInv, TypeOK, Outstanding
<1>2. MainFree => Idle
  BY DEF MainFree
<1>3. CASE BlindTask
  <2>1. CASE TakeSemaphore \/ FindEmpty \/ SleepOver \/ SetProbe
    BY <2>1 DEF TakeSemaphore, FindEmpty, SleepOver, SetProbe
  <2>2. CASE NodeBackup
    BY <2>2 DEF NodeBackup
  <2>3. CASE PackNothing \/ ReadSlot \/ PackDone \/ BulkUpTrans
    BY <2>3 DEF PackNothing, ReadSlot, PackDone, BulkUpTrans
  <2>4. CASE PassSlot
    <3>1. InShape(AdvanceHead(q)) /\ Idle
      BY <1>1, <2>4, AdvanceHeadShape DEF PassSlot
    <3> QED
      BY <2>4, <3>1 DEF PassSlot
  <2> QED
    BY <1>3, <2>1, <2>2, <2>3, <2>4 DEF BlindTask
<1>4. CASE MainTask
  <2>1. CASE StartReportTimer \/ ResetProbe \/ ReportAck
    BY <2>1 DEF StartReportTimer, ResetProbe, ReportAck
  <2>2. CASE ReportTimeout
    <3>1. timer /\ Idle
      BY <1>2, <2>2 DEF ReportTimeout
    <3>2. InShape(NodeResume(backup, probe))
      BY <1>1, <3>1, NodeResumeShape
    <3>3. q' = q \/ q' = NodeResume(backup, probe)
      BY <2>2, Zenon DEF ReportTimeout
    <3>4. node' = q' \/ node' = node
      BY <2>2, Zenon DEF ReportTimeout
    <3>5. UNCHANGED <<backup, pc, saving, nextRec>>
      BY <2>2 DEF ReportTimeout
    <3> QED
      BY <3>1, <3>2, <3>3, <3>4, <3>5
  <2> QED
    BY <1>4, <2>1, <2>2 DEF MainTask
<1>5. CASE Save
  <2>1. PICK s \in Savers : SaveWrite(s) \/ SaveCount(s)
    BY <1>5 DEF Save
  <2>2. CASE SaveWrite(s)
    <3>1. Idle /\ ~Preparing
      BY <2>2 DEF SaveWrite
    <3>2. q' = MakeRoom(q) /\ UNCHANGED <<node, backup, pc>>
      BY <2>2 DEF SaveWrite
    <3>3. InShape(AdvanceTail(q'))
      BY <1>1, <3>1, <3>2, SaveShape
    <3>4. saving' = [saving EXCEPT ![s] = nextRec] /\ nextRec' = nextRec + 1
      BY <2>2 DEF SaveWrite
    <3>5. ~Idle'
      BY <1>1, <3>4
    <3> QED
      BY <1>1, <3>1, <3>2, <3>3, <3>4, <3>5
  <2>3. CASE SaveCount(s)
    <3>1. saving[s] # None /\ q' = AdvanceTail(q) /\ UNCHANGED <<node, backup, pc, nextRec>>
      BY <2>3 DEF SaveCount
    <3>2. \A t \in Savers : saving'[t] = None
      BY <1>1, <2>3 DEF SaveCount
    <3> QED
      BY <3>1, <3>2
  <2> QED
    BY <2>1, <2>2, <2>3
<1>6. CASE Environment
  <2>1. UNCHANGED <<q, node, backup, pc, saving, nextRec>>
    BY <1>6 DEF Environment, Login, LinkLost, Deauthorise, LinkDies,
                PlatformReplies, PlatformSilent
  <2> QED
    BY <2>1
<1>7. CASE Power
  <2>1. CASE PowerDown \/ BackUpNode \/ PlannedReset
    BY <1>2, <2>1 DEF PowerDown, BackUpNode, PlannedReset, SaveNodeAndStop
  <2>2. CASE WakeUp \/ Crash
    <3>1. Restart
      BY <2>2 DEF WakeUp, Crash
    <3>2. /\ q' = node /\ node' = node /\ backup' = EmptyControl
          /\ pc' = "take" /\ saving' = [s \in Savers |-> None]
          /\ nextRec' = nextRec
      BY <3>1, Zenon DEF Restart
    <3> QED
      BY <3>2, EmptyControlShape
  <2> QED
    BY <1>7, <2>1, <2>2 DEF Power
<1>8. CASE UNCHANGED vars
  BY <1>8 DEF vars
<1> QED
  BY <1>3, <1>4, <1>5, <1>6, <1>7, <1>8 DEF Next

\* Under that discipline the tail is where head and len say it is, in RAM, in
\* the copy that a timeout restores and in flash, through every crash, late
\* reply, repeated save and second login.
THEOREM QueueKeepsShape ==
  ASSUME "overlapping_save" \notin Hazards, "reset_in_save" \notin Hazards,
         Savers \subseteq {"main"}
  PROVE  Spec => []QueueShape
<1>1. Init => IndInv /\ ShapeInv
  BY InitIndInv, EmptyControlShape
     DEF Init, ShapeInv, QueueShape, Preparing, Idle, None
<1>2. IndInv /\ ShapeInv /\ [Next]_vars => IndInv' /\ ShapeInv'
  BY NextIndInv, NextShapeInv
<1>3. ShapeInv => QueueShape
  BY DEF ShapeInv
<1> QED
  BY <1>1, <1>2, <1>3, PTL DEF Spec
=============================================================================

----------------------------- MODULE BlindQueue -----------------------------
(***************************************************************************)
(* The control record of the blind-area queue (Blind.c, BLIND_SAVE_STU):   *)
(* a circular queue of position records kept in a reserved flash area.     *)
(* The record holds the index of the oldest slot (head), of the next slot  *)
(* to write (tail) and the number of waiting records (len).  A slot index  *)
(* stands for the flash address                                            *)
(*   FLASH_BLIND_AREA_SAVE_START_ADDR + index * FLASH_BLIND_STEP_LEN.      *)
(* This module holds the pure updates of that record; the tasks that       *)
(* perform them are in BlindUpload.                                        *)
(***************************************************************************)
EXTENDS Naturals

CONSTANT Cap    \* queueCapacity, FLASH_BLIND_AREA_SAVE_NUM in the firmware

\* The flash area has room for at least two records (262 in the firmware).
ASSUME CapAssumption == Cap \in Nat /\ Cap >= 2

Index == 0 .. (Cap - 1)

Control == [head : Index, tail : Index, len : 0 .. Cap]

\* A freshly created queue (Blind_CirQueueGenericCreate clears the record).
EmptyControl == [head |-> 0, tail |-> 0, len |-> 0]

\* Faults for the mutation checks: no wrap round, no room made, a count past
\* the capacity, a timeout that replays no save or always one.
SuccNoWrap(i) == i + 1
MakeRoomNone(c) == c
AdvanceTailAlwaysCounts(c) ==
  [head |-> c.head, tail |-> (c.tail + 1) % Cap, len |-> c.len + 1]
NodeResumeNoReplay(b, probe) == b
NodeResumeAlways(b, probe) ==
  [head |-> b.head, tail |-> (b.tail + 1) % Cap,
   len  |-> IF b.len = Cap THEN b.len ELSE b.len + 1]

\* One step round the ring: the ++ and the % queueCapacity that follows it.
Succ(i) == (i + 1) % Cap

IsCirQueueEmpty(c) == c.len = 0

IsCirQueueFull(c) == c.len = Cap

-----------------------------------------------------------------------------
\* EnCirQueue, first half: on a collision the oldest record gives way.
MakeRoom(c) ==
  IF ~IsCirQueueEmpty(c) /\ c.tail = c.head
    THEN [c EXCEPT !.head = Succ(@)]
    ELSE c

\* EnCirQueue, second half: count the record written at the tail slot.
AdvanceTail(c) ==
  [head |-> c.head,
   tail |-> Succ(c.tail),
   len  |-> IF IsCirQueueFull(c) THEN c.len ELSE c.len + 1]

\* DeCirQueue, after the slot has been read.
AdvanceHead(c) == [c EXCEPT !.head = Succ(@), !.len = @ - 1]

\* NodeResume: back to the copy b taken before the pack was read; one save
\* is replayed when the probe says that a save happened meanwhile.
NodeResume(b, probe) ==
  IF probe
    THEN b
    ELSE AdvanceTail(IF b.tail = b.head THEN [b EXCEPT !.head = Succ(@)]
                                        ELSE b)

-----------------------------------------------------------------------------
\* The i-th waiting slot (1 is the oldest).
SlotAt(c, i) == (c.head + i - 1) % Cap

\* The slots that hold waiting records.
Live(c) == { SlotAt(c, i) : i \in 1 .. c.len }

\* The tail is where head and len say it is.
InShape(c) == \/ c.tail = c.head + c.len
              \/ c.tail = c.head + c.len - Cap
=============================================================================

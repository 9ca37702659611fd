----------------------------- MODULE BlindStore -----------------------------
(***************************************************************************)
(* What the blind-area store promises to the reports that could not be     *)
(* confirmed: a bounded queue of records, oldest first, that gives records *)
(* up only to the platform, or the oldest one when it is full.  How Blind.c *)
(* keeps that promise with packs, timeouts and a copy of its control       *)
(* record is in BlindUpload, which implements this module.                 *)
(***************************************************************************)
EXTENDS Naturals, Sequences

CONSTANT Room   \* the number of records there is room for, at least one

VARIABLES
  entries,   \* the records waiting, oldest first
  received,  \* the records the platform has got
  put        \* how many records were ever put; they are numbered from 1

vars == <<entries, received, put>>

Init == entries = <<>> /\ received = {} /\ put = 0

\* A new record; when there is no room the oldest one gives way.
Put ==
  /\ put' = put + 1
  /\ entries' = Append(IF Len(entries) = Room THEN Tail(entries) ELSE entries,
                       put + 1)
  /\ UNCHANGED received

\* The platform gets some of the records that were put.
Receive ==
  /\ \E some \in SUBSET (1 .. put) : received' = received \cup some
  /\ UNCHANGED <<entries, put>>

\* The oldest records are given up, all of them received.
Confirm ==
  /\ \E n \in 1 .. Len(entries) :
       /\ \A i \in 1 .. n : entries[i] \in received
       /\ entries' = SubSeq(entries, n + 1, Len(entries))
  /\ UNCHANGED <<received, put>>

Next == Put \/ Receive \/ Confirm

Spec == Init /\ [][Next]_vars
=============================================================================

------------------------------ MODULE EventFeed ------------------------------
(***************************************************************************)
(* What a connector promises of one source ("drop-free, duplicate-free     *)
(* paging", collectors.py): alerts are taken in once each, in time order   *)
(* and without gaps.  Only what is older than everything ever taken - the  *)
(* alerts before the first poll's lookback - may stay out.                 *)
(***************************************************************************)
EXTENDS Integers

CONSTANTS Alerts, TimeOf

VARIABLES
  published,   \* the alerts the source holds
  copies       \* how often each alert has been stored

vars == <<published, copies>>

Delivered == {a \in Alerts : copies[a] > 0}

Init ==
  /\ published = {}
  /\ copies = [a \in Alerts |-> 0]

Publish ==
  /\ \E a \in Alerts \ published : published' = published \union {a}
  /\ UNCHANGED copies

(* No alert is left out between two that are taken.                        *)
Gapless(taken) ==
  \A a \in taken, b \in published \ taken :
    TimeOf[a] <= TimeOf[b] \/ \A d \in taken : TimeOf[b] < TimeOf[d]

Deliver ==
  \E batch \in SUBSET (published \ Delivered) :
    /\ batch # {}
    /\ Gapless(Delivered \union batch)
    /\ \A a \in batch, d \in Delivered : TimeOf[d] <= TimeOf[a]
    /\ copies' = [a \in Alerts |-> IF a \in batch THEN 1 ELSE copies[a]]
    /\ UNCHANGED published

Next == Publish \/ Deliver

Spec == Init /\ [][Next]_vars
=============================================================================

------------------------------ MODULE MCHunts ------------------------------
(* Two scenarios of one provider and two addresses, chosen in the initial  *)
(* state: two events that carry both, one each way, so that their          *)
(* enrichments look them up in opposite orders; or the sweep and the       *)
(* button hunting both at once.                                            *)
EXTENDS CtiHunt

CONSTANTS vt, ip1, ip2, sweep, button, there, back

VARIABLE scenario

MCProviders == <<vt>>
MCLookups == (Hunters \X Indicators) \union {there, back}
MCIndicatorsOf ==
  [l \in MCLookups |->
     IF l = there THEN <<ip1, ip2>> ELSE IF l = back THEN <<ip2, ip1>> ELSE <<l[2]>>]

(* Both addresses are leads: two hunts wait for each other over two rows.  *)
MCInit ==
  /\ Init /\ scenario \in {"enrichments", "hunts"}
  /\ verdict = [k \in Keys |-> Top]

MCNext ==
  /\ \/ Tick
     \/ \E l \in Lookups : LookStep(l) \/ LookAborts(l)
     \/ \E l \in Requests : scenario = "enrichments" /\ Requested(l)
     \/ \E l \in Requests : Answered(l)
     \/ \E h \in Hunters : scenario = "hunts" /\ Begin(h)
     \/ \E h \in Hunters : HuntStep(h)
  /\ UNCHANGED scenario

MCSpec == MCInit /\ [][MCNext]_<<vars, scenario>> /\ Fairness
=============================================================================

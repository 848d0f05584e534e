----------------------------- MODULE MCCtiHunt -----------------------------
(* One hunter beside a request about the same indicator, one tenant and    *)
(* one provider.  A hunter alone is in no circle of hunters.               *)
EXTENDS CtiHunt

CONSTANTS vt, ip1, sweep, request

MCProviders == <<vt>>
MCLookups == (Hunters \X Indicators) \union {request}
MCIndicatorsOf == [l \in MCLookups |-> IF l = request THEN <<ip1>> ELSE <<l[2]>>]

MCNext == Surroundings \/ \E h \in Hunters : Begin(h) \/ HuntWork(h)

MCSpec == Init /\ [][MCNext]_vars /\ Fairness /\ Recurring
=============================================================================

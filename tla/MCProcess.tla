----------------------------- MODULE MCProcess -----------------------------
(* What lives in the application's process: its two loops, the debounce of *)
(* a tenant, or the requests about accounts.  They share no state, so each *)
(* behaviour is about one of them, chosen in the initial state.            *)
EXTENDS MCAppLifespan, AutoCorrelation, MCAccounts

VARIABLE subject

MCInit ==
  /\ subject \in {"loops", "debounce", "accounts"}
  /\ AppInit /\ Init /\ AccountInit
  /\ subject # "loops" => sealed = {}

MCNext ==
  \/ subject = "loops" /\ AppNext /\ UNCHANGED <<vars, accountVars, subject>>
  \/ subject = "debounce" /\ Next /\ UNCHANGED <<appVars, accountVars, subject>>
  \/ subject = "accounts" /\ AccountNext /\ UNCHANGED <<appVars, vars, subject>>

(* The fairness of each says nothing of the others, which are at rest.     *)
MCSpec ==
  MCInit /\ [][MCNext]_<<appVars, vars, accountVars, subject>> /\ AppFairness /\ Fairness
=============================================================================

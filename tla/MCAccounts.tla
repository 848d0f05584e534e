----------------------------- MODULE MCAccounts -----------------------------
(* A user each of two tenants, of which MfaRace takes the first, and two   *)
(* requests at a time.                                                     *)
EXTENDS Accounts, TLC

CONSTANTS org, org2, user, user2, r1, r2

MCOrgOf == [u \in Users |-> IF u = user THEN org ELSE org2]

MCOperator == {"create_user", "patch_tenant", "patch_user"}
MCOwn == DOMAIN Sessions \ MCOperator
MCEither == [about \in Requests \X Users |-> MCOwn \union {"create_user"}]

(* The other user is created and logs in, which is enough for a row and a  *)
(* context of the other tenant on the connections.                         *)
MCKindsOf ==
  [about \in Requests \X Users |->
     CASE about = <<r1, user>> -> MCOwn [] about = <<r2, user>> -> MCOperator
       [] about[1] = r1 -> {"login"} [] OTHER -> {"create_user"}]
=============================================================================

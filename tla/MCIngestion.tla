---------------------------- MODULE MCIngestion ----------------------------
(* Three batches whose signals form a circle, and process events that name *)
(* the same two processes in opposite orders (each spawns the other); a    *)
(* hostile and an unknown payload stand among them.                        *)
EXTENDS Ingestion

CONSTANTS p1, p2, p3, p4, p5, p6, hostile, unknown

MCKindOf == [p \in Payloads |->
  CASE p = hostile -> "hostile" [] p = unknown -> "unknown" [] OTHER -> "event"]
MCTimeOf == [p \in Payloads |->
  CASE p = p1 -> 4 [] p = p2 -> 2 [] p = p3 -> 1 [] OTHER -> 3]
MCSignalOf == [p \in Payloads |->
  CASE p \in {p1, p6} -> "rule 1" [] p \in {p2, p3} -> "rule 2" [] OTHER -> "rule 3"]
MCGraphOf == [p \in Payloads |->
  CASE p \in {p1, p2} -> <<"cmd", "powershell", "powershell spawned cmd">>
    [] p = p3         -> <<"powershell", "cmd", "cmd spawned powershell">>
    [] OTHER          -> <<>>]
MCContentOf == [b \in Batches |->
  CASE b = 1 -> <<p1, hostile, p2>> [] b = 2 -> <<p3, unknown, p4>> [] OTHER -> <<p5, p6>>]
=============================================================================

-------------------------- MODULE MCWazuhCollector --------------------------
(* Nothing fails, search and POST fail, or everything may.                 *)
EXTENDS WazuhCollector

MCScenarios == {{}, {"fetch", "ship", "reply"}, {"fetch", "ship", "reply", "crash"}}
=============================================================================

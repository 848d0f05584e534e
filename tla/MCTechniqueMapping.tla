------------------------- MODULE MCTechniqueMapping -------------------------
(* Two events of PowerShell, whose technique the rules learnt after the    *)
(* deployment.  One of them the deployed rules tag for deleting files, of  *)
(* which they were less sure, and for a technique they look for no more.   *)
(* And an event with a vendor id that the rules would tag too.             *)
EXTENDS TechniqueMapping

CONSTANT ai

MCNothing ==
  [event_id |-> {}, category |-> {"sysmon"}, process_image |-> {}, parent_image |-> {},
   target_image |-> {}, command_line |-> {}, action |-> {}, provider |-> {},
   registry_target |-> {}, message_excerpt |-> {}, details |-> {}]

MCContentOf ==
  <<[MCNothing EXCEPT !.event_id = {"1"}, !.process_image = {"powershell"},
                      !.command_line = {"sdelete"}],
    [MCNothing EXCEPT !.event_id = {"4625"}],
    [MCNothing EXCEPT !.process_image = {"powershell"}, !.command_line = {"-enc"}]>>

MCVendorIdsOf == <<{}, {"T1078"}, {}>>
MCTimeOf == <<10, 20, 30>>
MCDeployedOf == <<{<<"T1070.004", 50>>, <<"T1204", 40>>}, {<<"T1110", 60>>}, {}>>
MCCatalogue == {"T1059.001", "T1105"}

(* An id out of the catalogue, one proposed twice, a confidence that is no *)
(* number, one under the cap, and one that no float can hold.              *)
MCReplies ==
  {<< <<"T9999", 80>>, <<"T1059.001", 90>>, <<"T1059.001", 10>> >>,
   << <<"T1105", 0>>, <<"T1059.001", 20>> >>,
   << <<"T1105", Infinite>> >>}
=============================================================================

---------------------------- MODULE MCTechniques ----------------------------
(* The tables of TechniqueMapping, or one of the samples of Analysis: the  *)
(* subject is chosen in the initial state and stays.                       *)
EXTENDS MCTechniqueMapping, Analysis

Tables == [subject |-> "tables"]

MCInit == Init /\ sample \in Samples \union {Tables}
MCNext ==
  \/ sample = Tables /\ Next /\ UNCHANGED sample
  \/ sample # Tables /\ Grow /\ UNCHANGED vars

(* The fairness of the tables; it says nothing of the samples.               *)
MCSpec == MCInit /\ [][MCNext]_<<vars, sample>> /\ Fairness
-----------------------------------------------------------------------------
MCTactics ==
  [t \in {"T1003.001", "T1005", "T1021.002", "T1047", "T1053.005", "T1055", "T1056.001", "T1059",
          "T1059.001", "T1059.003", "T1059.005", "T1070.004", "T1070.006", "T1110", "T1113",
          "T1115", "T1140", "T1218.005", "T1218.010", "T1218.011", "T1543.003", "T1546.003",
          "T1547.001", "T1548.002", "T1552.004", "T1558.001", "T1562.001"} |->
     CASE t \in {"T1003.001", "T1110", "T1552.004", "T1558.001"} -> {"credential-access"}
       [] t \in {"T1005", "T1113", "T1115"} -> {"collection"}
       [] t = "T1056.001" -> {"collection", "credential-access"}
       [] t = "T1021.002" -> {"lateral-movement"}
       [] t \in {"T1047", "T1059", "T1059.001", "T1059.003", "T1059.005"} -> {"execution"}
       [] t \in {"T1055", "T1548.002"} -> {"privilege-escalation", "stealth"}
       [] t \in {"T1053.005", "T1543.003", "T1546.003", "T1547.001"} ->
            {"persistence", "privilege-escalation"}
       [] OTHER -> {"stealth"}]

MCCritical == {"credential-access", "privilege-escalation", "lateral-movement"}

Each(words) == {{w} : w \in words}

MCPieces ==
  [event_id        |-> Each({"1", "2", "8", "10", "13", "20", "4104", "4625", "7045"}),
   category        |-> Each({"powershell"}),
   process_image   |-> Each({"powershell", "cmd.exe", "rundll32.exe", "sc.exe", "psexec",
                             "certutil.exe", "mshta.exe", "wscript.exe", "schtasks.exe"}),
   parent_image    |-> Each({"winword.exe", "wmiprvse.exe"}),
   target_image    |-> Each({"lsass.exe"}),
   command_line    |-> Each({"-enc", "create", "-decode", "sekurlsa::", "sdelete"}),
   action          |-> Each({"scheduled-task"}),
   provider        |-> {},
   registry_target |-> Each({"currentversion\\run", "shell\\open\\command"}),
   message_excerpt |-> Each({"get-keystrokes", "amsiutils"}) \union {{"childitem", "-include", "*.doc"}},
   details         |-> {}]

Seen(time, host, user, process, parent, target, src, dst) ==
  [time |-> time, host |-> host, user |-> user, process |-> process, parent |-> parent,
   target |-> target, src |-> src, dst |-> dst]

(* Two hosts that connect to each other, processes that spawn each other,  *)
(* one that spawns its like and accesses another.                          *)
MCGraphEvents ==
  {Seen(1, "h1", "none", "cmd", "none", "none", "none", "ip2"),
   Seen(2, "h2", "none", "none", "none", "none", "ip2", "ip1"),
   Seen(3, "h1", "u", "none", "none", "none", "ip1", "none"),
   Seen(4, "h2", "none", "ps", "cmd", "cmd", "none", "none"),
   Seen(5, "none", "u", "cmd", "ps", "lsass", "none", "none"),
   Seen(6, "h1", "none", "ps", "ps", "lsass", "none", "ip2")}

Token(kind, value, span) == [kind |-> kind, value |-> value, span |-> span]

(* "T1218.011 (" is 11 characters, "stealth) and " 13, "stealth), " 10.    *)
MCTokens ==
  {Token("id", "T1218.011", 11), Token("id", "T1003.001", 11), Token("id", "T9999", 7),
   Token("tactic", "stealth", 13), Token("tactic", "stealth", 10), Token("tactic", "credential-access", 23),
   Token("titled", "Quantum", 16), Token("titled", "stealth", 16),
   Token("listed", "stealth", 9), Token("listed", "Chaos", 9),
   Token("binary", "psexec.exe", 11), Token("tool", "mimikatz", 9)}

Id(id, name) == [id |-> id, name |-> name]

MCFields ==
  [wazuh |-> ("mitre.id" :> {{Id("T1110", ""), Id("T1055", "Injection")}, {Id("T12", "")}, {}})
             @@ ("timestamp" :> {{"time1"}, {"junk"}}) @@ ("groups" :> {{}, {"sshd"}})
             @@ ("dstuser" :> {{}, {"root"}}) @@ ("srcuser" :> {{"admin"}}),
   crowdstrike |-> ("technique_id" :> {{Id("T1110", "")}, {Id("CST0001", "")}})
             @@ ("timestamp" :> {{}, {"junk"}}) @@ ("created_timestamp" :> {{"time1"}})
             @@ ("cmdline" :> {{}, {"-enc"}}) @@ ("filename" :> {{"powershell"}}),
   cortex_xdr |-> ("mitre_technique_id_and_name" :>
                     {{Id("T1055", "Process Injection"), Id("none", "")}, {Id("T1110", "")}, {}})
             @@ ("detection_timestamp" :> {{"junk"}}) @@ ("creation_time" :> {{"time1"}}),
   securitydatasets |-> ("EventID" :> {{"4688"}, {"2"}}) @@ ("Image" :> {{}, {"powershell"}})
             @@ ("NewProcessName" :> {{"powershell"}, {"cmd.exe"}, {}})
             @@ ("ParentProcessName" :> {{"winword.exe"}, {"wmiprvse.exe"}, {}})
             @@ ("SourceImage" :> {{"mshta.exe"}}) @@ ("CommandLine" :> {{"-enc"}, {}})
             @@ ("Message" :> {{}, {"get-clipboard"}}) @@ ("EventTime" :> {{"time1"}, {"junk"}}),
   evtx |-> ("Image" :> {{}, {"powershell"}}) @@ ("SystemTime" :> {{"time1"}, {"junk"}})
             @@ ("RuleName" :> {{}}) @@ ("EventID" :> {{"1"}})]
=============================================================================

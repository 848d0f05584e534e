-------------------------- MODULE TechniqueRules --------------------------
(***************************************************************************)
(* The deterministic ATT&CK rules of services/technique_rules.py, the      *)
(* vendor ids of services/mitre.py and the parsing of an AI reply of       *)
(* services/ai_classifier.py.  A text is the set of the words the rules    *)
(* look for that occur in it; the word for a binary stands for a path that *)
(* ends with it.                                                           *)
(***************************************************************************)
EXTENDS Integers, SequencesExt

(***************************************************************************)
(* What the rules read of an event, which keeps category and action in     *)
(* columns and the rest among its attributes: the words of each fact.      *)
(***************************************************************************)
Facts(e) ==
  UNION {{"event_id"} \X e.event_id,        {"channel"} \X e.category,
         {"image"} \X e.process_image,      {"parent"} \X e.parent_image,
         {"target"} \X e.target_image,      {"command"} \X e.command_line,
         {"action"} \X e.action,            {"provider"} \X e.provider,
         {"registry"} \X e.registry_target, {"message"} \X (e.message_excerpt \cup e.details)}

(* A rule fires if each of its needs is met, by one of the words in one of *)
(* the facts.                                                              *)
Rule(technique, confidence, needs) ==
  [technique |-> technique, confidence |-> confidence, needs |-> needs]

Rules ==
  LET id(ids)        == {"event_id"} \X ids
      image(words)   == {"image"} \X words
      command(words) == {"command"} \X words
      message(words) == {"message"} \X words
      logged(words)  == {"provider", "channel"} \X words
      shells == {"powershell", "cmd.exe", "wscript.exe", "cscript.exe", "mshta.exe"}
  IN  <<
    Rule("T1003.001", 90, {id({"10"}), {"target", "action", "message"} \X {"lsass.exe"}}),
    Rule("T1059.001", 85, {image({"powershell"}) \cup logged({"powershell"}), command({"-enc"})}),
    Rule("T1059.001", 60, {id({"1", "4688"}), image({"powershell"})}),
    Rule("T1059.001", 55, {id({"4104"})}),
    Rule("T1059.003", 45, {image({"cmd.exe"})}),
    Rule("T1059",     40, {id({"1"}), {"parent"} \X {"winword.exe", "excel.exe", "powerpnt.exe"}}),
    Rule("T1218.011", 70, {image({"rundll32.exe"})}),
    Rule("T1218.010", 70, {image({"regsvr32.exe"})}),
    Rule("T1110",     60, {id({"4625"})}),
    Rule("T1053.005", 65, {image({"schtasks.exe"}) \cup ({"action"} \X {"scheduled-task"})}),
    Rule("T1543.003", 65, {id({"7045"})}),
    Rule("T1543.003", 55, {image({"sc.exe"}), command({"create", "config", "start"})}),
    Rule("T1021.002", 75, {image({"psexec", "psexesvc.exe"}) \cup command({"psexesvc"})}),
    Rule("T1055",     70, {id({"8"})}),
    Rule("T1070.004", 70, {image({"sdelete"}) \cup command({"sdelete"})}),
    Rule("T1547.001", 75, {{"registry"} \X {"currentversion\\run"}}),
    Rule("T1140",     65, {image({"certutil.exe"}), command({"-decode", "-urlcache", "-verifyctl"})}),
    Rule("T1218.005", 65, {image({"mshta.exe"})}),
    Rule("T1059.005", 50, {image({"wscript.exe", "cscript.exe"})}),
    Rule("T1047",     50, {image({"wmic.exe"}) \cup ({"parent"} \X {"wmiprvse.exe"})}),
    Rule("T1546.003", 85, {id({"19", "20", "21"})}),
    Rule("T1070.006", 80, {id({"2"}), image(shells \cup {"rundll32.exe"})}),
    Rule("T1548.002", 80, {id({"12", "13"}), {"registry"} \X {"shell\\open\\command"},
                           image(shells \cup {"reg.exe"})}),
    Rule("T1558.001", 90, {message({"kerberos::golden"}) \cup command({"kerberos::golden"})}),
    Rule("T1003.001", 85, {{"message", "command"} \X {"invoke-mimikatz", "sekurlsa::", "lsadump::"}}),
    Rule("T1113",     75, {message({"invoke-screencapture", "copyfromscreen"})}),
    Rule("T1115",     65, {message({"get-clipboard"})}),
    Rule("T1056.001", 85, {message({"get-keystrokes", "getasynckeystate"})}),
    Rule("T1552.004", 80, {message({"get-privatekeys", "export-pfxcertificate"})}),
    Rule("T1562.001", 70, {logged({"powershell"}), message({"amsiinitfailed", "amsiutils", "amsi.dll"})}),
    Rule("T1005",     70, {message({"childitem"}), message({"-include"}), message({"*.doc"})})>>

(***************************************************************************)
(* classify: every rule fires that matches, and a technique keeps the      *)
(* highest of its confidences.                                             *)
(***************************************************************************)
Firing(facts) == {i \in DOMAIN Rules : \A need \in Rules[i].needs : need \cap facts # {}}

Fired(facts) == {<<Rules[i].technique, Rules[i].confidence>> : i \in Firing(facts)}

Highest(matches) == {m \in matches : \A n \in matches : n[1] = m[1] => n[2] <= m[2]}

Classify(e) == Highest(Fired(Facts(e)))

(***************************************************************************)
(* parse_proposals: of the items of an AI reply, the first of each         *)
(* technique of the catalogue, with a confidence between 1 and the cap.    *)
(* Prose around the array, an item that is no object and an id that is     *)
(* malformed leave nothing behind; a confidence that is no number is 0     *)
(* (but see Overflows).                                                    *)
(***************************************************************************)
Proposed(reply, catalogue) ==
  {i \in DOMAIN reply : /\ reply[i][1] \in catalogue
                        /\ \A j \in 1..(i - 1) : reply[j][1] # reply[i][1]}

Clamped(confidence, cap) ==
  IF confidence < 1 THEN 1 ELSE IF confidence > cap THEN cap ELSE confidence
===========================================================================

--------------------------- MODULE Normalization ---------------------------
(***************************************************************************)
(* The five normalizers of argus/connectors.  A payload is a function from *)
(* the vendor's field names (a field of a nested block under its own name) *)
(* to values, without the fields it lacks; a value is the set of the words *)
(* in it, none if the field is there but empty; null counts as lacking.    *)
(* Each column and attribute of the normalized event names the vendor      *)
(* fields it is taken from, the preferred one first; a category or action  *)
(* that no field gives, which the code fills with a constant, is Absent.   *)
(* Of the attributes those are kept that the rules of TechniqueRules read; *)
(* a Message stands for its first 500 characters, all Mordor keeps of it.  *)
(***************************************************************************)
EXTENDS Integers, SequencesExt

CONSTANTS
  Received,      \* the time of receipt
  Instants,      \* values of a time field that parse
  Techniques     \* the well-formed technique ids

Absent == {}

Truthy(payload, field) == field \in DOMAIN payload /\ payload[field] # {}

(* a.get(x) or a.get(y) or ...: the first that is there and not empty.     *)
FirstOf(payload, fields) ==
  LET there == {i \in DOMAIN fields : Truthy(payload, fields[i])}
  IN  IF there = {} THEN Absent ELSE payload[fields[Min(there)]]

(* Mutant: the field alone.                                                *)
GivenOnly(payload, field, fallbacks) ==
  IF field \in DOMAIN payload THEN payload[field] ELSE Absent

(* if a.get(x) is not None: the field, be it empty, and only then those it *)
(* falls back on.                                                          *)
GivenOr(payload, field, fallbacks) ==
  IF field \in DOMAIN payload THEN payload[field] ELSE FirstOf(payload, fallbacks)

(***************************************************************************)
(* _parse_time: the first field that parses, or the time of receipt.       *)
(* Mordor tries its fields in turn; the others only try the first that is  *)
(* not empty.                                                              *)
(***************************************************************************)
AnyTime(payload, fields) ==
  LET parsed == {i \in DOMAIN fields : Truthy(payload, fields[i]) /\ payload[fields[i]] \in Instants}
  IN  IF parsed = {} THEN Received ELSE payload[fields[Min(parsed)]]

OneTime(payload, fields) ==
  LET value == FirstOf(payload, fields)
  IN  IF value \in Instants THEN value ELSE Received
-----------------------------------------------------------------------------
(***************************************************************************)
(* The technique ids the vendors resolve, as the normalizers store them.   *)
(* A vendor's value is a set of texts [id, name]; Wazuh's list is stored   *)
(* as it is, Falcon's one id goes into a list, Cortex's loses the name     *)
(* behind the id and what does not look like a T-code.                     *)
(***************************************************************************)
CortexIds(texts) == {[id |-> t.id, name |-> ""] : t \in {u \in texts : u.id \in Techniques}}

IdFields(source) == CASE source = "wazuh" -> <<"mitre.id">>
                      [] source = "crowdstrike" -> <<"technique_id">>
                      [] source = "cortex_xdr" -> <<"mitre_technique_id_and_name">>
                      [] OTHER -> <<>>

StoredIds(source, payload) ==
  LET texts == FirstOf(payload, IdFields(source))
  IN  IF source = "cortex_xdr" THEN CortexIds(texts) ELSE texts

(* extract_vendor_technique_ids: of a list, the items that are an id and   *)
(* nothing else.                                                           *)
VendorIds(stored) == {t.id : t \in {u \in stored : u.name = "" /\ u.id \in Techniques}}
-----------------------------------------------------------------------------
Normalized(time, category, action, host, user, src, dst, ids, attributes) ==
  [event_time |-> time, category |-> category, action |-> action, host_name |-> host,
   user_name |-> user, src_ip |-> src, dst_ip |-> dst, technique_ids |-> ids,
   attributes |-> attributes]

NoProcess == [event_id |-> Absent, process_image |-> Absent, parent_image |-> Absent,
              target_image |-> Absent, command_line |-> Absent, registry_target |-> Absent,
              message_excerpt |-> Absent, provider |-> Absent, details |-> Absent]

Wazuh(p) ==
  Normalized(OneTime(p, <<"timestamp">>), FirstOf(p, <<"groups">>),
             FirstOf(p, <<"description">>), FirstOf(p, <<"agent.name">>),
             FirstOf(p, <<"dstuser", "srcuser">>), FirstOf(p, <<"srcip">>),
             FirstOf(p, <<"dstip">>), StoredIds("wazuh", p), NoProcess)

CrowdStrike(p) ==
  Normalized(OneTime(p, <<"timestamp", "created_timestamp">>),
             FirstOf(p, <<"tactic", "product">>), FirstOf(p, <<"description", "display_name">>),
             FirstOf(p, <<"hostname">>), FirstOf(p, <<"user_name">>),
             FirstOf(p, <<"external_ip", "local_ip">>), Absent, StoredIds("crowdstrike", p),
             [NoProcess EXCEPT !.command_line = GivenOr(p, "cmdline", <<>>),
                               !.process_image = GivenOr(p, "filename", <<>>)])

CortexXdr(p) ==
  Normalized(OneTime(p, <<"detection_timestamp", "creation_time">>),
             FirstOf(p, <<"category">>), FirstOf(p, <<"description", "name">>),
             FirstOf(p, <<"host_name", "agent_hostname">>),
             FirstOf(p, <<"user_name", "actor_effective_username">>),
             FirstOf(p, <<"action_local_ip", "host_ip">>), FirstOf(p, <<"action_remote_ip">>),
             StoredIds("cortex_xdr", p),
             [NoProcess EXCEPT
                !.command_line = GivenOr(p, "causality_actor_process_command_line", <<>>),
                !.process_image = GivenOr(p, "causality_actor_process_image_name", <<>>)])

(* A Windows record as flattened JSON: Sysmon names the process Image, the *)
(* Security channel NewProcessName, a remote thread SourceImage.           *)
Mordor(p) ==
  Normalized(AnyTime(p, <<"@timestamp", "EventTime", "TimeCreated">>),
             FirstOf(p, <<"Channel", "SourceName">>), FirstOf(p, <<"Message", "EventID", "EventId">>),
             FirstOf(p, <<"Hostname", "Computer">>), FirstOf(p, <<"User", "TargetUserName">>),
             FirstOf(p, <<"SourceIp", "IpAddress">>), FirstOf(p, <<"DestinationIp">>), {},
             [event_id        |-> GivenOr(p, "EventID", <<>>),
              process_image   |-> GivenOr(p, "Image", <<"NewProcessName", "SourceImage">>),
              parent_image    |-> GivenOr(p, "ParentImage", <<"ParentProcessName">>),
              target_image    |-> GivenOr(p, "TargetImage", <<>>),
              command_line    |-> GivenOr(p, "CommandLine", <<>>),
              registry_target |-> GivenOr(p, "TargetObject", <<>>),
              message_excerpt |-> FirstOf(p, <<"Message">>),
              provider        |-> GivenOr(p, "SourceName", <<>>),
              details         |-> GivenOr(p, "Details", <<>>)])

(* The same record parsed out of an .evtx file.                            *)
Evtx(p) ==
  Normalized(OneTime(p, <<"SystemTime">>), FirstOf(p, <<"Channel">>),
             FirstOf(p, <<"RuleName", "Description", "EventID">>),
             FirstOf(p, <<"Computer">>),
             FirstOf(p, <<"TargetUserName", "SubjectUserName", "User">>),
             FirstOf(p, <<"SourceIp", "IpAddress">>), FirstOf(p, <<"DestinationIp">>), {},
             [NoProcess EXCEPT !.event_id = GivenOr(p, "EventID", <<>>),
                               !.process_image = FirstOf(p, <<"Image">>),
                               !.parent_image = FirstOf(p, <<"ParentImage">>),
                               !.target_image = FirstOf(p, <<"TargetImage">>),
                               !.command_line = FirstOf(p, <<"CommandLine">>)])

(* get_normalizer.                                                         *)
Normalize(source, p) ==
  CASE source = "wazuh" -> Wazuh(p) [] source = "crowdstrike" -> CrowdStrike(p)
    [] source = "cortex_xdr" -> CortexXdr(p) [] source = "securitydatasets" -> Mordor(p)
    [] source = "evtx" -> Evtx(p)
-----------------------------------------------------------------------------
(* The vendor tier finds in what the connector stored the ids the vendor   *)
(* resolved: of Wazuh and Falcon the texts that are an id and nothing      *)
(* else, of Cortex every id, whatever name stands behind it.               *)
IdsArrive(source, p) ==
  VendorIds(Normalize(source, p).technique_ids)
    = {t.id : t \in {u \in FirstOf(p, IdFields(source)) :
                       u.id \in Techniques /\ (source = "cortex_xdr" \/ u.name = "")}}

(* A process creation as the Security channel logs it.                     *)
SecurityCreation(p) ==
  /\ "EventID" \in DOMAIN p /\ p["EventID"] = {"4688"}
  /\ Truthy(p, "NewProcessName")
  /\ DOMAIN p \cap {"Image", "ParentImage"} = {}

(* The same creation as Sysmon logs it, under its own id and names.        *)
SecurityName(field) ==
  CASE field = "Image" -> "NewProcessName" [] field = "ParentImage" -> "ParentProcessName"
    [] OTHER -> field

ToldBySysmon(p) ==
  LET fields == (DOMAIN p \ {"NewProcessName", "ParentProcessName"}) \cup {"Image", "ParentImage"}
  IN  [f \in {g \in fields : SecurityName(g) \in DOMAIN p} |->
         IF f = "EventID" THEN {"1"} ELSE p[SecurityName(f)]]
=============================================================================

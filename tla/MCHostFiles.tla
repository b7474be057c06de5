---------------------------- MODULE MCHostFiles ----------------------------
(* Instances of HostFiles for TLC.                                         *)
EXTENDS HostFiles

CONSTANTS v1, c1, c2

MCGuests == {v1}
MCConfigs == {c1, c2}
Symmetry == Permutations(MCConfigs)

(* What each text of the instance reads as.                                *)
Texts == {"8080", "70000", "abc", "on", "maybe", "[2, 3]", "", "{}",
          "10.0.0.0/24", "10.0.0.1", "10.1.0.1", "base", "vms", "logs", "other"}
Except(f) == [t \in Texts |-> IF t \in DOMAIN f THEN f[t] ELSE Bad]
MCAsInt == Except("8080" :> 8080 @@ "70000" :> 70000)
MCAsBool == Except("on" :> TRUE)
MCAsList == Except("[2, 3]" :> <<Raw("int", 2), Raw("int", 3)>> @@ "" :> <<>>)
MCAsNetwork == Except("10.0.0.0/24" :> {1})
MCAsAddress == Except("10.0.0.1" :> 1 @@ "10.1.0.1" :> 2)

MCPaths == {"base", "vms", "logs"}
MCParent == [p \in MCPaths |-> IF p \in {"vms", "logs"} THEN "base" ELSE Unset]

AllMaps == [s \in Sections |-> "map"]
NoneSet == [f \in Fields |-> Unset]
Doc(root, sections, fields) == [root |-> root, sections |-> sections, fields |-> fields]
File(fields) == Doc("map", AllMaps, fields @@ NoneSet)

Key(name) == Raw("map", "key" :> Text("abc") @@ "name" :> name)

MCDocs ==
  {Doc(root, AllMaps, NoneSet) : root \in {"missing", "unreadable", "null", "other"}}
  \cup {Doc("map", [AllMaps EXCEPT !["api"] = s], NoneSet) : s \in {"null", "other"}}
  \cup {File("port" :> port) : port \in {Raw("null", 0), Raw("bool", TRUE), Raw("int", 0), Text("abc")}}
  \cup {File("api_keys" :> Raw("list", <<Key(Raw("null", 0))>>)),
        File("api_keys" :> Raw("list", <<Raw("map", "key" :> Text("abc"))>>)),
        File("reserved_cores" :> Raw("list", <<Raw("int", 0), Text("abc")>>)),
        File("enable_audit_log" :> Raw("int", 1)),
        File("default_cpu_cores" :> Float(0, "0.5")), File("max_cpu_cores" :> Raw("int", 1)),
        File("bridge_gateway" :> Text("abc")), File("bridge_gateway" :> Text("10.1.0.1")),
        File("bridge_subnet" :> Text("abc")),
        File("vm_data_dir" :> Text("base"))}

MCEnvs ==
  {NoneSet}
  \cup {("port" :> t) @@ NoneSet : t \in {"8080", "70000", "abc"}}
  \cup {("reserved_cores" :> t) @@ NoneSet : t \in {"[2, 3]", "{}"}}
  \cup {("enable_audit_log" :> t) @@ NoneSet : t \in {"on", "maybe"}}
  \cup {("api_keys" :> "") @@ NoneSet}
=============================================================================

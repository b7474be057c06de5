------------------------------- MODULE Config -------------------------------
(***************************************************************************)
(* AgentVMConfig.load (src/src/agentvm/config.py) up to the directories,   *)
(* which HostFiles makes: where a field's value comes from, what it is     *)
(* coerced to, and what validate() asks of the result.                     *)
(*                                                                         *)
(* A raw value is [is, as]: its YAML type and what it holds.  A document   *)
(* is its root's type, the type of each section and the raw value of each  *)
(* field.  What Python's int(), the YAML parser and ipaddress make of a    *)
(* text is external, given as functions of the text; a finite float is     *)
(* what int() and str() make of it.                                        *)
(*                                                                         *)
(* Of each group of fields that load treats alike Schema has one or two:   *)
(* port stands for the three ports, the CPU cores for memory and disk, the *)
(* gateway for the DHCP range, the VM directory for the others under the   *)
(* base directory.                                                         *)
(***************************************************************************)
EXTENDS Integers, Sequences, TLC

CONSTANTS
  AsInt, AsBool, AsList,     \* text -> what it reads as, or Bad
  AsNetwork, AsAddress,      \* text -> a set of addresses, an address, or Bad
  Bad,                       \* TypeError, ValueError
  Unset                      \* no such key, no such variable

Raw(is, as) == [is |-> is, as |-> as]
Text(t) == Raw("text", t)
Float(truncated, printed) == Raw("float", [int |-> truncated, str |-> printed])

Field(section, kind, default) ==
  [section |-> section, kind |-> kind, default |-> default]

Schema ==
  "port" :> Field("api", "int", Raw("int", 9090)) @@
  "api_keys" :> Field("api", "keys", Raw("list", <<>>)) @@
  "default_cpu_cores" :> Field("resources", "int", Raw("int", 2)) @@
  "max_cpu_cores" :> Field("resources", "int", Raw("int", 16)) @@
  "reserved_cores" :> Field("resources", "ints", Raw("list", <<Raw("int", 0), Raw("int", 1)>>)) @@
  "bridge_subnet" :> Field("network", "str", Text("10.0.0.0/24")) @@
  "bridge_gateway" :> Field("network", "str", Text("10.0.0.1")) @@
  "base_dir" :> Field("storage", "str", Text("base")) @@
  "vm_data_dir" :> Field("storage", "str", Text("vms")) @@
  "console_log_dir" :> Field("observability", "str", Text("logs")) @@
  "enable_audit_log" :> Field("security", "bool", Raw("bool", TRUE))

Fields == DOMAIN Schema
Sections == {Schema[f].section : f \in Fields}

-----------------------------------------------------------------------------
(* _coerce_value, one operator per target type.                            *)

CoerceBool(raw) ==
  CASE raw.is = "bool" -> raw.as
    [] raw.is = "text" -> AsBool[raw.as]
    [] raw.is = "int" /\ raw.as \in {0, 1} -> raw.as = 1
    [] OTHER -> Bad

CoerceInt(raw) ==
  CASE raw.is = "int" -> raw.as
    [] raw.is = "float" -> raw.as.int
    [] raw.is = "bool" -> IF raw.as THEN 1 ELSE 0
    [] raw.is = "text" -> AsInt[raw.as]
    [] OTHER -> Bad

(* str() takes anything; the value null becomes the text None.             *)
CoerceStr(raw) ==
  CASE raw.is = "text" -> raw.as
    [] raw.is = "null" -> "None"
    [] raw.is = "float" -> raw.as.str
    [] OTHER -> ToString(raw.as)

(* A text is read as YAML, and nothing at all is the empty list.           *)
Items(raw) ==
  CASE raw.is = "list" -> raw.as
    [] raw.is = "text" -> AsList[raw.as]
    [] OTHER -> Bad

(* A list with an item that is no good is no good.                         *)
Whole(items) == IF \E i \in DOMAIN items : items[i] = Bad THEN Bad ELSE items

CoerceInts(raw) ==
  IF Items(raw) = Bad THEN Bad
  ELSE Whole([i \in DOMAIN Items(raw) |-> CoerceInt(Items(raw)[i])])

CoerceStrs(raw) ==
  IF Items(raw) = Bad THEN Bad
  ELSE Whole([i \in DOMAIN Items(raw) |-> CoerceStr(Items(raw)[i])])

CoerceKey(raw) ==
  IF raw.is # "map" THEN Bad
  ELSE IF ~({"key", "name"} \subseteq DOMAIN raw.as) THEN Bad
  ELSE LET permissions == IF "permissions" \in DOMAIN raw.as
                            THEN CoerceStrs(raw.as.permissions) ELSE <<>>
       IN  IF permissions = Bad THEN Bad
           ELSE [key |-> CoerceStr(raw.as.key), name |-> CoerceStr(raw.as.name),
                 permissions |-> permissions]

CoerceKeys(raw) ==
  IF Items(raw) = Bad THEN Bad
  ELSE Whole([i \in DOMAIN Items(raw) |-> CoerceKey(Items(raw)[i])])

Coerce(raw, kind) ==
  CASE kind = "bool" -> CoerceBool(raw)
    [] kind = "int" -> CoerceInt(raw)
    [] kind = "str" -> CoerceStr(raw)
    [] kind = "ints" -> CoerceInts(raw)
    [] kind = "keys" -> CoerceKeys(raw)

-----------------------------------------------------------------------------
(* _load_yaml and _load_section. *)

HasSection(doc, section) == doc.root = "map" /\ doc.sections[section] = "map"

(* Mutant of RawValue: the variable only fills in what the file leaves out. *)
RawValue_FileFirst(doc, env, f) ==
  CASE HasSection(doc, Schema[f].section) /\ doc.fields[f] # Unset -> doc.fields[f]
    [] env[f] # Unset -> Text(env[f])
    [] OTHER -> Schema[f].default

(* The environment over the file, the file over the default.  A field that *)
(* the file sets to null is null, a section that it sets to null is empty. *)
RawValue(doc, env, f) ==
  CASE env[f] # Unset -> Text(env[f])
    [] env[f] = Unset /\ HasSection(doc, Schema[f].section) /\ doc.fields[f] # Unset ->
         doc.fields[f]
    [] OTHER -> Schema[f].default

(* What load makes of them before it validates, or Bad: a file that is     *)
(* there and cannot be read, a root or a section of another type, a value  *)
(* that cannot be coerced.                                                 *)
Result(doc, env) ==
  LET values == [f \in Fields |-> Coerce(RawValue(doc, env, f), Schema[f].kind)]
  IN  IF \/ doc.root \in {"unreadable", "other"}
         \/ doc.root = "map" /\ \E s \in Sections : doc.sections[s] = "other"
         \/ \E f \in Fields : values[f] = Bad
      THEN Bad ELSE values

-----------------------------------------------------------------------------
(* validate, the directories aside. *)

Ports == 1..65535
PortErrors(c) == {f \in {"port"} : c[f] \notin Ports}

ResourceErrors(c) ==
  {f \in {"default_cpu_cores"} : c[f] <= 0 \/ c[f] > c.max_cpu_cores}

(* A subnet that is none hides what is wrong with the addresses.           *)
NetworkErrors(c) ==
  IF AsNetwork[c.bridge_subnet] = Bad THEN {"bridge_subnet"}
  ELSE {f \in {"bridge_gateway"} :
          \/ AsAddress[c[f]] = Bad
          \/ AsAddress[c[f]] \notin AsNetwork[c.bridge_subnet]}

Errors(c) == PortErrors(c) \cup ResourceErrors(c) \cup NetworkErrors(c)
=============================================================================

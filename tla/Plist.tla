--------------------------------- MODULE Plist ---------------------------------
(***************************************************************************)
(* The values of a property list, the getters of src/backup/util/plist.rs,  *)
(* and what ManifestLockdownInfo::from_plist and Application::from_plist    *)
(* ask of them.                                                             *)
(***************************************************************************)
EXTENDS Integers

String == [type |-> "string"]
Boolean(b) == [type |-> "boolean", boolean |-> b]
Integer(n) == [type |-> "integer", integer |-> n]
Data(d) == [type |-> "data", data |-> d]
Uid(n) == [type |-> "uid", uid |-> n]
Array(s) == [type |-> "array", array |-> s]
Dictionary(f) == [type |-> "dictionary", dict |-> f]

(* as_dictionary, get_key_as_string, get_key_as_data, get_key_as_boolean: Ok
   only if the key is there and its value has the type. *)
IsDictionary(v) == v.type = "dictionary"
Has(dict, key, type) == key \in DOMAIN dict /\ dict[key].type = type

(* get_key_as_uint, get_key_as_int: an integer that does not fit is none. *)
HasUint(dict, key) == Has(dict, key, "integer") /\ dict[key].integer >= 0
HasInt(dict, key, range) == Has(dict, key, "integer") /\ dict[key].integer < range

LockdownKeys ==
  {"BuildVersion", "DeviceName", "ProductType", "ProductVersion", "SerialNumber",
   "UniqueDeviceID"}

(* ManifestLockdownInfo::from_plist *)
IsLockdown(v) == IsDictionary(v) /\ \A k \in LockdownKeys : Has(v.dict, k, "string")

(* Application::from_plist: the version and the path are optional. *)
IsApplication(v) == IsDictionary(v) /\ Has(v.dict, "ContainerContentClass", "string")
=============================================================================

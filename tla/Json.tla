--------------------------------- MODULE Json ---------------------------------
(***************************************************************************)
(* JSON values as the server sees them through jansson: a pair of a kind   *)
(* and a payload.  The payload of an object is a function from member      *)
(* names to values, that of an array a sequence of values; the payloads of *)
(* the others are tokens.                                                  *)
(***************************************************************************)
EXTENDS Sequences, Functions

\* What json_object_get returns for a member that is not there (NULL).
Absent == <<"absent", 0>>

\* The copy of a string that is no JSON string: _strdup passes NULL through.
NULL == "NULL"

Object(members) == <<"object", members>>
Array(items) == <<"array", items>>
String(text) == <<"string", text>>
Integer(number) == <<"integer", number>>
Boolean(value) == <<"boolean", value>>
Null == <<"null", 0>>

Kind(json) == json[1]
Payload(json) == json[2]

\* The member of an object; nothing is a member of anything else.
json_object_get(json, name) ==
  IF Kind(json) = "object" /\ name \in DOMAIN Payload(json)
    THEN Payload(json)[name]
    ELSE Absent

\* The object of those members that were set (json_object_set_new fails on NULL).
JsonObject(members) == Object(RestrictValues(members, LAMBDA json : json # Absent))
===============================================================================

----------------------------- MODULE ThingData -----------------------------
(***************************************************************************)
(* The functions on names and values that devices and consumers share:     *)
(* thing IDs and topics (strings split at ":" and "/" are sequences of     *)
(* their parts), and the value of an interaction made from native data or  *)
(* from JSON (pkg/thing).                                                  *)
(***************************************************************************)
EXTENDS Integers, Sequences

None == ""
ZoneOf(zone) == IF zone = None THEN "local" ELSE zone

\* A device or publisher ID is a sequence too: it has several parts when the
\* ID holds a colon, as a MAC address does.
CreatePublisherID(zone, publisher, device, type) ==
  <<"urn", ZoneOf(zone)>> \o publisher \o device \o <<type>>
CreateThingID(zone, device, type) == <<"urn", ZoneOf(zone)>> \o device \o <<type>>

ThingID(zone, publisher, device, type) ==
  [zone |-> zone, publisher |-> publisher, device |-> device, type |-> type]

\* Defect: the publisher is expected after the device.
SplitSwapped(parts) ==
  IF Len(parts) # 5 THEN ThingID(None, None, parts[Len(parts) - 1], parts[Len(parts)])
  ELSE ThingID(parts[2], parts[4], parts[3], parts[5])

\* Without the prefix the whole ID was meant, but its first part is returned;
\* an ID of six parts or more yields nothing.
SplitThingID(parts) ==
  IF Len(parts) < 2 \/ parts[1] \notin {"urn", "URN"}
  THEN ThingID(None, None, parts[1], None)
  ELSE CASE Len(parts) = 5 -> ThingID(parts[2], parts[3], parts[4], parts[5])
         [] Len(parts) = 4 -> ThingID(parts[2], None, parts[3], parts[4])
         [] Len(parts) = 3 -> ThingID(None, None, parts[2], parts[3])
         [] Len(parts) = 2 -> ThingID(None, None, parts[2], None)
         [] OTHER          -> ThingID(None, None, None, None)

\* The message type of an event or action is followed by its name.
CreateTopic(thingID, messageType) ==
  <<"things", IF thingID = None THEN "+" ELSE thingID>> \o messageType

SplitTopic(parts) ==
  LET part(i) == IF Len(parts) >= i THEN parts[i] ELSE None
  IN  IF Len(parts) < 2 THEN [thingID |-> None, type |-> None, subject |-> None]
      ELSE [thingID |-> part(2), type |-> part(3), subject |-> part(4)]

-----------------------------------------------------------------------------
(* Interaction values.  A JSON text is the value it stands for; a value of *)
(* type "text" is a text that is not JSON, one of type "none" is no text.  *)
Value(type, v) == <<type, v>>
TypeOf(value) == value[1]
Content(value) == value[2]
Null == Value("null", None)
IsJson(json) == TypeOf(json) \notin {"text", "none"}

NewInteractionOutput(data, schema) == [json |-> data, value |-> data]

\* Defect: the value is shadowed whatever the schema.
FromJsonShadowed(json, schema) == [json |-> json, value |-> Null]

\* For an object schema the decoded map is assigned to a variable of the inner
\* block, and the value stays nil.
NewInteractionOutputFromJson(json, schema) ==
  [json  |-> json,
   value |-> IF schema = "object" THEN Null
             ELSE IF IsJson(json) THEN json ELSE Value("string", Content(json))]

ValueAsArray(io) == IF TypeOf(io.json) = "array" THEN Content(io.json) ELSE <<>>
ValueAsString(io) == IF IsJson(io.json) THEN io.json ELSE io.value
ValueAsBoolean(io) == IF TypeOf(io.json) = "boolean" THEN Content(io.json) ELSE FALSE
ValueAsMap(io) ==
  CASE TypeOf(io.json) = "object" -> Content(io.json)
    [] TypeOf(io.json) = "null"   -> "nil"
    [] OTHER                   -> "empty"
ValueAsInt(io) ==
  CASE io.value \in {Value("string", "true"), Value("boolean", TRUE)} -> 1
    [] io.value \in {Value("string", "false"), Value("boolean", FALSE)} -> 0
    [] OTHER -> IF TypeOf(io.json) = "integer" THEN Content(io.json) ELSE 0

Read(io) == [array |-> ValueAsArray(io), string |-> ValueAsString(io),
             boolean |-> ValueAsBoolean(io), int |-> ValueAsInt(io), map |-> ValueAsMap(io)]
=============================================================================

--------------------------- MODULE HubDataProofs ---------------------------
(* Proofs about the library's functions on data: for every input of each    *)
(* function, and from that for the tasks of HubData.                        *)
EXTENDS HubData, TLAPS, FiniteSetTheorems

-----------------------------------------------------------------------------
(* Signed and encrypted messages.                                          *)

\* Whatever message arrives, one that DecodeMessage accepts as signed was encrypted
\* for my key and, if the application gives keys, signed with the key that the
\* application has of the sender it names (MessageSigner.go:55-63, 144-217).
LEMMA AcceptedIsSigned ==
  ASSUME NEW message, NEW myKey, NEW keyOf, NEW haveKeys \in BOOLEAN,
         DecodeMessage(message, myKey, keyOf, haveKeys).isSigned,
         ~DecodeMessage(message, myKey, keyOf, haveKeys).err
  PROVE  /\ message.form = "encrypted" /\ message.key = myKey
         /\ message.message.form = "signed"
         /\ haveKeys => message.message.key = keyOf[message.message.text.sender]
<1> DEFINE d == DecryptMessage(message, myKey)
           v == VerifySenderJWSSignature(d.message, keyOf, haveKeys)
<1>1. ~d.err /\ v.isSigned /\ ~v.err
  BY DEF DecodeMessage
<1>2. message.form = "encrypted" /\ message.key = myKey /\ d.message = message.message
  BY <1>1 DEF DecryptMessage
<1>3. /\ d.message.form = "signed"
      /\ haveKeys => VerifyJWSMessage(d.message, keyOf[d.message.text.sender])
  <2> HIDE DEF d
  <2> QED
    BY <1>1 DEF VerifySenderJWSSignature, Verified
<1> QED
  BY <1>2, <1>3 DEF VerifyJWSMessage

\* Whatever is signed and encrypted for me by a sender whose key the application has
\* is accepted, if it is JSON and names the sender (MessageSigner.go:55-63, 99-111).
LEMMA OwnMessageAccepted ==
  ASSUME NEW text, text.json, text.hasSender, text.sender # NoSender,
         NEW key, NEW myKey, key # NoKey, myKey # NoKey,
         NEW keyOf, keyOf[text.sender] = key, NEW haveKeys \in BOOLEAN
  PROVE  DecodeMessage(SignAndEncrypt(text, key, myKey).message, myKey, keyOf, haveKeys)
           = [isEncrypted |-> TRUE, isSigned |-> TRUE, err |-> FALSE]
<1> DEFINE s == Signed(text, key)
<1>1. SignAndEncrypt(text, key, myKey).message = Encrypted(s, myKey)
  BY DEF SignAndEncrypt, CreateJWSSignature, EncryptMessage
<1>2. DecryptMessage(Encrypted(s, myKey), myKey)
        = [message |-> s, isEncrypted |-> TRUE, err |-> FALSE]
  BY DEF DecryptMessage, Encrypted
<1>3. VerifySenderJWSSignature(s, keyOf, haveKeys) = Verified(TRUE, FALSE)
  <2>1. s.form = "signed" /\ s.text = text /\ s.key = key
    BY DEF Signed
  <2>2. (\/ ~text.json
         \/ ~text.hasSender
         \/ text.sender = NoSender
         \/ haveKeys /\ ~VerifyJWSMessage(s, keyOf[text.sender])) = FALSE
    BY <2>1 DEF VerifyJWSMessage
  <2> HIDE DEF s
  <2> QED
    BY <2>1, <2>2 DEF VerifySenderJWSSignature
<1> DEFINE d == DecryptMessage(Encrypted(s, myKey), myKey)
           v == VerifySenderJWSSignature(s, keyOf, haveKeys)
<1>4. d.err = FALSE /\ d.isEncrypted = TRUE /\ d.message = s
  BY <1>2
<1>5. v.isSigned = TRUE /\ v.err = FALSE
  BY <1>3 DEF Verified
<1> HIDE DEF s, d, v
<1>6. DecodeMessage(Encrypted(s, myKey), myKey, keyOf, haveKeys)
        = [isEncrypted |-> TRUE, isSigned |-> TRUE, err |-> FALSE]
  BY <1>4, <1>5 DEF DecodeMessage, d, v
<1> QED
  BY <1>1, <1>6

-----------------------------------------------------------------------------
(* Interaction values.                                                     *)

\* Whatever JSON value a device emits, its output reads the same as that of the
\* consumer that decodes it, although the consumer keeps no value of an object
\* (InteractionOutput.go:37-139).
LEMMA OutputsAgree ==
  ASSUME NEW type, NEW v, type \notin {"text", "none"}
  PROVE  Read(NewInteractionOutput(Value(type, v), type))
           = Read(NewInteractionOutputFromJson(Value(type, v), type))
<1> DEFINE data == Value(type, v)
           native == NewInteractionOutput(data, type)
           decoded == NewInteractionOutputFromJson(data, type)
<1>1. native.json = data /\ decoded.json = data
  BY DEF NewInteractionOutput, NewInteractionOutputFromJson
<1>2. IsJson(data)
  BY DEF IsJson, TypeOf, Value
<1>3. type # "object" => native.value = data /\ decoded.value = data
  BY <1>2 DEF NewInteractionOutput, NewInteractionOutputFromJson
<1>4. type = "object" =>
        ValueAsInt(native) = 0 /\ ValueAsInt(decoded) = 0
  BY <1>1 DEF ValueAsInt, NewInteractionOutput, NewInteractionOutputFromJson,
    Value, TypeOf, Null
<1>5. ValueAsInt(native) = ValueAsInt(decoded)
  BY <1>1, <1>3, <1>4 DEF ValueAsInt
<1> QED
  BY <1>1, <1>2, <1>5 DEF Read, ValueAsArray, ValueAsString, ValueAsBoolean, ValueAsMap

-----------------------------------------------------------------------------
(* Thing IDs and topics.                                                   *)

\* A thing ID made of parts without a colon is read back as it was made
\* (thingid.go:19-72).
LEMMA ThingIDReadsBack ==
  ASSUME NEW zone, NEW device, NEW type
  PROVE  SplitThingID(CreateThingID(zone, <<device>>, type))
           = ThingID(ZoneOf(zone), None, device, type)
<1> DEFINE id == CreateThingID(zone, <<device>>, type)
<1>1. /\ Len(id) = 4
      /\ id[1] = "urn" /\ id[2] = ZoneOf(zone) /\ id[3] = device /\ id[4] = type
  BY DEF CreateThingID
<1> QED
  BY <1>1 DEF SplitThingID

\* So is one with a publisher.
LEMMA PublisherIDReadsBack ==
  ASSUME NEW zone, NEW publisher, NEW device, NEW type
  PROVE  SplitThingID(CreatePublisherID(zone, <<publisher>>, <<device>>, type))
           = ThingID(ZoneOf(zone), publisher, device, type)
<1> DEFINE id == CreatePublisherID(zone, <<publisher>>, <<device>>, type)
<1>1. /\ Len(id) = 5
      /\ id[1] = "urn" /\ id[2] = ZoneOf(zone) /\ id[3] = publisher
      /\ id[4] = device /\ id[5] = type
  BY DEF CreatePublisherID
<1> QED
  BY <1>1 DEF SplitThingID

\* A topic of a thing gives its thing ID, message type and name (Topics.go:41-64).
LEMMA TopicReadsBack ==
  ASSUME NEW thingID, thingID # None, NEW type, NEW name
  PROVE  SplitTopic(CreateTopic(thingID, <<type, name>>))
           = [thingID |-> thingID, type |-> type, subject |-> name]
<1> DEFINE topic == CreateTopic(thingID, <<type, name>>)
<1>1. /\ Len(topic) = 4
      /\ topic[1] = "things" /\ topic[2] = thingID /\ topic[3] = type /\ topic[4] = name
  BY DEF CreateTopic
<1> QED
  BY <1>1 DEF SplitTopic

-----------------------------------------------------------------------------
(* The tasks of HubData.                                                   *)

\* A task that is done has the result of its function for its inputs.
Names(t) ==
  [thing     |-> SplitThingID(CreateThingID(t.zone, t.device, t.type)),
   published |-> SplitThingID(CreatePublisherID(t.zone, t.publisher, t.device, t.type)),
   topic     |-> SplitTopic(CreateTopic(t.device[1], <<"event", t.type>>))]
Outputs(t) ==
  [native |-> Read(NewInteractionOutput(t.data, TypeOf(t.data))),
   read   |-> Read(NewInteractionOutputFromJson(t.data, TypeOf(t.data)))]
Computed ==
  /\ task \in Tasks
  /\ Finished("config") =>
       result.r = LoadAllConfig(task.home, "me", task.file, task.client, task.absent)
  /\ Finished("name") => result.r = Names(task)
  /\ Finished("value") => result.r = Outputs(task)
  /\ Finished("message") =>
       result.r = DecodeMessage(task.message, "kme", KeyOf, task.haveKeys)

\* What a task holds depends on its kind.
LEMMA TaskKinds ==
  ASSUME NEW t \in Tasks
  PROVE  /\ t.kind = "config" => t \in ConfigTasks
         /\ t.kind = "name" => t \in NameTasks
         /\ t.kind = "value" => t \in ValueTasks
         /\ t.kind = "message" => t \in MessageTasks
<1>1. /\ \A c \in ConfigTasks : c.kind = "config"
      /\ \A n \in NameTasks : n.kind = "name"
      /\ \A v \in ValueTasks : v.kind = "value"
      /\ \A m \in MessageTasks : m.kind = "message"
  BY DEF ConfigTasks, NameTasks, ValueTasks, MessageTasks
<1> QED
  BY <1>1 DEF Tasks

\* Each function stores its result once (LoadAllConfig.go:23-65, thingid.go:19-72,
\* InteractionOutput.go:37-139, MessageSigner.go:55-63).
LEMMA ComputedInvariance == Spec => []Computed
<1>1. Init => Computed
  BY DEF Init, Computed, Finished, NoResult
<1>2. Computed /\ [Next]_vars => Computed'
  <2> SUFFICES ASSUME Computed, [Next]_vars
               PROVE  Computed'
    OBVIOUS
  <2>1. ASSUME UNCHANGED <<task, result>>
        PROVE  Computed'
    BY <2>1 DEF Computed, Finished
  <2>2. ASSUME task.kind = "config", UNCHANGED task,
               result' = Done(LoadAllConfig(task.home, "me", task.file, task.client,
                                            task.absent))
        PROVE  Computed'
    BY <2>2 DEF Computed, Finished, Done
  <2>3. ASSUME task.kind = "name", UNCHANGED task, result' = Done(Names(task))
        PROVE  Computed'
    BY <2>3 DEF Computed, Finished, Done
  <2>4. ASSUME task.kind = "value", UNCHANGED task, result' = Done(Outputs(task))
        PROVE  Computed'
    BY <2>4 DEF Computed, Finished, Done
  <2>5. ASSUME task.kind = "message", UNCHANGED task,
               result' = Done(DecodeMessage(task.message, "kme", KeyOf, task.haveKeys))
        PROVE  Computed'
    BY <2>5 DEF Computed, Finished, Done
  <2>6. CASE UNCHANGED vars \/ UseStore \/ Discover
    BY <2>1, <2>6 DEF vars, UseStore, Discover
  <2>7. CASE LoadConfig
    BY <2>2, <2>7 DEF LoadConfig, Do
  <2>8. CASE NameThing
    BY <2>3, <2>8 DEF NameThing, Do, Names
  <2>9. CASE ConvertValue
    BY <2>4, <2>9 DEF ConvertValue, Do, Outputs
  <2>10. CASE ReadMessage
    BY <2>5, <2>10 DEF ReadMessage, Do
  <2> QED
    BY <2>6, <2>7, <2>8, <2>9, <2>10 DEF Next
<1> QED
  BY <1>1, <1>2, PTL DEF Spec

\* What is accepted as signed was signed by the sender it names, and what a known
\* sender signs and encrypts for me is accepted (MessageSigner.go:55-217).
THEOREM SignaturesHonest == Spec => []SignatureHonest
<1>1. ASSUME Computed, Finished("message")
      PROVE  SignatureHonest
  <2>1. result.r = DecodeMessage(task.message, "kme", KeyOf, task.haveKeys)
    BY <1>1 DEF Computed
  <2>2. task.haveKeys \in BOOLEAN
    BY <1>1, TaskKinds DEF Computed, Finished, MessageTasks
  <2>3. ASSUME result.r.isSigned, ~result.r.err, task.haveKeys
        PROVE  /\ task.message.form = "encrypted"
               /\ task.message.message.key = KeyOf[task.message.message.text.sender]
    <3> DEFINE r == DecodeMessage(task.message, "kme", KeyOf, task.haveKeys)
    <3>1. r.isSigned /\ ~r.err
      BY <2>1, <2>3
    <3>2. /\ task.message.form = "encrypted"
          /\ task.haveKeys =>
               task.message.message.key = KeyOf[task.message.message.text.sender]
      BY Zenon, <2>2, <3>1, AcceptedIsSigned
    <3> QED
      BY <2>3, <3>2
  <2>4. ASSUME NEW t \in Contents, t.json, t.hasSender, t.sender = "alice",
               task.message = SignAndEncrypt(t, "ka", "kme").message
        PROVE  result.r = [isEncrypted |-> TRUE, isSigned |-> TRUE, err |-> FALSE]
    <3>1. "alice" # NoSender
      BY Zenon DEF NoSender
    <3>2. KeyOf["alice"] = "ka"
      BY DEF KeyOf, Senders
    <3>3. "ka" # NoKey /\ "kme" # NoKey
      BY DEF NoKey
    <3> QED
      BY <2>1, <2>2, <2>4, <3>1, <3>2, <3>3, OwnMessageAccepted
  <2> QED
    BY <2>3, <2>4 DEF SignatureHonest
<1>2. Computed => SignatureHonest
  BY <1>1 DEF SignatureHonest
<1> QED
  BY <1>2, ComputedInvariance, PTL

\* A value reads the same at the device and at the consumer
\* (InteractionOutput.go:37-139).
THEOREM ValuesReadAlike == Spec => []ValuesAgree
<1>1. ASSUME Computed, Finished("value")
      PROVE  ValuesAgree
  <2>1. result.r = Outputs(task) /\ task.data \in DataValues
    BY <1>1, TaskKinds DEF Computed, Finished, ValueTasks
  <2>2. PICK type \in {"boolean", "integer", "string", "array", "object", "null"} :
          \E v : task.data = Value(type, v)
    BY <2>1 DEF DataValues, Null
  <2>3. PICK v : task.data = Value(type, v)
    BY <2>2
  <2>4. TypeOf(task.data) = type
    BY <2>3 DEF TypeOf, Value
  <2>5. Outputs(task).native = Outputs(task).read
    BY <2>3, <2>4, OutputsAgree DEF Outputs
  <2> QED
    BY <2>1, <2>5 DEF ValuesAgree
<1>2. Computed => ValuesAgree
  BY <1>1 DEF ValuesAgree
<1> QED
  BY <1>2, ComputedInvariance, PTL

\* A thing ID of names without a colon and a topic are read back as they were made
\* (thingid.go:19-72, Topics.go:41-64).
THEOREM NamesAreReadBack == Spec => []NamesReadBack
<1>1. ASSUME Computed, Finished("name")
      PROVE  NamesReadBack
  <2> DEFINE dev == task.device
             pub == task.publisher
  <2>1. result.r = Names(task) /\ dev \in IDs /\ pub \in IDs \cup {<<None>>}
    BY <1>1, TaskKinds DEF Computed, Finished, NameTasks
  <2>2. dev[1] # None
    <3>1. "a" # None /\ "b" # None
      BY Zenon DEF None
    <3> QED
      BY <2>1, <3>1 DEF IDs
  <2>3. Len(dev) = 1 => dev = <<dev[1]>>
    BY <2>1 DEF IDs
  <2>4. Len(pub) = 1 => pub = <<pub[1]>>
    BY <2>1 DEF IDs
  <2>5. Len(dev) = 1 =>
          result.r.thing = ThingID(ZoneOf(task.zone), None, dev[1], task.type)
    BY <2>1, <2>3, ThingIDReadsBack DEF Names
  <2>6. Len(dev) = 1 /\ Len(pub) = 1 =>
          result.r.published = ThingID(ZoneOf(task.zone), pub[1], dev[1], task.type)
    BY <2>1, <2>3, <2>4, PublisherIDReadsBack DEF Names
  <2>7. result.r.topic = [thingID |-> dev[1], type |-> "event", subject |-> task.type]
    BY <2>1, <2>2, TopicReadsBack DEF Names
  <2> QED
    BY <2>5, <2>6, <2>7 DEF NamesReadBack
<1>2. Computed => NamesReadBack
  BY <1>1 DEF NamesReadBack
<1> QED
  BY <1>2, ComputedInvariance, PTL

-----------------------------------------------------------------------------
(* Discovery.                                                              *)

\* The entry that zeroconf publishes for a service, and the services it accepts.
EntryOf(s) ==
  [instance |-> s.instance, service |-> s.service, port |-> s.port, host |-> s.host,
   v4 |-> IF s.v6 THEN <<>> ELSE <<s.ip>>,
   v6 |-> IF s.v6 THEN <<s.ip>> ELSE <<>>,
   text |-> Disco!TextRecord(s.params)]
Published == {s \in Services : s.instance # Disco!Blank}
Entries == {EntryOf(s) : s \in Published}
WantedEntries == {e \in Entries : e.service = Wanted}

\* The registry and the records hold entries of services only, and the answer is
\* what the first record says.
DiscoInv ==
  /\ registry \subseteq Entries
  /\ records \in Seq(WantedEntries)
  /\ phase = "done" =>
       answer = IF records = <<>> THEN Disco!NoAnswer
                ELSE [err |-> FALSE, address |-> Disco!Address(records[1]),
                      port |-> records[1].port,
                      params |-> Disco!ReadParams(records[1].text)]

\* Whatever the parameters of a service are, a client reads back those whose value
\* has no "=" in it, and no others (DiscoServe.go:66-70, DiscoClient.go:48-57).
LEMMA ParamsReadBack ==
  ASSUME NEW params, \A k \in DOMAIN params : params[k] \in Seq(STRING)
  PROVE  Disco!ReadParams(Disco!TextRecord(params))
           = [k \in {p \in DOMAIN params : Len(params[p]) = 1} |-> params[k][1]]
<1> DEFINE text == Disco!TextRecord(params)
           pairs == {t \in text : Len(t) = 2}
           keys == {p \in DOMAIN params : Len(params[p]) = 1}
<1>1. ASSUME NEW k \in DOMAIN params
      PROVE  /\ Len(<<k>> \o params[k]) = 1 + Len(params[k])
             /\ (<<k>> \o params[k])[1] = k
             /\ Len(params[k]) = 1 => /\ Len(<<k>> \o params[k]) = 2
                                      /\ (<<k>> \o params[k])[2] = params[k][1]
             /\ Len(params[k]) \in Nat
  <2> DEFINE S == STRING \cup {k}
  <2>1. <<k>> \in Seq(S) /\ params[k] \in Seq(S)
    BY <1>1
  <2> QED
    BY <2>1, SMTT(30)
<1>2. ASSUME NEW t \in pairs
      PROVE  t[1] \in keys /\ t[2] = params[t[1]][1]
  <2>1. PICK k \in DOMAIN params : t = <<k>> \o params[k]
    BY <1>2 DEF Disco!TextRecord
  <2> QED
    BY <1>1, <1>2, <2>1
<1>3. ASSUME NEW k \in DOMAIN params, Len(params[k]) = 1
      PROVE  \E t \in pairs : t[1] = k
  <2>1. <<k>> \o params[k] \in text
    BY DEF Disco!TextRecord
  <2>2. Len(<<k>> \o params[k]) = 2 /\ (<<k>> \o params[k])[1] = k
    BY Zenon, <1>1, <1>3
  <2> HIDE DEF text
  <2> QED
    BY <2>1, <2>2
<1>4. {t[1] : t \in pairs} = keys
  BY <1>2, <1>3
<1>5. ASSUME NEW k \in keys
      PROVE  (CHOOSE t \in pairs : t[1] = k)[2] = params[k][1]
  BY <1>2, <1>3, <1>5
<1> HIDE DEF pairs, keys
<1> QED
  BY <1>4, <1>5 DEF Disco!ReadParams, pairs, keys

\* Every step of a service, the library or the client keeps the answer that of a
\* service (DiscoServe.go:32-78, DiscoClient.go:21-58).
LEMMA DiscoInvariance == Spec => []DiscoInv
<1>1. Init => DiscoInv
  BY DEF Init, Disco!Init, DiscoInv
<1>2. DiscoInv /\ [Next]_vars => DiscoInv'
  <2> SUFFICES ASSUME DiscoInv, [Next]_vars
               PROVE  DiscoInv'
    OBVIOUS
  <2>1. CASE UNCHANGED discoVars
    BY <2>1 DEF discoVars, DiscoInv
  <2>2. ASSUME NEW s \in Services, Disco!DiscoServe(s)
        PROVE  DiscoInv'
    <3>1. registry' \subseteq registry \cup {EntryOf(s)}
      BY <2>2 DEF Disco!DiscoServe, Disco!Register, EntryOf
    <3>2. registry' = registry \/ s \in Published
      BY <2>2 DEF Disco!DiscoServe, Disco!Register, Published
    <3> QED
      BY <2>2, <3>1, <3>2 DEF Disco!DiscoServe, DiscoInv, Entries
  <2>3. ASSUME NEW e \in registry, Disco!Find(e)
        PROVE  DiscoInv'
    <3>1. e \in WantedEntries
      BY <2>3 DEF Disco!Find, DiscoInv, WantedEntries
    <3> QED
      BY <2>3, <3>1 DEF Disco!Find, DiscoInv
  <2>4. CASE Disco!Deadline
    BY <2>4 DEF Disco!Deadline, DiscoInv
  <2>5. CASE Disco!DiscoClient
    BY <2>5 DEF Disco!DiscoClient, Disco!DnsSDScan, Disco!ScanReturns, DiscoInv
  <2>6. \/ UNCHANGED discoVars
        \/ Disco!Next
    BY DEF Next, vars, LoadConfig, NameThing, ConvertValue, ReadMessage, Do, UseStore,
      Discover
  <2> QED
    BY <2>1, <2>2, <2>3, <2>4, <2>5, <2>6 DEF Disco!Next
<1> QED
  BY <1>1, <1>2, PTL DEF Spec

\* What a client is told of a service, one service published; a scan fails only when
\* none of the name answered in time (DiscoClient.go:21-58).
THEOREM FoundIsPublished == Spec => []ServiceFound
<1>1. ASSUME DiscoInv, phase = "done"
      PROVE  ServiceFound
  <2>1. CASE records = <<>>
    BY <1>1, <2>1 DEF DiscoInv, Disco!NoAnswer, ServiceFound, Disco!ServiceFound
  <2>2. CASE records # <<>>
    <3>1. records[1] \in WantedEntries
      BY <1>1, <2>2 DEF DiscoInv
    <3>2. PICK s \in Published : records[1] = EntryOf(s) /\ s.service = Wanted
      BY <3>1 DEF WantedEntries, Entries, EntryOf
    <3>3. Disco!Address(EntryOf(s)) = s.ip
      BY DEF Disco!Address, EntryOf
    <3>4. Disco!ReadParams(EntryOf(s).text)
            = [k \in {p \in DOMAIN s.params : Len(s.params[p]) = 1} |-> s.params[k][1]]
      BY ParamsReadBack, ServicesAssumption DEF EntryOf, Published
    <3>5. EntryOf(s).port = s.port
      BY DEF EntryOf
    <3>6. /\ answer.err = FALSE /\ answer.address = s.ip /\ answer.port = s.port
          /\ answer.params = [k \in {p \in DOMAIN s.params : Len(s.params[p]) = 1} |->
                                s.params[k][1]]
      BY <1>1, <2>2, <3>2, <3>3, <3>4, <3>5 DEF DiscoInv
    <3> QED
      BY <3>2, <3>6 DEF ServiceFound, Disco!ServiceFound, Published
  <2> QED
    BY <2>1, <2>2
<1>2. DiscoInv => ServiceFound
  BY <1>1 DEF ServiceFound, Disco!ServiceFound
<1> QED
  BY <1>2, DiscoInvariance, PTL

-----------------------------------------------------------------------------
(* The thing store.                                                        *)

\* Types of the documents; the store is what was stored last under each ID; and a
\* document has the affordances that were added to it, each under its own kind.
Ids == {IdOf[d] : d \in Docs}
Affordance == [type : Types, readOnly : BOOLEAN]
AffordanceMap == UNION {[N -> Affordance] : N \in SUBSET AffNames}
ThingTD == [id : Ids, title : {Store!Blank, "title"},
            affordances : [Store!Kinds -> AffordanceMap]]
AffordanceOK(d, k, n) ==
  /\ n \in DOMAIN docs[d].affordances[k] <=> <<d, k, n>> \in DOMAIN added
  /\ n \in DOMAIN docs[d].affordances[k] =>
       docs[d].affordances[k][n].type = added[<<d, k, n>>]
StoreInv ==
  /\ docs \in [Docs -> ThingTD]
  /\ \A d \in Docs : docs[d].id = IdOf[d]
  /\ \A d \in Docs, k \in Store!Kinds, n \in AffNames : AffordanceOK(d, k, n)
  /\ tdMap = stored
  /\ IsFiniteSet(DOMAIN stored) /\ DOMAIN stored \subseteq Ids
  /\ \A id \in DOMAIN stored : stored[id] \in Docs

\* The cardinality that the store takes is that of FiniteSets.
LEMMA StoreCardinality == \A S : Store!Cardinality(S) = Cardinality(S)
BY Zenon DEF Store!Cardinality, Cardinality

\* Two slices of n elements, one appended to the other.
LEMMA Appended ==
  ASSUME NEW T, NEW n \in Nat, NEW b \in [1..n -> T], NEW f \in [1..n -> T]
  PROVE  /\ Len(b \o f) = 2 * n /\ DOMAIN (b \o f) = 1..(2 * n)
         /\ \A i \in 1..n : (b \o f)[i] = b[i]
         /\ \A i \in 1..n : (b \o f)[n + i] = f[i]
<1>1. b \in Seq(T) /\ f \in Seq(T) /\ Len(b) = n /\ Len(f) = n
  OBVIOUS
<1> QED
  BY <1>1

\* GetIDs lists every ID of the map once, after as many blanks (ThingStore.go:23-29).
Listed(S) == [i \in 1..Cardinality(S) |-> Store!Blank] \o Store!SetToSeq(S)
Places(ids, id) == {i \in DOMAIN ids : ids[i] = id}
LEMMA ListedOnce ==
  ASSUME NEW S, IsFiniteSet(S), Store!Blank \notin S, NEW ids, ids = Listed(S)
  PROVE  \A id \in S : Cardinality(Places(ids, id)) = 1
<1> DEFINE n == Cardinality(S)
           f == Store!SetToSeq(S)
           b == [i \in 1..n |-> Store!Blank]
           T == S \cup {Store!Blank}
<1>1. n \in Nat /\ ExistsBijection(1..n, S)
  BY FS_CardinalityType
<1>2. f \in [1..n -> S] /\ \A i, j \in 1..n : f[i] = f[j] => i = j
  <2>1. PICK g \in [1..n -> S] : \A i, j \in 1..n : g[i] = g[j] => i = j
    BY <1>1 DEF ExistsBijection, Bijection, Injection, IsInjective
  <2>2. Store!IsInjective(g)
    BY <2>1 DEF Store!IsInjective
  <2>3. f \in [1..n -> S] /\ Store!IsInjective(f)
    BY <2>2, StoreCardinality DEF Store!SetToSeq
  <2> QED
    BY <2>3 DEF Store!IsInjective
<1>3. \A id \in S : \E i \in 1..n : f[i] = id
  <2>1. f \in Injection(1..n, S)
    BY <1>2 DEF Injection, IsInjective
  <2>2. IsFiniteSet(1..n) /\ Cardinality(1..n) = n
    BY <1>1, FS_Interval
  <2>3. f \in Surjection(1..n, S)
    BY <2>1, <2>2, FS_Injection
  <2> QED
    BY <2>3 DEF Surjection
<1>4. b \in [1..n -> T] /\ f \in [1..n -> T]
  <2>1. S \subseteq T /\ Store!Blank \in T
    OBVIOUS
  <2> HIDE DEF f, n, T
  <2> QED
    BY <1>2, <2>1
<1> HIDE DEF f, n, T
<1>5. /\ Len(ids) = 2 * n /\ DOMAIN ids = 1..(2 * n)
      /\ \A i \in 1..n : ids[i] = Store!Blank
      /\ \A i \in 1..n : ids[n + i] = f[i]
  <2>1. ids = b \o f
    BY DEF f, n, Listed
  <2>2. \A i \in 1..n : b[i] = Store!Blank
    OBVIOUS
  <2> HIDE DEF b
  <2>3. /\ Len(b \o f) = 2 * n /\ DOMAIN (b \o f) = 1..(2 * n)
        /\ \A i \in 1..n : (b \o f)[i] = b[i]
        /\ \A i \in 1..n : (b \o f)[n + i] = f[i]
    <3>1. n \in Nat
      BY <1>1
    <3>2. ASSUME NEW N \in Nat, NEW B \in [1..N -> T], NEW F \in [1..N -> T]
          PROVE  /\ Len(B \o F) = 2 * N /\ DOMAIN (B \o F) = 1..(2 * N)
                 /\ \A i \in 1..N : (B \o F)[i] = B[i]
                 /\ \A i \in 1..N : (B \o F)[N + i] = F[i]
      BY Appended, Z3
    <3> QED
      BY <1>4, <3>1, <3>2
  <2> DEFINE c == b \o f
  <2>4. ids = c /\ Len(c) = 2 * n /\ DOMAIN c = 1..(2 * n)
    BY <2>1, <2>3
  <2>5. /\ \A i \in 1..n : c[i] = b[i]
        /\ \A i \in 1..n : c[n + i] = f[i]
    BY <2>3
  <2> HIDE DEF c
  <2> QED
    BY <2>2, <2>4, <2>5
<1>6. ASSUME NEW id \in S
      PROVE  Cardinality(Places(ids, id)) = 1
  <2>1. PICK i \in 1..n : f[i] = id
    BY <1>3
  <2>2. Places(ids, id) = {n + i}
    <3>1. n + i \in DOMAIN ids /\ ids[n + i] = id
      <4>1. n + i \in 1..(2 * n)
        BY <1>1
      <4> QED
        BY <1>5, <2>1, <4>1, Zenon
    <3>2. ASSUME NEW j \in DOMAIN ids, ids[j] = id
          PROVE  j = n + i
      <4>1. j \in 1..(2 * n) /\ j \notin 1..n
        BY <1>5, <1>6, <3>2
      <4>2. j - n \in 1..n /\ n + (j - n) = j
        BY <1>1, <4>1
      <4>3. f[j - n] = id
        BY <1>5, <3>2, <4>2
      <4>4. j - n = i
        BY <1>2, <2>1, <4>2, <4>3
      <4> QED
        BY <1>1, <4>2, <4>4
    <3> QED
      BY <3>1, <3>2 DEF Places
  <2> QED
    BY <2>2, FS_Singleton
<1> QED
  BY <1>5, <1>6 DEF n

\* UpdateAction, UpdateEvent and UpdateProperty keep the documents' types.
LEMMA PutAffordance ==
  ASSUME NEW f \in AffordanceMap, NEW n \in AffNames, NEW a \in Affordance
  PROVE  Store!Put(f, n, a) \in AffordanceMap
<1>1. PICK N \in SUBSET AffNames : f \in [N -> Affordance]
  BY DEF AffordanceMap
<1>2. Store!Put(f, n, a) \in [N \cup {n} -> Affordance]
  BY <1>1 DEF Store!Put
<1> QED
  BY <1>2 DEF AffordanceMap

\* A new document has no affordances (thingTD.go:281-303).
LEMMA NoAffordances == <<>> \in AffordanceMap
<1>1. <<>> \in [{} -> Affordance]
  OBVIOUS
<1> QED
  BY <1>1 DEF AffordanceMap

\* A document after an affordance is added to it: only that entry differs.
LEMMA AffordanceAdded ==
  ASSUME NEW td \in ThingTD, NEW kind \in Store!Kinds, NEW n \in AffNames,
         NEW a \in Affordance, NEW new, new = Store!UpdateAffordance(td, kind, n, a)
  PROVE  /\ new \in ThingTD /\ new.id = td.id
         /\ new.affordances[kind] = Store!Put(td.affordances[kind], n, a)
         /\ \A k \in Store!Kinds : k # kind => new.affordances[k] = td.affordances[k]
<1> DEFINE put == Store!Put(td.affordances[kind], n, a)
           affs == [td.affordances EXCEPT ![kind] = put]
<1>1. td.affordances \in [Store!Kinds -> AffordanceMap]
  BY DEF ThingTD
<1>2. put \in AffordanceMap
  BY <1>1, PutAffordance
<1> HIDE DEF put
<1>3. /\ affs \in [Store!Kinds -> AffordanceMap] /\ affs[kind] = put
      /\ \A k \in Store!Kinds : k # kind => affs[k] = td.affordances[k]
  BY <1>1, <1>2
<1>4. new = [td EXCEPT !.affordances = affs]
  BY DEF Store!UpdateAffordance, put
<1> HIDE DEF affs
<1>5. new.affordances = affs /\ new.id = td.id /\ new \in ThingTD
  BY <1>3, <1>4 DEF ThingTD
<1> QED
  BY <1>3, <1>5 DEF put

\* A new store is empty, and so are new documents (ThingStore.go:80-87,
\* thingTD.go:281-303).
LEMMA StoreInit == Init => StoreInv
<1> SUFFICES ASSUME Init
             PROVE  StoreInv
  OBVIOUS
<1>1. docs = [d \in Docs |-> Store!CreateTD(IdOf[d])] /\ tdMap = <<>> /\ added = <<>>
      /\ stored = <<>>
  BY DEF Init, Store!Init
<1>2. ASSUME NEW d \in Docs
      PROVE  /\ Store!CreateTD(IdOf[d]) \in ThingTD
             /\ Store!CreateTD(IdOf[d]).id = IdOf[d]
             /\ \A k \in Store!Kinds : DOMAIN Store!CreateTD(IdOf[d]).affordances[k] = {}
  <2>1. [k \in Store!Kinds |-> <<>>] \in [Store!Kinds -> AffordanceMap]
    BY NoAffordances
  <2> QED
    BY <2>1 DEF Store!CreateTD, ThingTD, Ids
<1>3. DOMAIN stored = {} /\ DOMAIN added = {}
  BY <1>1
<1>4. IsFiniteSet(DOMAIN stored)
  BY <1>3, FS_EmptySet
<1>5. /\ docs \in [Docs -> ThingTD]
      /\ \A d \in Docs : docs[d].id = IdOf[d]
      /\ \A d \in Docs, k \in Store!Kinds : DOMAIN docs[d].affordances[k] = {}
  BY <1>1, <1>2
<1>6. \A d \in Docs, k \in Store!Kinds, n \in AffNames : AffordanceOK(d, k, n)
  BY <1>3, <1>5 DEF AffordanceOK
<1> QED
  BY <1>1, <1>3, <1>4, <1>5, <1>6 DEF StoreInv

\* AddAction, AddEvent and AddProperty (thingTD.go:92-145) change one entry of one
\* document, which a store that holds the document sees.
LEMMA AddStep ==
  ASSUME StoreInv, NEW d \in Docs, NEW k \in Store!Kinds, NEW n \in AffNames,
         NEW t \in Types, Store!AddAffordance(d, k, n, t)
  PROVE  StoreInv'
<1> DEFINE a == Store!NewAffordance(t)
           new == Store!UpdateAffordance(docs[d], k, n, a)
           key == <<d, k, n>>
<1>1. /\ docs' = [docs EXCEPT ![d] = new] /\ added' = Store!Put(added, key, t)
      /\ tdMap' = tdMap /\ stored' = stored
  BY DEF Store!AddAffordance
<1>2. a \in Affordance /\ a.type = t
  BY DEF Store!NewAffordance, Affordance
<1> HIDE DEF a
<1>3. /\ new \in ThingTD /\ new.id = docs[d].id
      /\ new.affordances[k] = Store!Put(docs[d].affordances[k], n, a)
      /\ \A j \in Store!Kinds : j # k => new.affordances[j] = docs[d].affordances[j]
  BY <1>2, AffordanceAdded DEF StoreInv
<1> HIDE DEF new
<1>4. /\ docs' \in [Docs -> ThingTD] /\ docs'[d] = new
      /\ \A e \in Docs : e # d => docs'[e] = docs[e]
  BY <1>1, <1>3 DEF StoreInv
<1>5. /\ DOMAIN added' = DOMAIN added \cup {key} /\ added'[key] = t
      /\ \A x \in DOMAIN added : x # key => added'[x] = added[x]
  <2> HIDE DEF key
  <2> QED
    BY <1>1 DEF Store!Put
<1>6. ASSUME NEW e \in Docs, NEW j \in Store!Kinds, NEW m \in AffNames
      PROVE  AffordanceOK(e, j, m)'
  <2>1. AffordanceOK(e, j, m)
    BY DEF StoreInv
  <2>2. CASE e = d /\ j = k /\ m = n
    <3>1. /\ n \in DOMAIN new.affordances[k]
          /\ new.affordances[k][n] = a
      BY <1>3 DEF Store!Put
    <3> QED
      BY <1>2, <1>4, <1>5, <2>2, <3>1 DEF AffordanceOK
  <2>3. CASE ~(e = d /\ j = k /\ m = n)
    <3>1. <<e, j, m>> # key
      BY <2>3
    <3>2. /\ <<e, j, m>> \in DOMAIN added' <=> <<e, j, m>> \in DOMAIN added
          /\ <<e, j, m>> \in DOMAIN added => added'[<<e, j, m>>] = added[<<e, j, m>>]
      BY <1>5, <3>1
    <3>3. /\ m \in DOMAIN docs'[e].affordances[j] <=> m \in DOMAIN docs[e].affordances[j]
          /\ m \in DOMAIN docs[e].affordances[j] =>
               docs'[e].affordances[j][m] = docs[e].affordances[j][m]
      <4>1. CASE e = d /\ j = k
        BY <1>3, <1>4, <2>3, <4>1 DEF Store!Put
      <4>2. CASE ~(e = d /\ j = k)
        BY <1>3, <1>4, <4>2
      <4> QED
        BY <4>1, <4>2
    <3> QED
      BY <2>1, <3>2, <3>3 DEF AffordanceOK
  <2> QED
    BY <2>2, <2>3
<1>7. \A e \in Docs : docs'[e].id = IdOf[e]
  BY <1>3, <1>4 DEF StoreInv
<1> QED
  BY <1>1, <1>4, <1>6, <1>7 DEF StoreInv

\* UpdateTitleDescription (thingTD.go:241-246) keeps ID and affordances.
LEMMA TitleStep ==
  ASSUME StoreInv, NEW d \in Docs, Store!UpdateTitleDescription(d)
  PROVE  StoreInv'
<1>1. /\ docs' = [docs EXCEPT ![d].title = "title"]
      /\ tdMap' = tdMap /\ added' = added /\ stored' = stored
  BY DEF Store!UpdateTitleDescription
<1>2. /\ docs' \in [Docs -> ThingTD]
      /\ \A e \in Docs : docs'[e].id = docs[e].id /\ docs'[e].affordances = docs[e].affordances
  BY <1>1 DEF StoreInv, ThingTD
<1>3. ASSUME NEW e \in Docs, NEW j \in Store!Kinds, NEW m \in AffNames
      PROVE  AffordanceOK(e, j, m)'
  <2>1. AffordanceOK(e, j, m)
    BY DEF StoreInv
  <2> QED
    BY <1>1, <1>2, <2>1 DEF AffordanceOK
<1> QED
  BY <1>1, <1>2, <1>3 DEF StoreInv

\* Update (ThingStore.go:55-59) replaces the document of one ID.
LEMMA UpdateStep ==
  ASSUME StoreInv, NEW d \in Docs, Store!Update(d)
  PROVE  StoreInv'
<1>1. /\ tdMap' = Store!Put(tdMap, IdOf[d], d) /\ stored' = Store!Put(stored, IdOf[d], d)
      /\ docs' = docs /\ added' = added
  BY DEF Store!Update, StoreInv
<1>2. /\ DOMAIN stored' = DOMAIN stored \cup {IdOf[d]} /\ stored'[IdOf[d]] = d
      /\ \A id \in DOMAIN stored : id # IdOf[d] => stored'[id] = stored[id]
  BY <1>1 DEF Store!Put
<1>3. IsFiniteSet(DOMAIN stored')
  BY <1>2, FS_AddElement DEF StoreInv
<1>4. /\ DOMAIN stored' \subseteq Ids
      /\ \A id \in DOMAIN stored' : stored'[id] \in Docs
  BY <1>2 DEF StoreInv, Ids
<1>5. \A e \in Docs, j \in Store!Kinds, m \in AffNames : AffordanceOK(e, j, m)'
  BY <1>1 DEF StoreInv, AffordanceOK
<1> QED
  BY <1>1, <1>3, <1>4, <1>5 DEF StoreInv

\* StoreInv holds after every operation of the store and its documents
\* (ThingStore.go:18-59, thingTD.go:92-246).
LEMMA StoreInvariance == Spec => []StoreInv
<1>1. ASSUME StoreInv, [Next]_vars
      PROVE  StoreInv'
  <2>1. CASE UNCHANGED storeVars
    BY <1>1, <2>1 DEF StoreInv, AffordanceOK, storeVars
  <2>2. CASE Store!Next
    BY <1>1, <2>2, AddStep, TitleStep, UpdateStep DEF Store!Next
  <2>3. UNCHANGED storeVars \/ Store!Next
    BY <1>1 DEF Next, vars, LoadConfig, NameThing, ConvertValue, ReadMessage, Do, UseStore,
      Discover
  <2> QED
    BY <2>1, <2>2, <2>3
<1> QED
  BY StoreInit, <1>1, PTL DEF Spec

\* In whatever order documents are stored and affordances added to them, before or
\* after they are stored, an ID finds the document stored last under it, with each
\* affordance under its own kind, and GetIDs lists each ID once (ThingStore.go:18-59,
\* thingTD.go:92-238).
THEOREM StoreIsReadBack == Spec => []StoreReadsBack
<1>1. ASSUME StoreInv
      PROVE  StoreReadsBack
  <2>1. ASSUME NEW id \in Ids
        PROVE  /\ Store!GetByID(id) = IF id \in DOMAIN stored THEN stored[id] ELSE Store!NoDoc
               /\ Store!GetByID(id) # Store!NoDoc =>
                    \A k \in Store!Kinds, n \in AffNames :
                      Store!GetAffordance(docs[Store!GetByID(id)], k, n).type
                        = Store!LastAdded(Store!GetByID(id), k, n)
    <3>1. Store!GetByID(id) = IF id \in DOMAIN stored THEN stored[id] ELSE Store!NoDoc
      BY <1>1 DEF StoreInv, Store!GetByID
    <3>2. ASSUME Store!GetByID(id) # Store!NoDoc,
                 NEW k \in Store!Kinds, NEW n \in AffNames
          PROVE  Store!GetAffordance(docs[Store!GetByID(id)], k, n).type
                   = Store!LastAdded(Store!GetByID(id), k, n)
      <4> DEFINE d == Store!GetByID(id)
      <4>1. d \in Docs
        BY <1>1, <3>1, <3>2 DEF StoreInv
      <4> HIDE DEF d
      <4>2. AffordanceOK(d, k, n)
        BY <1>1, <4>1 DEF StoreInv
      <4>3. Store!GetAffordance(docs[d], k, n).type = Store!LastAdded(d, k, n)
        BY <4>2 DEF AffordanceOK, Store!GetAffordance, Store!LastAdded, Store!NoAffordance
      <4> QED
        BY <4>3 DEF d
    <3> QED
      BY <3>1, <3>2
  <2>2. \A id \in DOMAIN stored :
          Cardinality({i \in DOMAIN Store!GetIDs : Store!GetIDs[i] = id}) = 1
    <3>1. IsFiniteSet(DOMAIN stored) /\ Store!Blank \notin DOMAIN stored /\ tdMap = stored
      BY <1>1, IdsAssumption DEF StoreInv, Ids
    <3>2. Store!GetIDs = [i \in 1..Cardinality(DOMAIN stored) |-> Store!Blank]
                           \o Store!SetToSeq(DOMAIN stored)
      BY <3>1, StoreCardinality DEF Store!GetIDs
    <3> DEFINE S == DOMAIN stored
               ids == Store!GetIDs
    <3>3. IsFiniteSet(S) /\ Store!Blank \notin S /\ ids = Listed(S)
      BY <3>1, <3>2 DEF Listed
    <3> HIDE DEF S, ids
    <3>4. \A id \in S : Cardinality(Places(ids, id)) = 1
      BY <3>3, ListedOnce
    <3> QED
      BY <3>4 DEF S, ids, Places
  <2> QED
    BY <2>1, <2>2, StoreCardinality DEF StoreReadsBack, Store!StoreReadsBack, Ids
<1> QED
  BY <1>1, StoreInvariance, PTL

-----------------------------------------------------------------------------
(* The hub configuration.                                                  *)

\* A path of the file, in a folder unless it is absolute.
Placed(given, folder) == IF given.abs THEN given ELSE Join(folder, given)
PlacedFile(given, folder, default) ==
  IF given = Empty THEN In(folder, default) ELSE Placed(given, folder)

\* new is c with another value of one field.
Changed(c, new, field, value) ==
  /\ DOMAIN new = DOMAIN c
  /\ new[field] = value
  /\ \A x \in DOMAIN c : x # field => new[x] = c[x]

\* Each step of MakeAbsolute changes its own field (HubConfig.go:183-232).
LEMMA InFolderField ==
  ASSUME NEW c, NEW field \in DOMAIN c, NEW folder
  PROVE  Changed(c, InFolder(c, field, folder), field, Placed(c[field], c[folder]))
BY DEF Changed, InFolder, Placed

\* A file that is not given has its default name (HubConfig.go:192-196).
LEMMA FileField ==
  ASSUME NEW c, NEW field \in DOMAIN c, NEW folder, NEW default
  PROVE  Changed(c, FileInFolder(c, field, folder, default), field,
                 PlacedFile(c[field], c[folder], default))
<1>1. CASE c[field] = Empty
  BY <1>1 DEF Changed, FileInFolder, PlacedFile
<1>2. CASE c[field] # Empty
  BY <1>2, InFolderField DEF FileInFolder, PlacedFile
<1> QED
  BY <1>1, <1>2

KeyPath(given, cert, folder, default) ==
  IF given = Empty THEN In(folder, default)
  ELSE IF cert.abs THEN given ELSE Join(folder, given)
\* The client key, with the test of line 230 (HubConfig.go:228-232).
LEMMA KeyField ==
  ASSUME NEW c, "ClientKeyFile" \in DOMAIN c, NEW default
  PROVE  Changed(c, ClientKeyFile(c, default), "ClientKeyFile",
                 KeyPath(c["ClientKeyFile"], c["ClientCertFile"], c["CertsFolder"], default))
BY DEF Changed, ClientKeyFile, KeyPath

\* What the folders become, and that the other fields stay (HubConfig.go:184-200).
LEMMA FoldersSet ==
  ASSUME NEW c, Fields \subseteq DOMAIN c, NEW id, NEW new, new = SetFolders(c, id)
  PROVE  /\ DOMAIN new = DOMAIN c
         /\ \A f \in {"CertsFolder", "LogFolder", "ConfigFolder"} :
              new[f] = Placed(c[f], c["HomeFolder"])
         /\ new["LogFile"] = PlacedFile(c["LogFile"], new["LogFolder"], id)
         /\ \A f \in DOMAIN c \ {"CertsFolder", "LogFolder", "ConfigFolder", "LogFile"} :
              new[f] = c[f]
<1> DEFINE c1 == InFolder(c, "CertsFolder", "HomeFolder")
           c2 == InFolder(c1, "LogFolder", "HomeFolder")
           c3 == FileInFolder(c2, "LogFile", "LogFolder", id)
           c4 == InFolder(c3, "ConfigFolder", "HomeFolder")
<1>1. {"HomeFolder", "CertsFolder", "LogFolder", "ConfigFolder", "LogFile"} \subseteq DOMAIN c
  BY DEF Fields, Folders
<1>2. Changed(c, c1, "CertsFolder", Placed(c["CertsFolder"], c["HomeFolder"]))
  BY <1>1, InFolderField
<1> HIDE DEF c1
<1>3. Changed(c1, c2, "LogFolder", Placed(c1["LogFolder"], c1["HomeFolder"]))
  BY <1>1, <1>2, InFolderField DEF Changed
<1> HIDE DEF c2
<1>4. Changed(c2, c3, "LogFile", PlacedFile(c2["LogFile"], c2["LogFolder"], id))
  BY <1>1, <1>2, <1>3, FileField DEF Changed
<1> HIDE DEF c3
<1>5. Changed(c3, c4, "ConfigFolder", Placed(c3["ConfigFolder"], c3["HomeFolder"]))
  BY <1>1, <1>2, <1>3, <1>4, InFolderField, SMTT(40) DEF Changed
<1>6. new = c4
  BY DEF SetFolders, c1, c2, c3
<1> HIDE DEF c4
<1> QED
  BY <1>1, <1>2, <1>3, <1>4, <1>5, <1>6 DEF Changed

\* What the files become, and that the other fields stay (HubConfig.go:203-232).
LEMMA FilesSet ==
  ASSUME NEW c, Fields \subseteq DOMAIN c, NEW id, NEW new, new = SetFiles(c, id)
  PROVE  /\ DOMAIN new = DOMAIN c
         /\ new["CaCertFile"] = PlacedFile(c["CaCertFile"], c["CertsFolder"], "caCert")
         /\ new["PluginCertFile"] = PlacedFile(c["PluginCertFile"], c["CertsFolder"], "pluginCert")
         /\ new["PluginKeyFile"] = PlacedFile(c["PluginKeyFile"], c["CertsFolder"], "pluginKey")
         /\ new["ClientCertFile"] = PlacedFile(c["ClientCertFile"], c["CertsFolder"], id)
         /\ new["ClientKeyFile"] = KeyPath(c["ClientKeyFile"], new["ClientCertFile"],
                                           c["CertsFolder"], id)
         /\ \A f \in DOMAIN c \ CertFiles : new[f] = c[f]
<1> DEFINE c1 == FileInFolder(c, "CaCertFile", "CertsFolder", "caCert")
           c2 == FileInFolder(c1, "PluginCertFile", "CertsFolder", "pluginCert")
           c3 == FileInFolder(c2, "PluginKeyFile", "CertsFolder", "pluginKey")
           c4 == FileInFolder(c3, "ClientCertFile", "CertsFolder", id)
           c5 == ClientKeyFile(c4, id)
<1>1. CertFiles \cup {"CertsFolder"} \subseteq DOMAIN c
  BY DEF Fields, Folders
<1> USE DEF CertFiles
<1>2. Changed(c, c1, "CaCertFile", PlacedFile(c["CaCertFile"], c["CertsFolder"], "caCert"))
  BY <1>1, FileField
<1> HIDE DEF c1
<1>3. Changed(c1, c2, "PluginCertFile",
              PlacedFile(c1["PluginCertFile"], c1["CertsFolder"], "pluginCert"))
  BY <1>1, <1>2, FileField DEF Changed
<1> HIDE DEF c2
<1>4. Changed(c2, c3, "PluginKeyFile",
              PlacedFile(c2["PluginKeyFile"], c2["CertsFolder"], "pluginKey"))
  BY <1>1, <1>2, <1>3, FileField DEF Changed
<1> HIDE DEF c3
<1>5. Changed(c3, c4, "ClientCertFile",
              PlacedFile(c3["ClientCertFile"], c3["CertsFolder"], id))
  BY <1>1, <1>2, <1>3, <1>4, FileField DEF Changed
<1> HIDE DEF c4
<1>6. Changed(c4, c5, "ClientKeyFile",
              KeyPath(c4["ClientKeyFile"], c4["ClientCertFile"], c4["CertsFolder"], id))
  BY <1>1, <1>2, <1>3, <1>4, <1>5, KeyField DEF Changed
<1>7. new = c5
  BY DEF SetFiles, c1, c2, c3, c4
<1> HIDE DEF c5
<1> QED
  BY <1>1, <1>2, <1>3, <1>4, <1>5, <1>6, <1>7 DEF Changed

\* A path placed in an absolute folder is absolute.
LEMMA PlacedAbsolute ==
  ASSUME NEW folder, folder.abs, NEW given, NEW default
  PROVE  /\ Placed(given, folder).abs
         /\ PlacedFile(given, folder, default).abs
<1>1. folder # Empty
  BY DEF Empty, Path
<1>2. \A b : Join(folder, b).abs = folder.abs
  BY <1>1 DEF Join, Path
<1> QED
  BY <1>2 DEF Placed, PlacedFile, In

\* Whatever paths g a configuration has, what MakeAbsolute makes of them
\* (HubConfig.go:183-232).
LEMMA PathsResolved ==
  ASSUME NEW g, Fields \subseteq DOMAIN g, NEW c, c = MakeAbsolute(g, "me")
  PROVE  /\ \A f \in Fields \ {"BinFolder", "HomeFolder"} :
              \/ f = "ClientKeyFile" /\ g["ClientKeyFile"] # Empty
              \/ Resolved(c, f, g[f]) /\ (c["HomeFolder"].abs => c[f].abs)
         /\ g["ClientKeyFile"] # Empty =>
              c["ClientKeyFile"] = IF c["ClientCertFile"].abs THEN g["ClientKeyFile"]
                                   ELSE Join(c["CertsFolder"], g["ClientKeyFile"])
<1> DEFINE s == SetFolders(g, "me")
           names == [CaCertFile |-> "caCert", PluginCertFile |-> "pluginCert",
                     PluginKeyFile |-> "pluginKey", ClientCertFile |-> "me"]
<1>1. /\ DOMAIN s = DOMAIN g
      /\ \A f \in {"CertsFolder", "LogFolder", "ConfigFolder"} :
           s[f] = Placed(g[f], g["HomeFolder"])
      /\ s["LogFile"] = PlacedFile(g["LogFile"], s["LogFolder"], "me")
      /\ \A f \in DOMAIN g \ {"CertsFolder", "LogFolder", "ConfigFolder", "LogFile"} :
           s[f] = g[f]
  BY FoldersSet
<1>2. c = SetFiles(s, "me")
  BY DEF MakeAbsolute
<1> HIDE DEF s
<1>3. /\ \A f \in DOMAIN names : c[f] = PlacedFile(s[f], s["CertsFolder"], names[f])
      /\ c["ClientKeyFile"] = KeyPath(s["ClientKeyFile"], c["ClientCertFile"],
                                      s["CertsFolder"], "me")
      /\ \A f \in DOMAIN s \ CertFiles : c[f] = s[f]
  BY <1>1, <1>2, FilesSet
<1>4. DOMAIN names = CertFiles \ {"ClientKeyFile"}
      /\ \A f \in DOMAIN names : names[f] \in DefaultNames
  BY DEF CertFiles, DefaultNames
<1> HIDE DEF names
<1>5. /\ Fields = Folders \cup CertFiles \cup {"BinFolder", "LogFile"}
      /\ Folders = {"HomeFolder", "CertsFolder", "LogFolder", "ConfigFolder"}
      /\ CertFiles = {"CaCertFile", "PluginCertFile", "PluginKeyFile", "ClientCertFile",
                      "ClientKeyFile"}
  BY DEF Fields, Folders, CertFiles
<1>6. /\ c["HomeFolder"] = g["HomeFolder"]
      /\ \A f \in {"CertsFolder", "LogFolder", "ConfigFolder"} :
           c[f] = Placed(g[f], c["HomeFolder"])
      /\ c["LogFile"] = PlacedFile(g["LogFile"], c["LogFolder"], "me")
      /\ \A f \in CertFiles \ {"ClientKeyFile"} :
           \E n \in DefaultNames : c[f] = PlacedFile(g[f], c["CertsFolder"], n)
      /\ c["ClientKeyFile"] = KeyPath(g["ClientKeyFile"], c["ClientCertFile"],
                                      c["CertsFolder"], "me")
  BY <1>1, <1>3, <1>4, <1>5
<1>7. ASSUME NEW f \in {"CertsFolder", "LogFolder", "ConfigFolder"}
      PROVE  Resolved(c, f, g[f]) /\ (c["HomeFolder"].abs => c[f].abs)
  <2>1. f \in Folders /\ FolderOf(f) = "HomeFolder" /\ c[f] = Placed(g[f], c["HomeFolder"])
    BY <1>5, <1>6 DEF FolderOf
  <2> QED
    BY <2>1, PlacedAbsolute DEF Resolved, Placed
<1>8. ASSUME NEW f \in Fields \ Folders, NEW n \in DefaultNames,
             c[f] = PlacedFile(g[f], c[FolderOf(f)], n),
             c["HomeFolder"].abs => c[FolderOf(f)].abs
      PROVE  Resolved(c, f, g[f]) /\ (c["HomeFolder"].abs => c[f].abs)
  <2>1. Resolved(c, f, g[f])
    <3>1. Empty.abs = FALSE
      BY DEF Empty, Path
    <3> QED
      BY <1>8, <3>1 DEF Resolved, PlacedFile, Placed
  <2>2. c[FolderOf(f)].abs => c[f].abs
    BY <1>8, PlacedAbsolute
  <2> QED
    BY <1>8, <2>1, <2>2
<1>9. FolderOf("LogFile") = "LogFolder" /\ "me" \in DefaultNames
      /\ \A f \in CertFiles : FolderOf(f) = "CertsFolder" /\ f \notin Folders
      /\ "LogFile" \notin Folders
  BY <1>5 DEF FolderOf, DefaultNames
<1>10. /\ c["HomeFolder"].abs => c["CertsFolder"].abs
       /\ c["HomeFolder"].abs => c["LogFolder"].abs
  BY <1>7
<1>11. \A f \in CertFiles \ {"ClientKeyFile"} :
         Resolved(c, f, g[f]) /\ (c["HomeFolder"].abs => c[f].abs)
  <2>1. ASSUME NEW f \in CertFiles \ {"ClientKeyFile"}
        PROVE  Resolved(c, f, g[f]) /\ (c["HomeFolder"].abs => c[f].abs)
    <3>1. PICK n \in DefaultNames : c[f] = PlacedFile(g[f], c["CertsFolder"], n)
      BY <1>6
    <3>2. f \in Fields \ Folders /\ FolderOf(f) = "CertsFolder"
      BY <1>5, <1>9
    <3> QED
      BY <1>8, <1>10, <3>1, <3>2
  <2> QED
    BY <2>1
<1>12. Resolved(c, "LogFile", g["LogFile"]) /\ (c["HomeFolder"].abs => c["LogFile"].abs)
  <2>1. c["LogFile"] = PlacedFile(g["LogFile"], c["LogFolder"], "me")
    BY <1>6
  <2>2. c["HomeFolder"].abs => c["LogFolder"].abs
    BY <1>10
  <2> QED
    BY <1>5, <1>8, <1>9, <2>1, <2>2
<1>13. g["ClientKeyFile"] = Empty =>
         /\ Resolved(c, "ClientKeyFile", g["ClientKeyFile"])
         /\ c["HomeFolder"].abs => c["ClientKeyFile"].abs
  <2>1. g["ClientKeyFile"] = Empty =>
          c["ClientKeyFile"] = PlacedFile(g["ClientKeyFile"], c["CertsFolder"], "me")
    BY <1>6 DEF KeyPath, PlacedFile
  <2>2. "ClientKeyFile" \in Fields \ Folders /\ FolderOf("ClientKeyFile") = "CertsFolder"
    BY <1>5, <1>9
  <2> QED
    BY <1>8, <1>9, <1>10, <2>1, <2>2
<1>14. g["ClientKeyFile"] # Empty =>
         c["ClientKeyFile"] = IF c["ClientCertFile"].abs THEN g["ClientKeyFile"]
                              ELSE Join(c["CertsFolder"], g["ClientKeyFile"])
  BY <1>6 DEF KeyPath
<1> QED
  BY <1>5, <1>7, <1>11, <1>12, <1>13, <1>14

\* Only a file that is there sets a field of the client's configuration.
LEMMA ClientFilePresent ==
  ASSUME NEW t \in ConfigTasks, DOMAIN t.client.texts # {} PROVE t.client.present
<1>1. t.client \in {NoFile} \cup ClientFiles
  BY DEF ConfigTasks
<1>2. \A texts : File(texts).present /\ BadFile(texts).present
  BY DEF File, BadFile
<1>3. DOMAIN NoFile.texts = {}
  BY DEF NoFile
<1> QED
  BY <1>1, <1>2, <1>3 DEF ClientFiles

\* However hub.yaml mixes paths and variables of the default configuration, each
\* field is resolved with the folder that the file finally gives it, except a given
\* client key, and the client's file is read with these folders
\* (HubConfig.go:161-232, LoadYamlConfig.go:23-68, LoadAllConfig.go:41-63).
THEOREM ConfigIsResolved == Spec => []ConfigResolved
<1>1. ASSUME Computed, Finished("config"), ~result.r.hub.err
      PROVE  ConfigResolved
  <2> DEFINE hub == CreateHubConfig(task.home)
             vars_ == LoadVars(hub, "me")
             read == LoadYamlConfig(task.file, hub, vars_)
             c == result.r.hub.config
             texts == task.client.texts
             client == LoadYamlConfig(task.client, <<>>, ClientVars(c, "me"))
  <2>1. DOMAIN hub = Fields
    BY DEF CreateHubConfig
  <2>2. /\ result.r.hub = Load(hub, task.file, "me", task.absent)
        /\ result.r.client = IF result.r.hub.err \/ ~task.client.present THEN <<>>
                             ELSE client.config
    BY <1>1 DEF Computed, LoadAllConfig
  <2>3. Fields \subseteq DOMAIN read.config /\ \A f \in Fields : read.config[f] = GivenPath(f)
    <3> HIDE DEF hub
    <3>1. \A f \in Fields : read.config[f] = IF f \in DOMAIN task.file.texts
                                             THEN SubstituteText(task.file.texts[f], vars_)
                                             ELSE hub[f]
      BY <2>1 DEF LoadYamlConfig
    <3>2. \A f : GivenPath(f) = IF f \in DOMAIN task.file.texts
                                THEN SubstituteText(task.file.texts[f], vars_)
                                ELSE hub[f]
      BY DEF GivenPath, hub
    <3>3. Fields \subseteq DOMAIN read.config
      BY <2>1 DEF LoadYamlConfig
    <3> QED
      BY <3>1, <3>2, <3>3
  <2>4. c = MakeAbsolute(read.config, "me")
    <3>1. Load(hub, task.file, "me", task.absent).err = FALSE =>
            Load(hub, task.file, "me", task.absent).config = MakeAbsolute(read.config, "me")
      <4> HIDE DEF hub
      <4> QED
        BY DEF Load
    <3>2. Load(hub, task.file, "me", task.absent).err \in BOOLEAN
      <4> HIDE DEF hub
      <4> QED
        BY DEF Load, Validate
    <3> QED
      BY <1>1, <2>2, <3>1, <3>2
  <2> HIDE DEF read, hub
  <2>5. \A f \in Fields \ {"BinFolder", "HomeFolder"} :
          \/ f = "ClientKeyFile" /\ GivenPath(f) # Empty
          \/ Resolved(c, f, GivenPath(f)) /\ (c["HomeFolder"].abs => c[f].abs)
    <3> HIDE DEF c
    <3>1. "ClientKeyFile" \in Fields
      BY DEF Fields, CertFiles
    <3> QED
      BY <2>3, <2>4, <3>1, PathsResolved
  <2>6. ASSUME NEW f \in DOMAIN texts,
               texts[f].var \in {"HomeFolder", "ConfigFolder", "CertsFolder"}
        PROVE  result.r.client[f] = Join(c[texts[f].var], texts[f].path)
    <3> HIDE DEF c
    <3>1. task.client.present
      BY <1>1, <2>6, ClientFilePresent, TaskKinds DEF Computed, Finished
    <3>2. client.config[f] = SubstituteText(texts[f], ClientVars(c, "me"))
      BY DEF LoadYamlConfig
    <3>3. /\ texts[f].var \in DOMAIN ClientVars(c, "me")
          /\ ClientVars(c, "me")[texts[f].var] = c[texts[f].var]
      BY <2>6 DEF ClientVars
    <3>4. texts[f].var # NoVar
      BY <2>6, Zenon DEF NoVar
    <3>5. client.config[f] = Join(c[texts[f].var], texts[f].path)
      BY <3>2, <3>3, <3>4 DEF SubstituteText
    <3> QED
      BY <1>1, <2>2, <3>1, <3>5
  <2> QED
    BY <2>5, <2>6 DEF ConfigResolved
<1>2. Computed => ConfigResolved
  BY <1>1 DEF ConfigResolved
<1> QED
  BY <1>2, ComputedInvariance, PTL

=============================================================================

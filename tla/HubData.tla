------------------------------ MODULE HubData ------------------------------
(***************************************************************************)
(* The library's functions on data, each applied to the inputs of a small  *)
(* set: a behaviour chooses a task and does it in one step.  The tasks     *)
(* "store" and "discover" take several steps, those of ThingStore and      *)
(* Discovery.                                                              *)
(***************************************************************************)
EXTENDS HubConfig, ThingData, Signing, FiniteSets, TLC, FiniteSetsExt

CONSTANTS Docs, IdOf, AffNames, Types, MaxAdds, Services, Wanted

VARIABLES task, result,
          docs, tdMap, added, stored,
          registry, records, phase, results, answer

Store == INSTANCE ThingStore
Disco == INSTANCE Discovery

\* The parameters of a service are texts (DiscoServe.go:33: map[string]string),
\* split at "=".
ASSUME ServicesAssumption ==
  \A s \in Services : \A k \in DOMAIN s.params : s.params[k] \in Seq(STRING)

\* No document has an empty thing ID (thingid.go:23, 35: an ID starts with "urn").
ASSUME IdsAssumption == \A d \in Docs : IdOf[d] # Store!Blank

storeVars == <<docs, tdMap, added, stored>>
discoVars == <<registry, records, phase, results, answer>>
vars == <<task, result, storeVars, discoVars>>

-----------------------------------------------------------------------------
(* Inputs.                                                                 *)
Text(var, abs, name) == [var |-> var, path |-> Path(abs, name)]
Texts == {Text(NoVar, FALSE, <<>>), Text(NoVar, FALSE, <<"x">>), Text(NoVar, TRUE, <<"x">>),
          Text("CertsFolder", FALSE, <<"x">>), Text("clientID", FALSE, <<"x">>)}
NoFile == [decodes |-> FALSE, present |-> FALSE, texts |-> <<>>]
File(texts) == [decodes |-> TRUE, present |-> TRUE, texts |-> texts]
BadFile(texts) == [File(texts) EXCEPT !.decodes = FALSE]
CertsFolderTexts == [{"CertsFolder"} -> Texts]

\* hub.yaml sets at most two fields.
HubFiles ==
  {NoFile} \cup {File(<<>>)} \cup {BadFile(t) : t \in {<<>>} \cup CertsFolderTexts}
    \cup UNION {{File(t) : t \in [F -> Texts]} : F \in kSubset(1, Fields) \cup kSubset(2, Fields)}

ClientFiles == {NoFile, BadFile(<<>>)}
  \cup {File([path |-> Text(v, FALSE, <<"x">>)]) :
          v \in {NoVar, "CertsFolder", "LogFolder", "logsFolder", "clientID"}}

ConfigTasks ==
  [kind : {"config"}, home : {Empty, Path(FALSE, <<"h">>), Path(TRUE, <<"h">>)},
   file : HubFiles, client : {NoFile}, absent : {{}}]
  \cup
  [kind : {"config"}, home : {Path(TRUE, <<"h">>)},
   file : {NoFile, File(<<>>)} \cup {File(t) : t \in CertsFolderTexts},
   client : ClientFiles, absent : {{}, {Path(TRUE, <<"h", "logs">>)}}]

\* An ID is a name, or two with a colon between them.
IDs == {<<"a">>, <<"b">>, <<"a", "b">>}
NameTasks ==
  [kind : {"name"}, zone : {None, "z"}, publisher : IDs \cup {<<None>>}, device : IDs,
   type : {None, "sensor"}]

DataValues == {Value("boolean", TRUE), Value("boolean", FALSE), Value("integer", 0),
               Value("integer", 42), Value("string", "true"), Value("string", "a"),
               Value("array", <<"a">>), Value("object", "o"), Null}
ValueTasks == [kind : {"value"}, data : DataValues]

Senders == {"alice", "bob", NoSender}
KeyOf == [s \in Senders |-> IF s = "alice" THEN "ka" ELSE NoKey]
Contents == [sender : Senders, json : BOOLEAN, hasSender : BOOLEAN]
Messages ==
  LET inner == {Plain(t) : t \in Contents}
                 \cup {Signed(t, k) : t \in Contents, k \in {"ka", "kb"}}
  IN  inner \cup {Encrypted(m, k) : m \in inner, k \in {"kme", "kb"}}
MessageTasks ==
  [kind : {"message"}, message : Messages, haveKeys : BOOLEAN]

Tasks == ConfigTasks \cup NameTasks \cup ValueTasks \cup MessageTasks
           \cup {[kind |-> "store"], [kind |-> "discover"]}

-----------------------------------------------------------------------------
NoResult == [done |-> FALSE]
Done(r) == [done |-> TRUE, r |-> r]

Init ==
  /\ task \in Tasks
  /\ result = NoResult
  /\ Store!Init
  /\ Disco!Init

Do(kind, r) ==
  /\ task.kind = kind
  /\ ~result.done
  /\ result' = Done(r)
  /\ UNCHANGED <<task, storeVars, discoVars>>

LoadConfig == /\ task.kind = "config"
              /\ Do("config", LoadAllConfig(task.home, "me", task.file, task.client, task.absent))

NameThing ==
  /\ task.kind = "name"
  /\ LET id == CreateThingID(task.zone, task.device, task.type)
         pubID == CreatePublisherID(task.zone, task.publisher, task.device, task.type)
     IN  Do("name", [thing |-> SplitThingID(id), published |-> SplitThingID(pubID),
                     topic |-> SplitTopic(CreateTopic(task.device[1], <<"event", task.type>>))])

ConvertValue ==
  /\ task.kind = "value"
  /\ Do("value", [native |-> Read(NewInteractionOutput(task.data, TypeOf(task.data))),
                  read |-> Read(NewInteractionOutputFromJson(task.data, TypeOf(task.data)))])

ReadMessage ==
  /\ task.kind = "message"
  /\ Do("message", DecodeMessage(task.message, "kme", KeyOf, task.haveKeys))

UseStore ==
  /\ task.kind = "store"
  /\ Store!Next
  /\ UNCHANGED <<task, result, discoVars>>

Discover ==
  /\ task.kind = "discover"
  /\ Disco!Next
  /\ UNCHANGED <<task, result, storeVars>>

Next == LoadConfig \/ NameThing \/ ConvertValue \/ ReadMessage \/ UseStore \/ Discover
Spec == Init /\ [][Next]_vars

-----------------------------------------------------------------------------
Finished(kind) == task.kind = kind /\ result.done

DefaultNames == {"me", "caCert", "pluginCert", "pluginKey"}
FolderOf(field) == IF field \in CertFiles THEN "CertsFolder"
                   ELSE IF field = "LogFile" THEN "LogFolder" ELSE "HomeFolder"

\* What the file says of a field, read with the default folders.
GivenPath(field) ==
  IF field \in DOMAIN task.file.texts
  THEN SubstituteText(task.file.texts[field], LoadVars(CreateHubConfig(task.home), "me"))
  ELSE CreateHubConfig(task.home)[field]

\* The path of a field that the file says to be given, with the folders of c.
Resolved(c, f, given) ==
  IF given.abs THEN c[f] = given
  ELSE IF given # Empty \/ f \in Folders THEN c[f] = Join(c[FolderOf(f)], given)
  ELSE \E n \in DefaultNames : c[f] = In(c[FolderOf(f)], n)

\* However a file that loads without error mixes absolute, relative, empty and
\* missing paths, a folder is below the home folder and a file below the folder
\* that hub.yaml finally gives it, unless it is given as absolute; below an
\* absolute home every path is absolute (HubConfig.go:183).  Nothing is said of
\* binFolder, nor of a clientKeyFile that is given (line 230).  A folder variable
\* of the client's file stands for the folder that hub.yaml finally gives, where
\* in hub.yaml it stands for the default (LoadAllConfig.go:48-61).
ConfigResolved ==
  Finished("config") /\ ~result.r.hub.err =>
    LET c == result.r.hub.config
        texts == task.client.texts
    IN  /\ \A f \in Fields \ {"BinFolder", "HomeFolder"} :
             \/ f = "ClientKeyFile" /\ GivenPath(f) # Empty
             \/ Resolved(c, f, GivenPath(f)) /\ (c["HomeFolder"].abs => c[f].abs)
        /\ \A f \in DOMAIN texts : texts[f].var \in {"HomeFolder", "ConfigFolder", "CertsFolder"} =>
             result.r.client[f] = Join(c[texts[f].var], texts[f].path)

\* A thing ID made of names without a colon is read back as it was made, with
\* and without a publisher; so is a topic (thingid.go, Topics.go).
NamesReadBack ==
  Finished("name") =>
    LET zone == ZoneOf(task.zone) dev == task.device pub == task.publisher
    IN  /\ Len(dev) = 1 =>
             result.r.thing = ThingID(zone, None, dev[1], task.type)
        /\ Len(dev) = 1 /\ Len(pub) = 1 =>
             result.r.published = ThingID(zone, pub[1], dev[1], task.type)
        /\ result.r.topic = [thingID |-> dev[1], type |-> "event", subject |-> task.type]

\* A value reads the same at the device, made from native data, and at the
\* consumer, made from the JSON of that data, although the consumer's Value is
\* nil for an object (InteractionOutput.go:97-123).
ValuesAgree == Finished("value") => result.r.native = result.r.read

\* The signature of a message that is accepted as signed was made with the key
\* of the sender it names, if the application provides keys; a message encrypted
\* for me and signed by a known sender is accepted (DecodeMessage).
SignatureHonest ==
  Finished("message") =>
    /\ result.r.isSigned /\ ~result.r.err /\ task.haveKeys =>
         /\ task.message.form = "encrypted"
         /\ task.message.message.key = KeyOf[task.message.message.text.sender]
    /\ \A t \in Contents :
         /\ t.json /\ t.hasSender /\ t.sender = "alice"
         /\ task.message = SignAndEncrypt(t, "ka", "kme").message
         => result.r = [isEncrypted |-> TRUE, isSigned |-> TRUE, err |-> FALSE]

StoreReadsBack == Store!StoreReadsBack
ServiceFound == Disco!ServiceFound
=============================================================================

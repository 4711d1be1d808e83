----------------------------- MODULE HubConfig -----------------------------
(***************************************************************************)
(* The hub configuration (pkg/config): how CreateHubConfig, Load and       *)
(* LoadAllConfig turn a home folder and the hub.yaml and client files into *)
(* the folders and files of a client.  A path is the sequence of its parts *)
(* and whether it is absolute; cleaning of "." and ".." is left out, and   *)
(* so are the fields that are not paths (ports, zone, log level).          *)
(***************************************************************************)
EXTENDS Sequences

Path(abs, parts) == [abs |-> abs, parts |-> parts]
Empty == Path(FALSE, <<>>)
NoVar == ""                                \* a text without a variable
AppFolder == Path(TRUE, <<"app">>)          \* parent of the binary's folder
Cwd == Path(TRUE, <<"cwd">>)

\* path.Join: an empty first element is ignored.
Join(a, b) == Path(IF a = Empty THEN b.abs ELSE a.abs, a.parts \o b.parts)
In(folder, name) == Join(folder, Path(FALSE, <<name>>))

Folders == {"HomeFolder", "CertsFolder", "LogFolder", "ConfigFolder"}
CertFiles == {"CaCertFile", "PluginCertFile", "PluginKeyFile",
              "ClientCertFile", "ClientKeyFile"}
Fields == Folders \cup CertFiles \cup {"BinFolder", "LogFile"}

CreateHubConfig(home) ==
  LET h == IF home = Empty THEN AppFolder ELSE IF home.abs THEN home ELSE Join(Cwd, home)
  IN  [f \in Fields |->
         CASE f = "HomeFolder"   -> h
           [] f = "BinFolder"    -> In(h, "bin")
           [] f = "CertsFolder"  -> In(h, "certs")
           [] f = "ConfigFolder" -> In(h, "config")
           [] f = "LogFolder"    -> In(h, "logs")
           [] OTHER              -> Empty]

\* A text of a file, with an optional variable in front.  A variable that the
\* substitution map does not hold stays in the text.
SubstituteText(text, map) ==
  IF text.var = NoVar THEN text.path
  ELSE IF text.var \in DOMAIN map THEN Join(map[text.var], text.path)
  ELSE Join(Path(FALSE, <<text.var>>), text.path)

\* The texts are the fields that can be decoded: none of a file that cannot be
\* read or parsed, and some of one with a value of the wrong type.  They are set
\* in the configuration also when the file as a whole does not decode.
LoadYamlConfig(file, config, map) ==
  [err |-> ~file.decodes,
   config |-> [f \in DOMAIN config \cup DOMAIN file.texts |->
                 IF f \in DOMAIN file.texts THEN SubstituteText(file.texts[f], map)
                                            ELSE config[f]]]

\* The variables of hub.yaml stand for the default folders and the client's ID.
LoadVars(config, clientID) ==
  [v \in Folders \cup {"clientID"} |->
     IF v = "clientID" THEN Path(FALSE, <<clientID>>) ELSE config[v]]

InFolder(config, field, folder) ==
  IF config[field].abs THEN config
  ELSE [config EXCEPT ![field] = Join(config[folder], config[field])]

FileInFolder(config, field, folder, default) ==
  IF config[field] = Empty THEN [config EXCEPT ![field] = In(config[folder], default)]
                           ELSE InFolder(config, field, folder)

\* A client key that is given is tested by the path of the client certificate
\* (line 230): it stays as it is given below an absolute certificate folder, and
\* is joined to a relative one, absolute or not.
ClientKeyFile(config, default) ==
  IF config["ClientKeyFile"] = Empty
  THEN [config EXCEPT !["ClientKeyFile"] = In(config["CertsFolder"], default)]
  ELSE IF config["ClientCertFile"].abs THEN config
  ELSE [config EXCEPT !["ClientKeyFile"] =
          Join(config["CertsFolder"], config["ClientKeyFile"])]

SetFolders(c0, clientID) ==
  LET c1 == InFolder(c0, "CertsFolder", "HomeFolder")
      c2 == InFolder(c1, "LogFolder", "HomeFolder")
      c3 == FileInFolder(c2, "LogFile", "LogFolder", clientID)
  IN  InFolder(c3, "ConfigFolder", "HomeFolder")

SetFiles(c0, clientID) ==
  LET c1 == FileInFolder(c0, "CaCertFile", "CertsFolder", "caCert")
      c2 == FileInFolder(c1, "PluginCertFile", "CertsFolder", "pluginCert")
      c3 == FileInFolder(c2, "PluginKeyFile", "CertsFolder", "pluginKey")
      c4 == FileInFolder(c3, "ClientCertFile", "CertsFolder", clientID)
  IN  ClientKeyFile(c4, clientID)

\* Defect: the files are resolved before the folders.
FilesFirst(c, clientID) == SetFolders(SetFiles(c, clientID), clientID)

MakeAbsolute(c, clientID) == SetFiles(SetFolders(c, clientID), clientID)

\* A certificate is loaded when its file and its key can be read.  A relative
\* path is one of the current directory, where none of these files is.
Readable(path, absent) == path.abs /\ path \notin absent
Certs(config, absent) ==
  [CaCert     |-> Readable(config.CaCertFile, absent),
   ClientCert |-> /\ Readable(config.ClientCertFile, absent)
                  /\ Readable(config.ClientKeyFile, absent),
   PluginCert |-> /\ Readable(config.PluginCertFile, absent)
                  /\ Readable(config.PluginKeyFile, absent)]
NoCerts == [c \in {"CaCert", "ClientCert", "PluginCert"} |-> FALSE]

Validate(config, absent) == \A f \in Folders : Readable(config[f], absent)

\* An error leaves what was read in place, resolved or not: the caller has the
\* configuration.
Load(config, file, clientID, absent) ==
  LET read == LoadYamlConfig(file, config, LoadVars(config, clientID))
      done == MakeAbsolute(read.config, clientID)
  IN  IF read.err THEN [err |-> TRUE, config |-> read.config, certs |-> NoCerts]
      ELSE [err |-> ~Validate(done, absent), config |-> done,
            certs |-> Certs(done, absent)]

\* LoadAllConfig names the log folder {logsFolder} in client files, where
\* hub.yaml has {logFolder}.  The client file is optional.
ClientVars(config, clientID) ==
  [v \in {"clientID", "HomeFolder", "ConfigFolder", "CertsFolder", "logsFolder"} |->
     CASE v = "clientID"   -> Path(FALSE, <<clientID>>)
       [] v = "logsFolder" -> config.LogFolder
       [] OTHER            -> config[v]]

LoadAllConfig(home, clientID, file, clientFile, absent) ==
  LET hub == Load(CreateHubConfig(home), file, clientID, absent)
      client == LoadYamlConfig(clientFile, <<>>, ClientVars(hub.config, clientID))
  IN  [hub |-> hub,
       client |-> IF hub.err \/ ~clientFile.present THEN <<>> ELSE client.config,
       err |-> hub.err \/ (clientFile.present /\ client.err)]
=============================================================================

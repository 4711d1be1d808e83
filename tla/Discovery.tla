----------------------------- MODULE Discovery -----------------------------
(***************************************************************************)
(* Publishing a service with DNS-SD and finding it (pkg/discovery).        *)
(* Services call DiscoServe; a client scans for a number of seconds while  *)
(* a goroutine collects the entries that come in, then takes what is there *)
(* and reads the first.  The zeroconf library answers each scan with the   *)
(* registered services of the name, in any order, each early, late or      *)
(* never.                                                                  *)
(***************************************************************************)
EXTENDS Naturals, Sequences, SequencesExt

CONSTANTS Services, Wanted
VARIABLES registry,  \* the entries that zeroconf publishes
          records,   \* the records variable of DnsSDScan
          phase,     \* "scan", "stopped" (context done), "done"
          results,   \* the slice that DnsSDScan returned
          answer     \* what DiscoClient returned


Blank == ""
NoAnswer == [err |-> TRUE, address |-> Blank, port |-> 0, params |-> <<>>]
Init == registry = {} /\ records = <<>> /\ phase = "scan" /\ results = <<>> /\ answer = NoAnswer

\* A parameter value with "=" in it is a sequence of several parts.
TextRecord(params) == {<<k>> \o params[k] : k \in DOMAIN params}

\* zeroconf.RegisterProxy wants an instance, a service and a port.
Register(entry) ==
  registry' = IF entry.instance # Blank /\ entry.port # 0 THEN registry \cup {entry} ELSE registry

\* The address of a service is an IP address or a host name to look up.
DiscoServe(s) ==
  /\ phase = "scan"
  /\ IF s.service = Blank \/ s.ip = "unknown" THEN UNCHANGED registry
     ELSE Register([instance |-> s.instance, service |-> s.service, port |-> s.port,
                    host |-> s.host,
                    v4 |-> IF s.v6 THEN <<>> ELSE <<s.ip>>,
                    v6 |-> IF s.v6 THEN <<s.ip>> ELSE <<>>,
                    text |-> TextRecord(s.params)])
  /\ UNCHANGED <<records, phase, results, answer>>

Find(entry) ==
  /\ phase # "done"
  /\ entry \in registry \ ToSet(records)
  /\ entry.service = Wanted
  /\ records' = Append(records, entry)
  /\ UNCHANGED <<registry, phase, results, answer>>

Deadline == phase = "scan" /\ phase' = "stopped" /\ UNCHANGED <<registry, records, results, answer>>

ScanReturns(found) == results' = found

\* Defect: a text record is read up to its second "=".
ReadAnyParams(text) ==
  [k \in {t[1] : t \in text} |-> (CHOOSE t \in text : t[1] = k)[2]]

\* A text that does not split into two parts is ignored.
ReadParams(text) ==
  LET pairs == {t \in text : Len(t) = 2}
  IN  [k \in {t[1] : t \in pairs} |-> (CHOOSE t \in pairs : t[1] = k)[2]]

Address(entry) ==
  IF entry.v4 # <<>> THEN entry.v4[1] ELSE IF entry.v6 # <<>> THEN entry.v6[1] ELSE entry.host

DnsSDScan == phase = "stopped" /\ ScanReturns(records)

DiscoClient ==
  /\ DnsSDScan
  /\ phase' = "done"
  /\ answer' = IF results' = <<>> THEN NoAnswer
               ELSE [err |-> FALSE, address |-> Address(results'[1]), port |-> results'[1].port,
                     params |-> ReadParams(results'[1].text)]
  /\ UNCHANGED <<registry, records>>

Next == \/ \E s \in Services : DiscoServe(s)
        \/ \E e \in registry : Find(e)
        \/ Deadline
        \/ DiscoClient

-----------------------------------------------------------------------------
\* What a client is told is what one service published: address, port and the
\* parameters without "=" in their values (DiscoClient's split of the text
\* records); it fails only when no service of the name answered in time.
ServiceFound ==
  phase = "done" =>
    IF answer.err THEN records = <<>>
    ELSE \E s \in Services :
           /\ s.service = Wanted /\ s.instance # Blank /\ s.port = answer.port
           /\ s.ip = answer.address
           /\ answer.params = [k \in {p \in DOMAIN s.params : Len(s.params[p]) = 1} |->
                                 s.params[k][1]]
=============================================================================

----------------------------- MODULE ThingStore ----------------------------
(***************************************************************************)
(* Thing descriptions and the store that finds them by thing ID (pkg/thing *)
(* thingTD.go and ThingStore.go).  Documents are shared: the store keeps   *)
(* references, so that an affordance added to a document that was stored   *)
(* earlier is seen through the store.  Every operation but GetIDs is       *)
(* protected by a mutex, and is one step here.                             *)
(***************************************************************************)
EXTENDS Integers, FiniteSets, SequencesExt

CONSTANTS Docs,        \* documents
          IdOf,        \* their thing IDs; two documents may have the same
          AffNames,    \* names of affordances
          Types,       \* data types of affordances
          MaxAdds      \* bound on the affordances added

VARIABLES docs,        \* the documents
          tdMap,       \* thing ID -> document
          added,       \* history: document, kind, name -> last type added
          stored       \* history: thing ID -> last document stored


\* The map f after f[k] = v.
Put(f, k, v) == [x \in DOMAIN f \cup {k} |-> IF x = k THEN v ELSE f[x]]

NoDoc == "nil"
Blank == ""
Kinds == {"action", "event", "property"}
NoAffordance == [type |-> "nil", readOnly |-> FALSE]

CreateTD(id) == [id |-> id, title |-> Blank, affordances |-> [k \in Kinds |-> <<>>]]

Init ==
  /\ docs = [d \in Docs |-> CreateTD(IdOf[d])]
  /\ tdMap = <<>>
  /\ added = <<>>
  /\ stored = <<>>

\* Defect: an affordance of another kind goes with a new one of its name.
UpdateAllKinds(td, kind, name, affordance) ==
  [td EXCEPT !.affordances = [k \in Kinds |-> Put(@[k], name, affordance)]]

\* UpdateAction, UpdateEvent and UpdateProperty add or replace.
UpdateAffordance(td, kind, name, affordance) ==
  [td EXCEPT !.affordances[kind] = Put(td.affordances[kind], name, affordance)]

\* AddAction, AddEvent and AddProperty make a read-only affordance.
NewAffordance(type) == [type |-> type, readOnly |-> TRUE]

AddAffordance(d, kind, name, type) ==
  /\ Cardinality(DOMAIN added) < MaxAdds
  /\ docs' = [docs EXCEPT ![d] = UpdateAffordance(docs[d], kind, name, NewAffordance(type))]
  /\ added' = Put(added, <<d, kind, name>>, type)
  /\ UNCHANGED <<tdMap, stored>>

\* GetAction, GetEvent and GetProperty
GetAffordance(td, kind, name) ==
  IF name \in DOMAIN td.affordances[kind] THEN td.affordances[kind][name] ELSE NoAffordance

UpdateTitleDescription(d) ==
  /\ docs' = [docs EXCEPT ![d].title = "title"]
  /\ UNCHANGED <<tdMap, added, stored>>

\* AddTD is Update.
Update(d) ==
  /\ tdMap' = Put(tdMap, docs[d].id, d)
  /\ stored' = Put(stored, IdOf[d], d)
  /\ UNCHANGED <<docs, added>>

GetByID(id) == IF id \in DOMAIN tdMap THEN tdMap[id] ELSE NoDoc

\* A slice of length n, to which the n IDs are appended in the map's order.
GetIDs == [i \in 1..Cardinality(DOMAIN tdMap) |-> Blank] \o SetToSeq(DOMAIN tdMap)

Next == \/ \E d \in Docs, k \in Kinds, n \in AffNames, t \in Types : AddAffordance(d, k, n, t)
        \/ \E d \in Docs : UpdateTitleDescription(d) \/ Update(d)

-----------------------------------------------------------------------------
LastAdded(d, kind, name) == IF <<d, kind, name>> \in DOMAIN added THEN added[<<d, kind, name>>] ELSE "nil"

\* An ID finds the document stored last under it, with every affordance added
\* before or after it was stored under its own kind only, and GetIDs lists
\* every ID once (ThingStore.go:22).  Nothing is said of what else it lists.
StoreReadsBack ==
  /\ \A id \in {IdOf[d] : d \in Docs} :
       /\ GetByID(id) = IF id \in DOMAIN stored THEN stored[id] ELSE NoDoc
       /\ GetByID(id) # NoDoc =>
            \A k \in Kinds, n \in AffNames :
              GetAffordance(docs[GetByID(id)], k, n).type = LastAdded(GetByID(id), k, n)
  /\ \A id \in DOMAIN stored : Cardinality({i \in DOMAIN GetIDs : GetIDs[i] = id}) = 1
=============================================================================

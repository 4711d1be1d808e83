---------------------------- MODULE ConsumedThing ----------------------------
(***************************************************************************)
(* A consumed thing: src/pkg/consumedthing, its cache of last values, its  *)
(* subscribers and observers, and the binding that hands it the messages   *)
(* of the thing it is a remote copy of.                                    *)
(*                                                                         *)
(* One goroutine, that of the MQTT client, delivers messages one at a      *)
(* time.  For each it stores the value, looks the subscriber up and calls  *)
(* it, in three steps: valueStoreMutex is held in the first,               *)
(* subscriptionMutex in the second, nothing in the third.                  *)
(***************************************************************************)
EXTENDS Naturals

CONSTANTS
  Names,         \* names that occur in topics
  Events,        \* the names that are events in the TD
  Properties,    \* the names that are properties in the TD
  Values,        \* values
  Handlers,      \* handlers of subscribers
  NilHandler,    \* a nil handler
  NoHandler,     \* no subscription
  NoValue        \* no value cached

Kinds  == {"event", "property"}
Funcs  == Handlers \cup {NilHandler}

VARIABLES
  values,    \* valueStore: the last message per name
  active,    \* activeSubscriptions and activeObservations
  stopping,  \* Stop has dropped the subscriptions and not yet the values
  bus,       \* the message that is being delivered
  told,      \* per kind and name, the serial number of the message handed over last
  late,      \* handler calls since Stop whose subscription Stop dropped
  panic      \* the process has panicked

vars == <<values, active, stopping, bus, told, late, panic>>

Message == [name : Names, value : Values, ver : Nat \ {0}]
Quiet == [at |-> "idle", kind |-> "event", msg |-> NoValue, func |-> NoHandler]

TypeOK ==
  /\ values \in [Names -> Message \cup {NoValue}]
  /\ active \in [Kinds -> [Names -> Funcs \cup {NoHandler}]]
  /\ stopping \in BOOLEAN
  /\ bus \in [at : {"idle", "put", "find", "call"}, kind : Kinds,
              msg : Message \cup {NoValue}, func : Funcs \cup {NoHandler}]
  /\ told \in [Kinds -> [Names -> Nat]]
  /\ late \in Nat
  /\ panic \in BOOLEAN

Init ==
  /\ values = [n \in Names |-> NoValue]
  /\ active = [k \in Kinds |-> [n \in Names |-> NoHandler]]
  /\ stopping = FALSE
  /\ bus = Quiet
  /\ told = [k \in Kinds |-> [n \in Names |-> 0]]
  /\ late = 0
  /\ panic = FALSE

-----------------------------------------------------------------------------
(* Delivery.                                                               *)

\* handleEvent goes by the name in the topic: an event, a property, or both,
\* the event first.
FirstKind(n) == IF n \in Events THEN "event" ELSE "property"

\* handleEvent; a name that the TD does not define is ignored.
Receive(m) ==
  /\ bus.at = "idle"
  /\ m.name \in Events \cup Properties
  /\ bus' = [Quiet EXCEPT !.at = "put", !.kind = FirstKind(m.name), !.msg = m]
  /\ UNCHANGED <<values, active, stopping, told, late, panic>>

\* What follows HandleEvent: HandlePropertyChange, for a property of that name.
NextKind ==
  bus' = IF bus.kind = "event" /\ bus.msg.name \in Properties
         THEN [bus EXCEPT !.at = "put", !.kind = "property", !.func = NoHandler]
         ELSE Quiet

\* Defect: a value is stored only when none is cached.
PutOnce ==
  /\ bus.at = "put"
  /\ values' = [values EXCEPT ![bus.msg.name] = IF @ = NoValue THEN bus.msg ELSE @]
  /\ bus' = [bus EXCEPT !.at = "find"]
  /\ UNCHANGED <<active, stopping, told, late, panic>>

PutValue ==
  /\ bus.at = "put"
  /\ values' = [values EXCEPT ![bus.msg.name] = bus.msg]
  /\ bus' = [bus EXCEPT !.at = "find"]
  /\ UNCHANGED <<active, stopping, told, late, panic>>

\* The subscription is looked up with subscriptionMutex, which Stop may hold.
FindHandler ==
  /\ bus.at = "find"
  /\ ~stopping
  /\ LET h == active[bus.kind][bus.msg.name]
     IN IF h = NoHandler THEN NextKind
        ELSE bus' = [bus EXCEPT !.at = "call", !.func = h]
  /\ UNCHANGED <<values, active, stopping, told, late, panic>>

\* Defect: an event that was found is handed over once more as a property.
CallTwice ==
  /\ bus.at = "call"
  /\ told' = [told EXCEPT ![bus.kind][bus.msg.name] = bus.msg.ver]
  /\ late' = IF active[bus.kind][bus.msg.name] = NoHandler THEN late + 1 ELSE late
  /\ bus' = IF bus.kind = "event" THEN [bus EXCEPT !.kind = "property"] ELSE Quiet
  /\ UNCHANGED <<values, active, stopping, panic>>

CallHandler ==
  /\ bus.at = "call"
  /\ IF bus.func = NilHandler
     THEN panic' = TRUE /\ UNCHANGED <<told, late, bus>>
     ELSE /\ told' = [told EXCEPT ![bus.kind][bus.msg.name] = bus.msg.ver]
          /\ late' = IF active[bus.kind][bus.msg.name] = NoHandler THEN late + 1 ELSE late
          /\ NextKind
          /\ UNCHANGED panic
  /\ UNCHANGED <<values, active, stopping>>

-----------------------------------------------------------------------------
(* The application's calls; each is one critical section, except Stop.     *)

Subscribed(k, n) == active[k][n] # NoHandler

\* A second subscription is refused; a nil handler is not.
SubscribeEvent(n, h) ==
  /\ ~stopping
  /\ ~Subscribed("event", n)
  /\ active' = [active EXCEPT !["event"][n] = h]
  /\ UNCHANGED <<values, stopping, bus, told, late, panic>>

\* A second observer and a nil one are refused.
ObserveProperty(n, h) ==
  /\ ~stopping
  /\ ~Subscribed("property", n)
  /\ h # NilHandler
  /\ active' = [active EXCEPT !["property"][n] = h]
  /\ UNCHANGED <<values, stopping, bus, told, late, panic>>

Stop ==
  /\ ~stopping
  /\ stopping' = TRUE
  /\ active' = [k \in Kinds |-> [n \in Names |-> NoHandler]]
  /\ late' = 0
  /\ UNCHANGED <<values, bus, told, panic>>

StopValues ==
  /\ stopping
  /\ stopping' = FALSE
  /\ values' = [n \in Names |-> NoValue]
  /\ UNCHANGED <<active, bus, told, late, panic>>

\* ReadProperty answers from the cache, with an error when it holds nothing;
\* ReadMultipleProperties leaves out the error.
ReadProperty(n) == [value |-> values[n], err |-> values[n] = NoValue]
ReadMultipleProperties(ns) == [n \in ns |-> ReadProperty(n).value]
ReadAllProperties == ReadMultipleProperties(Properties)

-----------------------------------------------------------------------------
DeliverStep == PutValue \/ FindHandler \/ CallHandler

AppStep ==
  \/ \E n \in Names, h \in Funcs : SubscribeEvent(n, h) \/ ObserveProperty(n, h)
  \/ Stop
  \/ StopValues

Next == ~panic /\ (DeliverStep \/ AppStep \/ \E m \in Message : Receive(m))

Spec == Init /\ [][Next]_vars

-----------------------------------------------------------------------------
\* A handler that reads the value of its event or property finds the one it is
\* called with, or none after Stop: store, lookup and call are separate steps,
\* but no other message comes between them.
HandedIsCached ==
  bus.at \in {"find", "call"} =>
    ReadProperty(bus.msg.name).err \/ ReadProperty(bus.msg.name).value = bus.msg

\* After Stop at most one handler is still called whose subscription Stop has
\* dropped: the one that the message being delivered had found already.
OneLateCall == late <= 1
=============================================================================

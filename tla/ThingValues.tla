---------------------------- MODULE ThingValues ----------------------------
(***************************************************************************)
(* A device and a consumer of its thing: an exposed thing emits values, a  *)
(* broker carries them in order, a consumed thing caches them and hands    *)
(* them to its subscribers.  A property write of the consumer changes      *)
(* nothing here: it is published, and the device answers it by emitting.   *)
(*                                                                         *)
(* The consumer is destroyed at some time (ConsumedThingFactory.Destroy:   *)
(* the binding unsubscribes, then the consumed thing is stopped).  The     *)
(* broker delivers a message once and in order, or loses it with the       *)
(* consumer's connection.                                                  *)
(***************************************************************************)
EXTENDS Naturals, Sequences

CONSTANTS Emitters, Names, Events, Properties, Values, Objects, MaxEmits,
          Handlers, NilHandler, NoHandler, NoValue

ASSUME ValuesAssumption ==
  /\ Events \cup Properties \subseteq Names
  /\ Objects \subseteq Values
  /\ NoValue \notin Values \cup Names \cup [name : Names, value : Values, ver : Nat]
  /\ NilHandler \notin Handlers
  /\ NoHandler \notin Handlers \cup {NilHandler}

VARIABLES
  stored, emit, emits, wire, sent, last, failed, panicD,      \* the device
  values, active, stopping, bus, told, late, panicC,          \* the consumer
  phase,      \* the consumer's binding: subscribed, stopped, or its thing destroyed
  lost        \* names of which a message was lost

device   == <<stored, emit, emits, wire, sent, last, failed, panicD>>
consumer == <<values, active, stopping, bus, told, late, panicC>>
vars     == <<device, consumer, phase, lost>>

E == INSTANCE ExposedValues WITH panic <- panicD
C == INSTANCE ConsumedThing WITH panic <- panicC

TypeOK ==
  /\ E!TypeOK
  /\ C!TypeOK
  /\ phase \in {"subscribed", "unsubscribed", "stopping", "destroyed"}
  /\ lost \subseteq Names

Init ==
  /\ E!Init
  /\ C!Init
  /\ phase = "subscribed"
  /\ lost = {}

-----------------------------------------------------------------------------
DeviceEmits ==
  /\ \E e \in Emitters, n \in Names, v \in Values :
       \/ E!EmitEvent(e, n, v)
       \/ \E only \in BOOLEAN : E!EmitPropertyChange(e, n, v, only)
  /\ UNCHANGED <<consumer, phase, lost>>

EmitStep(e) ==
  /\ E!EmitStep(e)
  /\ UNCHANGED <<consumer, phase, lost>>

DeliverMessage(i) ==
  /\ phase = "subscribed"
  /\ C!Receive(wire[i])
  /\ wire' = SubSeq(wire, 1, i - 1) \o SubSeq(wire, i + 1, Len(wire))
  /\ UNCHANGED <<stored, emit, emits, sent, last, failed, panicD, phase, lost>>

\* Defect: the order of messages is not kept on the way to the handler.
DeliverAny == \E i \in DOMAIN wire : DeliverMessage(i)

Deliver == wire # <<>> /\ DeliverMessage(1)

\* The connection is down, or the binding has unsubscribed.
Lose ==
  /\ wire # <<>>
  /\ wire' = Tail(wire)
  /\ lost' = lost \cup {Head(wire).name}
  /\ UNCHANGED <<stored, emit, emits, sent, last, failed, panicD, consumer, phase>>

DeliverStep ==
  /\ C!DeliverStep
  /\ UNCHANGED <<device, phase, lost>>

Subscribe ==
  /\ \E n \in Names, h \in C!Funcs : C!SubscribeEvent(n, h) \/ C!ObserveProperty(n, h)
  /\ UNCHANGED <<device, phase, lost>>

\* Destroy: the binding unsubscribes, then Stop runs in its two steps.
StopBinding ==
  /\ phase = "subscribed"
  /\ phase' = "unsubscribed"
  /\ UNCHANGED <<device, consumer, lost>>

StopThing ==
  /\ \/ phase = "unsubscribed" /\ C!Stop /\ phase' = "stopping"
     \/ phase = "stopping" /\ C!StopValues /\ phase' = "destroyed"
  /\ UNCHANGED <<device, lost>>

-----------------------------------------------------------------------------
Next ==
  /\ ~panicD /\ ~panicC
  /\ \/ DeviceEmits \/ Deliver \/ Lose \/ DeliverStep \/ Subscribe
     \/ StopBinding \/ StopThing
     \/ \E e \in Emitters : EmitStep(e)

Spec == Init /\ [][Next]_vars

\* Goroutines are scheduled, the broker delivers what it does not lose, and a
\* Destroy that has begun goes on.
Fairness ==
  /\ \A e \in Emitters : WF_vars(~panicD /\ ~panicC /\ EmitStep(e))
  /\ WF_vars(~panicD /\ ~panicC /\ Deliver)
  /\ WF_vars(~panicD /\ ~panicC /\ DeliverStep)
  /\ WF_vars(~panicD /\ ~panicC /\ StopThing)

FairSpec == Spec /\ Fairness

-----------------------------------------------------------------------------
StoredIsPublished == E!StoredIsPublished
HandedIsCached == C!HandedIsCached
OneLateCall == C!OneLateCall

\* The device and its consumer implement LastValues: the consumer's cache never
\* goes back to an older value (except to none, by Stop), never holds a value
\* that was not emitted, and handlers are called in the order of emission.
Abstract == INSTANCE LastValues
  WITH Kinds <- C!Kinds, emitted <- sent,
       view <- [n \in Names |-> IF values[n] = NoValue THEN 0 ELSE values[n].ver]
ImplementsLastValues == Abstract!Spec

\* What was published reaches the cache of a consumer that stays subscribed and
\* connected: the consumer catches up with the device.
CatchesUp ==
  \A n \in Events \cup Properties : \A i \in 1..MaxEmits :
    (sent[n] >= i) ~> \/ values[n] # NoValue /\ values[n].ver >= i
                      \/ phase # "subscribed" \/ n \in lost \/ panicC \/ panicD
=============================================================================

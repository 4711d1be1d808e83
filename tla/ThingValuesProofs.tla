-------------------------- MODULE ThingValuesProofs --------------------------
(***************************************************************************)
(* Proofs about the values of a thing on their way from a device to its    *)
(* consumer, for any number of names, values, emitters and emits.          *)
(***************************************************************************)
EXTENDS ThingValues, TLAPS

Msg == [name : Names, value : Values, ver : Nat \ {0}]

-----------------------------------------------------------------------------
(* Messages on the wire are in the order of their publication.             *)

Sorted(w, s) ==
  \A i \in 1..Len(w) :
    /\ w[i].ver <= s[w[i].name]
    /\ \A j \in 1..Len(w) : i < j /\ w[i].name = w[j].name => w[i].ver < w[j].ver

\* Serial number v of name n has been published, and is older than what is on its way.
Behind(v, n, w, s) ==
  /\ v <= s[n]
  /\ \A i \in 1..Len(w) : w[i].name = n => v < w[i].ver

LEMMA RestOfWire ==
  ASSUME NEW w \in Seq(Msg), w # <<>>
  PROVE  /\ Tail(w) \in Seq(Msg)
         /\ SubSeq(w, 1, 0) \o SubSeq(w, 2, Len(w)) = Tail(w)
         /\ w[1] \in Msg
         /\ Len(Tail(w)) = Len(w) - 1
         /\ \A i \in 1..Len(Tail(w)) : i + 1 \in 1..Len(w) /\ Tail(w)[i] = w[i + 1]
<1>1. /\ Len(w) \in Nat \ {0} /\ Tail(w) \in Seq(Msg) /\ Len(Tail(w)) = Len(w) - 1
      /\ \A i \in 1..Len(Tail(w)) : i + 1 \in 1..Len(w) /\ Tail(w)[i] = w[i + 1]
  OBVIOUS
<1>2. SubSeq(w, 1, 0) = <<>>
  OBVIOUS
<1>3. SubSeq(w, 2, Len(w)) = Tail(w)
  BY <1>1
<1> QED
  BY <1>1, <1>2, <1>3

LEMMA RestSorted ==
  ASSUME NEW w \in Seq(Msg), w # <<>>, NEW s \in [Names -> Nat], Sorted(w, s)
  PROVE  /\ Sorted(Tail(w), s)
         /\ Behind(w[1].ver, w[1].name, Tail(w), s)
         /\ \A v \in Nat, n \in Names : Behind(v, n, w, s) =>
              Behind(v, n, Tail(w), s) /\ (n = w[1].name => v < w[1].ver)
<1>1. Len(w) \in Nat /\ 1 \in 1..Len(w) /\ Len(Tail(w)) = Len(w) - 1
  OBVIOUS
<1>2. \A i \in 1..Len(Tail(w)) : i + 1 \in 1..Len(w) /\ Tail(w)[i] = w[i + 1]
  BY RestOfWire
<1>3. Sorted(Tail(w), s)
  BY <1>1, <1>2 DEF Sorted
<1>4. Behind(w[1].ver, w[1].name, Tail(w), s)
  BY <1>1, <1>2 DEF Sorted, Behind
<1>5. ASSUME NEW v \in Nat, NEW n \in Names, Behind(v, n, w, s)
      PROVE  Behind(v, n, Tail(w), s) /\ (n = w[1].name => v < w[1].ver)
  BY <1>1, <1>2, <1>5 DEF Behind
<1> QED
  BY <1>3, <1>4, <1>5

LEMMA PublishSorted ==
  ASSUME NEW w \in Seq(Msg), NEW s \in [Names -> Nat], Sorted(w, s), NEW m \in Names, NEW x \in Values
  PROVE  LET w2 == Append(w, [name |-> m, value |-> x, ver |-> s[m] + 1])
             s2 == [s EXCEPT ![m] = @ + 1]
         IN /\ w2 \in Seq(Msg) /\ s2 \in [Names -> Nat]
            /\ Sorted(w2, s2)
            /\ \A v \in Nat, n \in Names : Behind(v, n, w, s) => Behind(v, n, w2, s2)
<1> DEFINE new == [name |-> m, value |-> x, ver |-> s[m] + 1]
           w2 == Append(w, new)
           s2 == [s EXCEPT ![m] = @ + 1]
<1>1. /\ new \in Msg /\ new.name = m /\ new.ver = s[m] + 1 /\ s[m] \in Nat
  BY DEF Msg
<1>2. /\ w2 \in Seq(Msg) /\ Len(w2) = Len(w) + 1 /\ Len(w) \in Nat
      /\ w2[Len(w2)] = new
      /\ \A i \in 1..Len(w) : w2[i] = w[i]
  BY <1>1
<1>3. /\ s2 \in [Names -> Nat] /\ s2[m] = s[m] + 1
      /\ \A n \in Names : s2[n] >= s[n]
  OBVIOUS
<1>4. \A i \in 1..Len(w) : w[i] \in Msg /\ w[i].name \in Names /\ w[i].ver \in Nat
  <2>1. ASSUME NEW i \in 1..Len(w) PROVE w[i] \in Msg
    OBVIOUS
  <2>2. \A z \in Msg : z.name \in Names /\ z.ver \in Nat
    BY DEF Msg
  <2> QED
    BY <2>1, <2>2
<1> HIDE DEF new, w2, s2
<1>5. Sorted(w2, s2)
  <2>1. ASSUME NEW i \in 1..Len(w2) PROVE w2[i].ver <= s2[w2[i].name]
    <3>1. CASE i = Len(w2)
      BY <1>1, <1>2, <1>3, <3>1
    <3>2. CASE i \in 1..Len(w)
      <4>1. w2[i] = w[i] /\ w[i].ver <= s[w[i].name] /\ w[i].name \in Names /\ w[i].ver \in Nat
        BY <1>2, <1>4, <3>2 DEF Sorted
      <4> QED
        BY <4>1, <1>3
    <3> QED
      BY <3>1, <3>2, <1>2
  <2>2. ASSUME NEW i \in 1..Len(w2), NEW j \in 1..Len(w2), i < j, w2[i].name = w2[j].name
        PROVE  w2[i].ver < w2[j].ver
    <3>1. i \in 1..Len(w) /\ w2[i] = w[i] /\ w[i].ver <= s[w[i].name] /\ w[i].ver \in Nat
      BY <2>2, <1>2, <1>4 DEF Sorted
    <3>2. CASE j = Len(w2)
      BY <2>2, <3>1, <3>2, <1>1, <1>2
    <3>3. CASE j \in 1..Len(w)
      BY <2>2, <3>1, <3>3, <1>2 DEF Sorted
    <3> QED
      BY <3>2, <3>3, <1>2
  <2> QED
    BY <2>1, <2>2 DEF Sorted
<1>6. ASSUME NEW v \in Nat, NEW n \in Names, Behind(v, n, w, s) PROVE Behind(v, n, w2, s2)
  <2>1. v <= s[n] /\ s[n] \in Nat /\ s2[n] \in Nat /\ s2[n] >= s[n]
    BY <1>3, <1>6 DEF Behind
  <2>2. ASSUME NEW i \in 1..Len(w2), w2[i].name = n PROVE v < w2[i].ver
    <3>1. CASE i = Len(w2)
      BY <1>1, <1>2, <2>1, <2>2, <3>1
    <3>2. CASE i \in 1..Len(w)
      BY <1>2, <1>6, <2>2, <3>2 DEF Behind
    <3> QED
      BY <3>1, <3>2, <1>2
  <2> QED
    BY <2>1, <2>2 DEF Behind
<1> QED
  BY <1>2, <1>3, <1>5, <1>6 DEF w2, s2, new

-----------------------------------------------------------------------------
(* Types.                                                                  *)

LEMMA InitTypes == Init => TypeOK
<1> SUFFICES ASSUME Init PROVE TypeOK
  OBVIOUS
<1>1. E!TypeOK
  <2>1. wire \in Seq(Msg)
    BY DEF Init, E!Init
  <2> QED
    BY <2>1 DEF Init, E!Init, E!TypeOK, E!Idle, Msg
<1>2. C!TypeOK
  BY DEF Init, C!Init, C!TypeOK, C!Quiet, C!Kinds, C!Funcs
<1> QED
  BY <1>1, <1>2 DEF Init, TypeOK

\* The emit calls that are under way.
Call == [at : {"idle", "compare", "store", "publish"}, kind : {"event", "property"},
         name : Names \cup {NoValue}, value : Values \cup {NoValue}, err : BOOLEAN]

LEMMA CallTypes ==
  ASSUME emit \in [Emitters -> Call], NEW e \in Emitters
  PROVE  /\ \A err \in BOOLEAN : E!Return(e, err) => emit' \in [Emitters -> Call]
         /\ \A step \in {"compare", "store", "publish"} :
              /\ E!Goto(e, step) => emit' \in [Emitters -> Call]
              /\ \A k \in {"event", "property"}, n \in Names, v \in Values :
                   E!Start(e, step, k, n, v) => emit' \in [Emitters -> Call]
<1>1. ASSUME NEW r \in Call, emit' = [emit EXCEPT ![e] = r] PROVE emit' \in [Emitters -> Call]
  BY <1>1
<1>2. ASSUME NEW err \in BOOLEAN, E!Return(e, err) PROVE emit' \in [Emitters -> Call]
  <2>1. [E!Idle EXCEPT !.err = err]
          = [at |-> "idle", kind |-> "property", name |-> NoValue, value |-> NoValue, err |-> err]
    BY DEF E!Idle
  <2>2. [at |-> "idle", kind |-> "property", name |-> NoValue, value |-> NoValue, err |-> err] \in Call
    BY DEF Call
  <2> QED
    BY <1>1, <1>2, <2>1, <2>2 DEF E!Return
<1>3. ASSUME NEW step \in {"compare", "store", "publish"}, E!Goto(e, step)
      PROVE  emit' \in [Emitters -> Call]
  <2>1. emit[e] \in Call
    OBVIOUS
  <2>2. [emit[e] EXCEPT !.at = step] \in Call
    BY <2>1 DEF Call
  <2> QED
    BY <1>1, <1>3, <2>2 DEF E!Goto
<1>4. ASSUME NEW step \in {"compare", "store", "publish"}, NEW k \in {"event", "property"},
             NEW n \in Names, NEW v \in Values, E!Start(e, step, k, n, v)
      PROVE  emit' \in [Emitters -> Call]
  <2>1. [at |-> step, kind |-> k, name |-> n, value |-> v, err |-> FALSE] \in Call
    BY DEF Call
  <2> QED
    BY <1>1, <1>4, <2>1 DEF E!Start
<1> QED
  BY <1>2, <1>3, <1>4

DeviceTypes ==
  /\ stored \in [Properties -> Values \cup {NoValue}]
  /\ emit \in [Emitters -> Call]
  /\ emits \in Nat
  /\ wire \in Seq(Msg)
  /\ sent \in [Names -> Nat]
  /\ last \in [Names -> Values \cup {NoValue}]
  /\ failed \subseteq Properties
  /\ panicD \in BOOLEAN

LEMMA DeviceForm == E!TypeOK <=> DeviceTypes
  BY DEF E!TypeOK, DeviceTypes, Call, Msg

\* Of a call that is under way, the name and the value are the application's;
\* a call that stores is for a property of the TD.
Named ==
  \A e \in Emitters : emit[e].at # "idle" =>
    /\ emit[e].name \in Names
    /\ emit[e].value \in Values
    /\ emit[e].at \in {"compare", "store"} \/ emit[e].kind = "property" => emit[e].name \in Properties

\* A step of emitter e's call leaves the calls of the others alone.
LEMMA CallNamed ==
  ASSUME emit \in [Emitters -> Call], Named, NEW e \in Emitters,
         \/ \E err \in BOOLEAN : E!Return(e, err)
         \/ \E step \in {"compare", "store", "publish"} :
              \/ emit[e].at \in {"compare", "store"} /\ E!Goto(e, step)
              \/ \E n \in Properties, v \in Values : E!Start(e, step, "property", n, v)
         \/ \E n \in Names, v \in Values : E!Start(e, "publish", "event", n, v)
  PROVE  Named'
<1> SUFFICES ASSUME NEW f \in Emitters, emit'[f].at # "idle"
             PROVE  /\ emit'[f].name \in Names
                    /\ emit'[f].value \in Values
                    /\ emit'[f].at \in {"compare", "store"} \/ emit'[f].kind = "property"
                         => emit'[f].name \in Properties
  BY DEF Named
<1>1. CASE emit'[f] = emit[f]
  BY <1>1 DEF Named
<1>2. CASE f = e /\ \E err \in BOOLEAN : E!Return(e, err)
  <2>1. PICK err \in BOOLEAN : emit'[e] = [E!Idle EXCEPT !.err = err]
    BY <1>2 DEF E!Return
  <2>2. emit'[e].at = "idle"
    BY <2>1 DEF E!Idle
  <2> QED
    BY <1>2, <2>2
<1>3. ASSUME f = e, NEW step \in {"compare", "store", "publish"},
             emit[e].at \in {"compare", "store"}, E!Goto(e, step)
      PROVE  emit'[f].name \in Names /\ emit'[f].value \in Values /\ emit'[f].name \in Properties
  <2>1. emit[e] \in Call
    OBVIOUS
  <2>2. emit'[e].name = emit[e].name /\ emit'[e].value = emit[e].value
    BY <1>3, <2>1 DEF E!Goto, Call
  <2> QED
    BY <1>3, <2>2 DEF Named
<1>4. ASSUME f = e, NEW step \in {"compare", "store", "publish"},
             NEW n \in Properties, NEW v \in Values, E!Start(e, step, "property", n, v)
      PROVE  emit'[f].name \in Names /\ emit'[f].value \in Values /\ emit'[f].name \in Properties
  BY <1>4, ValuesAssumption DEF E!Start
<1>5. ASSUME f = e, NEW n \in Names, NEW v \in Values, E!Start(e, "publish", "event", n, v)
      PROVE  emit'[f].name \in Names /\ emit'[f].value \in Values
             /\ emit'[f].at = "publish" /\ emit'[f].kind = "event"
  BY <1>5 DEF E!Start
<1>6. f # e => emit'[f] = emit[f]
  BY DEF E!Return, E!Goto, E!Start
<1> QED
  BY <1>1, <1>2, <1>3, <1>4, <1>5, <1>6

\* A step of the device that publishes nothing.
Prepares(e) ==
  \/ \E n \in Names, v \in Values :
       E!EmitEvent(e, n, v) \/ \E only \in BOOLEAN : E!EmitPropertyChange(e, n, v, only)
  \/ E!Compare(e) \/ E!Store(e) \/ E!PublishFails(e)

LEMMA PrepareTypes ==
  ASSUME DeviceTypes, Named, NEW e \in Emitters, Prepares(e)
  PROVE  DeviceTypes' /\ Named' /\ UNCHANGED <<wire, sent>>
<1>1. emit \in [Emitters -> Call] /\ emits \in Nat /\ emit[e] \in Call
  BY DEF DeviceTypes
<1>2. ASSUME NEW n \in Names, NEW v \in Values, E!EmitEvent(e, n, v)
      PROVE  DeviceTypes' /\ Named' /\ UNCHANGED <<wire, sent>>
  <2>1. E!Start(e, "publish", "event", n, v) \/ E!Return(e, TRUE)
    BY <1>2 DEF E!EmitEvent
  <2>2. emit' \in [Emitters -> Call] /\ Named'
    BY <1>1, <2>1, CallTypes, CallNamed
  <2> QED
    BY <1>1, <1>2, <2>2 DEF E!EmitEvent, DeviceTypes
<1>3. ASSUME NEW n \in Names, NEW v \in Values, NEW only \in BOOLEAN,
             E!EmitPropertyChange(e, n, v, only)
      PROVE  DeviceTypes' /\ Named' /\ UNCHANGED <<wire, sent>>
  <2>1. \/ n \in Properties /\ (E!Start(e, "compare", "property", n, v)
                                 \/ E!Start(e, "store", "property", n, v))
        \/ E!Return(e, TRUE)
    BY <1>3 DEF E!EmitPropertyChange
  <2>2. emit' \in [Emitters -> Call] /\ Named'
    BY <1>1, <2>1, CallTypes, CallNamed
  <2> QED
    BY <1>1, <1>3, <2>2 DEF E!EmitPropertyChange, DeviceTypes
<1>4. CASE E!Compare(e)
  <2>1. /\ \/ panicD' = TRUE /\ UNCHANGED emit
           \/ UNCHANGED panicD /\ (E!Return(e, FALSE) \/ E!Goto(e, "store"))
        /\ emit[e].at = "compare"
    BY <1>4 DEF E!Compare
  <2>2. emit' \in [Emitters -> Call] /\ Named' /\ panicD' \in BOOLEAN
    <3>1. CASE panicD' = TRUE /\ UNCHANGED emit
      BY <1>1, <3>1 DEF Named
    <3>2. CASE UNCHANGED panicD /\ (E!Return(e, FALSE) \/ E!Goto(e, "store"))
      <4>1. emit' \in [Emitters -> Call] /\ Named'
        BY <1>1, <2>1, <3>2, CallTypes, CallNamed
      <4> QED
        BY <3>2, <4>1 DEF DeviceTypes
    <3> QED
      BY <2>1, <3>1, <3>2
  <2> QED
    BY <1>4, <2>2 DEF E!Compare, DeviceTypes
<1>5. CASE E!Store(e)
  <2>1. emit' \in [Emitters -> Call] /\ Named'
    BY <1>1, <1>5, CallTypes, CallNamed DEF E!Store
  <2>2. emit[e].value \in Values
    BY <1>5 DEF E!Store, Named
  <2>3. stored' \in [Properties -> Values \cup {NoValue}]
    BY <1>5, <2>2 DEF E!Store, DeviceTypes
  <2> QED
    BY <1>5, <2>1, <2>3 DEF E!Store, DeviceTypes
<1>6. CASE E!PublishFails(e)
  <2>1. emit' \in [Emitters -> Call] /\ Named'
    BY <1>1, <1>6, CallTypes, CallNamed DEF E!PublishFails
  <2>2. failed' \subseteq Properties
    BY <1>6 DEF E!PublishFails, DeviceTypes, Named
  <2> QED
    BY <1>6, <2>1, <2>2 DEF E!PublishFails, DeviceTypes
<1> QED
  BY <1>2, <1>3, <1>4, <1>5, <1>6 DEF Prepares

LEMMA PublishTypes ==
  ASSUME DeviceTypes, Named, Sorted(wire, sent), NEW e \in Emitters, E!Publish(e)
  PROVE  /\ DeviceTypes' /\ Named' /\ Sorted(wire', sent')
         /\ emit[e].name \in Names
         /\ sent' = [sent EXCEPT ![emit[e].name] = @ + 1]
         /\ \A v \in Nat, n \in Names : Behind(v, n, wire, sent) => Behind(v, n, wire', sent')
<1>1. /\ emit \in [Emitters -> Call] /\ wire \in Seq(Msg) /\ sent \in [Names -> Nat]
      /\ emit[e].at = "publish" /\ emit[e].name \in Names /\ emit[e].value \in Values
  BY DEF DeviceTypes, E!Publish, Named
<1>2. emit' \in [Emitters -> Call] /\ Named'
  BY <1>1, CallTypes, CallNamed DEF E!Publish
<1>3. /\ wire' = Append(wire, [name |-> emit[e].name, value |-> emit[e].value,
                               ver |-> sent[emit[e].name] + 1])
      /\ sent' = [sent EXCEPT ![emit[e].name] = @ + 1]
  BY DEF E!Publish
<1>4. /\ wire' \in Seq(Msg) /\ sent' \in [Names -> Nat] /\ Sorted(wire', sent')
      /\ \A v \in Nat, n \in Names : Behind(v, n, wire, sent) => Behind(v, n, wire', sent')
  BY <1>1, <1>3, PublishSorted
<1>5. last' \in [Names -> Values \cup {NoValue}] /\ failed' \subseteq Properties
  BY <1>1 DEF E!Publish, DeviceTypes
<1> QED
  BY <1>1, <1>2, <1>3, <1>4, <1>5 DEF E!Publish, DeviceTypes

-----------------------------------------------------------------------------
(* The consumer.                                                           *)

Bus == [at : {"idle", "put", "find", "call"}, kind : C!Kinds,
        msg : Msg \cup {NoValue}, func : C!Funcs \cup {NoHandler}]

ConsumerTypes ==
  /\ values \in [Names -> Msg \cup {NoValue}]
  /\ active \in [C!Kinds -> [Names -> C!Funcs \cup {NoHandler}]]
  /\ stopping \in BOOLEAN
  /\ bus \in Bus
  /\ told \in [C!Kinds -> [Names -> Nat]]
  /\ late \in Nat
  /\ panicC \in BOOLEAN

LEMMA ConsumerForm == C!TypeOK <=> ConsumerTypes
  BY DEF C!TypeOK, ConsumerTypes, C!Message, Msg, Bus

LEMMA NoValueIsNoMsg == NoValue \notin Msg /\ NoValue \notin Names
  BY ValuesAssumption DEF Msg

\* What the consumer remembers of the messages is what was emitted, in order:
\* the message being delivered is older than those on the wire, and a value
\* cached or handed over is not newer than the message being delivered.
Carried ==
  bus.at # "idle" =>
    /\ bus.msg \in Msg
    /\ Behind(bus.msg.ver, bus.msg.name, wire, sent)

CachedBehind ==
  \A n \in Names : values[n] # NoValue =>
    /\ Behind(values[n].ver, n, wire, sent)
    /\ bus.at # "idle" /\ bus.msg.name = n => values[n].ver <= bus.msg.ver

ToldBehind ==
  \A k \in C!Kinds, n \in Names :
    /\ Behind(told[k][n], n, wire, sent)
    /\ bus.at # "idle" /\ bus.msg.name = n /\ (bus.kind = k \/ k = "property")
         => told[k][n] < bus.msg.ver

\* HandedIsCached, in the words of the cache.
Handed ==
  bus.at \in {"find", "call"} =>
    values[bus.msg.name] = NoValue \/ values[bus.msg.name] = bus.msg

LEMMA HandedForm ==
  HandedIsCached <=> Handed
<1>1. ASSUME NEW n
      PROVE  /\ C!ReadProperty(n).value = values[n]
             /\ C!ReadProperty(n).err <=> values[n] = NoValue
  <2>1. CASE values[n] = NoValue
    BY <2>1 DEF C!ReadProperty
  <2>2. CASE values[n] # NoValue
    BY <2>2 DEF C!ReadProperty
  <2> QED
    BY <2>1, <2>2
<1> QED
  BY <1>1 DEF Handed, HandedIsCached, C!HandedIsCached

\* A handler found before Stop and called after it is the only one of its kind.
LateBounded ==
  /\ late <= 1
  /\ bus.at = "call" /\ active[bus.kind][bus.msg.name] = NoHandler => late = 0

IInv ==
  /\ DeviceTypes
  /\ Named
  /\ Sorted(wire, sent)
  /\ ConsumerTypes
  /\ Carried
  /\ Handed
  /\ CachedBehind
  /\ ToldBehind
  /\ LateBounded

LEMMA InitIInv == Init => IInv
<1> SUFFICES ASSUME Init PROVE IInv
  OBVIOUS
<1>1. DeviceTypes /\ ConsumerTypes
  BY InitTypes, DeviceForm, ConsumerForm DEF TypeOK
<1>2. Named
  BY DEF Init, E!Init, E!Idle, Named
<1>3. /\ wire = <<>> /\ sent = [n \in Names |-> 0]
      /\ bus.at = "idle" /\ late = 0
      /\ values = [n \in Names |-> NoValue]
      /\ told = [k \in C!Kinds |-> [n \in Names |-> 0]]
  BY DEF Init, E!Init, C!Init, C!Quiet
<1>4. Sorted(wire, sent) /\ \A n \in Names : Behind(0, n, wire, sent)
  BY <1>3 DEF Sorted, Behind
<1>5. Carried /\ Handed /\ CachedBehind /\ ToldBehind /\ LateBounded
  BY <1>3, <1>4 DEF Carried, Handed, CachedBehind, ToldBehind, LateBounded
<1> QED
  BY <1>1, <1>2, <1>4, <1>5 DEF IInv

\* Steps of the device, and of the broker when it loses a message.
LEMMA DeviceIInv ==
  ASSUME IInv, UNCHANGED consumer, DeviceTypes', Named', Sorted(wire', sent'),
         \A v \in Nat, n \in Names : Behind(v, n, wire, sent) => Behind(v, n, wire', sent')
  PROVE  IInv'
<1>1. ConsumerTypes' /\ Handed' /\ LateBounded'
  BY DEF IInv, consumer, ConsumerTypes, Handed, LateBounded
<1>2. /\ \A m \in Msg : m.ver \in Nat /\ m.name \in Names
      /\ \A n \in Names : values[n] # NoValue => values[n] \in Msg
      /\ \A k \in C!Kinds, n \in Names : told[k][n] \in Nat
      /\ UNCHANGED <<bus, values, told>>
  BY DEF IInv, ConsumerTypes, consumer, Msg
<1>3. Carried'
  BY <1>2 DEF IInv, Carried
<1>4. CachedBehind'
  BY <1>2 DEF IInv, CachedBehind
<1>5. ToldBehind'
  BY <1>2 DEF IInv, ToldBehind
<1> QED
  BY <1>1, <1>3, <1>4, <1>5 DEF IInv

LEMMA DeliverIInv ==
  ASSUME IInv, Deliver PROVE IInv'
<1> DEFINE m == wire[1]
<1>1. /\ wire \in Seq(Msg) /\ wire # <<>> /\ sent \in [Names -> Nat] /\ Sorted(wire, sent)
      /\ bus.at = "idle"
      /\ bus' = [C!Quiet EXCEPT !.at = "put", !.kind = C!FirstKind(m.name), !.msg = m]
      /\ UNCHANGED <<stored, emit, emits, sent, last, failed, panicD,
                     values, active, stopping, told, late, panicC>>
      /\ wire' = SubSeq(wire, 1, 0) \o SubSeq(wire, 2, Len(wire))
  BY DEF IInv, DeviceTypes, Deliver, DeliverMessage, C!Receive
<1>2. wire' = Tail(wire) /\ wire' \in Seq(Msg) /\ m \in Msg
  BY <1>1, RestOfWire
<1>3. m.name \in Names /\ m.ver \in Nat
  BY <1>2 DEF Msg
<1>4. /\ Sorted(wire', sent') /\ Behind(m.ver, m.name, wire', sent')
      /\ \A v \in Nat, n \in Names : Behind(v, n, wire, sent) =>
           Behind(v, n, wire', sent') /\ (n = m.name => v < m.ver)
  BY <1>1, <1>2, RestSorted
<1>5. bus' = [at |-> "put", kind |-> C!FirstKind(m.name), msg |-> m, func |-> NoHandler]
  BY <1>1 DEF C!Quiet
<1>6. C!FirstKind(m.name) \in C!Kinds
  BY DEF C!FirstKind, C!Kinds
<1>7. bus'.at = "put" /\ bus'.msg = m /\ bus' \in Bus
  BY <1>2, <1>5, <1>6 DEF Bus
<1>8. DeviceTypes' /\ Named' /\ ConsumerTypes'
  BY <1>1, <1>2, <1>7 DEF IInv, DeviceTypes, ConsumerTypes, Named
<1>9. /\ \A n \in Names : values[n] # NoValue => values[n] \in Msg /\ values[n].ver \in Nat
      /\ \A k \in C!Kinds, n \in Names : told[k][n] \in Nat
  BY DEF IInv, ConsumerTypes, Msg
<1>10. Carried' /\ Handed' /\ LateBounded'
  BY <1>1, <1>2, <1>4, <1>7 DEF IInv, Carried, Handed, LateBounded
<1>11. CachedBehind'
  <2> SUFFICES ASSUME NEW n \in Names, values[n] # NoValue
               PROVE  /\ Behind(values[n].ver, n, wire', sent')
                      /\ m.name = n => values[n].ver <= m.ver
    BY <1>1, <1>7 DEF CachedBehind
  <2>1. Behind(values[n].ver, n, wire, sent) /\ values[n].ver \in Nat
    BY <1>9 DEF IInv, CachedBehind
  <2> QED
    BY <2>1, <1>3, <1>4
<1>12. ToldBehind'
  <2> SUFFICES ASSUME NEW k \in C!Kinds, NEW n \in Names
               PROVE  /\ Behind(told[k][n], n, wire', sent')
                      /\ m.name = n => told[k][n] < m.ver
    BY <1>1, <1>7 DEF ToldBehind
  <2>1. Behind(told[k][n], n, wire, sent) /\ told[k][n] \in Nat
    BY <1>9 DEF IInv, ToldBehind
  <2> QED
    BY <2>1, <1>3, <1>4
<1> QED
  BY <1>4, <1>8, <1>10, <1>11, <1>12 DEF IInv

LEMMA LoseIInv ==
  ASSUME IInv, Lose PROVE IInv'
<1>1. /\ wire \in Seq(Msg) /\ wire # <<>> /\ sent \in [Names -> Nat] /\ Sorted(wire, sent)
      /\ wire' = Tail(wire)
      /\ UNCHANGED <<stored, emit, emits, sent, last, failed, panicD>> /\ UNCHANGED consumer
  BY DEF IInv, DeviceTypes, Lose
<1>2. /\ wire' \in Seq(Msg) /\ Sorted(wire', sent')
      /\ \A v \in Nat, n \in Names : Behind(v, n, wire, sent) => Behind(v, n, wire', sent')
  BY <1>1, RestOfWire, RestSorted
<1>3. DeviceTypes' /\ Named'
  BY <1>1, <1>2 DEF IInv, DeviceTypes, Named
<1> QED
  BY <1>1, <1>2, <1>3, DeviceIInv

\* What follows a handler: nothing, or the same message once more as a property.
LEMMA NextBus ==
  ASSUME bus \in Bus, bus.msg \in Msg, C!NextKind
  PROVE  /\ bus' \in Bus
         /\ \/ bus'.at = "idle"
            \/ bus'.at = "put" /\ bus'.kind = "property" /\ bus'.msg = bus.msg /\ bus.kind = "event"
<1>1. CASE bus.kind = "event" /\ bus.msg.name \in Properties
  <2>1. bus' = [bus EXCEPT !.at = "put", !.kind = "property", !.func = NoHandler]
    BY <1>1 DEF C!NextKind
  <2>2. bus' = [at |-> "put", kind |-> "property", msg |-> bus.msg, func |-> NoHandler]
    BY <2>1 DEF Bus
  <2> QED
    BY <1>1, <2>2 DEF Bus, C!Kinds
<1>2. CASE ~(bus.kind = "event" /\ bus.msg.name \in Properties)
  <2>1. bus' = [at |-> "idle", kind |-> "event", msg |-> NoValue, func |-> NoHandler]
    BY <1>2 DEF C!NextKind, C!Quiet
  <2> QED
    BY <2>1 DEF Bus, C!Kinds
<1> QED
  BY <1>1, <1>2

\* Steps of the delivery leave the device and the wire alone.
LEMMA PutIInv ==
  ASSUME IInv, C!PutValue, UNCHANGED device PROVE IInv'
<1>1. /\ bus.at = "put" /\ bus \in Bus /\ bus.msg \in Msg /\ bus.msg.name \in Names
      /\ bus.msg.ver \in Nat
      /\ Behind(bus.msg.ver, bus.msg.name, wire, sent)
      /\ values' = [values EXCEPT ![bus.msg.name] = bus.msg]
      /\ bus' = [bus EXCEPT !.at = "find"]
      /\ UNCHANGED <<active, stopping, told, late, panicC>>
      /\ UNCHANGED <<wire, sent>>
  BY DEF IInv, ConsumerTypes, Carried, C!PutValue, device, Msg
<1>2. bus' = [at |-> "find", kind |-> bus.kind, msg |-> bus.msg, func |-> bus.func]
  BY <1>1 DEF Bus
<1>3. bus' \in Bus /\ bus'.at = "find" /\ bus'.msg = bus.msg /\ bus'.kind = bus.kind
  BY <1>1, <1>2 DEF Bus
<1>4. /\ values \in [Names -> Msg \cup {NoValue}]
      /\ values' \in [Names -> Msg \cup {NoValue}]
      /\ values'[bus.msg.name] = bus.msg
      /\ \A n \in Names : n # bus.msg.name => values'[n] = values[n]
  BY <1>1 DEF IInv, ConsumerTypes
<1>5. DeviceTypes' /\ Named' /\ Sorted(wire', sent') /\ ConsumerTypes'
  BY <1>1, <1>3, <1>4 DEF IInv, DeviceTypes, Named, device, ConsumerTypes
<1>6. Carried' /\ LateBounded'
  BY <1>1, <1>3 DEF IInv, Carried, LateBounded
<1>7. Handed'
  BY <1>3, <1>4 DEF Handed
<1>8. CachedBehind'
  BY <1>1, <1>3, <1>4 DEF IInv, CachedBehind
<1>9. ToldBehind'
  BY <1>1, <1>3 DEF IInv, ToldBehind
<1> QED
  BY <1>5, <1>6, <1>7, <1>8, <1>9 DEF IInv

LEMMA FindIInv ==
  ASSUME IInv, C!FindHandler, UNCHANGED device PROVE IInv'
<1>1. /\ bus.at = "find" /\ bus \in Bus /\ bus.kind \in C!Kinds /\ bus.msg \in Msg /\ bus.msg.name \in Names
      /\ Behind(bus.msg.ver, bus.msg.name, wire, sent)
      /\ UNCHANGED <<values, active, stopping, told, late, panicC>>
      /\ UNCHANGED <<wire, sent>>
  BY DEF IInv, ConsumerTypes, Carried, C!FindHandler, device, Msg, Bus
<1>2. DeviceTypes' /\ Named' /\ Sorted(wire', sent')
  BY <1>1 DEF IInv, DeviceTypes, Named, device
<1>3. CASE /\ active[bus.kind][bus.msg.name] # NoHandler
           /\ bus' = [bus EXCEPT !.at = "call", !.func = active[bus.kind][bus.msg.name]]
  <2>1. active[bus.kind][bus.msg.name] \in C!Funcs \cup {NoHandler}
    BY <1>1 DEF IInv, ConsumerTypes
  <2>2. bus' = [at |-> "call", kind |-> bus.kind, msg |-> bus.msg,
                func |-> active[bus.kind][bus.msg.name]]
    BY <1>1, <1>3 DEF Bus
  <2>3. bus' \in Bus /\ bus'.at = "call" /\ bus'.msg = bus.msg /\ bus'.kind = bus.kind
    BY <1>1, <2>1, <2>2 DEF Bus
  <2>4. ConsumerTypes' /\ Carried' /\ CachedBehind' /\ ToldBehind'
    BY <1>1, <2>3 DEF IInv, ConsumerTypes, Carried, CachedBehind, ToldBehind
  <2>5. LateBounded' /\ Handed'
    BY <1>1, <1>3, <2>3 DEF IInv, LateBounded, Handed
  <2> QED
    BY <1>2, <2>4, <2>5 DEF IInv
<1>4. CASE C!NextKind
  <2>1. /\ bus' \in Bus
        /\ \/ bus'.at = "idle"
           \/ bus'.at = "put" /\ bus'.kind = "property" /\ bus'.msg = bus.msg /\ bus.kind = "event"
    BY <1>1, <1>4, NextBus
  <2>2. ConsumerTypes' /\ Carried' /\ CachedBehind'
    BY <1>1, <2>1 DEF IInv, ConsumerTypes, Carried, CachedBehind
  <2>3. ToldBehind'
    BY <1>1, <2>1 DEF IInv, ToldBehind
  <2>4. LateBounded' /\ Handed'
    BY <1>1, <2>1 DEF IInv, LateBounded, Handed
  <2> QED
    BY <1>2, <2>2, <2>3, <2>4 DEF IInv
<1> QED
  BY <1>3, <1>4 DEF C!FindHandler

LEMMA CallIInv ==
  ASSUME IInv, C!CallHandler, UNCHANGED device PROVE IInv'
<1>1. /\ bus.at = "call" /\ bus \in Bus /\ bus.kind \in C!Kinds /\ bus.msg \in Msg /\ bus.msg.name \in Names
      /\ bus.msg.ver \in Nat
      /\ Behind(bus.msg.ver, bus.msg.name, wire, sent)
      /\ UNCHANGED <<values, active, stopping>>
      /\ UNCHANGED <<wire, sent>>
  BY DEF IInv, ConsumerTypes, Carried, C!CallHandler, device, Msg, Bus
<1>2. DeviceTypes' /\ Named' /\ Sorted(wire', sent')
  BY <1>1 DEF IInv, DeviceTypes, Named, device
<1>3. CASE panicC' = TRUE /\ UNCHANGED <<told, late, bus>>
  <2>1. ConsumerTypes' /\ Carried' /\ CachedBehind' /\ ToldBehind' /\ LateBounded' /\ Handed'
    BY <1>1, <1>3
    DEF IInv, Handed, ConsumerTypes, Carried, CachedBehind, ToldBehind, LateBounded
  <2> QED
    BY <1>2, <2>1 DEF IInv
<1>4. CASE /\ told' = [told EXCEPT ![bus.kind][bus.msg.name] = bus.msg.ver]
           /\ late' = IF active[bus.kind][bus.msg.name] = NoHandler THEN late + 1 ELSE late
           /\ C!NextKind
           /\ UNCHANGED panicC
  <2>1. /\ bus' \in Bus
        /\ \/ bus'.at = "idle"
           \/ bus'.at = "put" /\ bus'.kind = "property" /\ bus'.msg = bus.msg /\ bus.kind = "event"
    BY <1>1, <1>4, NextBus
  <2>2. /\ told' \in [C!Kinds -> [Names -> Nat]]
        /\ told'[bus.kind][bus.msg.name] = bus.msg.ver
        /\ \A k \in C!Kinds, n \in Names :
             k # bus.kind \/ n # bus.msg.name => told'[k][n] = told[k][n]
    BY <1>1, <1>4 DEF IInv, ConsumerTypes
  <2>3. late' \in Nat /\ late' <= 1
    BY <1>1, <1>4 DEF IInv, ConsumerTypes, LateBounded
  <2>4. ConsumerTypes' /\ Carried' /\ CachedBehind'
    BY <1>1, <1>4, <2>1, <2>2, <2>3 DEF IInv, ConsumerTypes, Carried, CachedBehind
  <2>5. ToldBehind'
    BY <1>1, <2>1, <2>2 DEF IInv, ToldBehind
  <2>6. LateBounded' /\ Handed'
    BY <1>1, <2>1, <2>3 DEF LateBounded, Handed
  <2> QED
    BY <1>2, <2>4, <2>5, <2>6 DEF IInv
<1> QED
  BY <1>3, <1>4 DEF C!CallHandler

\* The application's subscriptions: none that Stop dropped comes back as it was.
LEMMA SubscribeIInv ==
  ASSUME IInv, Subscribe PROVE IInv'
<1>1. PICK k \in C!Kinds, n \in Names, h \in C!Funcs :
        /\ active[k][n] = NoHandler
        /\ active' = [active EXCEPT ![k][n] = h]
        /\ UNCHANGED <<values, stopping, bus, told, late, panicC>>
  BY DEF Subscribe, C!SubscribeEvent, C!ObserveProperty, C!Subscribed, C!Kinds
<1>2. /\ active \in [C!Kinds -> [Names -> C!Funcs \cup {NoHandler}]]
      /\ active' \in [C!Kinds -> [Names -> C!Funcs \cup {NoHandler}]]
      /\ bus \in Bus /\ UNCHANGED device
  BY <1>1 DEF IInv, ConsumerTypes, Subscribe
<1>3. NoHandler \notin C!Funcs
  BY ValuesAssumption DEF C!Funcs
<1>4. \A kk \in C!Kinds, nn \in Names : active'[kk][nn] = NoHandler => active[kk][nn] = NoHandler
  BY <1>1, <1>2, <1>3
<1>5. bus.at = "call" => bus.kind \in C!Kinds /\ bus.msg.name \in Names
  BY <1>2 DEF IInv, Carried, Bus, Msg
<1>6. LateBounded'
  BY <1>1, <1>4, <1>5 DEF IInv, LateBounded
<1>7. DeviceTypes' /\ Named' /\ Sorted(wire', sent') /\ ConsumerTypes'
  BY <1>1, <1>2 DEF IInv, DeviceTypes, Named, ConsumerTypes, device
<1>8. Carried' /\ Handed' /\ CachedBehind' /\ ToldBehind'
  BY <1>1, <1>2 DEF IInv, Carried, Handed, CachedBehind, ToldBehind, device
<1> QED
  BY <1>6, <1>7, <1>8 DEF IInv

\* Stop in its two steps; a message may be under way between and after them.
LEMMA StopIInv ==
  ASSUME IInv, C!Stop \/ C!StopValues, UNCHANGED device PROVE IInv'
<1>1. DeviceTypes' /\ Named' /\ Sorted(wire', sent') /\ UNCHANGED <<wire, sent>>
  BY DEF IInv, DeviceTypes, Named, device
<1>2. CASE C!Stop
  <2>1. /\ late' = 0 /\ stopping' = TRUE
        /\ active' = [k \in C!Kinds |-> [n \in Names |-> NoHandler]]
        /\ UNCHANGED <<values, bus, told, panicC>>
    BY <1>2 DEF C!Stop
  <2>2. ConsumerTypes'
    BY <2>1 DEF IInv, ConsumerTypes
  <2>3. Carried' /\ Handed' /\ CachedBehind' /\ ToldBehind' /\ LateBounded'
    BY <1>1, <2>1 DEF IInv, Carried, Handed, CachedBehind, ToldBehind, LateBounded
  <2> QED
    BY <1>1, <2>2, <2>3 DEF IInv
<1>3. CASE C!StopValues
  <2>1. /\ stopping' = FALSE
        /\ values' = [n \in Names |-> NoValue]
        /\ UNCHANGED <<active, bus, told, late, panicC>>
    BY <1>3 DEF C!StopValues
  <2>2. ConsumerTypes'
    BY <2>1 DEF IInv, ConsumerTypes
  <2>3. bus.at # "idle" => bus.msg.name \in Names
    BY DEF IInv, Carried, Msg
  <2>4. Carried' /\ Handed' /\ CachedBehind' /\ ToldBehind' /\ LateBounded'
    BY <1>1, <2>1, <2>3 DEF IInv, Carried, Handed, CachedBehind, ToldBehind, LateBounded
  <2> QED
    BY <1>1, <2>2, <2>4 DEF IInv
<1> QED
  BY <1>2, <1>3

\* The steps of the program, by what they do to the values.
LEMMA StepCases ==
  ASSUME Next
  PROVE  \/ \E e \in Emitters : (Prepares(e) \/ E!Publish(e)) /\ UNCHANGED consumer
         \/ Deliver
         \/ Lose
         \/ C!PutValue /\ UNCHANGED device
         \/ C!FindHandler /\ UNCHANGED device
         \/ C!CallHandler /\ UNCHANGED device
         \/ Subscribe
         \/ UNCHANGED <<device, consumer>>
         \/ (C!Stop \/ C!StopValues) /\ UNCHANGED device
<1>1. CASE DeviceEmits
  BY <1>1 DEF DeviceEmits, Prepares
<1>2. CASE \E e \in Emitters : EmitStep(e)
  BY <1>2 DEF EmitStep, E!EmitStep, Prepares
<1>3. CASE DeliverStep
  BY <1>3 DEF DeliverStep, C!DeliverStep
<1>4. CASE StopBinding \/ StopThing
  BY <1>4 DEF StopBinding, StopThing
<1> QED
  BY <1>1, <1>2, <1>3, <1>4 DEF Next

LEMMA StepIInv == IInv /\ [Next]_vars => IInv'
<1> SUFFICES ASSUME IInv, [Next]_vars PROVE IInv'
  OBVIOUS
<1>1. ASSUME NEW e \in Emitters, Prepares(e), UNCHANGED consumer PROVE IInv'
  <2>1. DeviceTypes' /\ Named' /\ UNCHANGED <<wire, sent>>
    BY <1>1, PrepareTypes DEF IInv
  <2> QED
    BY <1>1, <2>1, DeviceIInv DEF IInv
<1>2. ASSUME NEW e \in Emitters, E!Publish(e), UNCHANGED consumer PROVE IInv'
  BY <1>2, PublishTypes, DeviceIInv DEF IInv
<1>3. CASE UNCHANGED <<device, consumer>>
  <2>1. DeviceTypes' /\ Named' /\ UNCHANGED <<wire, sent>> /\ UNCHANGED consumer
    BY <1>3 DEF IInv, DeviceTypes, Named, device
  <2> QED
    BY <2>1, DeviceIInv DEF IInv
<1>4. CASE Next
  BY <1>1, <1>2, <1>3, <1>4, StepCases, DeliverIInv, LoseIInv, PutIInv, FindIInv, CallIInv,
     SubscribeIInv, StopIInv
<1>5. CASE UNCHANGED vars
  BY <1>3, <1>5 DEF vars
<1> QED
  BY <1>4, <1>5

\* What the device and its consumer remember of the messages agrees with what
\* was published, at every step of EmitEvent, EmitPropertyChange, handleEvent,
\* HandleEvent, HandlePropertyChange and Stop.
THEOREM Invariance == Spec => []IInv
<1>1. Init => IInv
  BY InitIInv
<1>2. IInv /\ [Next]_vars => IInv'
  BY StepIInv
<1> QED
  BY <1>1, <1>2, PTL DEF Spec

\* A handler that HandleEvent or HandlePropertyChange calls finds in the cache
\* the value it is called with, or none after Stop.
THEOREM HandlersFindTheirValue == Spec => []HandedIsCached
<1>1. IInv => HandedIsCached
  BY HandedForm DEF IInv
<1> QED
  BY <1>1, Invariance, PTL

\* After Stop at most one handler is called whose subscription Stop dropped.
THEOREM OneHandlerAfterStop == Spec => []OneLateCall
<1>1. IInv => OneLateCall
  BY DEF IInv, LateBounded, OneLateCall, C!OneLateCall
<1> QED
  BY <1>1, Invariance, PTL

-----------------------------------------------------------------------------
(* The program implements LastValues.                                      *)

View == [n \in Names |-> IF values[n] = NoValue THEN 0 ELSE values[n].ver]

LEMMA InitRefines == Init => Abstract!Init
<1> SUFFICES ASSUME Init PROVE Abstract!Init
  OBVIOUS
<1>1. sent = [n \in Names |-> 0] /\ told = [k \in C!Kinds |-> [n \in Names |-> 0]]
  BY DEF Init, E!Init, C!Init
<1>2. View = [n \in Names |-> 0]
  BY DEF Init, C!Init, View
<1> QED
  BY <1>1, <1>2 DEF Abstract!Init, View

\* Storing the message that is delivered is learning it, or no news.
LEMMA PutRefines ==
  ASSUME IInv, C!PutValue, UNCHANGED device
  PROVE  [Abstract!Next]_(Abstract!vars)
<1> DEFINE n == bus.msg.name
           i == bus.msg.ver
<1>1. /\ bus.at = "put" /\ bus.msg \in Msg /\ n \in Names /\ i \in Nat \ {0}
      /\ Behind(i, n, wire, sent) /\ sent[n] \in Nat
      /\ values \in [Names -> Msg \cup {NoValue}]
      /\ values' = [values EXCEPT ![n] = bus.msg]
      /\ UNCHANGED <<told, sent>>
  BY DEF IInv, DeviceTypes, ConsumerTypes, Carried, C!PutValue, device, Msg
<1>2. /\ View[n] \in Nat /\ View[n] <= i /\ i <= sent[n]
  <2>1. CASE values[n] = NoValue
    BY <1>1, <2>1 DEF View, Behind
  <2>2. CASE values[n] # NoValue
    <3>1. values[n] \in Msg /\ values[n].ver \in Nat /\ values[n].ver <= i
      BY <1>1, <2>2 DEF IInv, CachedBehind, Msg
    <3> QED
      BY <1>1, <2>2, <3>1 DEF View, Behind
  <2> QED
    BY <2>1, <2>2
<1>3. View' = [View EXCEPT ![n] = i]
  BY <1>1, NoValueIsNoMsg DEF View
<1>4. CASE View[n] = i
  <2>1. View' = View
    BY <1>3, <1>4 DEF View
  <2> QED
    BY <1>1, <2>1 DEF Abstract!vars, View
<1>5. CASE View[n] # i
  <2>1. i \in View[n] + 1 .. sent[n]
    BY <1>1, <1>2, <1>5
  <2>2. \E m \in Names : Abstract!Learn(m)
    BY <1>1, <1>3, <2>1 DEF Abstract!Learn, View
  <2> QED
    BY <2>2 DEF Abstract!Next
<1> QED
  BY <1>4, <1>5

\* Calling a handler is telling it; a nil one panics and is told nothing.
LEMMA CallRefines ==
  ASSUME IInv, C!CallHandler, UNCHANGED device
  PROVE  [Abstract!Next]_(Abstract!vars)
<1> DEFINE k == bus.kind
           n == bus.msg.name
           i == bus.msg.ver
<1>1. /\ bus.at = "call" /\ k \in C!Kinds /\ n \in Names /\ i \in Nat
      /\ i <= sent[n] /\ sent[n] \in Nat /\ told[k][n] \in Nat /\ told[k][n] < i
      /\ UNCHANGED <<values, sent>>
  BY DEF IInv, DeviceTypes, ConsumerTypes, Carried, ToldBehind, Behind, C!CallHandler,
         device, Msg, Bus
<1>2. CASE UNCHANGED told
  BY <1>1, <1>2 DEF Abstract!vars
<1>3. CASE told' = [told EXCEPT ![k][n] = i]
  <2>1. i \in told[k][n] + 1 .. sent[n]
    BY <1>1
  <2>2. Abstract!Tell(k, n)
    BY <1>1, <1>3, <2>1 DEF Abstract!Tell
  <2> QED
    BY <1>1, <2>2 DEF Abstract!Next
<1> QED
  BY <1>2, <1>3 DEF C!CallHandler

LEMMA StepRefines ==
  ASSUME IInv, [Next]_vars
  PROVE  [Abstract!Next]_(Abstract!vars)
<1>1. CASE UNCHANGED <<sent, values, told>>
  BY <1>1 DEF Abstract!vars
<1>2. ASSUME NEW e \in Emitters, Prepares(e), UNCHANGED consumer
      PROVE  UNCHANGED <<sent, values, told>>
  BY <1>2, PrepareTypes DEF IInv, consumer
<1>3. ASSUME NEW e \in Emitters, E!Publish(e), UNCHANGED consumer
      PROVE  Abstract!Next
  <2>1. emit[e].name \in Names /\ sent' = [sent EXCEPT ![emit[e].name] = @ + 1]
    BY <1>3, PublishTypes DEF IInv
  <2>2. Abstract!Emit(emit[e].name)
    BY <1>3, <2>1 DEF Abstract!Emit, consumer
  <2> QED
    BY <2>1, <2>2 DEF Abstract!Next
<1>4. ASSUME (C!Stop \/ C!StopValues) /\ UNCHANGED device
      PROVE  [Abstract!Next]_(Abstract!vars)
  <2>1. CASE C!Stop
    <3>1. UNCHANGED <<sent, values, told>>
      BY <1>4, <2>1 DEF C!Stop, device
    <3> QED
      BY <1>1, <3>1
  <2>2. CASE C!StopValues
    <3>1. UNCHANGED <<sent, told>> /\ View' = [n \in Names |-> 0]
      BY <1>4, <2>2 DEF C!StopValues, device, View
    <3> QED
      BY <3>1 DEF Abstract!Next, Abstract!Forget, View
  <2> QED
    BY <1>4, <2>1, <2>2
<1>5. Deliver => UNCHANGED <<sent, values, told>>
  BY DEF Deliver, DeliverMessage, C!Receive
<1>6. Lose => UNCHANGED <<sent, values, told>>
  BY DEF Lose, consumer
<1>7. C!FindHandler /\ UNCHANGED device => UNCHANGED <<sent, values, told>>
  BY DEF C!FindHandler, device
<1>8. Subscribe => UNCHANGED <<sent, values, told>>
  BY DEF Subscribe, C!SubscribeEvent, C!ObserveProperty, device
<1>9. UNCHANGED <<device, consumer>> \/ UNCHANGED vars => UNCHANGED <<sent, values, told>>
  BY DEF vars, device, consumer
<1>10. CASE Next
  BY <1>1, <1>2, <1>3, <1>4, <1>5, <1>6, <1>7, <1>8, <1>9, <1>10, StepCases, PutRefines, CallRefines
<1>11. CASE UNCHANGED vars
  BY <1>1, <1>9, <1>11
<1> QED
  BY <1>10, <1>11

\* EmitEvent and EmitPropertyChange at one end, handleEvent, the subscriptions
\* and Stop at the other implement the promise of LastValues: no value is
\* invented, none is seen before it was published, and neither the cache nor a
\* subscriber goes back to an older one.
THEOREM ImplementsAbstract == Spec => ImplementsLastValues
<1>1. Init => Abstract!Init
  BY InitRefines
<1>2. IInv /\ [Next]_vars => [Abstract!Next]_(Abstract!vars)
  BY StepRefines
<1> QED
  BY <1>1, <1>2, Invariance, PTL DEF Spec, ImplementsLastValues, Abstract!Spec

-----------------------------------------------------------------------------
(* A device with one emitter stores what it publishes.                     *)

\* The value that is stored is the one published last, except while emitter d
\* is between storing a value and publishing it, and after that has failed.
StoreFollows(d) ==
  \A n \in Properties \ Events :
    /\ emit[d].name = n => emit[d].kind = "property"
    /\ n \notin failed /\ (emit[d].name # n \/ emit[d].at # "publish") => stored[n] = last[n]
    /\ emit[d].name = n /\ emit[d].at = "publish" => stored[n] = emit[d].value

LEMMA InitFollows ==
  ASSUME NEW d \in Emitters, Init PROVE StoreFollows(d)
<1>1. /\ emit[d].name = NoValue /\ emit[d].at = "idle"
      /\ stored = [n \in Properties |-> NoValue] /\ last = [n \in Names |-> NoValue]
  BY DEF Init, E!Init, E!Idle
<1>2. NoValue \notin Names /\ Properties \subseteq Names
  BY ValuesAssumption, NoValueIsNoMsg
<1> QED
  BY <1>1, <1>2 DEF StoreFollows

LEMMA StepFollows ==
  ASSUME NEW d \in Emitters, Emitters = {d}, IInv, StoreFollows(d), [Next]_vars
  PROVE  StoreFollows(d)'
<1>1. /\ emit \in [Emitters -> Call] /\ emit[d] \in Call
      /\ stored \in [Properties -> Values \cup {NoValue}]
      /\ last \in [Names -> Values \cup {NoValue}]
      /\ Properties \subseteq Names /\ NoValue \notin Names
  BY ValuesAssumption, NoValueIsNoMsg DEF IInv, DeviceTypes
<1>2. \A err \in BOOLEAN : E!Return(d, err) => emit'[d].at = "idle" /\ emit'[d].name = NoValue
  <2> SUFFICES ASSUME NEW err \in BOOLEAN, E!Return(d, err)
               PROVE  emit'[d].at = "idle" /\ emit'[d].name = NoValue
    OBVIOUS
  <2>1. emit'[d] = [E!Idle EXCEPT !.err = err]
    BY <1>1 DEF E!Return
  <2> QED
    BY <2>1 DEF E!Idle
<1>3. \A step \in {"store", "publish"} : E!Goto(d, step) =>
        /\ emit'[d].at = step
        /\ emit'[d].name = emit[d].name /\ emit'[d].value = emit[d].value
        /\ emit'[d].kind = emit[d].kind
  <2> SUFFICES ASSUME NEW step \in {"store", "publish"}, E!Goto(d, step)
               PROVE  /\ emit'[d].at = step
                      /\ emit'[d].name = emit[d].name /\ emit'[d].value = emit[d].value
                      /\ emit'[d].kind = emit[d].kind
    OBVIOUS
  <2>1. emit'[d] = [emit[d] EXCEPT !.at = step]
    BY <1>1 DEF E!Goto
  <2> QED
    BY <1>1, <2>1 DEF Call
<1>4. \A step, k, n, v : E!Start(d, step, k, n, v) =>
        emit'[d].at = step /\ emit'[d].name = n /\ emit'[d].kind = k /\ emit'[d].value = v
  BY <1>1 DEF E!Start
<1>5. ASSUME NEW n \in Names, NEW v \in Values, E!EmitEvent(d, n, v) PROVE StoreFollows(d)'
  <2>1. UNCHANGED <<stored, last, failed>> /\ emit[d].at = "idle"
    BY <1>5 DEF E!EmitEvent, E!MayEmit
  <2>2. CASE n \in Events /\ E!Start(d, "publish", "event", n, v)
    BY <1>4, <2>1, <2>2 DEF StoreFollows
  <2>3. CASE E!Return(d, TRUE)
    BY <1>1, <1>2, <2>1, <2>3 DEF StoreFollows
  <2> QED
    BY <1>5, <2>2, <2>3 DEF E!EmitEvent
<1>6. ASSUME NEW n \in Names, NEW v \in Values, NEW only \in BOOLEAN,
             E!EmitPropertyChange(d, n, v, only)
      PROVE  StoreFollows(d)'
  <2>1. UNCHANGED <<stored, last, failed>> /\ emit[d].at = "idle"
    BY <1>6 DEF E!EmitPropertyChange, E!MayEmit
  <2>2. CASE \E step \in {"compare", "store"} : E!Start(d, step, "property", n, v)
    BY <1>4, <2>1, <2>2 DEF StoreFollows
  <2>3. CASE E!Return(d, TRUE)
    BY <1>1, <1>2, <2>1, <2>3 DEF StoreFollows
  <2> QED
    BY <1>6, <2>2, <2>3 DEF E!EmitPropertyChange
<1>7. CASE E!Compare(d)
  <2>1. UNCHANGED <<stored, last, failed>> /\ emit[d].at = "compare"
    BY <1>7 DEF E!Compare
  <2>2. CASE UNCHANGED emit
    BY <2>1, <2>2 DEF StoreFollows
  <2>3. CASE E!Return(d, FALSE)
    BY <1>1, <1>2, <2>1, <2>3 DEF StoreFollows
  <2>4. CASE E!Goto(d, "store")
    BY <1>3, <2>1, <2>4 DEF StoreFollows
  <2> QED
    BY <1>7, <2>2, <2>3, <2>4 DEF E!Compare
<1>8. CASE E!Store(d)
  <2>1. /\ UNCHANGED <<last, failed>> /\ emit[d].at = "store" /\ emit[d].name \in Properties
        /\ stored' = [stored EXCEPT ![emit[d].name] = emit[d].value]
        /\ E!Goto(d, "publish")
    BY <1>8 DEF E!Store, IInv, Named
  <2>2. /\ stored'[emit[d].name] = emit[d].value
        /\ \A n \in Properties : n # emit[d].name => stored'[n] = stored[n]
    BY <1>1, <2>1
  <2> QED
    BY <1>3, <2>1, <2>2 DEF StoreFollows
<1>9. CASE E!Publish(d)
  <2>1. /\ UNCHANGED stored /\ emit[d].at = "publish" /\ emit[d].name \in Names
        /\ last' = [last EXCEPT ![emit[d].name] = emit[d].value]
        /\ failed' = failed \ {emit[d].name}
        /\ E!Return(d, FALSE)
    BY <1>9 DEF E!Publish, IInv, Named
  <2>2. /\ last'[emit[d].name] = emit[d].value
        /\ \A n \in Names : n # emit[d].name => last'[n] = last[n]
    BY <1>1, <2>1
  <2> QED
    BY <1>1, <1>2, <2>1, <2>2 DEF StoreFollows
<1>10. CASE E!PublishFails(d)
  <2>1. /\ UNCHANGED <<stored, last>> /\ emit[d].at = "publish"
        /\ failed' = IF emit[d].kind = "property" THEN failed \cup {emit[d].name} ELSE failed
        /\ E!Return(d, TRUE)
    BY <1>10 DEF E!PublishFails
  <2> QED
    BY <1>1, <1>2, <2>1 DEF StoreFollows
<1>11. CASE UNCHANGED <<stored, emit, last, failed>>
  BY <1>11 DEF StoreFollows
<1>12. CASE \E e \in Emitters : Prepares(e) \/ E!Publish(e)
  BY <1>5, <1>6, <1>7, <1>8, <1>9, <1>10, <1>12 DEF Prepares
<1>13. (Deliver \/ Lose \/ Subscribe \/ UNCHANGED device \/ UNCHANGED vars)
         => UNCHANGED <<stored, emit, last, failed>>
  BY DEF Deliver, DeliverMessage, Lose, Subscribe, device, vars
<1>14. UNCHANGED <<device, consumer>> => UNCHANGED device
  OBVIOUS
<1> QED
  BY <1>11, <1>12, <1>13, <1>14, StepCases

\* On a device whose values one goroutine emits, the value that GetValue reads
\* between emits is the one its consumers were sent last, unless publishing it
\* failed.
THEOREM StoreKeepsUp ==
  ASSUME NEW d, Emitters = {d}
  PROVE  Spec => []StoredIsPublished
<1>1. d \in Emitters
  OBVIOUS
<1>2. Init => StoreFollows(d)
  BY <1>1, InitFollows
<1>3. IInv /\ StoreFollows(d) /\ [Next]_vars => StoreFollows(d)'
  BY <1>1, StepFollows
<1>4. StoreFollows(d) => StoredIsPublished
  BY DEF StoreFollows, StoredIsPublished, E!StoredIsPublished
<1> QED
  BY <1>2, <1>3, <1>4, Invariance, PTL DEF Spec

=============================================================================

--------------------------- MODULE ExposedValues ---------------------------
(***************************************************************************)
(* The values of an exposed thing: src/pkg/exposedthing, EmitEvent and     *)
(* EmitPropertyChange with the value store they share, and the MQTT        *)
(* binding that publishes what they emit.                                  *)
(*                                                                         *)
(* EmitPropertyChange compares with the stored value, stores the new one   *)
(* and publishes it, in three steps that other emitters may interleave     *)
(* with.  A published value carries a serial number `ver` per name, which  *)
(* the program does not have and the properties use.                       *)
(***************************************************************************)
EXTENDS Naturals, Sequences

CONSTANTS
  Emitters,      \* goroutines of the device
  Names,         \* names that applications use
  Events,        \* the names that are events in the TD
  Properties,    \* the names that are properties in the TD
  Values,        \* raw values
  Objects,       \* the values that are Go maps, which cannot be compared
  MaxEmits,      \* how often values are emitted; a bound
  NoValue        \* no value stored

VARIABLES
  stored,   \* valueStore of the exposed thing
  emit,     \* the emit call that each emitter is in
  emits,    \* emit calls made so far
  wire,     \* messages that the broker has accepted and not delivered
  sent,     \* per name, how many values have been published
  last,     \* per name, the value published last
  failed,   \* properties whose latest emit was not published
  panic     \* the process has panicked

vars == <<stored, emit, emits, wire, sent, last, failed, panic>>

Idle == [at |-> "idle", kind |-> "property", name |-> NoValue, value |-> NoValue,
         err |-> FALSE]

TypeOK ==
  /\ stored \in [Properties -> Values \cup {NoValue}]
  /\ emit \in [Emitters -> [at : {"idle", "compare", "store", "publish"},
                            kind : {"event", "property"}, name : Names \cup {NoValue},
                            value : Values \cup {NoValue}, err : BOOLEAN]]
  /\ emits \in Nat
  /\ wire \in Seq([name : Names, value : Values, ver : Nat \ {0}])
  /\ sent \in [Names -> Nat]
  /\ last \in [Names -> Values \cup {NoValue}]
  /\ failed \subseteq Properties
  /\ panic \in BOOLEAN

Init ==
  /\ stored = [n \in Properties |-> NoValue]
  /\ emit = [e \in Emitters |-> Idle]
  /\ emits = 0
  /\ wire = <<>>
  /\ sent = [n \in Names |-> 0]
  /\ last = [n \in Names |-> NoValue]
  /\ failed = {}
  /\ panic = FALSE

-----------------------------------------------------------------------------
MayEmit(e) == emit[e].at = "idle" /\ emits < MaxEmits

Start(e, step, k, n, v) ==
  emit' = [emit EXCEPT ![e] = [at |-> step, kind |-> k, name |-> n, value |-> v,
                               err |-> FALSE]]
Return(e, err) == emit' = [emit EXCEPT ![e] = [Idle EXCEPT !.err = err]]
Goto(e, step)  == emit' = [emit EXCEPT ![e].at = step]

\* An event that the TD does not define is refused.
EmitEvent(e, n, v) ==
  /\ MayEmit(e)
  /\ emits' = emits + 1
  /\ IF n \in Events THEN Start(e, "publish", "event", n, v) ELSE Return(e, TRUE)
  /\ UNCHANGED <<stored, wire, sent, last, failed, panic>>

EmitPropertyChange(e, n, v, changesOnly) ==
  /\ MayEmit(e)
  /\ emits' = emits + 1
  /\ IF n \in Properties
     THEN Start(e, IF changesOnly THEN "compare" ELSE "store", "property", n, v)
     ELSE Return(e, TRUE)
  /\ UNCHANGED <<stored, wire, sent, last, failed, panic>>

\* GetValue reads under the read lock; == panics on two values that are maps.
Compare(e) ==
  /\ emit[e].at = "compare"
  /\ LET old == stored[emit[e].name]
         new == emit[e].value
     IN IF old \in Objects /\ new \in Objects
        THEN panic' = TRUE /\ UNCHANGED emit
        ELSE /\ IF old = new THEN Return(e, FALSE) ELSE Goto(e, "store")
             /\ UNCHANGED panic
  /\ UNCHANGED <<stored, emits, wire, sent, last, failed>>

\* Defect: only the first value is stored.
StoreFirst(e) ==
  /\ emit[e].at = "store"
  /\ stored' = [stored EXCEPT ![emit[e].name] = IF @ = NoValue THEN emit[e].value ELSE @]
  /\ Goto(e, "publish")
  /\ UNCHANGED <<emits, wire, sent, last, failed, panic>>

Store(e) ==
  /\ emit[e].at = "store"
  /\ stored' = [stored EXCEPT ![emit[e].name] = emit[e].value]
  /\ Goto(e, "publish")
  /\ UNCHANGED <<emits, wire, sent, last, failed, panic>>

\* The binding publishes on things/{id}/event/{name}; the client may refuse.
Publish(e) ==
  /\ emit[e].at = "publish"
  /\ LET n == emit[e].name
         v == emit[e].value
     IN /\ wire' = Append(wire, [name |-> n, value |-> v, ver |-> sent[n] + 1])
        /\ sent' = [sent EXCEPT ![n] = @ + 1]
        /\ last' = [last EXCEPT ![n] = v]
        /\ failed' = failed \ {n}
  /\ Return(e, FALSE)
  /\ UNCHANGED <<stored, emits, panic>>

PublishFails(e) ==
  /\ emit[e].at = "publish"
  /\ failed' = IF emit[e].kind = "property" THEN failed \cup {emit[e].name} ELSE failed
  /\ Return(e, TRUE)
  /\ UNCHANGED <<stored, emits, wire, sent, last, panic>>

EmitStep(e) == Compare(e) \/ Store(e) \/ Publish(e) \/ PublishFails(e)

Next ==
  /\ ~panic
  /\ \E e \in Emitters :
       \/ \E n \in Names, v \in Values :
            \/ EmitEvent(e, n, v)
            \/ \E only \in BOOLEAN : EmitPropertyChange(e, n, v, only)
       \/ EmitStep(e)

Spec == Init /\ [][Next]_vars

-----------------------------------------------------------------------------
\* Between emits, the value that the device reads back is the one that its
\* consumers were sent last, unless publishing it failed: with one emitter per
\* property, the compare, the store and the publication do not drift apart.
StoredIsPublished ==
  \A n \in Properties \ Events :
    (\A e \in Emitters : emit[e].name # n) /\ n \notin failed
      => stored[n] = last[n]
=============================================================================

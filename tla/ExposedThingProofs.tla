------------------------- MODULE ExposedThingProofs -------------------------
(***************************************************************************)
(* Proofs about exposed things and their factory, for any number of        *)
(* things, handlers and goroutines, whatever the handlers call.            *)
(***************************************************************************)
EXTENDS ExposedThing, TLAPS

Func == Funcs \cup {NoFunc}
Table == [Kinds -> [Keys -> Func]]

CallSpace == [at : {"idle", "map", "lock", "wait"}, op : Ops,
              inst : Instances \cup Things \cup {None}, kind : Kinds,
              name : Keys, func : Func]
RequestSpace == [at : {"idle", "find", "invoke", "rlock", "running"},
                 inst : Instances \cup {None}, kind : Kinds, name : Keys, func : Func]

\* A handler is known for every name of a thing that has not been destroyed.
Tables == handlers \in [Instances -> Table \cup {Unborn, Destroyed}]

\* The calls under way, and the locks each holds: a call at "lock" or "wait" is
\* about an object, Destroy holds etMapMutex from there on, and at "wait" the
\* call holds or awaits handlerMutex.
CallsOK ==
  /\ call \in [Threads -> CallSpace]
  /\ \A t \in Threads :
       /\ call[t].at = "map" /\ call[t].op = "expose" => call[t].inst \in Things
       /\ call[t].at = "map" => call[t].op \in {"expose", "destroy"}
       /\ call[t].at # "idle" /\ call[t].op # "expose" =>
            call[t].inst \in Instances
       /\ call[t].at \in {"lock", "wait"} => call[t].op # "expose"
       /\ call[t].at \in {"lock", "wait"} /\ call[t].op = "destroy" => etMapMutex = t
       /\ call[t].at = "wait" => writer[call[t].inst] = t

LocksOK ==
  /\ etMapMutex \in Threads \cup {None}
  /\ writer \in [Instances -> Threads \cup {None}]
  /\ etMapMutex # None => call[etMapMutex].op = "destroy" /\ call[etMapMutex].at \in {"lock", "wait"}
  /\ \A i \in Instances : writer[i] # None =>
       call[writer[i]].at = "wait" /\ call[writer[i]].inst = i

\* The request that is being delivered.
RequestOK ==
  /\ request \in RequestSpace
  /\ request.at # "idle" => request.inst \in Instances
  /\ request.at \in {"find", "invoke"} => request.kind = "action"

\* The map holds things of their ID that are not destroyed, and the requests of
\* an ID go there, unless Destroy has just unsubscribed it.
MapOK ==
  /\ etMap \in [Things -> Instances \cup {None}]
  /\ route \in [Things -> Instances \cup {None}]
  /\ \A id \in Things :
       /\ etMap[id] # None => etMap[id][1] = id /\ Alive(etMap[id])
       /\ route[id] = IF etMapMutex # None /\ id = call[etMapMutex].inst[1]
                      THEN None ELSE etMap[id]

IInv ==
  /\ Tables
  /\ CallsOK
  /\ LocksOK
  /\ RequestOK
  /\ MapOK
  /\ WriteHandlerCurrent
  /\ crash \in BOOLEAN

LEMMA InitIInv == Init => IInv
<1> SUFFICES ASSUME Init PROVE IInv
  OBVIOUS
<1>1. Tables
  BY DEF Init, Tables
<1>2. NoCall \in CallSpace /\ NoCall.at = "idle"
  BY DEF NoCall, CallSpace, Ops, Kinds, Keys, Func
<1>3. CallsOK
  BY <1>2 DEF Init, CallsOK
<1>4. NoRequest \in RequestSpace /\ NoRequest.at = "idle"
  BY DEF NoRequest, RequestSpace, Kinds, Keys, Func
<1>5. RequestOK /\ WriteHandlerCurrent
  BY <1>4 DEF Init, RequestOK, WriteHandlerCurrent
<1>6. LocksOK
  BY DEF Init, LocksOK
<1>7. MapOK
  BY DEF Init, MapOK
<1> QED
  BY <1>1, <1>3, <1>5, <1>6, <1>7 DEF Init, IInv
-----------------------------------------------------------------------------
\* A thing whose handlers are a table is alive, and the handler chosen is one.
LEMMA AliveIsTable ==
  ASSUME Tables, NEW i \in Instances
  PROVE  /\ Alive(i) <=> handlers[i] \in Table
         /\ \A k \in Kinds, n \in Keys : Chosen(i, k, n) \in Func
<1>1. Unborn \notin Table /\ Destroyed \notin Table
  BY ExposedAssumption DEF Table, Func
<1>2. Alive(i) <=> handlers[i] \in Table
  BY <1>1 DEF Tables, Alive
<1>3. \A k \in Kinds, n \in Keys : Chosen(i, k, n) \in Func
  BY <1>2 DEF Chosen, Table, Func, Keys
<1> QED
  BY <1>2, <1>3

LEMMA InstanceIds == \A i \in Instances : i[1] \in Things /\ i # None
  BY ExposedAssumption DEF Instances

LEMMA NoCallForm ==
  /\ NoCall \in CallSpace /\ NoCall.at = "idle"
  /\ NoRequest \in RequestSpace /\ NoRequest.at = "idle"
  BY DEF NoCall, NoRequest, CallSpace, RequestSpace, Ops, Kinds, Keys, Func

\* A goroutine starts a call, or goes on in one without taking or releasing a lock.
LEMMA StartIInv ==
  ASSUME IInv, NEW t \in Threads, call[t].at = "idle", NEW c \in CallSpace,
         call' = [call EXCEPT ![t] = c],
         \/ c.at = "map" /\ c.op = "expose" /\ c.inst \in Things
         \/ c.at = "map" /\ c.op = "destroy" /\ c.inst \in Instances
         \/ c.at = "lock" /\ c.op = "set" /\ c.inst \in Instances,
         UNCHANGED <<etMap, etMapMutex, route, handlers, writer, request, crash>>
  PROVE  IInv'
<1>1. call'[t] = c /\ \A u \in Threads : u # t => call'[u] = call[u]
  BY DEF IInv, CallsOK
<1>2. etMapMutex # t /\ \A i \in Instances : writer[i] # t
  <2>1. t # None
    BY ExposedAssumption
  <2> QED
    BY <2>1 DEF IInv, LocksOK
<1>3. CallsOK'
  <2>1. call' \in [Threads -> CallSpace]
    BY DEF IInv, CallsOK
  <2> QED
    BY <1>1, <2>1 DEF IInv, CallsOK
<1>4. LocksOK'
  BY <1>1, <1>2 DEF IInv, LocksOK
<1>5. MapOK'
  BY <1>1, <1>2 DEF IInv, LocksOK, MapOK, Alive
<1>6. Tables' /\ RequestOK' /\ WriteHandlerCurrent'
  BY DEF IInv, Tables, RequestOK, WriteHandlerCurrent, Alive, Chosen
<1> QED
  BY <1>3, <1>4, <1>5, <1>6 DEF IInv

LEMMA CallIInv ==
  ASSUME IInv, NEW t \in Threads,
         \/ \E id \in Things : CallExpose(t, id)
         \/ \E i \in Instances : CallDestroy(t, i)
         \/ \E i \in Instances, k \in Kinds, n \in Keys, f \in Funcs : CallSet(t, i, k, n, f)
  PROVE  IInv'
<1>1. ASSUME NEW op \in {"expose", "destroy"}, NEW i \in Things \cup Instances,
             i \in IF op = "expose" THEN Things ELSE Instances, MayCall(t, op),
             call' = [call EXCEPT ![t] = [NoCall EXCEPT !.at = "map", !.op = op, !.inst = i]],
             UNCHANGED <<etMap, etMapMutex, route, handlers, writer, request, crash>>
      PROVE  IInv'
  <2> DEFINE c == [NoCall EXCEPT !.at = "map", !.op = op, !.inst = i]
  <2>1. c \in CallSpace
    BY DEF NoCall, CallSpace, Ops, Kinds, Keys, Func
  <2>2. c.at = "map" /\ c.op = op /\ c.inst = i /\ call[t].at = "idle"
    BY <1>1 DEF NoCall, MayCall
  <2>3. call' = [call EXCEPT ![t] = c]
    BY <1>1
  <2> HIDE DEF c
  <2> QED
    BY <1>1, <2>1, <2>2, <2>3, StartIInv
<1>2. ASSUME NEW i \in Instances, NEW k \in Kinds, NEW n \in Keys, NEW f \in Funcs,
             CallSet(t, i, k, n, f)
      PROVE  IInv'
  <2> DEFINE c == [at |-> "lock", op |-> "set", inst |-> i, kind |-> k, name |-> n, func |-> f]
  <2>1. c \in CallSpace
    BY DEF CallSpace, Ops, Func
  <2>2. c.at = "lock" /\ c.op = "set" /\ c.inst = i /\ call[t].at = "idle"
    BY <1>2 DEF CallSet, MayCall
  <2>3. call' = [call EXCEPT ![t] = c]
    BY <1>2 DEF CallSet
  <2> HIDE DEF c
  <2> QED
    BY <1>2, <2>1, <2>2, <2>3, StartIInv DEF CallSet
<1>3. CASE \E id \in Things : CallExpose(t, id)
  <2>1. PICK id \in Things : CallExpose(t, id)
    BY <1>3
  <2> QED
    BY <2>1, <1>1 DEF CallExpose
<1>4. CASE \E i \in Instances : CallDestroy(t, i)
  <2>1. PICK i \in Instances : CallDestroy(t, i)
    BY <1>4
  <2> QED
    BY <2>1, <1>1 DEF CallDestroy
<1> QED
  BY <1>2, <1>3, <1>4

LEMMA GotoForm ==
  ASSUME call \in [Threads -> CallSpace], NEW t \in Threads, NEW step \in {"lock", "wait"},
         Goto(t, step)
  PROVE  /\ call' \in [Threads -> CallSpace]
         /\ call'[t].at = step
         /\ call'[t].op = call[t].op /\ call'[t].inst = call[t].inst
         /\ \A u \in Threads : u # t => call'[u] = call[u]
<1>1. call'[t] = [call[t] EXCEPT !.at = step] /\ call[t] \in CallSpace
  BY DEF Goto
<1>2. /\ call'[t] \in CallSpace /\ call'[t].at = step
      /\ call'[t].op = call[t].op /\ call'[t].inst = call[t].inst
  BY <1>1 DEF CallSpace
<1> QED
  BY <1>2 DEF Goto

LEMMA ReturnForm ==
  ASSUME call \in [Threads -> CallSpace], NEW t \in Threads, Return(t)
  PROVE  /\ call' \in [Threads -> CallSpace]
         /\ call'[t].at = "idle"
         /\ \A u \in Threads : u # t => call'[u] = call[u]
  BY NoCallForm DEF Return

\* Expose, all of it under etMapMutex.
LEMMA ExposeIInv ==
  ASSUME IInv, NEW t \in Threads, Expose(t) PROVE IInv'
<1>1. /\ call \in [Threads -> CallSpace] /\ call[t].at = "map" /\ call[t].op = "expose"
      /\ call[t].inst \in Things /\ etMapMutex = None /\ Return(t)
      /\ UNCHANGED <<etMapMutex, writer, request, crash>>
  BY DEF Expose, IInv, CallsOK
<1>2. /\ call' \in [Threads -> CallSpace] /\ call'[t].at = "idle"
      /\ \A u \in Threads : u # t => call'[u] = call[u]
  BY <1>1, ReturnForm
<1>3. \A i \in Instances : writer[i] # t
  BY <1>1, ExposedAssumption DEF IInv, LocksOK
<1>4. CallsOK' /\ LocksOK' /\ RequestOK'
  BY <1>1, <1>2, <1>3 DEF IInv, CallsOK, LocksOK, RequestOK
<1>5. CASE UNCHANGED <<etMap, route, handlers>>
  BY <1>1, <1>4, <1>5 DEF IInv, Tables, MapOK, WriteHandlerCurrent, Alive, Chosen
<1>6. ASSUME NEW i \in Instances, i[1] = call[t].inst, handlers[i] = Unborn,
             etMap' = [etMap EXCEPT ![call[t].inst] = i],
             route' = [route EXCEPT ![call[t].inst] = i],
             handlers' = [handlers EXCEPT ![i] = NoHandlers]
      PROVE  IInv'
  <2>1. NoHandlers \in Table
    BY DEF NoHandlers, Table, Func
  <2>2. /\ Tables' /\ handlers'[i] = NoHandlers
        /\ \A j \in Instances : j # i => handlers'[j] = handlers[j]
    BY <1>6, <2>1 DEF IInv, Tables
  <2>3. Alive(i)'
    BY <2>1, <2>2, ExposedAssumption DEF Alive, Table, Func
  <2>4. \A j \in Instances : Alive(j) => j # i /\ Alive(j)'
    BY <1>6, <2>2 DEF Alive
  <2>5. MapOK'
    BY <1>1, <1>6, <2>3, <2>4, InstanceIds DEF IInv, MapOK
  <2>6. WriteHandlerCurrent'
    BY <1>1, <2>2, <2>4 DEF IInv, RequestOK, WriteHandlerCurrent, Chosen
  <2> QED
    BY <1>1, <1>4, <2>2, <2>5, <2>6 DEF IInv
<1> QED
  BY <1>5, <1>6 DEF Expose

\* Destroy takes etMapMutex and unsubscribes the thing ID.
LEMMA DestroyBindingIInv ==
  ASSUME IInv, NEW t \in Threads, DestroyBinding(t) PROVE IInv'
<1>1. /\ call \in [Threads -> CallSpace] /\ call[t].at = "map" /\ call[t].op = "destroy"
      /\ call[t].inst \in Instances /\ call[t].inst[1] \in Things
      /\ etMapMutex = None /\ etMapMutex' = t
      /\ route' = [route EXCEPT ![call[t].inst[1]] = None]
      /\ UNCHANGED <<etMap, handlers, writer, request, crash>>
  BY InstanceIds DEF DestroyBinding, IInv, CallsOK
<1>2. /\ call' \in [Threads -> CallSpace] /\ call'[t].at = "lock"
      /\ call'[t].op = "destroy" /\ call'[t].inst = call[t].inst
      /\ \A u \in Threads : u # t => call'[u] = call[u]
  BY <1>1, GotoForm DEF DestroyBinding
<1>3. t # None /\ None \notin Threads /\ \A i \in Instances : writer[i] # t
  BY <1>1, ExposedAssumption DEF IInv, LocksOK
<1>4. CallsOK'
  BY <1>1, <1>2, <1>3 DEF IInv, CallsOK
<1>5. LocksOK'
  BY <1>1, <1>2, <1>3 DEF IInv, LocksOK
<1>6. MapOK'
  BY <1>1, <1>2, <1>3 DEF IInv, MapOK, Alive
<1>7. Tables' /\ RequestOK' /\ WriteHandlerCurrent'
  BY <1>1 DEF IInv, Tables, RequestOK, WriteHandlerCurrent, Alive, Chosen
<1> QED
  BY <1>1, <1>4, <1>5, <1>6, <1>7 DEF IInv

\* A call excludes other writers of handlerMutex, and new readers.
LEMMA WriterLockIInv ==
  ASSUME IInv, NEW t \in Threads, WriterLock(t) PROVE IInv'
<1>1. /\ call \in [Threads -> CallSpace] /\ call[t].at = "lock" /\ call[t].op # "expose"
      /\ call[t].inst \in Instances /\ writer[call[t].inst] = None
      /\ writer' = [writer EXCEPT ![call[t].inst] = t]
      /\ UNCHANGED <<etMap, etMapMutex, route, handlers, request, crash>>
  BY DEF WriterLock, IInv, CallsOK
<1>2. /\ call' \in [Threads -> CallSpace] /\ call'[t].at = "wait"
      /\ call'[t].op = call[t].op /\ call'[t].inst = call[t].inst
      /\ \A u \in Threads : u # t => call'[u] = call[u]
  BY <1>1, GotoForm DEF WriterLock
<1>3. t # None /\ None \notin Threads /\ \A i \in Instances : writer[i] # t
  BY <1>1, ExposedAssumption DEF IInv, LocksOK
<1>4. /\ writer' \in [Instances -> Threads \cup {None}]
      /\ writer'[call[t].inst] = t
      /\ \A i \in Instances : i # call[t].inst => writer'[i] = writer[i]
  BY <1>1 DEF IInv, LocksOK
<1>5. CallsOK'
  BY <1>1, <1>2, <1>3, <1>4 DEF IInv, CallsOK
<1>6. LocksOK'
  BY <1>1, <1>2, <1>3, <1>4 DEF IInv, LocksOK
<1>7. \A u \in Threads : call'[u].inst = call[u].inst
  BY <1>2
<1>8. MapOK'
  BY <1>1, <1>7 DEF IInv, LocksOK, MapOK, Alive
<1>9. Tables' /\ RequestOK' /\ WriteHandlerCurrent'
  BY <1>1 DEF IInv, Tables, RequestOK, WriteHandlerCurrent, Alive, Chosen
<1> QED
  BY <1>1, <1>5, <1>6, <1>8, <1>9 DEF IInv

\* While a property write handler runs, its thing is not changed.
LEMMA WriteHandlerKept ==
  ASSUME WriteHandlerCurrent, NEW i \in Instances, ~ReadHeld(i), UNCHANGED request,
         \A j \in Instances : j # i => handlers'[j] = handlers[j],
         request.at # "idle" => request.inst \in Instances
  PROVE  WriteHandlerCurrent'
<1> SUFFICES ASSUME request.at = "running", request.kind = "write"
             PROVE  /\ Alive(request.inst)'
                    /\ request.func = Chosen(request.inst, "write", request.name)'
  BY DEF WriteHandlerCurrent
<1>1. request.inst \in Instances /\ request.inst # i
  BY DEF ReadHeld
<1> QED
  BY <1>1 DEF WriteHandlerCurrent, Alive, Chosen

\* Destroy takes the handlers away, forgets the thing and releases both locks.
LEMMA DestroyThingIInv ==
  ASSUME IInv, NEW t \in Threads, DestroyThing(t) PROVE IInv'
<1> DEFINE i == call[t].inst
<1>1. /\ call \in [Threads -> CallSpace] /\ call[t].at = "wait" /\ call[t].op = "destroy"
      /\ i \in Instances /\ i[1] \in Things
      /\ etMapMutex = t /\ etMapMutex' = None /\ writer[i] = t
      /\ ~ReadHeld(i) /\ Return(t)
      /\ handlers' = [handlers EXCEPT ![i] = Destroyed]
      /\ writer' = [writer EXCEPT ![i] = None]
      /\ etMap' = [etMap EXCEPT ![i[1]] = None]
      /\ UNCHANGED <<route, request, crash>>
  BY InstanceIds DEF DestroyThing, WUnlock, MapUnlock, IInv, CallsOK
<1>2. /\ call' \in [Threads -> CallSpace] /\ call'[t].at = "idle"
      /\ \A u \in Threads : u # t => call'[u] = call[u]
  BY <1>1, ReturnForm
<1>3. t # None /\ None \notin Threads /\ \A j \in Instances : j # i => writer[j] # t
  BY <1>1, ExposedAssumption DEF IInv, LocksOK
<1>4. /\ writer' \in [Instances -> Threads \cup {None}] /\ writer'[i] = None
      /\ \A j \in Instances : j # i => writer'[j] = writer[j]
  BY <1>1 DEF IInv, LocksOK
<1>5. /\ Tables'
      /\ \A j \in Instances : j # i => handlers'[j] = handlers[j]
  BY <1>1 DEF IInv, Tables
<1>6. CallsOK'
  <2>1. \A u \in Threads : u # t /\ call[u].at = "wait" => call[u].inst # i
    BY <1>1 DEF IInv, CallsOK
  <2> QED
    BY <1>1, <1>2, <1>3, <1>4, <2>1 DEF IInv, CallsOK
<1>7. LocksOK'
  BY <1>1, <1>2, <1>3, <1>4 DEF IInv, LocksOK
<1>8. MapOK'
  <2>1. /\ etMap' \in [Things -> Instances \cup {None}] /\ etMap'[i[1]] = None
        /\ \A id \in Things : id # i[1] => etMap'[id] = etMap[id]
    BY <1>1 DEF IInv, MapOK
  <2>2. ASSUME NEW id \in Things, etMap'[id] # None
        PROVE  etMap'[id][1] = id /\ Alive(etMap[id]) /\ etMap[id] # i /\ etMap'[id] = etMap[id]
    BY <1>1, <2>1, <2>2 DEF IInv, MapOK
  <2>3. \A id \in Things : route'[id] = etMap'[id]
    BY <1>1, <1>3, <2>1 DEF IInv, MapOK
  <2> QED
    BY <1>1, <1>5, <2>1, <2>2, <2>3 DEF IInv, MapOK, Alive
<1>9. RequestOK' /\ WriteHandlerCurrent'
  BY <1>1, <1>5, WriteHandlerKept DEF IInv, RequestOK
<1> QED
  BY <1>1, <1>5, <1>6, <1>7, <1>8, <1>9 DEF IInv

\* Set...Handler replaces one handler, or panics on a destroyed thing.
LEMMA SetHandlerIInv ==
  ASSUME IInv, NEW t \in Threads, SetHandler(t) PROVE IInv'
<1> DEFINE c == call[t]
<1>1. /\ call \in [Threads -> CallSpace] /\ c.at = "wait" /\ c.op = "set"
      /\ c \in CallSpace /\ c.inst \in Instances /\ writer[c.inst] = t
      /\ ~ReadHeld(c.inst)
      /\ UNCHANGED <<etMap, etMapMutex, route, request>>
  BY DEF SetHandler, IInv, CallsOK
<1>2. CASE crash' = TRUE /\ UNCHANGED <<handlers, writer, call>>
  BY <1>1, <1>2 DEF IInv, Tables, CallsOK, LocksOK, RequestOK, MapOK, WriteHandlerCurrent, Alive, Chosen
<1>3. CASE /\ Alive(c.inst)
           /\ handlers' = [handlers EXCEPT ![c.inst][c.kind][c.name] = c.func]
           /\ WUnlock(c.inst)
           /\ Return(t)
           /\ UNCHANGED crash
  <2>1. /\ call' \in [Threads -> CallSpace] /\ call'[t].at = "idle"
        /\ \A u \in Threads : u # t => call'[u] = call[u]
    BY <1>1, <1>3, ReturnForm
  <2>2. t # None /\ None \notin Threads /\ etMapMutex # t
        /\ \A j \in Instances : j # c.inst => writer[j] # t
    BY <1>1, ExposedAssumption DEF IInv, LocksOK
  <2>3. /\ writer' \in [Instances -> Threads \cup {None}] /\ writer'[c.inst] = None
        /\ \A j \in Instances : j # c.inst => writer'[j] = writer[j]
    BY <1>1, <1>3 DEF IInv, LocksOK, WUnlock
  <2>4. /\ handlers[c.inst] \in Table
        /\ c.kind \in Kinds /\ c.name \in Keys /\ c.func \in Func
    BY <1>1, <1>3, AliveIsTable DEF IInv, CallSpace
  <2>5. /\ handlers'[c.inst] = [handlers[c.inst] EXCEPT ![c.kind][c.name] = c.func]
        /\ \A j \in Instances : j # c.inst => handlers'[j] = handlers[j]
        /\ DOMAIN handlers' = Instances /\ handlers' = [j \in Instances |-> handlers'[j]]
    BY <1>1, <1>3 DEF IInv, Tables
  <2>6. handlers'[c.inst] \in Table
    BY <2>4, <2>5 DEF Table
  <2>7. Tables'
    BY <2>5, <2>6 DEF IInv, Tables
  <2>8. \A j \in Instances : Alive(j) => Alive(j)'
    <3>1. handlers'[c.inst] \notin {Unborn, Destroyed}
      BY <2>6, ExposedAssumption DEF Table, Func
    <3> QED
      BY <2>5, <3>1 DEF Alive
  <2>9. CallsOK'
    <3>1. \A u \in Threads : u # t /\ call[u].at = "wait" => call[u].inst # c.inst
      BY <1>1 DEF IInv, CallsOK
    <3> QED
      BY <1>1, <2>1, <2>2, <2>3, <3>1 DEF IInv, CallsOK
  <2>10. LocksOK'
    BY <1>1, <2>1, <2>2, <2>3 DEF IInv, LocksOK
  <2>11. MapOK'
    <3>1. etMapMutex # None => call'[etMapMutex] = call[etMapMutex]
      BY <2>1, <2>2 DEF IInv, LocksOK
    <3> QED
      BY <1>1, <2>8, <3>1 DEF IInv, MapOK
  <2>12. RequestOK' /\ WriteHandlerCurrent'
    BY <1>1, <2>5, WriteHandlerKept DEF IInv, RequestOK
  <2> QED
    BY <1>3, <2>7, <2>9, <2>10, <2>11, <2>12 DEF IInv
<1> QED
  BY <1>2, <1>3 DEF SetHandler

\* The request's own steps.
LEMMA RequestIInv ==
  ASSUME IInv,
         \/ \E id \in Things, k \in Kinds, n \in Names : Receive(id, k, n)
         \/ BusStep
         \/ MapRace
  PROVE  IInv'
<1>1. ASSUME UNCHANGED <<etMap, etMapMutex, route, handlers, writer, call>>,
             request' \in RequestSpace, request'.at # "idle" => request'.inst \in Instances,
             request'.at \in {"find", "invoke"} => request'.kind = "action",
             request'.at = "running" /\ request'.kind = "write" =>
               /\ Alive(request'.inst)
               /\ request'.func = Chosen(request'.inst, "write", request'.name),
             crash' \in BOOLEAN
      PROVE  IInv'
  <2>1. Tables' /\ CallsOK' /\ LocksOK' /\ MapOK'
    BY <1>1 DEF IInv, Tables, CallsOK, LocksOK, MapOK, Alive
  <2>2. RequestOK' /\ WriteHandlerCurrent'
    BY <1>1 DEF RequestOK, WriteHandlerCurrent, Alive, Chosen
  <2> QED
    BY <1>1, <2>1, <2>2 DEF IInv
<1>2. request \in RequestSpace /\ crash \in BOOLEAN
  BY DEF IInv, RequestOK
<1>3. ASSUME NEW id \in Things, NEW k \in Kinds, NEW n \in Names, Receive(id, k, n) PROVE IInv'
  <2>1. route[id] \in Instances
    BY <1>3 DEF Receive, IInv, MapOK
  <2>2. request' \in RequestSpace
    BY <1>3, <2>1 DEF Receive, RequestSpace, Keys, Func
  <2>3. /\ request'.at # "running" /\ request'.inst \in Instances
        /\ request'.at = "find" => request'.kind = "action"
        /\ request'.at # "invoke"
    BY <1>3, <2>1 DEF Receive
  <2> QED
    BY <1>1, <1>2, <1>3, <2>2, <2>3 DEF Receive
<1>4. CASE FindActionHandler
  <2>1. CASE request' = NoRequest
    BY <1>1, <1>2, <1>4, <2>1, NoCallForm DEF FindActionHandler
  <2>2. CASE request' = [request EXCEPT !.at = "invoke",
                                        !.func = Chosen(request.inst, "action", request.name)]
    <3>1. Chosen(request.inst, "action", request.name) \in Func
      BY <1>2, <1>4, AliveIsTable DEF FindActionHandler, IInv, RequestOK, RequestSpace, Kinds
    <3>2. /\ request' \in RequestSpace /\ request'.at = "invoke"
          /\ request'.inst = request.inst /\ request'.kind = request.kind
      BY <1>2, <2>2, <3>1 DEF RequestSpace
    <3> QED
      BY <1>1, <1>2, <1>4, <3>2 DEF FindActionHandler, IInv, RequestOK
  <2> QED
    BY <1>4, <2>1, <2>2 DEF FindActionHandler
<1>5. CASE InvokeActionHandler
  <2>1. /\ request.at = "invoke"
        /\ request' = [request EXCEPT !.at = "running", !.func = request.func]
    BY <1>5 DEF InvokeActionHandler, Run
  <2>2. /\ request' \in RequestSpace /\ request'.at = "running"
        /\ request'.inst = request.inst /\ request'.kind = request.kind
    BY <1>2, <2>1 DEF RequestSpace
  <2>3. request.kind = "action" /\ request.inst \in Instances
    BY <2>1 DEF IInv, RequestOK
  <2> QED
    BY <1>1, <1>2, <1>5, <2>2, <2>3 DEF InvokeActionHandler
<1>6. CASE HandleWrite
  <2>1. CASE request' = NoRequest
    BY <1>1, <1>2, <1>6, <2>1, NoCallForm DEF HandleWrite
  <2>2. CASE /\ Chosen(request.inst, "write", request.name) # NoFunc
             /\ Run(Chosen(request.inst, "write", request.name))
    <3>1. /\ Chosen(request.inst, "write", request.name) \in Func /\ request.inst \in Instances
          /\ Alive(request.inst)
      BY <1>2, <1>6, <2>2, AliveIsTable
      DEF HandleWrite, IInv, RequestOK, RequestSpace, Kinds, Chosen
    <3>2. request' = [request EXCEPT !.at = "running",
                                     !.func = Chosen(request.inst, "write", request.name)]
      BY <2>2 DEF Run
    <3>3. /\ request' \in RequestSpace /\ request'.at = "running" /\ request'.inst = request.inst
          /\ request'.name = request.name
          /\ request'.func = Chosen(request.inst, "write", request.name)
      BY <1>2, <3>1, <3>2 DEF RequestSpace
    <3> QED
      BY <1>1, <1>2, <1>6, <3>1, <3>3 DEF HandleWrite
  <2> QED
    BY <1>6, <2>1, <2>2 DEF HandleWrite
<1>7. CASE HandlerReturns
  BY <1>1, <1>2, <1>7, NoCallForm DEF HandlerReturns
<1>8. CASE MapRace
  <2>1. UNCHANGED request /\ crash' = TRUE
    BY <1>8 DEF MapRace
  <2> QED
    BY <1>1, <1>2, <1>8, <2>1 DEF MapRace, IInv, RequestOK, WriteHandlerCurrent
<1> QED
  BY <1>3, <1>4, <1>5, <1>6, <1>7, <1>8 DEF BusStep

-----------------------------------------------------------------------------
\* Map, subscriptions, locks, calls and the request being delivered agree, at
\* every step of Expose, Destroy, Set...Handler and the handling of requests.
THEOREM Invariance == Spec => []IInv
<1>1. IInv /\ [Next]_vars => IInv'
  <2> SUFFICES ASSUME IInv, [Next]_vars PROVE IInv'
    OBVIOUS
  <2>1. CASE UNCHANGED vars
    BY <2>1 DEF vars, IInv, Tables, CallsOK, LocksOK, RequestOK, MapOK, WriteHandlerCurrent,
                Alive, Chosen
  <2>2. ASSUME NEW t \in Threads, CallStep(t) PROVE IInv'
    BY <2>2, ExposeIInv, DestroyBindingIInv, WriterLockIInv, DestroyThingIInv, SetHandlerIInv
    DEF CallStep
  <2>3. CASE Next
    BY <2>2, <2>3, CallIInv, RequestIInv DEF Next
  <2> QED
    BY <2>1, <2>3
<1> QED
  BY <1>1, InitIInv, PTL DEF Spec

\* Every variable of ExposedThing keeps its type.
THEOREM TypeCorrect == Spec => []TypeOK
<1>1. IInv => TypeOK
  BY DEF IInv, Tables, CallsOK, LocksOK, RequestOK, MapOK, TypeOK,
         Table, Func, CallSpace, RequestSpace
<1> QED
  BY <1>1, Invariance, PTL

\* handlePropertyWriteRequest runs the handler that is registered, on a thing
\* that is not destroyed, as long as it runs (ExposedThing.go, handlerMutex).
THEOREM WriteHandlersCurrent == Spec => []WriteHandlerCurrent
<1>1. IInv => WriteHandlerCurrent
  BY DEF IInv
<1> QED
  BY <1>1, Invariance, PTL

\* While etMapMutex is free, requests go to the thing that Expose returns, which
\* is not destroyed (ExposedThingFactory.go, Expose and Destroy).
THEOREM MapServes == Spec => []FactoryConsistent
<1>1. IInv => FactoryConsistent
  BY DEF IInv, MapOK, FactoryConsistent
<1> QED
  BY <1>1, Invariance, PTL

\* No lock is left behind by a call of Destroy or Set...Handler that returned.
THEOREM LocksHaveOwners == Spec => []LocksOwned
<1>1. IInv => LocksOwned
  BY DEF IInv, LocksOK, LocksOwned
<1> QED
  BY <1>1, Invariance, PTL

=============================================================================

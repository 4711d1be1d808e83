---------------------------- MODULE ExposedThing ----------------------------
(***************************************************************************)
(* Exposed things: src/pkg/exposedthing, the factory that creates and      *)
(* destroys them, their request handlers, and the goroutine of the message *)
(* bus client that delivers action and property write requests to them.    *)
(*                                                                         *)
(* Two locks matter: the factory's etMapMutex and each thing's             *)
(* handlerMutex, an RWMutex that a write request holds for reading while   *)
(* the device's handler runs.  A handler is device code and may call back  *)
(* into the factory or the thing (HandlerCalls).                           *)
(***************************************************************************)
EXTENDS Naturals

CONSTANTS
  Things,         \* thing IDs
  MaxInstances,   \* how often a thing is exposed anew; a bound
  Names,          \* action and property names
  Default,        \* the name "" of the default handler
  Funcs,          \* handler functions
  Apps,           \* application goroutines
  Bus,            \* the goroutine that delivers messages, one at a time
  HandlerCalls,   \* HandlerCalls[k]: the API functions used by handlers of kind k
  NoFunc, Unborn, Destroyed, None   \* absent values

Kinds   == {"action", "write"}
Ops     == {"expose", "destroy", "set"}
Threads == Apps \cup {Bus}
Instances == Things \X (1..MaxInstances)   \* ExposedThing objects
Keys    == Names \cup {Default}

ASSUME ExposedAssumption ==
  /\ Bus \notin Apps
  /\ HandlerCalls \in [Kinds -> SUBSET Ops]
  /\ NoFunc \notin Funcs
  /\ None \notin Instances \cup Threads
  /\ Default \notin Names
  /\ Unborn # Destroyed
  /\ {Unborn, Destroyed} \cap [Kinds -> [Keys -> Funcs \cup {NoFunc}]] = {}

VARIABLES
  etMap,        \* exposed thing by thing ID, with its binding
  etMapMutex,   \* the goroutine holding etMapMutex, or None
  route,        \* the thing whose binding receives the requests of a thing ID
  handlers,     \* per thing: Unborn, Destroyed, or handlers per kind and name
  writer,       \* the goroutine that holds or awaits handlerMutex for writing
  request,      \* the request that Bus is delivering
  call,         \* the API call that each goroutine is in
  crash         \* the process has panicked

vars == <<etMap, etMapMutex, route, handlers, writer, request, call, crash>>

NilHandlers == [k \in {} |-> NoFunc]   \* defect: the maps are left nil
NoHandlers == [k \in Kinds |-> [n \in Keys |-> NoFunc]]
NoRequest  == [at |-> "idle", inst |-> None, kind |-> "action", name |-> Default,
               func |-> NoFunc]
NoCall     == [at |-> "idle", op |-> "set", inst |-> None, kind |-> "action",
               name |-> Default, func |-> NoFunc]

TypeOK ==
  /\ etMap \in [Things -> Instances \cup {None}]
  /\ etMapMutex \in Threads \cup {None}
  /\ route \in [Things -> Instances \cup {None}]
  /\ handlers \in [Instances -> [Kinds -> [Keys -> Funcs \cup {NoFunc}]]
                                \cup {Unborn, Destroyed}]
  /\ writer \in [Instances -> Threads \cup {None}]
  /\ request \in [at : {"idle", "find", "invoke", "rlock", "running"},
                  inst : Instances \cup {None}, kind : Kinds, name : Keys,
                  func : Funcs \cup {NoFunc}]
  /\ call \in [Threads -> [at : {"idle", "map", "lock", "wait"}, op : Ops,
                           inst : Instances \cup Things \cup {None}, kind : Kinds,
                           name : Keys, func : Funcs \cup {NoFunc}]]
  /\ crash \in BOOLEAN

Init ==
  /\ etMap = [id \in Things |-> None]
  /\ etMapMutex = None
  /\ route = [id \in Things |-> None]
  /\ handlers = [i \in Instances |-> Unborn]
  /\ writer = [i \in Instances |-> None]
  /\ request = NoRequest
  /\ call = [t \in Threads |-> NoCall]
  /\ crash = FALSE

-----------------------------------------------------------------------------
Alive(i) == handlers[i] \notin {Unborn, Destroyed}

\* Defect: a property write does not take handlerMutex.
NoReadLock(i) == FALSE
\* handlerMutex is held for reading: only Bus ever does, around a write handler.
ReadHeld(i) ==
  request.at = "running" /\ request.kind = "write" /\ request.inst = i

\* The handler for name n, or else the default one; a nil map has none.
Chosen(i, k, n) ==
  IF ~Alive(i) THEN NoFunc
  ELSE IF handlers[i][k][n] # NoFunc THEN handlers[i][k][n] ELSE handlers[i][k][Default]

\* A goroutine that may start an API call: an application's, or Bus inside a
\* handler that makes such calls.
MayCall(t, op) ==
  /\ call[t].at = "idle"
  /\ t = Bus => request.at = "running" /\ op \in HandlerCalls[request.kind]

NoWUnlock(i) == UNCHANGED writer         \* defect: handlerMutex stays locked
WUnlock(i) == writer' = [writer EXCEPT ![i] = None]
NoMapUnlock == UNCHANGED etMapMutex      \* defect: etMapMutex stays locked
MapUnlock == etMapMutex' = None

Goto(t, step) == call' = [call EXCEPT ![t].at = step]
Return(t) == call' = [call EXCEPT ![t] = NoCall]

(* Expose, Destroy and Set...Handler are called; a call waits at "map" for  *)
(* etMapMutex, at "lock" for other writers of handlerMutex and at "wait"    *)
(* for its reader.                                                          *)
CallExpose(t, id) ==
  /\ MayCall(t, "expose")
  /\ call' = [call EXCEPT ![t] = [NoCall EXCEPT !.at = "map", !.op = "expose",
                                                !.inst = id]]
  /\ UNCHANGED <<etMap, etMapMutex, route, handlers, writer, request, crash>>

CallDestroy(t, i) ==
  /\ MayCall(t, "destroy")
  /\ handlers[i] # Unborn
  /\ call' = [call EXCEPT ![t] = [NoCall EXCEPT !.at = "map", !.op = "destroy",
                                                !.inst = i]]
  /\ UNCHANGED <<etMap, etMapMutex, route, handlers, writer, request, crash>>

CallSet(t, i, k, n, f) ==
  /\ MayCall(t, "set")
  /\ handlers[i] # Unborn
  /\ call' = [call EXCEPT ![t] = [at |-> "lock", op |-> "set", inst |-> i,
                                  kind |-> k, name |-> n, func |-> f]]
  /\ UNCHANGED <<etMap, etMapMutex, route, handlers, writer, request, crash>>

\* Expose returns the thing that exists; else it creates one with its binding,
\* whose Start subscribes to the thing's requests.
Expose(t) ==
  /\ call[t].at = "map" /\ call[t].op = "expose"
  /\ etMapMutex = None
  /\ LET id == call[t].inst
         new == {i \in Instances : i[1] = id /\ handlers[i] = Unborn}
     IN \/ /\ etMap[id] # None
           /\ UNCHANGED <<etMap, route, handlers>>
        \/ /\ etMap[id] = None
           /\ \E i \in new :
                /\ \A j \in new : i[2] <= j[2]
                /\ etMap' = [etMap EXCEPT ![id] = i]
                /\ route' = [route EXCEPT ![id] = i]
                /\ handlers' = [handlers EXCEPT ![i] = NoHandlers]
        \/ /\ etMap[id] = None /\ new = {}   \* the bound: nothing is exposed
           /\ UNCHANGED <<etMap, route, handlers>>
  /\ Return(t)
  /\ UNCHANGED <<etMapMutex, writer, request, crash>>

\* Destroy stops the binding of the thing's ID, then waits for handlerMutex
\* with etMapMutex locked.
DestroyBinding(t) ==
  /\ call[t].at = "map" /\ call[t].op = "destroy"
  /\ etMapMutex = None
  /\ etMapMutex' = t
  /\ LET id == call[t].inst[1]
     IN route' = [route EXCEPT ![id] = None]
  /\ Goto(t, "lock")
  /\ UNCHANGED <<etMap, handlers, writer, request, crash>>

\* Defect: the destroyed thing stays in the factory's map.
DestroyKeepsEntry(t) ==
  /\ call[t].at = "wait" /\ call[t].op = "destroy"
  /\ ~ReadHeld(call[t].inst)
  /\ handlers' = [handlers EXCEPT ![call[t].inst] = Destroyed]
  /\ WUnlock(call[t].inst)
  /\ MapUnlock
  /\ Return(t)
  /\ UNCHANGED <<etMap, route, request, crash>>

\* Holding both locks, Destroy takes the handlers away and forgets the thing.
DestroyThing(t) ==
  /\ call[t].at = "wait" /\ call[t].op = "destroy"
  /\ LET i == call[t].inst
     IN /\ ~ReadHeld(i)
        /\ handlers' = [handlers EXCEPT ![i] = Destroyed]
        /\ WUnlock(i)
        /\ etMap' = [etMap EXCEPT ![i[1]] = None]
  /\ MapUnlock
  /\ Return(t)
  /\ UNCHANGED <<route, request, crash>>

\* handlerMutex.Lock first excludes other writers, and from then on new readers.
WriterLock(t) ==
  /\ call[t].at = "lock"
  /\ writer[call[t].inst] = None
  /\ writer' = [writer EXCEPT ![call[t].inst] = t]
  /\ Goto(t, "wait")
  /\ UNCHANGED <<etMap, etMapMutex, route, handlers, request, crash>>

\* Setting a handler of a destroyed thing assigns to a nil map, which panics.
SetHandler(t) ==
  /\ call[t].at = "wait" /\ call[t].op = "set"
  /\ LET c == call[t]
     IN /\ ~ReadHeld(c.inst)
        /\ IF Alive(c.inst)
           THEN /\ handlers' = [handlers EXCEPT ![c.inst][c.kind][c.name] = c.func]
                /\ WUnlock(c.inst)
                /\ Return(t)
                /\ UNCHANGED crash
           ELSE /\ crash' = TRUE
                /\ UNCHANGED <<handlers, writer, call>>
  /\ UNCHANGED <<etMap, etMapMutex, route, request>>

-----------------------------------------------------------------------------
(* Bus delivers a request: an action for the actions in the TD, anything   *)
(* else is a property write.                                               *)

Receive(id, k, n) ==
  /\ request.at = "idle"
  /\ route[id] # None
  /\ request' = [at |-> IF k = "action" THEN "find" ELSE "rlock",
                 inst |-> route[id], kind |-> k, name |-> n, func |-> NoFunc]
  /\ UNCHANGED <<etMap, etMapMutex, route, handlers, writer, call, crash>>

Run(f) == request' = [request EXCEPT !.at = "running", !.func = f]

\* HandleActionRequest reads actionHandlers without handlerMutex ...
FindActionHandler ==
  /\ request.at = "find"
  /\ LET f == Chosen(request.inst, "action", request.name)
     IN request' = IF f = NoFunc THEN NoRequest
                   ELSE [request EXCEPT !.at = "invoke", !.func = f]
  /\ UNCHANGED <<etMap, etMapMutex, route, handlers, writer, call, crash>>

\* ... and then calls what it found.
InvokeActionHandler ==
  /\ request.at = "invoke"
  /\ Run(request.func)
  /\ UNCHANGED <<etMap, etMapMutex, route, handlers, writer, call, crash>>

\* The read lock is refused while a writer holds or awaits handlerMutex.  A
\* destroyed thing, a value that is not JSON, an unknown or read-only property
\* and a missing handler end the request.
HandleWrite ==
  /\ request.at = "rlock"
  /\ writer[request.inst] = None
  /\ \/ request' = NoRequest
     \/ /\ Chosen(request.inst, "write", request.name) # NoFunc
        /\ Run(Chosen(request.inst, "write", request.name))
  /\ UNCHANGED <<etMap, etMapMutex, route, handlers, writer, call, crash>>

HandlerReturns ==
  /\ request.at = "running"
  /\ call[Bus].at = "idle"
  /\ request' = NoRequest
  /\ UNCHANGED <<etMap, etMapMutex, route, handlers, writer, call, crash>>

\* The unlocked read of actionHandlers overlaps with SetActionHandler's write:
\* undefined, and the Go runtime may end the process.
MapRace ==
  /\ request.at = "find"
  /\ \E t \in Threads :
       /\ call[t].at = "wait" /\ call[t].op = "set" /\ call[t].kind = "action"
       /\ call[t].inst = request.inst
  /\ crash' = TRUE
  /\ UNCHANGED <<etMap, etMapMutex, route, handlers, writer, request, call>>

-----------------------------------------------------------------------------
CallStep(t) ==
  Expose(t) \/ DestroyBinding(t) \/ WriterLock(t) \/ DestroyThing(t) \/ SetHandler(t)
BusStep ==
  FindActionHandler \/ InvokeActionHandler \/ HandleWrite \/ HandlerReturns

Next ==
  /\ ~crash
  /\ \/ \E t \in Threads :
          \/ \E id \in Things : CallExpose(t, id)
          \/ \E i \in Instances : CallDestroy(t, i)
          \/ \E i \in Instances, k \in Kinds, n \in Keys, f \in Funcs :
               CallSet(t, i, k, n, f)
          \/ CallStep(t)
     \/ \E id \in Things, k \in Kinds, n \in Names : Receive(id, k, n)
     \/ BusStep
     \/ MapRace

Spec == Init /\ [][Next]_vars

\* Goroutines are scheduled and Go's mutexes serve every waiter; handlers
\* return.  Nothing forces a request or an API call to be made.
Running(A) == ~crash /\ A
Fairness ==
  /\ \A t \in Threads : SF_vars(Running(CallStep(t)))
  /\ SF_vars(Running(HandleWrite))
  /\ WF_vars(Running(FindActionHandler \/ InvokeActionHandler))
  /\ SF_vars(Running(HandlerReturns))

FairSpec == Spec /\ Fairness

-----------------------------------------------------------------------------
(* Properties.                                                             *)

\* A property write is handled by the handler that is registered for it while
\* it runs: handlerMutex keeps it from being replaced, and the thing from being
\* destroyed, under the device code's feet.
WriteHandlerCurrent ==
  request.at = "running" /\ request.kind = "write" =>
    /\ Alive(request.inst)
    /\ request.func = Chosen(request.inst, "write", request.name)

\* Outside Expose and Destroy the factory's map and the subscriptions agree:
\* requests of a thing ID go to the thing that Expose returns for it, which has
\* not been destroyed.
FactoryConsistent ==
  etMapMutex = None =>
    \A id \in Things :
      /\ route[id] = etMap[id]
      /\ etMap[id] # None => Alive(etMap[id])

\* Each lock is held or awaited by the call that will release it: a lock is
\* never left behind by a call that returned.
LocksOwned ==
  /\ etMapMutex # None => call[etMapMutex].op = "destroy" /\ call[etMapMutex].at # "idle"
  /\ \A i \in Instances : writer[i] # None =>
       call[writer[i]].at = "wait" /\ call[writer[i]].inst = i

\* Every API call returns and every request ends (or the process has crashed),
\* as long as property write handlers call neither the factory nor Set...Handler.
CallsReturn ==
  /\ \A t \in Threads : call[t].at # "idle" ~> (call[t].at = "idle" \/ crash)
  /\ request.at # "idle" ~> (request.at = "idle" \/ crash)

\* ExposedThingFactory.go:64-65 "Destroy stops and removes the exposed thing.
\* This stops listening to external requests": no handler of a destroyed thing
\* is called any more.
DestroyStopsServing ==
  [][request.at # "running" /\ request'.at = "running" => Alive(request'.inst)]_vars
=============================================================================

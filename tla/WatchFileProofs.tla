--------------------------- MODULE WatchFileProofs ---------------------------
(***************************************************************************)
(* Proofs about the file watcher, for any number of timer goroutines and   *)
(* any number of changes.                                                  *)
(***************************************************************************)
EXTENDS WatchFile, TLAPS

\* Something is under way that ends in watching the path anew, or the file at
\* the path is the one watched.
Attended ==
  loop /\ ~closed =>
    \/ events > 0
    \/ timer
    \/ \E k \in Callbacks : callback[k] # "none"
    \/ inode # NoInode /\ watch = inode
    \/ noFile

\* The loop is started last, so StopTimer stops no timer that the loop has started.
LoopWatches == loop => main = "watching"

IInv == TypeOK /\ LoopWatches /\ Attended

-----------------------------------------------------------------------------
LEMMA InitInv == Init => IInv
<1> SUFFICES ASSUME Init PROVE TypeOK /\ LoopWatches /\ Attended
  BY DEF IInv
<1>1. 0 \in Inodes
  BY WatchAssumption DEF Inodes
<1>2. TypeOK
  BY <1>1, Zenon DEF Init, TypeOK
<1>3. LoopWatches /\ Attended
  BY DEF Init, Attended, LoopWatches
<1> QED
  BY <1>2, <1>3

\* Every step keeps the types.
LEMMA TypeStep == TypeOK /\ [Next]_vars => TypeOK'
<1> SUFFICES ASSUME TypeOK, [Next]_vars PROVE TypeOK'
  OBVIOUS
<1> USE WatchAssumption DEF TypeOK, Inodes
<1>1. ASSUME NEW next \in Inodes \cup {NoInode}, Change(next) PROVE TypeOK'
  BY <1>1 DEF Change
<1>2. CASE Write
  BY <1>1, <1>2 DEF Write
<1>3. CASE Replace
  <2>1. version + 1 \in Inodes
    BY <1>3 DEF Replace, Change
  <2> QED
    BY <1>1, <1>3, <2>1 DEF Replace
<1>4. CASE Delete
  BY <1>1, <1>4 DEF Delete
<1>5. CASE StopTimer
  BY <1>5 DEF StopTimer
<1>6. CASE Add
  BY <1>6 DEF Add
<1>7. CASE Close
  BY <1>7 DEF Close
<1>8. CASE LoopStep
  <2>1. CASE TakeEvent
    BY <2>1 DEF TakeEvent
  <2>2. CASE LoopEnds
    BY <2>2 DEF LoopEnds
  <2> QED
    BY <1>8, <2>1, <2>2 DEF LoopStep
<1>9. ASSUME NEW k \in Callbacks, CallbackStep(k) PROVE TypeOK'
  BY ZenonT(60), <1>9 DEF CallbackStep, TimerExpires, Handler, Remove, AddAgain
<1>10. CASE UNCHANGED vars
  BY <1>10 DEF vars
<1> QED
  BY <1>2, <1>3, <1>4, <1>5, <1>6, <1>7, <1>8, <1>9, <1>10 DEF Next

LEMMA LoopStepWatches == IInv /\ [Next]_vars => LoopWatches'
  BY DEF IInv, LoopWatches, vars, Next, Write, Replace, Delete, Change, StopTimer, Add, Close,
         LoopStep, TakeEvent, LoopEnds, CallbackStep, TimerExpires, Handler, Remove, AddAgain

\* A change that is not noticed leaves what was under way; one step of what is
\* under way starts the next, and the last one watches the path.
LEMMA AttendedStep == IInv /\ [Next]_vars => Attended'
<1> SUFFICES ASSUME TypeOK, LoopWatches, Attended, [Next]_vars PROVE Attended'
  BY DEF IInv
<1> USE DEF TypeOK, Attended
<1>1. ASSUME NEW next, Change(next) PROVE Attended'
  BY <1>1 DEF Change
<1>2. CASE Write \/ Replace \/ Delete
  BY <1>1, <1>2 DEF Write, Replace, Delete
<1>3. CASE StopTimer
  BY <1>3 DEF StopTimer, LoopWatches
<1>4. CASE Add
  BY <1>4 DEF Add
<1>5. CASE Close
  BY <1>5 DEF Close
<1>6. CASE LoopStep
  BY <1>6 DEF LoopStep, TakeEvent, LoopEnds
<1>7. ASSUME NEW k \in Callbacks, TimerExpires(k) \/ Handler(k) \/ Remove(k) PROVE Attended'
  <2>1. callback'[k] # "none"
    BY <1>7 DEF TimerExpires, Handler, Remove
  <2> QED
    BY <2>1
<1>8. ASSUME NEW k \in Callbacks, AddAgain(k) PROVE Attended'
  BY <1>8 DEF AddAgain
<1>9. CASE UNCHANGED vars
  BY <1>9 DEF vars
<1> QED
  BY <1>2, <1>3, <1>4, <1>5, <1>6, <1>7, <1>8, <1>9 DEF Next, CallbackStep

\* The inductive invariant holds in every reachable state.
THEOREM Invariance == Spec => []IInv
<1>1. IInv /\ [Next]_vars => IInv'
  BY TypeStep, LoopStepWatches, AttendedStep DEF IInv
<1> QED
  BY InitInv, <1>1, PTL DEF Spec

-----------------------------------------------------------------------------
\* Every variable of WatchFile keeps its type.
THEOREM TypeCorrect == Spec => []TypeOK
  BY Invariance, PTL DEF IInv

\* When nothing is under way, the file at the path is watched, unless there was
\* none when it was to be watched anew (WatchFile.go:29-31).
THEOREM Watched == Spec => []WatchedWhenQuiet
<1>1. IInv => WatchedWhenQuiet
  BY DEF IInv, TypeOK, Attended, WatchedWhenQuiet, Quiet, Uncalled
<1> QED
  BY Invariance, <1>1, PTL

\* A change is missed only while a callback is between the handler's call and the
\* end of the re-subscription, or after one that found no file.
THEOREM MissedOnlyInWindow == Spec => MissedInWindow
<1> DEFINE Window == noFile \/ \E k \in Callbacks : callback[k] \in {"remove", "add"}
<1>1. IInv /\ [Next]_vars => [missed' /\ ~missed => Window]_vars
  <2> SUFFICES ASSUME IInv, Next, missed', ~missed PROVE Window
    OBVIOUS
  <2>1. PICK next : Change(next)
    BY DEF Next, Write, Replace, Delete, StopTimer, Add, Close, LoopStep, TakeEvent,
           LoopEnds, CallbackStep, TimerExpires, Handler, Remove, AddAgain
  <2>2. loop /\ ~closed /\ ~Waking /\ ~(watch # NoInode /\ watch = inode)
    BY <2>1 DEF Change
  <2> QED
    BY <2>2 DEF IInv, TypeOK, Attended, Waking
<1> QED
  BY Invariance, <1>1, PTL DEF Spec, MissedInWindow
=============================================================================

----------------------------- MODULE WatchFile -----------------------------
(***************************************************************************)
(* The file watcher of src/pkg/watcher/WatchFile.go.                       *)
(*                                                                         *)
(* A loop restarts a timer at each event of the watched file; when the     *)
(* timer expires a goroutine calls the handler and then watches the path   *)
(* anew, because a file that was replaced by a rename is another inode.    *)
(* The operating system is external: a watch is on an inode, and changes   *)
(* of that inode are queued as events.                                     *)
(***************************************************************************)
EXTENDS Naturals, FiniteSets

CONSTANTS
  Callbacks,    \* goroutines of the timer; bounds how many overlap
  MaxChanges,   \* how often the file changes; a bound
  NoInode       \* no watch; no file

ASSUME WatchAssumption == MaxChanges \in Nat /\ NoInode \notin Nat

VARIABLES
  version,   \* how often the file has changed
  inode,     \* the file at the path, by the version at which it was made
  watch,     \* the inode that is watched
  events,    \* events queued
  timer,     \* callbackTimer is running
  callback,  \* what each goroutine of the timer does next
  main,      \* what WatchFile does next, or how it returned
  loop,      \* the loop is running
  closed,    \* the application has closed the watcher
  seen,      \* the version that the handler saw last
  noFile,    \* there was no file when the path was last to be watched
  missed     \* a change came that no event and no callback will look at

vars == <<version, inode, watch, events, timer, callback, main, loop, closed, seen, noFile, missed>>

Inodes == 0..MaxChanges

TypeOK ==
  /\ version \in Nat /\ seen \in Nat
  /\ inode \in Inodes \cup {NoInode}
  /\ watch \in Inodes \cup {NoInode}
  /\ events \in Nat
  /\ callback \in [Callbacks -> {"none", "handler", "remove", "add"}]
  /\ main \in {"stop", "add", "watching", "failed"}
  /\ timer \in BOOLEAN /\ loop \in BOOLEAN /\ closed \in BOOLEAN
  /\ noFile \in BOOLEAN /\ missed \in BOOLEAN

\* AfterFunc with no delay: the timer is running before it is stopped.
Init ==
  /\ version = 0 /\ seen = 0
  /\ inode \in {0, NoInode}
  /\ watch = NoInode
  /\ events = 0
  /\ timer = TRUE
  /\ callback = [k \in Callbacks |-> "none"]
  /\ main = "stop"
  /\ loop = FALSE
  /\ closed = FALSE
  /\ noFile = FALSE
  /\ missed = FALSE

-----------------------------------------------------------------------------
(* The file.                                                               *)

\* Something will still look at the file.
Waking ==
  \/ events > 0 /\ loop
  \/ timer
  \/ \E k \in Callbacks : callback[k] = "handler"

\* A change of the file at the path, which is that inode from then on.
Change(next) ==
  /\ version < MaxChanges
  /\ version' = version + 1
  /\ inode' = next
  /\ LET noticed == watch # NoInode /\ watch = inode
     IN /\ events' = IF noticed THEN events + 1 ELSE events
        /\ missed' = (missed \/ (loop /\ ~closed /\ ~noticed /\ ~Waking))
  /\ UNCHANGED <<watch, timer, callback, main, loop, closed, seen, noFile>>

Write   == inode # NoInode /\ Change(inode)
Replace == Change(version + 1)            \* renamed over, or made anew
Delete  == inode # NoInode /\ Change(NoInode)

-----------------------------------------------------------------------------
(* WatchFile.                                                              *)

StopTimer ==
  /\ main = "stop"
  /\ timer' = FALSE
  /\ main' = "add"
  /\ UNCHANGED <<version, inode, watch, events, callback, loop, closed, seen, noFile, missed>>

\* watcher.Add fails when there is no file; then no loop is started.  What was
\* there before is the caller's to read.
Add ==
  /\ main = "add"
  /\ IF inode = NoInode
     THEN main' = "failed" /\ UNCHANGED <<watch, loop>>
     ELSE main' = "watching" /\ watch' = inode /\ loop' = TRUE
  /\ seen' = version
  /\ noFile' = (inode = NoInode)
  /\ UNCHANGED <<version, inode, events, timer, callback, closed, missed>>

\* Defect: an event while the timer's goroutine runs does not restart the timer.
TakeEventBusy ==
  /\ loop
  /\ events > 0
  /\ events' = events - 1
  /\ timer' = (timer \/ \A k \in Callbacks : callback[k] = "none")
  /\ UNCHANGED <<version, inode, watch, callback, main, loop, closed, seen, noFile, missed>>

TakeEvent ==
  /\ loop
  /\ events > 0
  /\ events' = events - 1
  /\ timer' = TRUE
  /\ UNCHANGED <<version, inode, watch, callback, main, loop, closed, seen, noFile, missed>>

\* Defect: the loop takes the end of the events for an event.
LoopSpins ==
  /\ loop
  /\ closed
  /\ events = 0
  /\ timer' = TRUE
  /\ UNCHANGED <<version, inode, watch, events, callback, main, loop, closed, seen, noFile, missed>>

\* The channel is closed and empty.
LoopEnds ==
  /\ loop
  /\ closed
  /\ events = 0
  /\ loop' = FALSE
  /\ UNCHANGED <<version, inode, watch, events, timer, callback, main, closed, seen, noFile, missed>>

Close ==
  /\ main \in {"watching", "failed"}
  /\ closed' = TRUE
  /\ watch' = NoInode
  /\ UNCHANGED <<version, inode, events, timer, callback, main, loop, seen, noFile, missed>>

-----------------------------------------------------------------------------
(* The timer's goroutines.                                                 *)

TimerExpires(k) ==
  /\ timer
  /\ callback[k] = "none"
  /\ timer' = FALSE
  /\ callback' = [callback EXCEPT ![k] = "handler"]
  /\ UNCHANGED <<version, inode, watch, events, main, loop, closed, seen, noFile, missed>>

Handler(k) ==
  /\ callback[k] = "handler"
  /\ seen' = version
  /\ callback' = [callback EXCEPT ![k] = "remove"]
  /\ UNCHANGED <<version, inode, watch, events, timer, main, loop, closed, noFile, missed>>

Remove(k) ==
  /\ callback[k] = "remove"
  /\ watch' = NoInode
  /\ callback' = [callback EXCEPT ![k] = "add"]
  /\ UNCHANGED <<version, inode, events, timer, main, loop, closed, seen, noFile, missed>>

\* Defect: the path is watched anew only when the handler saw no other change.
AddUnchanged(k) ==
  /\ callback[k] = "add"
  /\ watch' = IF inode = NoInode \/ closed \/ version # seen THEN watch ELSE inode
  /\ callback' = [callback EXCEPT ![k] = "none"]
  /\ UNCHANGED <<version, inode, events, timer, main, loop, closed, seen, noFile, missed>>

\* An error of watcher.Add is ignored: without a file nothing is watched any more.
AddAgain(k) ==
  /\ callback[k] = "add"
  /\ watch' = IF inode = NoInode \/ closed THEN watch ELSE inode
  /\ noFile' = (inode = NoInode)
  /\ callback' = [callback EXCEPT ![k] = "none"]
  /\ UNCHANGED <<version, inode, events, timer, main, loop, closed, seen, missed>>

-----------------------------------------------------------------------------
CallbackStep(k) == TimerExpires(k) \/ Handler(k) \/ Remove(k) \/ AddAgain(k)
LoopStep == TakeEvent \/ LoopEnds

Next ==
  \/ Write \/ Replace \/ Delete
  \/ StopTimer \/ Add \/ Close \/ LoopStep
  \/ \E k \in Callbacks : CallbackStep(k)

Spec == Init /\ [][Next]_vars

\* The timer expires and goroutines are scheduled; the file need not change.
FairSpec == Spec /\ WF_vars(LoopStep) /\ \A k \in Callbacks : WF_vars(CallbackStep(k))

-----------------------------------------------------------------------------
Uncalled == ~timer /\ \A k \in Callbacks : callback[k] = "none"
Quiet == Uncalled /\ events = 0

\* When nothing is under way, the file that is now at the path is the one that is
\* watched, also after renames and with overlapping callbacks; unless there was
\* no file when it was to be watched anew.
WatchedWhenQuiet ==
  loop /\ ~closed /\ Quiet => watch = inode \/ noFile

\* A change is missed only between the handler's call and the end of the
\* re-subscription that follows it, or when that found no file.
MissedInWindow ==
  [][missed' /\ ~missed =>
       noFile \/ \E k \in Callbacks : callback[k] \in {"remove", "add"}]_vars

\* The handler is called after every change, for that change or a later one,
\* unless one was missed or the watcher was closed.
ChangeSeen ==
  \A v \in 1..MaxChanges :
    (loop /\ version = v) ~> (seen >= v \/ missed \/ closed)

\* After Close the loop ends and the handler is not called any more.
CloseEnds == (closed /\ main # "stop") ~> [](~loop /\ Uncalled)
=============================================================================

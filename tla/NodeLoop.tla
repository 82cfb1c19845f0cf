------------------------------ MODULE NodeLoop ------------------------------
(***************************************************************************)
(* One raft-capnp Node as a set of goroutines: the event loop of Start,    *)
(* the server goroutines that run Send, the callers of Pause, Resume and   *)
(* Stop, and the goroutines Start spawns to report an error.  They meet on *)
(* the unbuffered channels pauseChan and stopChan, on the mutex pauseLock  *)
(* and on the message queue.  What doReady does with a batch is in module  *)
(* ReadyApply; here a batch succeeds, fails, or removes the node itself.   *)
(* A variant of an action carries a plausible mistake and is not part of   *)
(* the specification.  It is there to show that a property notices it.     *)
(***************************************************************************)
EXTENDS Integers, Sequences, FiniteSets

CONSTANTS
  Caps,        \* capabilities of the node; a capnp server runs the calls made
               \* through one capability one after another
  Users,       \* goroutines of the embedding program
  API,         \* which of "pause", "resume", "stop" the users call
  QueueCap,    \* capacity of n.queue: make(MessageQueue) gives it 0
  FatalExits,  \* Logger.Fatalf ends the process, as raft.DefaultLogger's does
  MaxCalls,    \* bound: Send calls per capability
  MaxUses,     \* bound: API calls per user
  MaxSenders,  \* bound: error reports alive at once (see CanTurn)
  Loop, NoOne  \* holders of pauseLock besides the capabilities

ASSUME ConstantsOK ==
  /\ API \subseteq {"pause", "resume", "stop"}
  /\ QueueCap \in Nat
  /\ FatalExits \in BOOLEAN
  /\ MaxCalls \in Nat
  /\ MaxUses \in Nat
  /\ MaxSenders \in Nat \ {0}
  /\ Loop \notin Caps
  /\ NoOne \notin Caps \cup {Loop}

VARIABLES
  proc,       \* the process: running, exited, or the panic that ended it
  loop,       \* where the event loop is
  err,        \* Start's variable err: "nil" or "error"
  raft,       \* n.Raft: nil, idle, batch (Ready taken, not advanced), stopped
  pause,      \* n.pause
  lock,       \* holder of n.pauseLock
  queue,      \* n.queue: the <<capability, call number>> it buffers
  hpc,        \* where each capability's Send call is
  calls,      \* number of the call a capability is at
  delivered,  \* number of the last call whose message raft has accepted
  user,       \* API call each user is blocked in, or "none"
  uses,       \* API calls each user has made
  ctxDone,    \* the context Start was called with is cancelled
  spawned,    \* error goroutines that have not read err yet
  sending,    \* error goroutines blocked sending each value on stopChan
  closed      \* stopChan is closed

loopVars == <<loop, err, spawned>>
nodeVars == <<raft, pause, lock, queue>>
callVars == <<hpc, calls, delivered>>
userVars == <<user, uses, ctxDone>>
stopVars == <<sending, closed>>
otherVars == <<callVars, userVars, stopVars>>   \* not the loop's
vars == <<proc, loopVars, nodeVars, otherVars>>

ErrVals == {"nil", "error"}
LoopPCs == {"start", "select", "ready", "pausing", "resuming", "waitPause",
            "churnLock", "churn", "stopping", "closing", "returned"}

Init ==
  /\ proc = "running"
  /\ loop = "start"
  /\ err = "nil"
  /\ raft \in {"nil", "idle"}   \* the program may call n.Init before n.Start
  /\ pause = FALSE
  /\ lock = NoOne
  /\ queue = <<>>
  /\ hpc = [c \in Caps |-> "idle"]
  /\ calls = [c \in Caps |-> 0]
  /\ delivered = [c \in Caps |-> 0]
  /\ user = [u \in Users |-> "none"]
  /\ uses = [u \in Users |-> 0]
  /\ ctxDone = FALSE
  /\ spawned = 0
  /\ sending = [v \in ErrVals |-> 0]
  /\ closed = FALSE

-----------------------------------------------------------------------------
(* The event loop *)

Pending == spawned + sending["nil"] + sending["error"]

(* The loop may take another turn.  Start puts no limit on the goroutines  *)
(* it spawns; here only the stopChan case is left at MaxSenders of them.   *)
CanTurn == loop = "select" /\ Pending < MaxSenders

(* Variant: a reporter is spawned whatever the turn returned.              *)
ReturnReports(e) ==
  /\ loop' = "select"
  /\ err' = e
  /\ spawned' = spawned + 1

(* The end of a turn: err holds e; if that is an error, spawn a reporter.  *)
Return(e) ==
  /\ loop' = "select"
  /\ err' = e
  /\ spawned' = IF e = "error" THEN spawned + 1 ELSE spawned

Start ==
  /\ loop = "start"
  /\ loop' = "select"
  /\ raft' = IF raft = "nil" THEN "idle" ELSE raft
  /\ UNCHANGED <<proc, err, spawned, pause, lock, queue, otherVars>>

(* The ticker case leaves err as the last turn left it.                    *)
Tick ==
  /\ CanTurn
  /\ Return(err)
  /\ UNCHANGED <<proc, nodeVars, otherVars>>

TakeReady ==
  /\ CanTurn
  /\ raft = "idle"
  /\ loop' = "ready"
  /\ raft' = "batch"
  /\ UNCHANGED <<proc, err, spawned, pause, lock, queue, otherVars>>

(* doReady applied the batch and called Advance.                           *)
BatchDone ==
  /\ loop = "ready"
  /\ raft' = IF raft = "batch" THEN "idle" ELSE raft
  /\ Return("nil")
  /\ UNCHANGED <<proc, pause, lock, queue, otherVars>>

(* Variants: the error of a batch is dropped; the batch is advanced first. *)
BatchFailsSilently ==
  /\ loop = "ready"
  /\ Return("nil")
  /\ UNCHANGED <<proc, nodeVars, otherVars>>

BatchFailsAdvanced ==
  /\ loop = "ready"
  /\ raft' = IF raft = "batch" THEN "idle" ELSE raft
  /\ Return("error")
  /\ UNCHANGED <<proc, pause, lock, queue, otherVars>>

(* doReady returned an error, before Advance.                              *)
BatchFails ==
  /\ loop = "ready"
  /\ Return("error")
  /\ UNCHANGED <<proc, nodeVars, otherVars>>

(* A leader that applies its own removal stops its raft instance.          *)
SelfRemoved ==
  /\ loop = "ready"
  /\ raft = "batch"
  /\ raft' = "stopped"
  /\ UNCHANGED <<proc, loopVars, pause, lock, queue, otherVars>>

(* Receive from pauseChan, in Start or in waitPause; the caller returns.   *)
RecvPause(u) ==
  /\ CanTurn \/ loop = "waitPause"
  /\ user[u] \in {"pause", "resume"}
  /\ loop' = IF user[u] = "pause" THEN "pausing" ELSE "resuming"
  /\ user' = [user EXCEPT ![u] = "none"]
  /\ UNCHANGED <<proc, err, spawned, nodeVars, callVars, uses, ctxDone,
                 stopVars>>

(* Variants: waitPause waits for the wrong value; never stops waiting.     *)
WaitForPause(paused) == IF paused THEN "churnLock" ELSE "waitPause"
WaitForever(paused) == "waitPause"

(* waitPause goes on waiting for as long as pause is set.                  *)
WhilePaused(paused) == IF paused THEN "waitPause" ELSE "churnLock"

SetPaused ==
  /\ loop \in {"pausing", "resuming"}
  /\ lock = NoOne
  /\ pause' = (loop = "pausing")
  /\ loop' = WhilePaused(loop = "pausing")
  /\ UNCHANGED <<proc, err, spawned, raft, lock, queue, otherVars>>

(* Variant: waitPause does not listen to the context while paused.         *)
WaitCtxDeaf ==
  /\ loop = "waitPause"
  /\ ctxDone /\ ~pause
  /\ Return("error")
  /\ UNCHANGED <<proc, nodeVars, otherVars>>

(* waitPause gives up when the context ends; pause stays TRUE.             *)
WaitCtx ==
  /\ loop = "waitPause"
  /\ ctxDone
  /\ Return("error")
  /\ UNCHANGED <<proc, nodeVars, otherVars>>

ChurnLock ==
  /\ loop = "churnLock"
  /\ lock = NoOne
  /\ lock' = Loop
  /\ loop' = "churn"
  /\ UNCHANGED <<proc, err, spawned, raft, pause, queue, otherVars>>

(* Variant: churnQueue returns without unlocking.                          *)
ChurnEmptyLocked ==
  /\ loop = "churn"
  /\ queue = <<>>
  /\ Return("nil")
  /\ UNCHANGED <<proc, nodeVars, otherVars>>

ChurnEmpty ==
  /\ loop = "churn"
  /\ queue = <<>>
  /\ lock' = NoOne
  /\ Return("nil")
  /\ UNCHANGED <<proc, raft, pause, queue, otherVars>>

(* Receive the first message and step it; on an error give the lock back.  *)
ChurnMsg ==
  /\ loop = "churn"
  /\ queue # <<>>
  /\ queue' = Tail(queue)
  /\ \/ /\ raft # "stopped"
        /\ delivered' = [delivered EXCEPT ![Head(queue)[1]] = Head(queue)[2]]
        /\ UNCHANGED <<loopVars, lock>>
     \/ /\ raft = "stopped" \/ ctxDone
        /\ lock' = NoOne
        /\ Return("error")
        /\ UNCHANGED delivered
  /\ UNCHANGED <<proc, raft, pause, hpc, calls, userVars, stopVars>>

CtxCase ==
  /\ CanTurn
  /\ ctxDone
  /\ Return("error")
  /\ UNCHANGED <<proc, nodeVars, otherVars>>

(* Receive a cause from a Stop call, which never passes nil ...            *)
RecvStop(u) ==
  /\ loop = "select"
  /\ user[u] = "stop"
  /\ user' = [user EXCEPT ![u] = "none"]
  /\ loop' = "stopping"
  /\ UNCHANGED <<proc, err, spawned, nodeVars, callVars, uses, ctxDone,
                 stopVars>>

(* ... or from an error goroutine.  The case calls err.Error() at once,    *)
(* which panics on nil.                                                    *)
RecvErr(v) ==
  /\ loop = "select"
  /\ sending[v] > 0
  /\ sending' = [sending EXCEPT ![v] = @ - 1]
  /\ IF v = "nil" THEN proc' = "nilCause" /\ UNCHANGED loop
                  ELSE loop' = "stopping" /\ UNCHANGED proc
  /\ UNCHANGED <<err, spawned, nodeVars, callVars, userVars, closed>>

(* Variant: the channel is left open when the loop returns.                *)
DoStopLeavesOpen ==
  /\ loop = "stopping"
  /\ loop' = "returned"
  /\ raft' = "stopped"
  /\ UNCHANGED <<proc, err, spawned, pause, lock, queue, otherVars>>

DoStop ==
  /\ loop = "stopping"
  /\ IF FatalExits THEN proc' = "exited" /\ UNCHANGED <<loop, raft>>
                   ELSE /\ loop' = "closing"
                        /\ raft' = "stopped"
                        /\ UNCHANGED proc
  /\ UNCHANGED <<err, spawned, pause, lock, queue, otherVars>>

(* Closing stopChan panics every goroutine that is blocked sending on it.  *)
CloseStop ==
  /\ loop = "closing"
  /\ loop' = "returned"
  /\ closed' = TRUE
  /\ proc' = IF \/ \E v \in ErrVals : sending[v] > 0
                \/ \E u \in Users : user[u] = "stop"
             THEN "closedChan" ELSE proc
  /\ UNCHANGED <<err, spawned, nodeVars, callVars, userVars, sending>>

-----------------------------------------------------------------------------
(* The goroutine go func() { n.stopChan <- err }(): it reads the variable  *)
(* err of the loop when it runs, not when it was spawned.                  *)
ReadErr ==
  /\ spawned > 0
  /\ spawned' = spawned - 1
  /\ IF closed THEN proc' = "closedChan" /\ UNCHANGED sending
               ELSE sending' = [sending EXCEPT ![err] = @ + 1]
                    /\ UNCHANGED proc
  /\ UNCHANGED <<loop, err, nodeVars, callVars, userVars, closed>>

-----------------------------------------------------------------------------
(* Send, run by the server goroutine of capability c *)

SendBegin(c) ==
  /\ hpc[c] = "idle"
  /\ calls[c] < MaxCalls
  /\ calls' = [calls EXCEPT ![c] = @ + 1]
  /\ hpc' = [hpc EXCEPT ![c] = "check"]
  /\ UNCHANGED <<proc, loopVars, nodeVars, delivered, userVars, stopVars>>

(* IsPaused: take the lock, read pause, give the lock back.                *)
SendCheck(c) ==
  /\ hpc[c] = "check"
  /\ lock = NoOne
  /\ hpc' = [hpc EXCEPT ![c] = IF pause THEN "lock" ELSE "step"]
  /\ UNCHANGED <<proc, loopVars, nodeVars, calls, delivered, userVars,
                 stopVars>>

SendLock(c) ==
  /\ hpc[c] = "lock"
  /\ lock = NoOne
  /\ lock' = c
  /\ hpc' = [hpc EXCEPT ![c] = "enqueue"]
  /\ UNCHANGED <<proc, loopVars, raft, pause, queue, calls, delivered,
                 userVars, stopVars>>

QueueHasRoomBeyond == Len(queue) <= QueueCap   \* variant: off by one
QueueHasRoom == Len(queue) < QueueCap

(* n.queue <- *msg with pauseLock held.  churnQueue receives only when the *)
(* queue's length is positive, so no receiver ever waits at the channel:   *)
(* the send goes through only into free buffer space.                      *)
SendEnqueue(c) ==
  /\ hpc[c] = "enqueue"
  /\ QueueHasRoom
  /\ queue' = Append(queue, <<c, calls[c]>>)
  /\ lock' = NoOne
  /\ hpc' = [hpc EXCEPT ![c] = "idle"]
  /\ UNCHANGED <<proc, loopVars, raft, pause, calls, delivered, userVars,
                 stopVars>>

(* n.Raft.Step: accepted, or refused because raft has stopped or the       *)
(* context of the call is cancelled; n.Raft is nil until Init.             *)
SendStep(c) ==
  /\ hpc[c] = "step"
  /\ hpc' = [hpc EXCEPT ![c] = "idle"]
  /\ \/ /\ raft = "nil"
        /\ proc' = "nilRaft"
        /\ UNCHANGED delivered
     \/ /\ raft \in {"idle", "batch"}
        /\ delivered' = [delivered EXCEPT ![c] = calls[c]]
        /\ UNCHANGED proc
     \/ /\ raft # "nil"
        /\ UNCHANGED <<proc, delivered>>
  /\ UNCHANGED <<loopVars, nodeVars, calls, userVars, stopVars>>

-----------------------------------------------------------------------------
(* The embedding program *)

Call(u, op) ==
  /\ user[u] = "none"
  /\ uses[u] < MaxUses
  /\ uses' = [uses EXCEPT ![u] = @ + 1]
  /\ IF op = "stop" /\ closed THEN proc' = "closedChan" /\ UNCHANGED user
     ELSE user' = [user EXCEPT ![u] = op] /\ UNCHANGED proc
  /\ UNCHANGED <<loopVars, nodeVars, callVars, ctxDone, stopVars>>

Cancel ==
  /\ ~ctxDone
  /\ ctxDone' = TRUE
  /\ UNCHANGED <<proc, loopVars, nodeVars, callVars, user, uses, stopVars>>

-----------------------------------------------------------------------------
LoopStep ==
  \/ Start \/ Tick \/ TakeReady \/ BatchDone \/ BatchFails \/ SelfRemoved
  \/ SetPaused \/ WaitCtx \/ ChurnLock \/ ChurnEmpty \/ ChurnMsg \/ CtxCase
  \/ DoStop \/ CloseStop
  \/ \E u \in Users : RecvPause(u) \/ RecvStop(u)
  \/ \E v \in ErrVals : RecvErr(v)

SendCall(c) ==
  SendBegin(c) \/ SendCheck(c) \/ SendLock(c) \/ SendEnqueue(c) \/ SendStep(c)

Next ==
  /\ proc = "running"
  /\ \/ LoopStep
     \/ ReadErr
     \/ \E c \in Caps : SendCall(c)
     \/ \E u \in Users, op \in API : Call(u, op)
     \/ Cancel

Spec == Init /\ [][Next]_vars

(* Fairness.  A goroutine that can run does (WF).  A select that finds the *)
(* same case ready again and again picks it at some point, since Go picks  *)
(* among the ready cases at random, and sync.Mutex starves nobody (SF).    *)
(* That a batch ends assumes that the peers answer what doReady sends.     *)
(* Users, callers of Send and the cancellation are under no obligation.    *)
Do(A) == proc = "running" /\ A

Fairness ==
  /\ WF_vars(Do(\/ Start \/ BatchDone \/ BatchFails \/ ChurnEmpty \/ ChurnMsg
                \/ DoStop \/ CloseStop))
  /\ WF_vars(Do(ReadErr))
  /\ SF_vars(Do(SetPaused \/ ChurnLock))
  /\ SF_vars(Do(CtxCase \/ WaitCtx))
  /\ SF_vars(Do(\/ \E u \in Users : RecvStop(u)
                \/ \E v \in ErrVals : RecvErr(v)))
  /\ \A c \in Caps : WF_vars(Do(SendEnqueue(c) \/ SendStep(c)))

FairSpec == Spec /\ Fairness

-----------------------------------------------------------------------------
(* Properties *)

(* The type of every variable; n.queue holds no more than it has room for. *)
TypeOK ==
  /\ proc \in {"running", "exited", "nilRaft", "nilCause", "closedChan"}
  /\ loop \in LoopPCs
  /\ err \in ErrVals
  /\ raft \in {"nil", "idle", "batch", "stopped"}
  /\ pause \in BOOLEAN
  /\ lock \in Caps \cup {Loop, NoOne}
  /\ queue \in Seq(Caps \X Nat) /\ Len(queue) <= QueueCap
  /\ hpc \in [Caps -> {"idle", "check", "lock", "enqueue", "step"}]
  /\ calls \in [Caps -> Nat]
  /\ delivered \in [Caps -> Nat]
  /\ user \in [Users -> API \cup {"none"}]
  /\ uses \in [Users -> Nat]
  /\ ctxDone \in BOOLEAN
  /\ spawned \in Nat
  /\ sending \in [ErrVals -> Nat]
  /\ closed \in BOOLEAN

(* pauseLock is held exactly by the loop while churnQueue drains the queue *)
(* or by the one Send call that is adding to it: neither interferes with   *)
(* the other, and no return path forgets to unlock.                        *)
PauseLockHeld ==
  /\ lock = Loop <=> loop = "churn"
  /\ \A c \in Caps : lock = c <=> hpc[c] = "enqueue"

(* While pause is set the loop is parked in doPause and handles neither    *)
(* ticks nor Ready batches; the only way out with pause still set is the   *)
(* end of the context.                                                     *)
PausedMeansParked ==
  pause => loop \in {"pausing", "resuming", "waitPause"} \/ ctxDone

(* No error of the loop is lost: while err holds one, or a batch was left  *)
(* without Advance, a goroutine is there to report it to stopChan, or the  *)
(* report has arrived and the node is stopping.                            *)
ErrorNeverLost ==
  err = "error" \/ (raft = "batch" /\ loop # "ready") =>
    \/ Pending > 0
    \/ loop \in {"stopping", "closing", "returned"}
    \/ proc # "running"

(* Without Pause, Resume and cancellation the report of a failed batch is  *)
(* never turned into nil by a later turn: doReady fails before Advance, so *)
(* raft offers no further batch whose success would reset err.             *)
CauseSurvives ==
  API \subseteq {"stop"} /\ ~ctxDone =>
    sending["nil"] = 0 /\ proc # "nilCause"

CalledTwice ==
  \E u, v \in Users : uses[u] > 0 /\ uses[v] > 0 /\ (u = v => uses[u] > 1)

(* doStop returns if the logger's Fatalf does, and Start then closes       *)
(* stopChan under whoever sends on it.  That takes two reasons to stop:    *)
(* the panic needs two calls of Stop or a batch that failed.  The only one *)
(* to call Stop, on a node without errors, is never met by it.             *)
OneCauseIsSafe ==
  API \subseteq {"stop"} /\ ~ctxDone /\ proc = "closedChan" =>
    err = "error" \/ CalledTwice

(* Messages sent through one capability reach raft in the order sent.      *)
InOrder == [][\A c \in Caps : delivered'[c] >= delivered[c]]_vars

(* A Send that found the node paused and reached the queue never returns,  *)
(* whatever else happens, and keeps pauseLock: the channel has no buffer   *)
(* and churnQueue receives only from a non-empty buffer.                   *)
PausedSendNeverReturns ==
  [][\A c \in Caps : QueueCap = 0 /\ hpc[c] = "enqueue" =>
                     hpc'[c] = "enqueue" /\ lock' = c]_vars

Gone == proc # "running" \/ loop = "returned"

(* A Resume the loop has accepted brings the loop back to its select.      *)
ResumeTakesEffect == loop = "resuming" ~> loop = "select" \/ Gone

(* Cancelling the context ends the loop, paused or not.                    *)
ForcedStop == ctxDone ~> Gone

(* A Stop call returns, unless the process is gone.                        *)
StopReturns ==
  \A u \in Users : user[u] = "stop" ~> user[u] # "stop" \/ proc # "running"

(* The loop never receives a nil cause.                                    *)
NoNilCause == proc # "nilCause"
=============================================================================

--------------------------- MODULE NodeLoopProofs ---------------------------
(***************************************************************************)
(* Theorems about NodeLoop, for every set of capabilities and users, every *)
(* queue capacity and every bound.                                         *)
(***************************************************************************)
EXTENDS NodeLoop, TLAPS

-----------------------------------------------------------------------------
(* TypeOK is inductive as it stands.                                       *)
LEMMA TypeStep == TypeOK /\ [Next]_vars => TypeOK'
<1> SUFFICES ASSUME TypeOK, [Next]_vars
             PROVE  TypeOK'
  OBVIOUS
<1> USE ConstantsOK DEF TypeOK, ErrVals, LoopPCs
<1>1. CASE UNCHANGED vars
  BY <1>1 DEF vars, loopVars, nodeVars, callVars, userVars, stopVars, otherVars
<1>2. CASE Start
  BY <1>2 DEF Start, callVars, userVars, stopVars, otherVars
<1>3. CASE Tick
  BY <1>3 DEF Tick, Return, CanTurn, nodeVars, callVars, userVars, stopVars,
     otherVars
<1>4. CASE TakeReady
  BY <1>4 DEF TakeReady, CanTurn, callVars, userVars, stopVars, otherVars
<1>5. CASE BatchDone
  BY <1>5 DEF BatchDone, Return, callVars, userVars, stopVars, otherVars
<1>6. CASE BatchFails
  BY <1>6 DEF BatchFails, Return, nodeVars, callVars, userVars, stopVars,
     otherVars
<1>7. CASE SelfRemoved
  BY <1>7 DEF SelfRemoved, loopVars, callVars, userVars, stopVars, otherVars
<1>8. CASE SetPaused
  BY <1>8 DEF SetPaused, WhilePaused, callVars, userVars, stopVars, otherVars
<1>9. CASE WaitCtx
  BY <1>9 DEF WaitCtx, Return, nodeVars, callVars, userVars, stopVars,
     otherVars
<1>10. CASE ChurnLock
  BY <1>10 DEF ChurnLock, callVars, userVars, stopVars, otherVars
<1>11. CASE ChurnEmpty
  BY <1>11 DEF ChurnEmpty, Return, callVars, userVars, stopVars, otherVars
<1>12. CASE ChurnMsg
  <2>1. /\ Head(queue) \in Caps \X Nat
        /\ queue' \in Seq(Caps \X Nat) /\ Len(queue') <= QueueCap
    BY <1>12 DEF ChurnMsg
  <2>2. Head(queue)[1] \in Caps /\ Head(queue)[2] \in Nat
    BY <2>1
  <2>3. delivered' \in [Caps -> Nat]
    <3> HIDE DEF TypeOK
    <3>1. delivered \in [Caps -> Nat]
      BY DEF TypeOK
    <3> QED
      BY <1>12, <2>2, <3>1 DEF ChurnMsg
  <2>4. /\ loop' \in LoopPCs /\ err' \in ErrVals /\ spawned' \in Nat
        /\ lock' \in Caps \cup {Loop, NoOne}
    <3>1. \/ UNCHANGED <<loopVars, lock>>
          \/ lock' = NoOne /\ Return("error")
      BY <1>12 DEF ChurnMsg
    <3> QED
      BY <3>1 DEF Return, loopVars
  <2>5. UNCHANGED <<proc, raft, pause, hpc, calls, userVars, stopVars>>
    BY <1>12 DEF ChurnMsg
  <2> QED
    BY <2>1, <2>3, <2>4, <2>5 DEF userVars, stopVars
<1>13. CASE CtxCase
  BY <1>13 DEF CtxCase, Return, CanTurn, nodeVars, callVars, userVars,
     stopVars, otherVars
<1>14. CASE DoStop
  BY <1>14 DEF DoStop, callVars, userVars, stopVars, otherVars
<1>15. CASE CloseStop
  BY <1>15 DEF CloseStop, nodeVars, callVars, userVars
<1>16. CASE ReadErr
  <2>1. spawned' \in Nat /\ sending' \in [ErrVals -> Nat]
    BY <1>16 DEF ReadErr
  <2>2. proc' \in {"running", "exited", "nilRaft", "nilCause", "closedChan"}
    BY <1>16 DEF ReadErr
  <2> QED
    BY <1>16, <2>1, <2>2 DEF ReadErr, nodeVars, callVars, userVars
<1>17. CASE Cancel
  BY <1>17 DEF Cancel, loopVars, nodeVars, callVars, stopVars
<1>18. ASSUME NEW u \in Users, RecvPause(u)
      PROVE  TypeOK'
  BY <1>18 DEF RecvPause, nodeVars, callVars, stopVars
<1>19. ASSUME NEW u \in Users, RecvStop(u)
      PROVE  TypeOK'
  BY <1>19 DEF RecvStop, nodeVars, callVars, stopVars
<1>20. ASSUME NEW v \in ErrVals, RecvErr(v)
      PROVE  TypeOK'
  BY <1>20 DEF RecvErr, nodeVars, callVars, userVars
<1>21. ASSUME NEW c \in Caps, SendBegin(c)
      PROVE  TypeOK'
  BY <1>21 DEF SendBegin, loopVars, nodeVars, userVars, stopVars
<1>22. ASSUME NEW c \in Caps, SendCheck(c)
      PROVE  TypeOK'
  BY <1>22 DEF SendCheck, loopVars, nodeVars, userVars, stopVars
<1>23. ASSUME NEW c \in Caps, SendLock(c)
      PROVE  TypeOK'
  BY <1>23 DEF SendLock, loopVars, userVars, stopVars
<1>24. ASSUME NEW c \in Caps, SendEnqueue(c)
      PROVE  TypeOK'
  <2>1. queue' \in Seq(Caps \X Nat) /\ Len(queue') <= QueueCap
    BY <1>24 DEF SendEnqueue, QueueHasRoom
  <2>2. hpc' \in [Caps -> {"idle", "check", "lock", "enqueue", "step"}]
    BY <1>24 DEF SendEnqueue
  <2> QED
    BY <1>24, <2>1, <2>2 DEF SendEnqueue, loopVars, userVars, stopVars
<1>25. ASSUME NEW c \in Caps, SendStep(c)
      PROVE  TypeOK'
  BY <1>25 DEF SendStep, loopVars, nodeVars, userVars, stopVars
<1>26. ASSUME NEW u \in Users, NEW op \in API, Call(u, op)
      PROVE  TypeOK'
  <2>1. user' \in [Users -> API \cup {"none"}]
    BY <1>26 DEF Call
  <2>2. uses' \in [Users -> Nat]
    BY <1>26 DEF Call
  <2>3. proc' \in {"running", "exited", "nilRaft", "nilCause", "closedChan"}
    BY <1>26 DEF Call
  <2> QED
    BY <1>26, <2>1, <2>2, <2>3 DEF Call, loopVars, nodeVars, callVars, stopVars
<1> HIDE ConstantsOK DEF TypeOK, ErrVals, LoopPCs
<1> QED
  BY <1>1, <1>2, <1>3, <1>4, <1>5, <1>6, <1>7, <1>8, <1>9, <1>10, <1>11, <1>12,
     <1>13, <1>14, <1>15, <1>16, <1>17, <1>18, <1>19, <1>20, <1>21, <1>22,
     <1>23, <1>24, <1>25, <1>26 DEF Next, LoopStep, SendCall

(* Every variable keeps its type, whatever Start, Send, Pause, Resume and  *)
(* Stop do.                                                                *)
THEOREM TypeCorrect == Spec => []TypeOK
<1>1. Init => TypeOK
  <2> SUFFICES ASSUME Init
               PROVE  TypeOK
    OBVIOUS
  <2>1. queue \in Seq(Caps \X Nat) /\ Len(queue) <= QueueCap
    BY ConstantsOK DEF Init
  <2>2. sending \in [ErrVals -> Nat]
    BY DEF Init
  <2>3. user \in [Users -> API \cup {"none"}]
    BY DEF Init
  <2> QED
    BY <2>1, <2>2, <2>3 DEF Init, TypeOK, ErrVals, LoopPCs
<1> QED
  BY <1>1, TypeStep, PTL DEF Spec

-----------------------------------------------------------------------------
(* Only ChurnLock and SendLock take the lock, when it is free; the loop and *)
(* a Send give it back on leaving the one place where they hold it.        *)
LEMMA LockStep == TypeOK /\ PauseLockHeld /\ [Next]_vars => PauseLockHeld'
<1> SUFFICES ASSUME TypeOK, PauseLockHeld, [Next]_vars
             PROVE  PauseLockHeld'
  OBVIOUS
<1> USE ConstantsOK DEF PauseLockHeld
<1>1. CASE UNCHANGED <<lock, loop, hpc>>
  BY <1>1
<1>2. CASE /\ UNCHANGED <<lock, hpc>>
           /\ loop # "churn" /\ loop' # "churn"
  BY <1>2
<1>3. CASE ChurnLock
  BY <1>3 DEF ChurnLock, callVars, userVars, stopVars, otherVars
<1>4. CASE ChurnEmpty
  BY <1>4 DEF ChurnEmpty, Return, callVars, userVars, stopVars, otherVars
<1>5. CASE ChurnMsg
  BY <1>5 DEF ChurnMsg, Return, loopVars, userVars, stopVars
<1>6. ASSUME NEW c \in Caps, UNCHANGED <<lock, loop>>,
             SendBegin(c) \/ SendCheck(c) \/ SendStep(c)
      PROVE  PauseLockHeld'
  <2>1. hpc \in [Caps -> {"idle", "check", "lock", "enqueue", "step"}]
    BY DEF TypeOK
  <2>2. /\ hpc[c] # "enqueue" /\ hpc'[c] # "enqueue"
        /\ \A d \in Caps \ {c} : hpc'[d] = hpc[d]
    BY <1>6, <2>1 DEF SendBegin, SendCheck, SendStep
  <2> QED
    BY <1>6, <2>2
<1>7. ASSUME NEW c \in Caps, SendLock(c) \/ SendEnqueue(c)
      PROVE  PauseLockHeld'
  <2>1. hpc \in [Caps -> {"idle", "check", "lock", "enqueue", "step"}]
    BY DEF TypeOK
  <2>2. CASE SendLock(c)
    BY <2>1, <2>2 DEF SendLock, loopVars, userVars, stopVars
  <2>3. CASE SendEnqueue(c)
    BY <2>1, <2>3 DEF SendEnqueue, QueueHasRoom, loopVars, userVars, stopVars
  <2> QED
    BY <1>7, <2>2, <2>3
<1>8. CASE Start \/ Tick \/ TakeReady \/ BatchDone \/ BatchFails \/ SetPaused
           \/ WaitCtx \/ CtxCase \/ DoStop \/ CloseStop
  BY <1>2, <1>8 DEF Start, Tick, TakeReady, BatchDone, BatchFails, SetPaused,
     WaitCtx, CtxCase, DoStop, CloseStop, CanTurn, Return, WhilePaused,
     nodeVars, callVars, userVars, stopVars, otherVars
<1>9. CASE SelfRemoved \/ ReadErr \/ Cancel
  BY <1>1, <1>9 DEF SelfRemoved, ReadErr, Cancel, loopVars, nodeVars, callVars,
     userVars, stopVars, otherVars
<1>10. ASSUME NEW u \in Users, RecvPause(u) \/ RecvStop(u)
       PROVE  PauseLockHeld'
  BY <1>2, <1>10 DEF RecvPause, RecvStop, CanTurn, nodeVars, callVars, stopVars
<1>11. ASSUME NEW v \in ErrVals, RecvErr(v)
       PROVE  PauseLockHeld'
  BY <1>2, <1>11 DEF RecvErr, nodeVars, callVars, userVars
<1>12. ASSUME NEW u \in Users, NEW op \in API, Call(u, op)
       PROVE  PauseLockHeld'
  BY <1>1, <1>12 DEF Call, loopVars, nodeVars, callVars, stopVars
<1>13. CASE UNCHANGED vars
  BY <1>1, <1>13 DEF vars, loopVars, nodeVars, callVars, userVars, stopVars,
     otherVars
<1>14. ASSUME NEW c \in Caps, SendBegin(c) \/ SendCheck(c) \/ SendStep(c)
       PROVE  PauseLockHeld'
  BY <1>6, <1>14 DEF SendBegin, SendCheck, SendStep, loopVars, nodeVars,
     userVars, stopVars
<1> HIDE ConstantsOK DEF PauseLockHeld
<1> QED
  BY <1>3, <1>4, <1>5, <1>7, <1>8, <1>9, <1>10, <1>11, <1>12, <1>13, <1>14 DEF
     Next, LoopStep, SendCall

(* pauseLock guards what it should: the loop holds it exactly while        *)
(* churnQueue drains, a Send exactly while it adds to the queue.           *)
THEOREM LockTheorem == Spec => []PauseLockHeld
<1>1. Init => PauseLockHeld
  BY ConstantsOK DEF Init, PauseLockHeld
<1> QED
  BY <1>1, TypeCorrect, LockStep, PTL DEF Spec

(* A Send at the unbuffered queue is stuck there for good and takes        *)
(* pauseLock with it: no other action can release it.                      *)
THEOREM StuckSend == Spec => PausedSendNeverReturns
<1> DEFINE Stuck == \A c \in Caps : QueueCap = 0 /\ hpc[c] = "enqueue" =>
                                    hpc'[c] = "enqueue" /\ lock' = c
<1>1. TypeOK /\ PauseLockHeld /\ [Next]_vars => [Stuck]_vars
  <2> SUFFICES ASSUME TypeOK, PauseLockHeld, Next, NEW c \in Caps,
                      QueueCap = 0, hpc[c] = "enqueue"
               PROVE  hpc'[c] = "enqueue" /\ lock' = c
    OBVIOUS
  <2>1. /\ lock = c /\ lock # NoOne /\ loop # "churn"
        /\ hpc \in [Caps -> {"idle", "check", "lock", "enqueue", "step"}]
        /\ ~(Len(queue) < QueueCap)
    BY ConstantsOK DEF PauseLockHeld, TypeOK
  <2>2. CASE UNCHANGED <<hpc, lock>>
    BY <2>1, <2>2
  <2>3. CASE LoopStep
    <3>1. ~ChurnLock /\ ~ChurnEmpty /\ ~ChurnMsg /\ ~SetPaused
      BY <2>1 DEF ChurnLock, ChurnEmpty, ChurnMsg, SetPaused, WhilePaused,
         loopVars, callVars, userVars, stopVars, otherVars
    <3>2. CASE \E u \in Users : RecvPause(u) \/ RecvStop(u)
      BY <2>2, <3>2 DEF RecvPause, RecvStop, nodeVars, callVars, stopVars
    <3>3. CASE \E v \in ErrVals : RecvErr(v)
      BY <2>2, <3>3 DEF RecvErr, nodeVars, callVars, userVars
    <3>4. CASE Start \/ Tick \/ TakeReady \/ BatchDone \/ BatchFails
               \/ SelfRemoved \/ WaitCtx \/ CtxCase \/ DoStop \/ CloseStop
      BY <2>2, <3>4 DEF Start, Tick, TakeReady, BatchDone, BatchFails,
         SelfRemoved, WaitCtx, CtxCase, DoStop, CloseStop, loopVars, nodeVars,
         callVars, userVars, stopVars, otherVars
    <3> QED
      BY <2>3, <3>1, <3>2, <3>3, <3>4 DEF LoopStep
  <2>4. ASSUME NEW d \in Caps, SendCall(d)
        PROVE  hpc'[c] = "enqueue" /\ lock' = c
    <3>1. SendBegin(d) \/ SendStep(d)
      BY <2>1, <2>4 DEF SendCall, SendCheck, SendLock, SendEnqueue,
         QueueHasRoom
    <3>2. d # c /\ lock' = lock /\ hpc'[c] = hpc[c]
      BY <2>1, <3>1 DEF SendBegin, SendStep, nodeVars
    <3> QED
      BY <2>1, <3>2
  <2>5. CASE ReadErr \/ Cancel \/ \E u \in Users, op \in API : Call(u, op)
    BY <2>2, <2>5 DEF ReadErr, Cancel, Call, loopVars, nodeVars, callVars,
       userVars, stopVars
  <2> QED
    BY <2>3, <2>4, <2>5 DEF Next
<1> QED
  BY <1>1, TypeCorrect, LockTheorem, PTL DEF Spec, PausedSendNeverReturns

-----------------------------------------------------------------------------
(* While the node is paused the loop handles no tick and no batch, until   *)
(* the context ends: every way out of waitPause clears pause or needs      *)
(* ctx.Done.                                                               *)
THEOREM ParkedTheorem == Spec => []PausedMeansParked
<1>1. Init => PausedMeansParked
  BY DEF Init, PausedMeansParked
<1>2. PausedMeansParked /\ [Next]_vars => PausedMeansParked'
  <2> SUFFICES ASSUME PausedMeansParked, [Next]_vars
               PROVE  PausedMeansParked'
    OBVIOUS
  <2> USE DEF PausedMeansParked
  <2>1. CASE pause' = pause /\ ctxDone' = ctxDone /\ loop' = loop
    BY <2>1
  <2>2. CASE /\ pause' = pause /\ ctxDone' = ctxDone
             /\ loop \notin {"pausing", "resuming", "waitPause"}
    BY <2>2
  <2>3. CASE SetPaused
    BY <2>3 DEF SetPaused, WhilePaused, callVars, userVars, stopVars, otherVars
  <2>4. CASE WaitCtx
    BY <2>4 DEF WaitCtx, nodeVars, callVars, userVars, stopVars, otherVars
  <2>5. CASE Cancel
    BY <2>5 DEF Cancel
  <2>6. ASSUME NEW u \in Users, RecvPause(u)
        PROVE  PausedMeansParked'
    BY <2>6 DEF RecvPause
  <2>7. CASE Start \/ Tick \/ TakeReady \/ BatchDone \/ BatchFails
             \/ ChurnLock \/ ChurnEmpty \/ ChurnMsg \/ CtxCase \/ DoStop
             \/ CloseStop
    BY <2>2, <2>7 DEF Start, Tick, TakeReady, BatchDone, BatchFails, ChurnLock,
       ChurnEmpty, ChurnMsg, CtxCase, DoStop, CloseStop, CanTurn, loopVars,
       nodeVars, callVars, userVars, stopVars, otherVars
  <2>8. ASSUME NEW u \in Users, RecvStop(u)
        PROVE  PausedMeansParked'
    BY <2>2, <2>8 DEF RecvStop, nodeVars
  <2>9. ASSUME NEW v \in ErrVals, RecvErr(v)
        PROVE  PausedMeansParked'
    BY <2>2, <2>9 DEF RecvErr, nodeVars, userVars
  <2>10. ASSUME NEW c \in Caps, SendCall(c)
         PROVE  PausedMeansParked'
    BY <2>1, <2>10 DEF SendCall, SendBegin, SendCheck, SendLock, SendEnqueue,
       SendStep, QueueHasRoom, loopVars, nodeVars, userVars, stopVars
  <2>11. CASE \/ UNCHANGED vars \/ SelfRemoved \/ ReadErr
              \/ \E u \in Users, op \in API : Call(u, op)
    BY <2>1, <2>11 DEF vars, SelfRemoved, ReadErr, Call, loopVars, nodeVars,
       callVars, userVars, stopVars, otherVars
  <2> HIDE DEF PausedMeansParked
  <2> QED
    BY <2>3, <2>4, <2>5, <2>6, <2>7, <2>8, <2>9, <2>10, <2>11 DEF Next,
       LoopStep
<1> QED
  BY <1>1, <1>2, PTL DEF Spec

-----------------------------------------------------------------------------
(* What a turn of the loop does to the goroutines that report errors.      *)
LEMMA PendingFacts ==
  ASSUME TypeOK
  PROVE  /\ Pending \in Nat
         /\ sending' = sending /\ Return("error") => Pending' = Pending + 1
         /\ sending' = sending /\ Return("nil") => Pending' = Pending
         /\ sending' = sending /\ spawned' = spawned => Pending' = Pending
<1>1. spawned \in Nat /\ sending["nil"] \in Nat /\ sending["error"] \in Nat
  BY DEF TypeOK, ErrVals
<1> QED
  BY <1>1 DEF Pending, Return

(* An error of a turn, and a batch that failed before Advance, always has  *)
(* a goroutine about to report it, until the loop takes a report to stop.  *)
THEOREM ErrorTheorem == Spec => []ErrorNeverLost
<1> DEFINE Open == loop \notin {"stopping", "closing", "returned"}
           Held == err = "error" \/ (raft = "batch" /\ loop # "ready")
<1>1. Init => ErrorNeverLost
  BY DEF Init, ErrorNeverLost
<1>2. TypeOK /\ ErrorNeverLost /\ [Next]_vars => ErrorNeverLost'
  <2> SUFFICES ASSUME TypeOK, ErrorNeverLost, [Next]_vars
               PROVE  ErrorNeverLost'
    OBVIOUS
  <2> USE DEF ErrorNeverLost
  <2>1. Pending \in Nat
    BY PendingFacts
  <2>2. ASSUME sending' = sending, Return("error")
        PROVE  ErrorNeverLost'
    BY <2>1, <2>2, PendingFacts
  <2>3. CASE /\ sending' = sending /\ spawned' = spawned
             /\ err' = err /\ proc' = proc
             /\ Open /\ (Held' => Held)
    BY <2>3, PendingFacts
  <2>4. CASE /\ sending' = sending /\ spawned' = spawned
             /\ loop' = loop /\ err' = err /\ raft' = raft
             /\ proc # "running" => proc' # "running"
    BY <2>4, PendingFacts
  <2>5. CASE UNCHANGED vars
    BY <2>4, <2>5 DEF vars, loopVars, nodeVars, callVars, userVars, stopVars,
       otherVars
  <2>6. ASSUME proc = "running", LoopStep
        PROVE  ErrorNeverLost'
    <3>1. CASE BatchFails \/ WaitCtx \/ CtxCase
      BY <2>2, <3>1 DEF BatchFails, WaitCtx, CtxCase, nodeVars, callVars,
         userVars, stopVars, otherVars
    <3>2. CASE Tick
      <4>1. /\ Return(err) /\ loop = "select"
            /\ UNCHANGED <<sending, raft, proc>>
        BY <3>2 DEF Tick, CanTurn, nodeVars, callVars, userVars, stopVars,
           otherVars
      <4>2. CASE err = "error"
        BY <2>2, <4>1, <4>2
      <4>3. CASE err # "error"
        BY <2>3, <4>1, <4>3 DEF Return
      <4> QED
        BY <4>2, <4>3
    <3>3. CASE BatchDone
      BY <3>3, PendingFacts DEF BatchDone, Return, callVars, userVars,
         stopVars, otherVars
    <3>4. CASE ChurnEmpty
      BY <2>1, <2>6, <3>4, PendingFacts DEF ChurnEmpty, Return, callVars,
         userVars, stopVars, otherVars
    <3>5. CASE ChurnMsg
      <4>1. CASE UNCHANGED loopVars
        BY <2>4, <3>5, <4>1 DEF ChurnMsg, loopVars, userVars, stopVars
      <4>2. CASE Return("error")
        BY <2>2, <3>5, <4>2 DEF ChurnMsg, loopVars, userVars, stopVars
      <4> QED
        BY <3>5, <4>1, <4>2 DEF ChurnMsg
    <3>6. CASE Start
      BY <2>3, <3>6 DEF Start, callVars, userVars, stopVars, otherVars
    <3>7. CASE TakeReady
      BY <2>3, <3>7 DEF TakeReady, CanTurn, callVars, userVars, stopVars,
         otherVars
    <3>8. CASE SelfRemoved
      BY <2>3, <3>8 DEF SelfRemoved, loopVars, callVars, userVars, stopVars,
         otherVars
    <3>9. CASE SetPaused \/ ChurnLock
      BY <2>3, <3>9 DEF SetPaused, ChurnLock, WhilePaused, callVars, userVars,
         stopVars, otherVars
    <3>10. CASE \E u \in Users : RecvPause(u)
      BY <2>3, <3>10 DEF RecvPause, CanTurn, nodeVars, callVars, stopVars
    <3>11. CASE \E u \in Users : RecvStop(u)
      BY <3>11 DEF RecvStop
    <3>12. CASE \E v \in ErrVals : RecvErr(v)
      BY <3>12 DEF RecvErr
    <3>13. CASE DoStop
      BY <3>13 DEF DoStop, callVars, userVars, stopVars, otherVars
    <3>14. CASE CloseStop
      BY <3>14 DEF CloseStop
    <3> QED
      BY <2>6, <3>1, <3>2, <3>3, <3>4, <3>5, <3>6, <3>7, <3>8, <3>9, <3>10,
         <3>11, <3>12, <3>13, <3>14 DEF LoopStep
  <2>7. CASE ReadErr
    <3>1. CASE closed
      BY <2>7, <3>1 DEF ReadErr
    <3>2. CASE ~closed
      <4>1. /\ spawned \in Nat /\ err \in ErrVals
            /\ sending["nil"] \in Nat /\ sending["error"] \in Nat
            /\ sending \in [ErrVals -> Nat]
        BY DEF TypeOK, ErrVals
      <4>2. Pending' = Pending
        BY <2>7, <3>2, <4>1 DEF ReadErr, Pending, ErrVals
      <4> QED
        BY <2>7, <3>2, <4>2 DEF ReadErr, nodeVars
    <3> QED
      BY <3>1, <3>2
  <2>8. ASSUME NEW c \in Caps, SendCall(c), proc = "running"
        PROVE  ErrorNeverLost'
    BY <2>4, <2>8 DEF SendCall, SendBegin, SendCheck, SendLock, SendEnqueue,
       SendStep, QueueHasRoom, loopVars, nodeVars, userVars, stopVars
  <2>9. ASSUME proc = "running",
               Cancel \/ \E u \in Users, op \in API : Call(u, op)
        PROVE  ErrorNeverLost'
    BY <2>4, <2>9 DEF Cancel, Call, loopVars, nodeVars, callVars, stopVars
  <2> HIDE DEF ErrorNeverLost
  <2> QED
    BY <2>5, <2>6, <2>7, <2>8, <2>9 DEF Next
<1> QED
  BY <1>1, <1>2, TypeCorrect, PTL DEF Spec

-----------------------------------------------------------------------------
(* Why no later turn can overwrite the error of a failed batch: raft has   *)
(* no further batch to offer, so the loop never gets back to doReady, and  *)
(* without Pause, Resume and cancellation only doReady assigns to err.     *)
OnlyStop == API \subseteq {"stop"} /\ ~ctxDone
CauseInv ==
  /\ sending["nil"] = 0 /\ proc # "nilCause"
  /\ \A u \in Users : user[u] \notin {"pause", "resume"}
  /\ loop \in {"start", "select", "ready", "stopping", "closing", "returned"}
  /\ spawned > 0 => err = "error"
  /\ err = "error" \/ loop = "ready" => raft \in {"batch", "stopped"}
  /\ err = "error" => loop \notin {"start", "ready"}

(* Nothing but Cancel touches the context.                                 *)
LEMMA CtxStep == [Next]_vars => UNCHANGED ctxDone \/ Cancel
<1> SUFFICES ASSUME [Next]_vars
             PROVE  UNCHANGED ctxDone \/ Cancel
  OBVIOUS
<1>1. CASE LoopStep
  <2>1. CASE Start \/ Tick \/ TakeReady \/ BatchDone \/ BatchFails
             \/ SelfRemoved \/ SetPaused
    BY <2>1 DEF Start, Tick, TakeReady, BatchDone, BatchFails, SelfRemoved,
       SetPaused, WhilePaused, loopVars, nodeVars, callVars, userVars,
       stopVars, otherVars
  <2>2. CASE WaitCtx \/ ChurnLock \/ ChurnEmpty \/ ChurnMsg \/ CtxCase
             \/ DoStop \/ CloseStop
    BY <2>2 DEF WaitCtx, ChurnLock, ChurnEmpty, ChurnMsg, CtxCase, DoStop,
       CloseStop, loopVars, nodeVars, callVars, userVars, stopVars, otherVars
  <2>3. CASE \/ \E u \in Users : RecvPause(u) \/ RecvStop(u)
             \/ \E v \in ErrVals : RecvErr(v)
    BY <2>3 DEF RecvPause, RecvStop, RecvErr, userVars
  <2> QED
    BY <1>1, <2>1, <2>2, <2>3 DEF LoopStep
<1>2. ASSUME NEW c \in Caps, SendCall(c)
      PROVE  UNCHANGED ctxDone
  BY <1>2 DEF SendCall, SendBegin, SendCheck, SendLock, SendEnqueue, SendStep,
     QueueHasRoom, userVars
<1>3. CASE \/ UNCHANGED vars \/ ReadErr
           \/ \E u \in Users, op \in API : Call(u, op)
  BY <1>3 DEF vars, ReadErr, Call, loopVars, nodeVars, callVars, userVars,
     stopVars, otherVars
<1> QED
  BY <1>1, <1>2, <1>3 DEF Next

(* With Stop only, no batch succeeds once the loop has an error.           *)
LEMMA CauseStep ==
  TypeOK /\ (OnlyStop => CauseInv) /\ [Next]_vars => (OnlyStop => CauseInv)'
<1> SUFFICES ASSUME TypeOK, CauseInv, [Next]_vars, OnlyStop, OnlyStop'
             PROVE  CauseInv'
  <2>1. [Next]_vars /\ OnlyStop' => OnlyStop
    <3>1. CASE UNCHANGED ctxDone
      BY <3>1 DEF OnlyStop
    <3>2. CASE Cancel
      BY <3>2 DEF Cancel, OnlyStop
    <3> QED
      BY <3>1, <3>2, CtxStep
  <2> QED
    BY <2>1
<1> USE DEF CauseInv
<1>1. /\ spawned \in Nat /\ err \in ErrVals
      /\ sending \in [ErrVals -> Nat] /\ user \in [Users -> API \cup {"none"}]
  BY DEF TypeOK
<1>2. CASE UNCHANGED <<sending, proc, user, loop, spawned, err, raft>>
  BY <1>2
<1>3. ASSUME LoopStep
      PROVE  CauseInv'
  <2>1. CASE Start \/ TakeReady \/ SelfRemoved
    BY <1>1, <2>1 DEF Start, TakeReady, SelfRemoved, CanTurn, loopVars,
       callVars, userVars, stopVars, otherVars
  <2>2. CASE Tick
    BY <1>1, <2>2 DEF Tick, CanTurn, Return, ErrVals, nodeVars, callVars,
       userVars, stopVars, otherVars
  <2>3. CASE BatchDone
    BY <1>1, <2>3 DEF BatchDone, Return, callVars, userVars, stopVars,
       otherVars
  <2>4. CASE BatchFails
    <3>1. raft \in {"batch", "stopped"}
      BY <2>4 DEF BatchFails, nodeVars, callVars, userVars, stopVars, otherVars
    <3> QED
      BY <1>1, <2>4, <3>1 DEF BatchFails, Return, nodeVars, callVars, userVars,
         stopVars, otherVars
  <2>5. CASE DoStop \/ CloseStop
    BY <1>1, <2>5 DEF DoStop, CloseStop, nodeVars, callVars, userVars,
       stopVars, otherVars
  <2>6. CASE \E u \in Users : RecvPause(u) \/ RecvStop(u)
    BY <1>1, <2>6 DEF RecvPause, RecvStop, nodeVars, callVars, stopVars
  <2>7. CASE \E v \in ErrVals : RecvErr(v)
    BY <1>1, <2>7 DEF RecvErr, ErrVals, nodeVars, callVars, userVars
  <2>8. ~(\/ SetPaused \/ WaitCtx \/ ChurnLock \/ ChurnEmpty \/ ChurnMsg
          \/ CtxCase)
    BY DEF SetPaused, WaitCtx, ChurnLock, ChurnEmpty, ChurnMsg, CtxCase,
       OnlyStop, WhilePaused, loopVars, nodeVars, callVars, userVars, stopVars,
       otherVars
  <2> QED
    BY <1>3, <2>1, <2>2, <2>3, <2>4, <2>5, <2>6, <2>7, <2>8 DEF LoopStep
<1>4. CASE ReadErr
  BY <1>1, <1>4 DEF ReadErr, ErrVals, nodeVars, callVars, userVars
<1>5. ASSUME NEW c \in Caps, SendCall(c)
      PROVE  CauseInv'
  <2>1. CASE SendStep(c)
    BY <2>1 DEF SendStep, loopVars, nodeVars, userVars, stopVars
  <2> QED
    BY <1>2, <1>5, <2>1 DEF SendCall, SendBegin, SendCheck, SendLock,
       SendEnqueue, QueueHasRoom, loopVars, nodeVars, userVars, stopVars
<1>6. ASSUME NEW u \in Users, NEW op \in API, Call(u, op)
      PROVE  CauseInv'
  <2>1. op = "stop"
    BY DEF OnlyStop
  <2> QED
    BY <1>1, <1>6, <2>1 DEF Call, loopVars, nodeVars, callVars, stopVars
<1>7. CASE Cancel
  BY <1>7 DEF Cancel, OnlyStop
<1>8. CASE UNCHANGED vars
  BY <1>2, <1>8 DEF vars, loopVars, nodeVars, callVars, userVars, stopVars,
     otherVars
<1> HIDE DEF CauseInv
<1> QED
  BY <1>3, <1>4, <1>5, <1>6, <1>7, <1>8 DEF Next

(* As long as the program only calls Stop and does not cancel the context, *)
(* the error that ends a batch reaches stopChan, never the nil of a later  *)
(* turn, although the reporter reads the shared variable err.              *)
THEOREM CauseTheorem == Spec => []CauseSurvives
<1>1. Init => (OnlyStop => CauseInv)
  BY DEF Init, OnlyStop, CauseInv, ErrVals
<1>2. (OnlyStop => CauseInv) => CauseSurvives
  BY DEF OnlyStop, CauseInv, CauseSurvives
<1> QED
  BY <1>1, <1>2, CauseStep, TypeCorrect, PTL DEF Spec

-----------------------------------------------------------------------------
(* Why one cause is safe.  As long as no batch has failed nobody reports   *)
(* an error, so it was a call of Stop that ended the loop; that call has   *)
(* returned, and whoever sends on stopChan now makes another.              *)
Stopper(u) == uses[u] > 0 /\ (user[u] = "stop" => uses[u] > 1)
StopInv ==
  /\ \A u \in Users : user[u] = "stop" => uses[u] > 0
  /\ err = "nil" => spawned = 0 /\ sending["nil"] = 0 /\ sending["error"] = 0
  /\ closed => loop = "returned"
  /\ err = "nil" /\ loop \in {"stopping", "closing", "returned"} =>
       \E u \in Users : Stopper(u)
  /\ proc = "closedChan" => err = "error" \/ CalledTwice

(* Calls are never taken back.                                             *)
LEMMA StopperCalls ==
  ASSUME TypeOK, NEW u \in Users, Stopper(u), NEW w \in Users,
         user[w] = "stop", uses[w] > 0
  PROVE  CalledTwice
<1>1. uses[u] \in Nat /\ uses[w] \in Nat
  BY DEF TypeOK
<1> QED  BY <1>1 DEF Stopper, CalledTwice

(* With Stop only, nothing but a failed batch makes a reporter.            *)
LEMMA StopStep ==
  /\ TypeOK /\ (OnlyStop => CauseInv) /\ (OnlyStop => StopInv) /\ [Next]_vars
  => (OnlyStop => StopInv)'
<1> SUFFICES ASSUME TypeOK, CauseInv, StopInv, [Next]_vars, OnlyStop, OnlyStop'
             PROVE  StopInv'
  <2>1. [Next]_vars /\ OnlyStop' => OnlyStop
    <3>1. CASE UNCHANGED ctxDone
      BY <3>1 DEF OnlyStop
    <3>2. CASE Cancel
      BY <3>2 DEF Cancel, OnlyStop
    <3> QED
      BY <3>1, <3>2, CtxStep
  <2> QED
    BY <2>1
<1>1. /\ spawned \in Nat /\ err \in ErrVals /\ sending \in [ErrVals -> Nat]
      /\ user \in [Users -> API \cup {"none"}] /\ uses \in [Users -> Nat]
  BY DEF TypeOK
<1>2. ASSUME UNCHANGED <<user, uses, closed>>, proc' = proc \/ proc' # "closedChan",
             err' = "nil" => /\ err = "nil"
                             /\ UNCHANGED <<spawned, sending>>,
             loop' \in {"stopping", "closing", "returned"} =>
               loop \in {"stopping", "closing", "returned"},
             loop = "returned" => loop' = "returned",
             err' \in ErrVals
      PROVE  StopInv'
  BY <1>2 DEF StopInv, Stopper, CalledTwice, ErrVals
<1>3. ASSUME LoopStep
      PROVE  StopInv'
  <2>1. CASE Start \/ TakeReady \/ SelfRemoved
    BY <1>1, <1>2, <2>1 DEF Start, TakeReady, SelfRemoved, CanTurn, loopVars,
       callVars, userVars, stopVars, otherVars
  <2>2. CASE Tick
    BY <1>1, <1>2, <2>2 DEF Tick, CanTurn, Return, ErrVals, nodeVars, callVars,
       userVars, stopVars, otherVars
  <2>3. CASE BatchDone
    <3>1. err = "nil"
      BY <1>1, <2>3 DEF BatchDone, CauseInv, ErrVals
    <3> QED
      BY <1>2, <2>3, <3>1 DEF BatchDone, Return, ErrVals, callVars, userVars,
         stopVars, otherVars
  <2>4. CASE BatchFails
    BY <1>2, <2>4 DEF BatchFails, Return, ErrVals, nodeVars, callVars, userVars,
       stopVars, otherVars
  <2>5. CASE DoStop
    <3>1. /\ UNCHANGED <<user, uses, closed, err, spawned, sending>>
          /\ proc' = proc \/ proc' = "exited"
          /\ loop = "stopping" /\ loop' \in {"stopping", "closing"}
      BY <2>5 DEF DoStop, callVars, userVars, stopVars, otherVars
    <3> QED  BY <1>1, <1>2, <3>1
  <2>6. CASE CloseStop
    <3>1. /\ loop = "closing" /\ loop' = "returned"
          /\ UNCHANGED <<err, spawned, user, uses, sending>>
      BY <2>6 DEF CloseStop, nodeVars, callVars, userVars
    <3>2. proc' = "closedChan" =>
            \/ proc = "closedChan"
            \/ \E v \in ErrVals : sending[v] > 0
            \/ \E w \in Users : user[w] = "stop"
      BY <2>6 DEF CloseStop
    <3>3. ASSUME err = "nil", NEW w \in Users, user[w] = "stop"
          PROVE  CalledTwice
      BY <3>1, <3>3, StopperCalls DEF StopInv
    <3>4. ASSUME err = "nil" PROVE \A v \in ErrVals : ~(sending[v] > 0)
      BY <1>1, <3>4 DEF StopInv, ErrVals
    <3>5. CalledTwice => CalledTwice'
      BY <3>1 DEF CalledTwice
    <3>6. proc' = "closedChan" => err' = "error" \/ CalledTwice'
      BY <1>1, <3>1, <3>2, <3>3, <3>4, <3>5 DEF StopInv, ErrVals
    <3> QED  BY <3>1, <3>6 DEF StopInv, Stopper
  <2>7. ASSUME NEW u \in Users, RecvPause(u) \/ RecvStop(u)
        PROVE  StopInv'
    <3>1. RecvStop(u)
      BY <2>7 DEF RecvPause, CauseInv
    <3>2. /\ user[u] = "stop" /\ loop = "select" /\ loop' = "stopping"
          /\ user' = [user EXCEPT ![u] = "none"]
          /\ UNCHANGED <<proc, err, spawned, uses, sending, closed>>
      BY <3>1 DEF RecvStop, nodeVars, callVars, stopVars
    <3>3. user'[u] = "none" /\ \A w \in Users \ {u} : user'[w] = user[w]
      BY <1>1, <3>2
    <3>4. Stopper(u)'
      BY <3>2, <3>3 DEF StopInv, Stopper
    <3> QED  BY <3>2, <3>3, <3>4 DEF StopInv, CalledTwice
  <2>8. ASSUME NEW v \in ErrVals, RecvErr(v)
        PROVE  StopInv'
    <3>1. err = "error"
      BY <1>1, <2>8 DEF RecvErr, StopInv, ErrVals
    <3>2. /\ UNCHANGED <<err, spawned, user, uses, closed>> /\ loop = "select"
          /\ proc' = proc \/ proc' = "nilCause"
      BY <2>8 DEF RecvErr, nodeVars, callVars, userVars
    <3> QED  BY <3>1, <3>2 DEF StopInv, Stopper, CalledTwice
  <2>9. ~(\/ SetPaused \/ WaitCtx \/ ChurnLock \/ ChurnEmpty \/ ChurnMsg
          \/ CtxCase)
    BY DEF SetPaused, WaitCtx, ChurnLock, ChurnEmpty, ChurnMsg, CtxCase,
       OnlyStop, CauseInv
  <2> QED
    BY <1>3, <2>1, <2>2, <2>3, <2>4, <2>5, <2>6, <2>7, <2>8, <2>9 DEF LoopStep
<1>4. CASE ReadErr
  <2>1. err = "error"
    BY <1>1, <1>4 DEF ReadErr, StopInv, ErrVals
  <2>2. UNCHANGED <<loop, err, user, uses, closed>>
    BY <1>4 DEF ReadErr, nodeVars, callVars, userVars
  <2> QED  BY <2>1, <2>2 DEF StopInv, Stopper, CalledTwice
<1>5. ASSUME NEW c \in Caps, SendCall(c)
      PROVE  StopInv'
  <2>1. /\ UNCHANGED <<loop, err, spawned, user, uses, sending, closed>>
        /\ proc' = proc \/ proc' = "nilRaft"
    BY <1>5 DEF SendCall, SendBegin, SendCheck, SendLock, SendEnqueue, SendStep,
       QueueHasRoom, loopVars, nodeVars, userVars, stopVars
  <2> QED  BY <1>1, <1>2, <2>1
<1>6. ASSUME NEW u \in Users, NEW op \in API, Call(u, op)
      PROVE  StopInv'
  <2>1. /\ op = "stop" /\ user[u] = "none"
        /\ uses' = [uses EXCEPT ![u] = @ + 1]
        /\ UNCHANGED <<loop, err, spawned, sending, closed>>
        /\ \/ closed /\ user' = user /\ proc' = "closedChan"
           \/ ~closed /\ user' = [user EXCEPT ![u] = "stop"] /\ proc' = proc
    BY <1>6 DEF Call, loopVars, callVars, stopVars, OnlyStop
  <2>2. /\ uses'[u] = uses[u] + 1
        /\ \A w \in Users \ {u} : uses'[w] = uses[w] /\ user'[w] = user[w]
    BY <1>1, <2>1
  <2>3. \A w \in Users :
          uses[w] \in Nat /\ uses'[w] \in Nat /\ uses'[w] >= uses[w]
    BY <1>1, <2>2
  <2>4. CalledTwice => CalledTwice'
    <3>1. \A w \in Users : /\ uses[w] > 0 => uses'[w] > 0
                           /\ uses[w] > 1 => uses'[w] > 1
      BY <2>3
    <3> QED  BY <3>1 DEF CalledTwice
  <2>5. ASSUME NEW w \in Users, Stopper(w)
        PROVE  Stopper(w)' /\ (w # u \/ uses'[u] > 1)
    BY <1>1, <2>1, <2>2, <2>5 DEF Stopper
  <2>6. ASSUME closed, err = "nil"
        PROVE  CalledTwice'
    <3>1. PICK w \in Users : Stopper(w)
      BY <2>6 DEF StopInv
    <3>2. uses'[u] > 0 /\ uses'[w] > 0
      BY <1>1, <2>2, <2>3, <3>1 DEF Stopper
    <3> QED  BY <2>5, <3>1, <3>2 DEF CalledTwice
  <2>7. \A w \in Users : user'[w] = "stop" => uses'[w] > 0
    BY <1>1, <2>1, <2>2 DEF StopInv
  <2>8. proc' = "closedChan" => err' = "error" \/ CalledTwice'
    BY <1>1, <2>1, <2>4, <2>6 DEF StopInv, ErrVals
  <2>9. err' = "nil" /\ loop' \in {"stopping", "closing", "returned"} =>
          \E w \in Users : Stopper(w)'
    BY <2>1, <2>5 DEF StopInv
  <2> QED  BY <2>1, <2>7, <2>8, <2>9 DEF StopInv
<1>7. CASE Cancel
  BY <1>7 DEF Cancel, OnlyStop
<1>8. CASE UNCHANGED vars
  BY <1>1, <1>2, <1>8 DEF vars, loopVars, nodeVars, callVars, userVars, stopVars,
     otherVars
<1> QED
  BY <1>3, <1>4, <1>5, <1>6, <1>7, <1>8 DEF Next

(* Also with a logger whose Fatalf returns: a node without errors that is  *)
(* stopped once never panics on its closed stopChan.                       *)
THEOREM OneCauseTheorem == Spec => []OneCauseIsSafe
<1>1. Init => (OnlyStop => CauseInv) /\ (OnlyStop => StopInv)
  BY DEF Init, OnlyStop, CauseInv, StopInv, ErrVals
<1>2. (OnlyStop => StopInv) => OneCauseIsSafe
  BY DEF OnlyStop, StopInv, OneCauseIsSafe
<1> QED
  BY <1>1, <1>2, CauseStep, StopStep, TypeCorrect, PTL DEF Spec

-----------------------------------------------------------------------------
(* With the unbuffered queue of the code no message is ever buffered, and  *)
(* no capability has had a message accepted that it has not sent.          *)
OrderInv == queue = <<>> /\ \A c \in Caps : delivered[c] <= calls[c]

(* Without a buffer nothing is queued, and raft accepts in sending order.  *)
LEMMA OrderStep ==
  QueueCap = 0 /\ TypeOK /\ OrderInv /\ [Next]_vars =>
    OrderInv' /\ \A c \in Caps : delivered'[c] >= delivered[c]
<1> SUFFICES ASSUME QueueCap = 0, TypeOK, OrderInv, [Next]_vars
             PROVE  OrderInv' /\ \A c \in Caps : delivered'[c] >= delivered[c]
  OBVIOUS
<1> DEFINE Goal == OrderInv' /\ \A c \in Caps : delivered'[c] >= delivered[c]
<1>1. calls \in [Caps -> Nat] /\ delivered \in [Caps -> Nat]
  BY DEF TypeOK
<1>2. CASE UNCHANGED <<queue, calls, delivered>>
  BY <1>1, <1>2 DEF OrderInv
<1>3. CASE LoopStep
  <2>1. ~ChurnMsg
    BY DEF ChurnMsg, OrderInv
  <2>2. CASE \E u \in Users : RecvPause(u) \/ RecvStop(u)
    BY <1>2, <2>2 DEF RecvPause, RecvStop, nodeVars, callVars, stopVars
  <2>3. CASE \E v \in ErrVals : RecvErr(v)
    BY <1>2, <2>3 DEF RecvErr, nodeVars, callVars, userVars
  <2>4. CASE Start \/ Tick \/ TakeReady \/ BatchDone \/ BatchFails
             \/ SelfRemoved \/ SetPaused
    BY <1>2, <2>4 DEF Start, Tick, TakeReady, BatchDone, BatchFails,
       SelfRemoved, SetPaused, WhilePaused, loopVars, nodeVars, callVars,
       userVars, stopVars, otherVars
  <2>5. CASE WaitCtx \/ ChurnLock \/ ChurnEmpty \/ CtxCase \/ DoStop
             \/ CloseStop
    BY <1>2, <2>5 DEF WaitCtx, ChurnLock, ChurnEmpty, CtxCase, DoStop,
       CloseStop, nodeVars, callVars, userVars, stopVars, otherVars
  <2> QED
    BY <1>3, <2>1, <2>2, <2>3, <2>4, <2>5 DEF LoopStep
<1>4. ASSUME NEW c \in Caps, SendCall(c)
      PROVE  Goal
  <2>1. ~SendEnqueue(c)
    BY DEF SendEnqueue, OrderInv, QueueHasRoom
  <2>2. CASE SendBegin(c)
    BY <1>1, <2>2 DEF SendBegin, OrderInv, nodeVars
  <2>3. CASE SendStep(c)
    <3>1. queue' = queue /\ calls' = calls
      BY <2>3 DEF SendStep, nodeVars
    <3>2. CASE delivered' = delivered
      BY <1>2, <3>1, <3>2
    <3>3. CASE delivered' = [delivered EXCEPT ![c] = calls[c]]
      BY <1>1, <3>1, <3>3 DEF OrderInv
    <3> QED
      BY <2>3, <3>2, <3>3 DEF SendStep
  <2>4. CASE SendCheck(c) \/ SendLock(c)
    BY <1>2, <2>4 DEF SendCheck, SendLock, nodeVars
  <2> QED
    BY <1>4, <2>1, <2>2, <2>3, <2>4 DEF SendCall
<1>5. CASE \/ UNCHANGED vars \/ ReadErr \/ Cancel
           \/ \E u \in Users, op \in API : Call(u, op)
  BY <1>2, <1>5 DEF vars, ReadErr, Cancel, Call, loopVars, nodeVars, callVars,
     userVars, stopVars, otherVars
<1> QED
  BY <1>3, <1>4, <1>5 DEF Next

(* With the unbuffered queue of the code, raft accepts the messages sent   *)
(* through one capability in the order they were sent.                     *)
THEOREM OrderTheorem == QueueCap = 0 => (Spec => InOrder)
<1> SUFFICES ASSUME QueueCap = 0
             PROVE  Spec => InOrder
  OBVIOUS
<1> DEFINE Kept == \A c \in Caps : delivered'[c] >= delivered[c]
<1>1. Init => OrderInv
  BY DEF Init, OrderInv
<1>2. TypeOK /\ OrderInv /\ [Next]_vars => OrderInv' /\ [Kept]_vars
  BY OrderStep
<1> QED
  BY <1>1, <1>2, TypeCorrect, PTL DEF Spec, InOrder
=============================================================================

-------------------------- MODULE TransportProofs ---------------------------
(***************************************************************************)
(* Theorems about Transport: the types, whom a loop registers, and that    *)
(* threads which wait for one another are never freed.                     *)
(***************************************************************************)
EXTENDS Transport, SequenceTheorems, TLAPS

(* A handler at work has its call at the head of its inbox.                *)
BusyServes == \A i \in Nodes : server[i] # "idle" => inbox[i] # <<>>

(* A loop that registers a node has the conf change that says which.       *)
Registers ==
  \A i \in Nodes : loop[i] \in {"fetch", "ask"} => batch[i].change \in Changes

(* What the loop reads is the channel of its last attempt, and the one     *)
(* goroutine that answers there fetches the node the conf change adds.     *)
OneAttempt(i) ==
  /\ loop[i] # "fetch" => fetches[i] = {}
  /\ \A f \in fetches[i] : f.id = batch[i].change.arg
  /\ loop[i] = "fetch" =>
       answer[i] \in {{}, {None}, {batch[i].change.arg}}
  /\ loop[i] = "ask" => answer[i] = {batch[i].change.arg}
RightAttempt == \A i \in Nodes : OneAttempt(i)

Served == TypeOK /\ BusyServes /\ Registers
Inv == Served /\ RightAttempt

(* A call that is made keeps the inboxes well formed and empties none.     *)
LEMMA CallKeeps ==
  ASSUME inbox \in [Nodes -> Seq(Calls)],
         NEW x, NEW op, NEW arg, NEW j, Call(x, op, arg, j),
         [from |-> x, op |-> op, arg |-> arg] \in Calls
  PROVE  /\ inbox' \in [Nodes -> Seq(Calls)]
         /\ \A i \in Nodes : inbox[i] # <<>> => inbox'[i] # <<>>
<1> DEFINE c == [from |-> x, op |-> op, arg |-> arg]
<1> HIDE DEF c
<1>1. inbox' = [inbox EXCEPT ![j] = Append(@, c)] /\ c \in Calls
  BY DEF Call, c
<1>2. ASSUME NEW i \in Nodes
      PROVE  Append(inbox[i], c) \in Seq(Calls) /\ Append(inbox[i], c) # <<>>
  <2>1. inbox[i] \in Seq(Calls)
    OBVIOUS
  <2> QED  BY <1>1, <2>1
<1> QED  BY <1>1, <1>2

(* An answer takes one call out of a nonempty inbox.                       *)
LEMMA AnswerKeeps ==
  ASSUME Inv, NEW i \in Nodes, Answer(i), inbox[i] # <<>>
  PROVE  /\ inbox' \in [Nodes -> Seq(Calls)]
         /\ server' \in [Nodes -> {"idle", "ask", "propose", "lock", "stuck"}]
         /\ BusyServes'
<1>1. Tail(inbox[i]) \in Seq(Calls)
  BY DEF Inv, Served, TypeOK
<1> QED  BY <1>1 DEF Inv, Served, TypeOK, BusyServes, Answer

(* The first of a nonempty inbox is a call.                                *)
LEMMA HeadIsCall ==
  ASSUME Inv, NEW i \in Nodes, inbox[i] # <<>>
  PROVE  Head(inbox[i]) \in Calls
BY DEF Inv, Served, TypeOK

(* At first no call is made and no batch is offered.                       *)
LEMMA InvInit == Init => Inv
<1> SUFFICES ASSUME Init PROVE Inv
  OBVIOUS
<1>1. NoBatch \in [to : SUBSET Nodes, change : Changes \cup {None}]
  BY DEF NoBatch
<1>2. <<>> \in Seq(Calls)
  OBVIOUS
<1> QED
  BY <1>1, <1>2
     DEF Init, Inv, Served, TypeOK, BusyServes, Registers, RightAttempt,
         OneAttempt, RetrievalRetries

(* The invariant is inductive: a client.                                   *)
LEMMA InvClient ==
  ASSUME Inv, NEW c \in Clients, NEW r \in Requests[c], ClientCall(c, r)
  PROVE  Served'
<1>1. [from |-> c, op |-> r.op, arg |-> r.arg] \in Calls
  BY RequestsOK DEF Calls
<1>2. /\ inbox' \in [Nodes -> Seq(Calls)]
      /\ \A i \in Nodes : inbox[i] # <<>> => inbox'[i] # <<>>
  BY <1>1, CallKeeps DEF Inv, Served, TypeOK, ClientCall
<1> QED
  BY <1>2 DEF Inv, Served, TypeOK, BusyServes, Registers, ClientCall, loopVars,
              fetchVars, raftVars

(* The servers.                                                            *)
LEMMA InvServer ==
  ASSUME Inv, NEW i \in Nodes, Serve(i) \/ Proposed(i)
  PROVE  Served'
<1> USE DEF Inv, Served, rpcVars, loopVars, fetchVars, raftVars, userVars
<1>1. CASE Id(i)
  BY <1>1, AnswerKeeps DEF Id, Dispatch, TypeOK, Registers
<1>2. CASE Send(i)
  <2>1. CASE HandlerGoes(i, "lock") /\ UNCHANGED <<inbox, lead>>
    BY <1>2, <2>1 DEF Send, Dispatch, HandlerGoes, TypeOK, BusyServes, Registers
  <2>2. CASE Answer(i) /\ \E b \in BOOLEAN : lead' = [lead EXCEPT ![i] = b /\ up[i]]
    BY <1>2, <2>2, AnswerKeeps DEF Send, Dispatch, TypeOK, Registers
  <2>3. CASE HandlerGoes(i, "propose") /\ UNCHANGED <<inbox, lead>>
    BY <1>2, <2>3 DEF Send, Dispatch, HandlerGoes, TypeOK, BusyServes, Registers
  <2> QED  BY <1>2, <2>1, <2>2, <2>3 DEF Send
<1>3. CASE Put(i)
  BY <1>3 DEF Put, Dispatch, HandlerGoes, TypeOK, BusyServes, Registers
<1>4. CASE AddOrRemove(i)
  <2>1. [from |-> Server(i), op |-> "id", arg |-> None] \in Calls
    BY DEF Calls, Threads, Server, Ops
  <2>2. /\ inbox' \in [Nodes -> Seq(Calls)]
        /\ \A k \in Nodes : inbox[k] # <<>> => inbox'[k] # <<>>
    BY <1>4, <2>1, CallKeeps DEF AddOrRemove, TypeOK
  <2> QED
    BY <1>4, <2>2 DEF AddOrRemove, Dispatch, HandlerGoes, TypeOK, BusyServes,
                      Registers
<1>5. CASE ProposeChange(i)
  BY <1>5 DEF ProposeChange, HandlerGoes, TypeOK, BusyServes, Registers
<1>6. CASE Proposed(i)
  <2>1. inbox[i] # <<>>
    BY <1>6 DEF Proposed, BusyServes
  <2>2. accepted' \in [Nodes -> SUBSET Changes]
    BY <1>6, <2>1, HeadIsCall DEF Proposed, TypeOK, Calls, Changes
  <2> QED  BY <1>6, <2>1, <2>2, AnswerKeeps DEF Proposed, TypeOK, Registers
<1>7. CASE ProposeFails(i)
  BY <1>7, AnswerKeeps DEF ProposeFails, TypeOK, BusyServes, Registers
<1>8. CASE SendQueues(i)
  BY <1>8 DEF SendQueues, HandlerGoes, TypeOK, BusyServes, Registers
<1> QED
  BY <1>1, <1>2, <1>3, <1>4, <1>5, <1>6, <1>7, <1>8 DEF Serve

(* The event loops.                                                        *)
LEMMA InvLoop ==
  ASSUME Inv, NEW i \in Nodes,
         \/ InTurn(i) \/ RetrievalReturns(i) \/ Bootstrap(i) \/ Ready(i)
         \/ Elect(i) \/ LoseLeader(i) \/ WaitCtx(i) \/ CtxEnds(i)
  PROVE  Served'
<1> USE DEF Inv, Served, rpcVars, loopVars, fetchVars, raftVars, userVars
<1>1. ASSUME NEW j, NEW op \in {"send", "forward", "id"},
             Call(Loop(i), op, None, j)
      PROVE  /\ inbox' \in [Nodes -> Seq(Calls)]
             /\ \A k \in Nodes : inbox[k] # <<>> => inbox'[k] # <<>>
  <2>1. [from |-> Loop(i), op |-> op, arg |-> None] \in Calls
    BY <1>1 DEF Calls, Threads, Loop, Ops
  <2> QED  BY <1>1, <2>1, CallKeeps DEF TypeOK
<1>2. ASSUME NEW to \in SUBSET Nodes, NEW change \in Changes \cup {None},
             TakeBatch(i, to, change)
      PROVE  Served'
  BY <1>2 DEF TakeBatch, LoopGoes, TypeOK, BusyServes, Registers
<1>3. NoBatch \in [to : SUBSET Nodes, change : Changes \cup {None}]
  BY DEF NoBatch
<1>4. CASE Bootstrap(i)
  BY <1>4, <1>2 DEF Bootstrap, Changes
<1>5. CASE Ready(i)
  <2>1. Committed(i) \subseteq Changes
    BY DEF Committed, TypeOK
  <2>2. view[i] \subseteq Nodes
    BY DEF TypeOK
  <2> QED  BY <1>5, <1>2, <2>1, <2>2 DEF Ready
<1>6. CASE SendNext(i)
  <2>1. PICK j \in batch[i].to, op \in {"send", "forward"} :
          /\ Call(Loop(i), op, None, j)
          /\ batch' = [batch EXCEPT ![i].to = @ \ {j}]
    BY <1>6 DEF SendNext
  <2>2. batch' \in [Nodes -> [to : SUBSET Nodes, change : Changes \cup {None}]]
    <3> DEFINE Batches == [to : SUBSET Nodes, change : Changes \cup {None}]
    <3>1. \A b \in Batches : [b EXCEPT !.to = @ \ {j}] \in Batches
      OBVIOUS
    <3> HIDE DEF Batches
    <3>2. batch \in [Nodes -> Batches]
      BY DEF TypeOK, Batches
    <3>3. /\ batch' = [k \in Nodes |-> batch'[k]]
          /\ \A k \in Nodes \ {i} : batch'[k] = batch[k]
          /\ batch'[i] = [batch[i] EXCEPT !.to = @ \ {j}]
      BY <2>1, <3>2
    <3>4. \A k \in Nodes : batch'[k] \in Batches
      BY <3>1, <3>2, <3>3
    <3> QED  BY <3>3, <3>4 DEF Batches
  <2>3. batch'[i].change = batch[i].change
    BY <2>1 DEF TypeOK
  <2> QED
    BY <1>6, <1>1, <2>1, <2>2, <2>3 DEF SendNext, TypeOK, BusyServes, Registers
<1>7. ASSUME NEW k \in 0 .. RetrievalRetries - 1, Attempt(i, k), batch[i].change \in Changes
      PROVE  /\ fetches' \in [Nodes -> SUBSET Fetches]
             /\ answer' \in [Nodes -> SUBSET (Nodes \cup {None})]
  BY <1>7 DEF Attempt, Abandoned, Fetches, Changes, TypeOK
<1>8. ASSUME NoAttempt(i)
      PROVE  /\ fetches' \in [Nodes -> SUBSET Fetches]
             /\ answer' \in [Nodes -> SUBSET (Nodes \cup {None})]
  BY <1>8 DEF NoAttempt, Abandoned, TypeOK
<1>9. CASE NoChange(i)
  BY <1>3, <1>9 DEF NoChange, BatchOver, LoopGoes, TypeOK, BusyServes, Registers
<1>10. CASE AddNode(i)
  <2>1. batch[i].change \in Changes
    BY <1>10 DEF AddNode, Sent, TypeOK
  <2>2. 0 \in 0 .. RetrievalRetries - 1
    BY DEF RetrievalRetries
  <2>3. /\ fetches' \in [Nodes -> SUBSET Fetches]
        /\ answer' \in [Nodes -> SUBSET (Nodes \cup {None})]
    BY <1>10, <1>7, <2>1, <2>2 DEF AddNode
  <2> QED
    BY <1>10, <2>1, <2>3 DEF AddNode, LoopGoes, TypeOK, BusyServes, Registers
<1>11. CASE RemoveNode(i)
  <2>1. batch[i].change \in Changes
    BY <1>11 DEF RemoveNode, Sent, TypeOK
  <2>2. done' \in [Nodes -> SUBSET Changes]
    BY <2>1, <1>11 DEF RemoveNode, Handled, TypeOK
  <2>3. /\ view' \in [Nodes -> SUBSET Nodes]
        /\ up' \in [Nodes -> BOOLEAN] /\ lead' \in [Nodes -> BOOLEAN]
    <3>1. \/ UNCHANGED <<up, lead>>
          \/ /\ up' = [up EXCEPT ![i] = FALSE]
             /\ lead' = [lead EXCEPT ![i] = FALSE]
      BY <1>11 DEF RemoveNode, RaftStops
    <3>2. up' \in [Nodes -> BOOLEAN] /\ lead' \in [Nodes -> BOOLEAN]
      BY <3>1 DEF TypeOK
    <3>3. view' = [view EXCEPT ![i] = @ \ ({batch[i].change.arg} \ {i})]
      BY <1>11 DEF RemoveNode
    <3> QED  BY <3>2, <3>3 DEF TypeOK
  <2>4. /\ batch' = [batch EXCEPT ![i] = NoBatch]
        /\ \E s \in {"select", "failed"} : loop' = [loop EXCEPT ![i] = s]
    BY <1>11 DEF RemoveNode, BatchOver, BatchFails, LoopGoes
  <2>5. UNCHANGED <<rpcVars, fetchVars, accepted, userVars>>
    BY <1>11 DEF RemoveNode
  <2> QED
    BY <1>3, <2>2, <2>3, <2>4, <2>5 DEF TypeOK, BusyServes, Registers
<1>12. ASSUME RegisterFails(i), UNCHANGED <<rpcVars, view, done, raftVars, userVars>>
       PROVE  Served'
  <2>1. /\ tries' = [tries EXCEPT ![i] = 0]
        /\ batch' = [batch EXCEPT ![i] = NoBatch]
        /\ loop' = [loop EXCEPT ![i] = "failed"]
    BY <1>12 DEF RegisterFails, BatchFails, LoopGoes
  <2>2. tries' \in [Nodes -> 0 .. RetrievalRetries - 1]
    BY <2>1 DEF TypeOK, RetrievalRetries
  <2>3. Registers'
    BY <2>1 DEF Registers, TypeOK
  <2>4. batch' \in [Nodes -> [to : SUBSET Nodes, change : Changes \cup {None}]]
    BY <1>3, <2>1 DEF TypeOK
  <2>5. /\ fetches' \in [Nodes -> SUBSET Fetches]
        /\ answer' \in [Nodes -> SUBSET (Nodes \cup {None})]
    BY <1>12, <1>8 DEF RegisterFails
  <2> QED
    BY <1>12, <2>1, <2>2, <2>3, <2>4, <2>5 DEF TypeOK, BusyServes
<1>13. ASSUME NextTry(i), loop[i] = "fetch",
              UNCHANGED <<rpcVars, view, done, raftVars, userVars>>
       PROVE  Served'
  <2>1. CASE RetriesLeft(i)
    <3>1. tries[i] + 1 \in 0 .. RetrievalRetries - 1
      <4>1. tries[i] \in 0 .. 2
        BY DEF TypeOK, RetrievalRetries
      <4> QED  BY <2>1, <4>1 DEF RetriesLeft, RetrievalRetries
    <3>2. /\ tries' = [tries EXCEPT ![i] = @ + 1]
          /\ Attempt(i, tries[i] + 1)
          /\ UNCHANGED <<loop, batch>>
      BY <1>13, <2>1 DEF NextTry
    <3>3. tries' \in [Nodes -> 0 .. RetrievalRetries - 1]
      BY <3>1, <3>2 DEF TypeOK
    <3>4. batch[i].change \in Changes
      BY <1>13 DEF Registers
    <3>5. /\ fetches' \in [Nodes -> SUBSET Fetches]
          /\ answer' \in [Nodes -> SUBSET (Nodes \cup {None})]
      BY <3>1, <3>2, <3>4, <1>7
    <3> QED
      BY <1>13, <3>2, <3>3, <3>5 DEF TypeOK, BusyServes, Registers
  <2>2. CASE ~RetriesLeft(i)
    BY <1>13, <2>2, <1>12 DEF NextTry
  <2> QED  BY <2>1, <2>2
<1>14. CASE RetrievalFails(i) \/ RetrievalTimesOut(i) \/ RegisterCtx(i)
  BY <1>14, <1>12, <1>13 DEF RetrievalFails, RetrievalTimesOut, RegisterCtx
<1>15. CASE Retrieved(i)
  <2>1. /\ inbox' \in [Nodes -> Seq(Calls)]
        /\ \A k \in Nodes : inbox[k] # <<>> => inbox'[k] # <<>>
    BY <1>15, <1>1 DEF Retrieved
  <2>2. tries' \in [Nodes -> 0 .. RetrievalRetries - 1]
    BY <1>15 DEF Retrieved, RetrievalRetries, TypeOK
  <2>3. fetches' \in [Nodes -> SUBSET Fetches]
    BY <1>15 DEF Retrieved, Abandoned, TypeOK
  <2> QED
    BY <1>15, <2>1, <2>2, <2>3 DEF Retrieved, LoopGoes, TypeOK, BusyServes,
    Registers
<1>16. CASE Registered(i)
  <2>1. batch[i].change \in Changes
    BY <1>16 DEF Registered, Registers
  <2>2. done' \in [Nodes -> SUBSET Changes]
    BY <1>16, <2>1 DEF Registered, Handled, TypeOK
  <2>3. view' \in [Nodes -> SUBSET Nodes]
    <3>1. None \notin answer[i]
      <4>1. loop[i] = "ask" => answer[i] = {batch[i].change.arg}
        BY DEF RightAttempt, OneAttempt
      <4>2. batch[i].change.arg \in Nodes
        BY <2>1 DEF Changes
      <4> QED  BY <1>16, <4>1, <4>2, NoneOK DEF Registered
    <3> QED  BY <1>16, <3>1 DEF Registered, TypeOK
  <2>4. answer' \in [Nodes -> SUBSET (Nodes \cup {None})]
    BY <1>16 DEF Registered, TypeOK
  <2> QED
    BY <1>16, <1>3, <2>2, <2>3, <2>4
       DEF Registered, BatchOver, LoopGoes, TypeOK, BusyServes, Registers
<1>17. CASE Stop(i)
  BY <1>17 DEF Stop, RaftStops, LoopGoes, TypeOK, BusyServes, Registers
<1>18. CASE RetrievalReturns(i)
  <2>1. /\ fetches' \in [Nodes -> SUBSET Fetches]
        /\ answer' \in [Nodes -> SUBSET (Nodes \cup {None})]
    BY <1>18 DEF RetrievalReturns, Fetches, TypeOK
  <2> QED
    BY <1>18, <2>1 DEF RetrievalReturns, TypeOK, BusyServes, Registers
<1>19. CASE Elect(i) \/ LoseLeader(i)
  BY <1>19 DEF Elect, LoseLeader, TypeOK, BusyServes, Registers
<1>20. CASE Churn(i) \/ WaitCtx(i) \/ CtxEnds(i)
  <2>1. /\ \E s \in {"select", "stuck", "failed"} : loop' = [loop EXCEPT ![i] = s]
        /\ UNCHANGED <<rpcVars, batch, fetchVars, view, done, raftVars, userVars>>
    BY <1>20 DEF Churn, WaitCtx, CtxEnds, LoopGoes
  <2> QED  BY <2>1 DEF TypeOK, BusyServes, Registers
<1> QED
  BY <1>4, <1>5, <1>6, <1>9, <1>10, <1>11, <1>14, <1>15, <1>16, <1>17, <1>18,
     <1>19, <1>20
     DEF InTurn, Registering

(* Late answers and those of earlier registrations reach no channel that   *)
(* is read.                                                                *)
LEMMA AttemptKept ==
  ASSUME Inv, [Next]_vars
  PROVE  RightAttempt'
<1> USE DEF Inv, Served
<1>1. ASSUME UNCHANGED <<loop, batch, fetches, answer>>
      PROVE  RightAttempt'
  BY <1>1 DEF RightAttempt, OneAttempt
<1>2. ASSUME NEW c \in Clients, NEW r \in Requests[c], ClientCall(c, r)
      PROVE  RightAttempt'
  BY <1>2, <1>1 DEF ClientCall, loopVars, fetchVars
<1>3. ASSUME NEW x, Cancel(x) PROVE RightAttempt'
  BY <1>3, <1>1 DEF Cancel, loopVars, fetchVars
<1>4. ASSUME NEW i \in Nodes, Serve(i) \/ Proposed(i) PROVE RightAttempt'
  BY <1>4, <1>1
     DEF Serve, Id, Send, SendQueues, Put, AddOrRemove, ProposeChange,
         ProposeFails, Proposed, loopVars, fetchVars
<1>5. ASSUME NEW i \in Nodes, loop[i] \notin {"fetch", "ask"}, NEW s,
             s \notin {"fetch", "ask"}, loop' = [loop EXCEPT ![i] = s],
             UNCHANGED <<fetches, answer>>,
             \A k \in Nodes \ {i} : batch'[k] = batch[k]
      PROVE  RightAttempt'
  <2>1. fetches[i] = {} /\ loop'[i] = s
    BY <1>5 DEF RightAttempt, OneAttempt, TypeOK
  <2> QED  BY <1>5, <2>1 DEF RightAttempt, OneAttempt, TypeOK
<1>6. ASSUME NEW i \in Nodes, NEW b \in BOOLEAN, SetPaused(i, b) PROVE RightAttempt'
  BY <1>6, <1>5 DEF SetPaused, LoopGoes, fetchVars
<1>7. ASSUME NEW i \in Nodes, Churn(i) \/ WaitCtx(i) \/ CtxEnds(i) \/ Stop(i)
      PROVE  RightAttempt'
  BY <1>7, <1>5 DEF Churn, WaitCtx, CtxEnds, Stop, LoopGoes, fetchVars
<1>8. ASSUME NEW i \in Nodes, NEW to, NEW change, TakeBatch(i, to, change)
      PROVE  RightAttempt'
  <2>1. \A k \in Nodes \ {i} : batch'[k] = batch[k]
    BY <1>8 DEF TakeBatch, TypeOK
  <2> QED  BY <1>8, <1>5, <2>1 DEF TakeBatch, Selecting, LoopGoes, fetchVars
<1>9. ASSUME NEW i \in Nodes, SendNext(i) PROVE RightAttempt'
  <2>1. \A k \in Nodes : k # i => batch'[k] = batch[k]
    BY <1>9 DEF SendNext, TypeOK
  <2>2. loop[i] = "send" /\ UNCHANGED <<loop, fetches, answer>>
    BY <1>9 DEF SendNext, fetchVars
  <2> QED  BY <2>1, <2>2 DEF RightAttempt, OneAttempt
<1>10. ASSUME NEW i \in Nodes, NoChange(i) \/ RemoveNode(i) PROVE RightAttempt'
  <2>1. /\ loop[i] = "send" /\ UNCHANGED <<fetches, answer>>
        /\ batch' = [batch EXCEPT ![i] = NoBatch]
        /\ \E s \in {"select", "failed"} : loop' = [loop EXCEPT ![i] = s]
    BY <1>10 DEF NoChange, RemoveNode, Sent, BatchOver, BatchFails, LoopGoes,
    fetchVars
  <2>2. \A k \in Nodes \ {i} : batch'[k] = batch[k]
    BY <2>1 DEF TypeOK
  <2> QED  BY <1>5, <2>1, <2>2
<1>11. ASSUME NEW i \in Nodes, NEW k, Attempt(i, k), UNCHANGED batch,
              loop' = [loop EXCEPT ![i] = "fetch"]
       PROVE  RightAttempt'
  <2>1. /\ loop'[i] = "fetch"
        /\ fetches'[i] = {[id |-> batch[i].change.arg, attempt |-> k]}
        /\ answer'[i] = {}
    BY <1>11 DEF Attempt, Abandoned, TypeOK
  <2>2. OneAttempt(i)'
    BY <1>11, <2>1 DEF OneAttempt
  <2>3. ASSUME NEW j \in Nodes, j # i PROVE OneAttempt(j)'
    BY <1>11, <2>3 DEF Attempt, RightAttempt, OneAttempt, TypeOK
  <2> QED  BY <2>2, <2>3 DEF RightAttempt
<1>12. ASSUME NEW i \in Nodes, AddNode(i) PROVE RightAttempt'
  BY <1>12, <1>11 DEF AddNode, LoopGoes
<1>13. ASSUME NEW i \in Nodes, RegisterFails(i) PROVE RightAttempt'
  <2>1. /\ fetches'[i] = {} /\ loop'[i] = "failed"
        /\ \A j \in Nodes \ {i} :
             /\ fetches'[j] = fetches[j] /\ loop'[j] = loop[j]
             /\ answer'[j] = answer[j] /\ batch'[j] = batch[j]
    BY <1>13 DEF RegisterFails, NoAttempt, Abandoned, BatchFails, LoopGoes, TypeOK
  <2> QED  BY <2>1 DEF RightAttempt, OneAttempt
<1>14. ASSUME NEW i \in Nodes, loop[i] = "fetch", NextTry(i) PROVE RightAttempt'
  <2>1. CASE RetriesLeft(i)
    <3>1. loop' = [loop EXCEPT ![i] = "fetch"]
      BY <1>14, <2>1 DEF NextTry, TypeOK
    <3> QED  BY <1>14, <2>1, <3>1, <1>11 DEF NextTry
  <2>2. CASE ~RetriesLeft(i)
    BY <1>14, <2>2, <1>13 DEF NextTry
  <2> QED  BY <2>1, <2>2
<1>15. ASSUME NEW i \in Nodes, RetrievalFails(i) \/ RetrievalTimesOut(i) \/ RegisterCtx(i)
       PROVE  RightAttempt'
  BY <1>15, <1>13, <1>14 DEF RetrievalFails, RetrievalTimesOut, RegisterCtx
<1>16. ASSUME NEW i \in Nodes, Retrieved(i) PROVE RightAttempt'
  <2>1. loop[i] = "fetch" /\ answer[i] \ {None} # {}
    BY <1>16 DEF Retrieved
  <2>2. answer[i] = {batch[i].change.arg}
    BY <2>1 DEF RightAttempt, OneAttempt
  <2>3. /\ fetches'[i] = {} /\ loop'[i] = "ask" /\ UNCHANGED <<answer, batch>>
        /\ \A j \in Nodes \ {i} : fetches'[j] = fetches[j] /\ loop'[j] = loop[j]
    BY <1>16 DEF Retrieved, Abandoned, LoopGoes, TypeOK
  <2> QED  BY <2>2, <2>3 DEF RightAttempt, OneAttempt
<1>17. ASSUME NEW i \in Nodes, Registered(i) PROVE RightAttempt'
  <2>1. /\ loop[i] = "ask" /\ loop'[i] = "select" /\ UNCHANGED fetches
        /\ \A j \in Nodes \ {i} :
             /\ loop'[j] = loop[j]
             /\ answer'[j] = answer[j] /\ batch'[j] = batch[j]
    BY <1>17 DEF Registered, BatchOver, LoopGoes, TypeOK
  <2>2. fetches[i] = {}
    BY <2>1 DEF RightAttempt, OneAttempt
  <2> QED  BY <2>1, <2>2 DEF RightAttempt, OneAttempt
<1>18. ASSUME NEW i \in Nodes, RetrievalReturns(i) PROVE RightAttempt'
  <2>1. PICK f \in fetches[i] :
          /\ fetches' = [fetches EXCEPT ![i] = @ \ {f}]
          /\ \E a \in {f.id, None} : answer' = [answer EXCEPT ![i] = {a}]
    BY <1>18 DEF RetrievalReturns
  <2>2. loop[i] = "fetch" /\ f.id = batch[i].change.arg
    BY DEF RightAttempt, OneAttempt
  <2>3. UNCHANGED <<loop, batch>>
    BY <1>18 DEF RetrievalReturns
  <2>4. /\ fetches'[i] \subseteq fetches[i]
        /\ answer'[i] \in {{None}, {batch[i].change.arg}}
        /\ \A j \in Nodes \ {i} : fetches'[j] = fetches[j] /\ answer'[j] = answer[j]
    BY <2>1, <2>2 DEF TypeOK
  <2>5. OneAttempt(i)'
    BY <2>2, <2>3, <2>4 DEF RightAttempt, OneAttempt
  <2>6. ASSUME NEW j \in Nodes, j # i PROVE OneAttempt(j)'
    BY <2>3, <2>4, <2>6 DEF RightAttempt, OneAttempt
  <2> QED  BY <2>5, <2>6 DEF RightAttempt
<1>19. ASSUME NEW i \in Nodes, NodeStep(i) PROVE RightAttempt'
  <2>1. Elect(i) \/ LoseLeader(i) => RightAttempt'
    BY <1>1 DEF Elect, LoseLeader, loopVars, fetchVars
  <2>2. Bootstrap(i) \/ Ready(i) => RightAttempt'
    BY <1>8 DEF Bootstrap, Ready
  <2> QED
    BY <1>19, <2>1, <2>2, <1>4, <1>7, <1>9, <1>10, <1>12, <1>15, <1>16, <1>17,
    <1>18
       DEF NodeStep, InTurn, Registering
<1>20. CASE UNCHANGED vars
  BY <1>20, <1>1 DEF vars, loopVars, fetchVars
<1> QED
  BY <1>2, <1>3, <1>6, <1>19, <1>20, NodesOK DEF Next

(* The invariant is inductive.                                             *)
LEMMA InvNext ==
  ASSUME Inv, [Next]_vars
  PROVE  Inv'
<1>1. ASSUME NEW x \in Impatient, Cancel(x) PROVE Served'
  BY <1>1, ImpatientOK
     DEF Cancel, Inv, Served, TypeOK, BusyServes, Registers, rpcVars, loopVars,
         fetchVars, raftVars
<1>2. ASSUME NEW i \in Pausable, NEW b \in BOOLEAN, SetPaused(i, b) PROVE Served'
  <2>1. /\ \E s \in {"paused", "churn", "stuck"} : loop' = [loop EXCEPT ![i] = s]
        /\ paused' = paused \/ paused' = [paused EXCEPT ![i] = b]
        /\ UNCHANGED <<rpcVars, batch, fetchVars, view, done, raftVars, called,
                       cancelled>>
    BY <1>2 DEF SetPaused, LoopGoes
  <2>2. paused' \in [Nodes -> BOOLEAN]
    BY <2>1 DEF Inv, Served, TypeOK
  <2>3. TypeOK'
    <3>1. /\ inbox' = inbox /\ server' = server /\ batch' = batch /\ tries' = tries
          /\ fetches' = fetches /\ answer' = answer /\ view' = view /\ done' = done
          /\ up' = up /\ lead' = lead /\ accepted' = accepted
          /\ called' = called /\ cancelled' = cancelled
      BY <2>1 DEF rpcVars, fetchVars, raftVars
    <3>2. loop' \in [Nodes -> {"select", "paused", "churn", "stuck", "send", "fetch",
                              "ask", "failed", "ended"}]
      BY <2>1 DEF Inv, Served, TypeOK
    <3> QED  BY <2>2, <3>1, <3>2 DEF Inv, Served, TypeOK
  <2>4. BusyServes' /\ Registers'
    BY <2>1, NodesOK DEF Inv, Served, TypeOK, BusyServes, Registers, rpcVars
  <2> QED  BY <2>3, <2>4 DEF Served
<1>3. ASSUME UNCHANGED vars PROVE Served'
  <2>1. TypeOK'
    BY <1>3 DEF vars, rpcVars, loopVars, fetchVars, raftVars, userVars, Inv,
    Served,
                TypeOK
  <2>2. BusyServes' /\ Registers'
    BY <1>3 DEF vars, rpcVars, loopVars, Inv, Served, BusyServes, Registers
  <2> QED  BY <2>1, <2>2 DEF Served
<1>4. ASSUME NEW i \in Nodes, NodeStep(i) PROVE Served'
  BY <1>4, InvServer, InvLoop DEF NodeStep
<1>5. ASSUME NEW c \in Clients, NEW r \in Requests[c], ClientCall(c, r)
      PROVE  Served'
  BY <1>5, InvClient
<1>6. Served'
  BY <1>1, <1>2, <1>3, <1>4, <1>5 DEF Next
<1> QED  BY <1>6, AttemptKept DEF Inv

(* The invariant the theorems below rest on.                               *)
THEOREM Invariance == Spec => []Inv
<1>1. Init => Inv
  BY InvInit
<1>2. Inv /\ [Next]_vars => Inv'
  BY InvNext
<1> QED  BY <1>1, <1>2, PTL DEF Spec

(* Every variable keeps its type, with any number of nodes and clients.    *)
THEOREM TypeCorrect == Spec => []TypeOK
<1>1. Inv => TypeOK
  BY DEF Inv, Served
<1> QED  BY <1>1, Invariance, PTL

(* Whatever times out, fails or comes late: the loop registers the node    *)
(* that the conf change names and no other.                                *)
THEOREM RightNodeTheorem == Spec => []RightNode
<1>1. Inv => RightNode
  BY DEF Inv, RightAttempt, OneAttempt, RightNode
<1> QED  BY <1>1, Invariance, PTL

-----------------------------------------------------------------------------
(* A server in the middle of a call to another, or stuck, answers nothing: *)
(* calls can only join its inbox.                                          *)
LEMMA InboxGrows ==
  ASSUME Inv, Next, NEW j \in Nodes, server[j] \in {"ask", "stuck"},
         NEW x, Pending(x, j)
  PROVE  Pending(x, j)'
<1>1. inbox[j] \in Seq(Calls)
  BY DEF Inv, Served, TypeOK
<1>2. ASSUME NEW y, NEW op, NEW arg, NEW k, Call(y, op, arg, k)
      PROVE  Pending(x, j)'
  <2> DEFINE c == [from |-> y, op |-> op, arg |-> arg]
  <2> HIDE DEF c
  <2>1. inbox' = [inbox EXCEPT ![k] = Append(@, c)]
    BY <1>2 DEF Call, c
  <2>2. PICK n \in DOMAIN inbox[j] : inbox[j][n].from = x
    BY DEF Pending
  <2>3. n \in DOMAIN Append(inbox[j], c) /\ Append(inbox[j], c)[n] = inbox[j][n]
    BY <1>1
  <2>4. inbox'[j] = inbox[j] \/ inbox'[j] = Append(inbox[j], c)
    BY <2>1 DEF Inv, Served, TypeOK
  <2> QED  BY <2>2, <2>3, <2>4 DEF Pending
<1>3. ASSUME NEW i \in Nodes, server[i] \in {"idle", "propose"}, Answer(i)
      PROVE  Pending(x, j)'
  BY <1>3 DEF Answer, Pending, Inv, Served, TypeOK
<1>4. CASE UNCHANGED inbox
  BY <1>4 DEF Pending
<1>5. ASSUME NEW i \in Nodes, NodeStep(i) PROVE Pending(x, j)'
  BY <1>5, <1>2, <1>3, <1>4
     DEF NodeStep, Serve, InTurn, Registering, Churn, WaitCtx, CtxEnds,
         RegisterCtx, Id, Send, SendQueues, Put, AddOrRemove,
         ProposeChange, Proposed, ProposeFails, Dispatch, Elect, LoseLeader,
         TakeBatch, Bootstrap, Ready, SendNext, NoChange, AddNode,
         RemoveNode, Retrieved,
         RetrievalFails, RetrievalTimesOut, RetrievalReturns, Registered, Stop,
         rpcVars
<1> QED
  BY <1>2, <1>4, <1>5 DEF Next, ClientCall, Cancel, SetPaused, rpcVars

(* It stays that way as long as its own call is not answered.              *)
LEMMA ServerStays ==
  ASSUME Inv, Next, NEW j \in Nodes,
         \/ server[j] = "stuck"
         \/ server[j] = "ask" /\ Waiting(Server(j))
  PROVE  server'[j] = server[j]
<1>1. ASSUME NEW i \in Nodes, server[i] \in {"idle", "propose", "lock"},
             Answer(i) \/ \E s : HandlerGoes(i, s)
      PROVE  server'[j] = server[j]
  BY <1>1 DEF Answer, HandlerGoes, Inv, Served, TypeOK
<1>2. ASSUME NEW i \in Nodes, ProposeChange(i)
      PROVE  server'[j] = server[j]
  BY <1>2 DEF ProposeChange, HasId, HandlerGoes, Inv, Served, TypeOK
<1>3. ASSUME NEW i \in Nodes, NodeStep(i) PROVE server'[j] = server[j]
  BY <1>3, <1>1, <1>2
     DEF NodeStep, Serve, InTurn, Registering, Churn, WaitCtx, CtxEnds,
         RegisterCtx, Id, Send, SendQueues, Put, AddOrRemove,
         Proposed, ProposeFails, Dispatch, Elect, LoseLeader,
         TakeBatch, Bootstrap, Ready, SendNext, NoChange, AddNode,
         RemoveNode, Retrieved,
         RetrievalFails, RetrievalTimesOut, RetrievalReturns, Registered, Stop,
         rpcVars
<1> QED
  BY <1>3 DEF Next, ClientCall, Cancel, SetPaused, rpcVars

(* Threads of any number of nodes that wait for one another, or for a Send *)
(* stuck at a queue, do so in every later state.                           *)
THEOREM WedgedTheorem == Spec => WedgedForever
<1>1. ASSUME Inv, Next, NEW D \in SUBSET Threads, Wedged(D)
      PROVE  Wedged(D)'
  <2>1. ASSUME NEW j \in Nodes, Server(j) \in D
        PROVE  server[j] \in {"ask", "stuck"} /\ server'[j] = server[j]
    <3>1. Server(j)[1] = "server" /\ Server(j)[2] = j
      BY DEF Server
    <3>2. \/ server[j] = "stuck"
          \/ server[j] = "ask" /\ Waiting(Server(j))
      BY <1>1, <2>1, <3>1 DEF Wedged, Waiting
    <3> QED  BY <1>1, <3>2, ServerStays
  <2>2. ASSUME NEW x \in D, NEW j \in Nodes, Pending(x, j), Server(j) \in D
        PROVE  Pending(x, j)'
    BY <1>1, <2>1, <2>2, InboxGrows
  <2>3. ASSUME NEW x \in D, x[1] = "server"
        PROVE  x[2] \in Nodes /\ x = Server(x[2])
    BY <1>1, <2>3 DEF Threads, Server
  <2> QED  BY <1>1, <2>1, <2>2, <2>3 DEF Wedged
<1>2. ASSUME Inv, [Next]_vars
      PROVE  [\A D \in SUBSET Threads : Wedged(D) => Wedged(D)']_vars
  BY <1>1, <1>2
<1> QED  BY <1>2, Invariance, PTL DEF Spec, WedgedForever

-----------------------------------------------------------------------------
(* The circles a program can close by itself *)

(* Node i has been asked to add or remove itself: the handler of that call *)
(* waits for the server it keeps busy.                                     *)
AsksItself(i) == server[i] = "ask" /\ Pending(Server(i), i)

(* Nodes i and j have been asked to add or remove each other.              *)
AskEachOther(i, j) ==
  /\ server[i] = "ask" /\ Pending(Server(i), j)
  /\ server[j] = "ask" /\ Pending(Server(j), i)

(* Two threads that wait for the servers of each other, or one for itself, *)
(* keep waiting, and so does whoever has a call at one of them.            *)
LEMMA CircleStays ==
  ASSUME Inv, [Next]_vars, NEW i \in Nodes, NEW j \in Nodes, AskEachOther(i, j),
         NEW x, Pending(x, i)
  PROVE  AskEachOther(i, j)' /\ Pending(x, i)'
<1>1. CASE UNCHANGED vars
  BY <1>1 DEF AskEachOther, Pending, vars, rpcVars
<1>2. CASE Next
  <2>1. Waiting(Server(i)) /\ Waiting(Server(j))
    BY DEF AskEachOther, Waiting
  <2>2. server'[i] = "ask" /\ server'[j] = "ask"
    BY <1>2, <2>1, ServerStays DEF AskEachOther
  <2>3. Pending(Server(i), j)' /\ Pending(Server(j), i)' /\ Pending(x, i)'
    BY <1>2, InboxGrows DEF AskEachOther
  <2> QED  BY <2>2, <2>3 DEF AskEachOther
<1> QED  BY <1>1, <1>2

(* A node that is asked to add or remove itself answers nobody from then   *)
(* on: neither the one who asked nor whoever calls it later.               *)
THEOREM SelfTheorem ==
  ASSUME NEW i \in Nodes, NEW x
  PROVE  Spec => [](AsksItself(i) /\ Pending(x, i)
                      => [](AsksItself(i) /\ Pending(x, i)))
<1>1. Inv /\ [Next]_vars /\ AsksItself(i) /\ Pending(x, i)
      => (AsksItself(i) /\ Pending(x, i))'
  <2>1. AsksItself(i) <=> AskEachOther(i, i)
    BY DEF AsksItself, AskEachOther
  <2>2. AsksItself(i)' <=> AskEachOther(i, i)'
    BY DEF AsksItself, AskEachOther
  <2> QED  BY <2>1, <2>2, CircleStays
<1> QED  BY <1>1, Invariance, PTL DEF Spec

(* Two nodes that are asked to add or remove each other at the same time   *)
(* answer nobody from then on.                                             *)
THEOREM EachOtherTheorem ==
  ASSUME NEW i \in Nodes, NEW j \in Nodes, NEW x
  PROVE  Spec => [](AskEachOther(i, j) /\ Pending(x, i)
                      => [](AskEachOther(i, j) /\ Pending(x, i)))
<1>1. Inv /\ [Next]_vars /\ AskEachOther(i, j) /\ Pending(x, i)
      => (AskEachOther(i, j) /\ Pending(x, i))'
  BY CircleStays
<1> QED  BY <1>1, Invariance, PTL DEF Spec

(* The circle a node closes with itself before it has a leader: its loop   *)
(* registers the node itself, which asks its server, whose handler is in   *)
(* Propose, for a caller that does not give up, and so waits for a leader  *)
(* that only the loop could elect.                                         *)
Unled(i) ==
  /\ server[i] = "propose" /\ up[i] /\ ~lead[i]
  /\ Head(inbox[i]).from \notin Impatient
Early(i) == Unled(i) /\ loop[i] = "ask" /\ Pending(Loop(i), i)

(* Only the contexts that may end do.                                      *)
LEMMA OnlyImpatient == Spec => [](cancelled \subseteq Impatient)
<1>1. Init => cancelled \subseteq Impatient
  BY DEF Init
<1>2. cancelled \subseteq Impatient /\ [Next]_vars => (cancelled \subseteq Impatient)'
  <2> SUFFICES ASSUME cancelled \subseteq Impatient, [Next]_vars
               PROVE  cancelled' \subseteq Impatient
    OBVIOUS
  <2>1. ASSUME NEW i \in Nodes, NodeStep(i) PROVE cancelled' = cancelled
    BY <2>1 DEF NodeStep, Serve, InTurn, Registering, Churn, WaitCtx, CtxEnds,
    RegisterCtx, Id, Send, SendQueues, Put, AddOrRemove,
       ProposeChange, Proposed, ProposeFails, Elect, LoseLeader, TakeBatch,
       Bootstrap, Ready, SendNext, NoChange, AddNode, RemoveNode, Retrieved,
       RetrievalFails, RetrievalTimesOut, RetrievalReturns, Registered, Stop,
       userVars
  <2> QED  BY <2>1 DEF Next, ClientCall, Cancel, SetPaused, vars, userVars
<1> QED  BY <1>1, <1>2, PTL DEF Spec

(* A server whose handler waits in Propose without a leader and without a  *)
(* way out keeps the call it serves, and calls can only join its inbox.    *)
LEMMA UnledInbox ==
  ASSUME Inv, cancelled \subseteq Impatient, Next, NEW i \in Nodes, Unled(i)
  PROVE  \/ inbox'[i] = inbox[i]
         \/ \E c \in [from : Threads \cup Clients, op : Ops, arg : Nodes \cup {None}] :
              inbox'[i] = Append(inbox[i], c)
<1> DEFINE Grows ==
      \/ inbox'[i] = inbox[i]
      \/ \E c \in [from : Threads \cup Clients, op : Ops, arg : Nodes \cup {None}] :
           inbox'[i] = Append(inbox[i], c)
<1>1. ASSUME NEW x \in Threads \cup Clients, NEW op \in Ops,
             NEW arg \in Nodes \cup {None}, NEW j, Call(x, op, arg, j)
      PROVE  Grows
  <2> DEFINE c == [from |-> x, op |-> op, arg |-> arg]
  <2>1. c \in [from : Threads \cup Clients, op : Ops, arg : Nodes \cup {None}]
    OBVIOUS
  <2>2. inbox' = [inbox EXCEPT ![j] = Append(@, c)]
    BY <1>1 DEF Call
  <2> HIDE DEF c
  <2>3. inbox'[i] = inbox[i] \/ inbox'[i] = Append(inbox[i], c)
    BY <2>2 DEF Inv, Served, TypeOK
  <2> QED  BY <2>1, <2>3
<1>2. ASSUME NEW k \in Nodes, k # i, Answer(k) PROVE Grows
  BY <1>2 DEF Answer, Inv, Served, TypeOK
<1>3. CASE UNCHANGED inbox
  BY <1>3
<1>4. /\ server[i] = "propose" /\ up[i] /\ ~lead[i] /\ ~Hopeless(i)
  BY DEF Unled, Hopeless
<1>5. \A k \in Nodes : Loop(k) \in Threads /\ Server(k) \in Threads
  BY DEF Loop, Server, Threads
<1>6. \A op \in {"id", "send", "forward"} : op \in Ops
  BY DEF Ops
<1>7. ASSUME NEW k \in Nodes, AddOrRemove(k) PROVE Grows
  BY <1>7, <1>1, <1>5, <1>6 DEF AddOrRemove
<1>8. ASSUME NEW k \in Nodes, Retrieved(k) PROVE Grows
  BY <1>8, <1>1, <1>5, <1>6 DEF Retrieved
<1>9. ASSUME NEW k \in Nodes, SendNext(k) PROVE Grows
  BY <1>9, <1>1, <1>5, <1>6 DEF SendNext
<1>10. ASSUME NEW c \in Clients, NEW r \in Requests[c], ClientCall(c, r) PROVE Grows
  <2>1. r.op \in Ops /\ r.arg \in Nodes \cup {None}
    BY RequestsOK
  <2>2. Call(c, r.op, r.arg, r.to)
    BY <1>10 DEF ClientCall
  <2> QED  BY <2>1, <2>2, <1>1
<1>11. ASSUME NEW k \in Nodes, Id(k) \/ Send(k) \/ Proposed(k) \/ ProposeFails(k)
       PROVE  Grows
  <2>1. k # i
    BY <1>4, <1>11 DEF Id, Send, Proposed, ProposeFails, Dispatch
  <2> QED  BY <1>11, <1>2, <1>3, <2>1 DEF Id, Send, Proposed, ProposeFails
<1>12. ASSUME NEW k \in Nodes, NodeStep(k) PROVE Grows
  BY <1>12, <1>3, <1>7, <1>8, <1>9, <1>11
     DEF NodeStep, Serve, InTurn, Registering, Churn, WaitCtx, CtxEnds,
         RegisterCtx,
         SendQueues, Put, ProposeChange, Elect,
         LoseLeader, TakeBatch, Bootstrap, Ready, NoChange, AddNode, RemoveNode,
         RetrievalFails, RetrievalTimesOut, RetrievalReturns, Registered, Stop,
         rpcVars
<1>13. Grows
  BY <1>3, <1>10, <1>12 DEF Next, Cancel, SetPaused, rpcVars
<1> QED  BY <1>13 DEF Grows

(* The circle stays closed: raft is not stopped and gets no leader, as     *)
(* both are up to the loop or to a message that the server does not take.  *)
LEMMA EarlyStays ==
  ASSUME Inv, cancelled \subseteq Impatient, [Next]_vars, NEW i \in Nodes, Early(i),
         NEW x, Pending(x, i)
  PROVE  Early(i)' /\ Pending(x, i)'
<1>1. CASE UNCHANGED vars
  BY <1>1 DEF Early, Unled, Pending, vars, rpcVars, loopVars, raftVars
<1>2. CASE Next
  <2>1. Unled(i) /\ loop[i] = "ask" /\ Pending(Loop(i), i)
    BY DEF Early
  <2>2. inbox[i] \in Seq(Calls) /\ inbox[i] # <<>>
    BY <2>1 DEF Unled, Inv, Served, TypeOK, BusyServes
  <2>3. /\ \A n \in DOMAIN inbox[i] : n \in DOMAIN inbox'[i] /\ inbox'[i][n] = inbox[i][n]
        /\ Head(inbox'[i]) = Head(inbox[i])
    <3>1. CASE inbox'[i] = inbox[i]
      BY <3>1
    <3>2. ASSUME NEW c, inbox'[i] = Append(inbox[i], c)
          PROVE  <2>3
      BY <2>2, <3>2
    <3> QED  BY <1>2, <2>1, <3>1, <3>2, UnledInbox
  <2>4. Pending(x, i)' /\ Pending(Loop(i), i)'
    BY <2>1, <2>3 DEF Pending
  <2>5. Waiting(Loop(i)) /\ ~Hopeless(i)
    BY <2>1 DEF Waiting, Unled, Hopeless
  <2>6. server'[i] = server[i] /\ up'[i] = up[i] /\ lead'[i] = lead[i] /\ loop'[i] = loop[i]
    <3>1. ASSUME NEW k \in Nodes, Serve(k) \/ Proposed(k) PROVE <2>6
      BY <3>1, <2>1, <2>5
         DEF Unled, Serve, Id, Send, SendQueues, Put, AddOrRemove,
             ProposeChange, Proposed,
             ProposeFails, Dispatch, Answer, HandlerGoes, Inv, Served, TypeOK,
             loopVars, raftVars
    <3>2. ASSUME NEW k \in Nodes,
                 \/ InTurn(k) \/ RetrievalReturns(k) \/ WaitCtx(k) \/ CtxEnds(k)
          PROVE  <2>6
      BY <3>2, <2>1, <2>5
         DEF InTurn, Registering, Churn, WaitCtx, CtxEnds, RegisterCtx,
             SendNext, NoChange, AddNode, RemoveNode, Sent,
             Retrieved, RetrievalFails, RetrievalTimesOut, NextTry,
             RetrievalReturns,
             Registered, RegisterFails, BatchFails, RaftStops, Stop, LoopGoes,
             BatchOver, Inv, Served, TypeOK, rpcVars, raftVars
    <3>3. ASSUME NEW k \in Nodes, Bootstrap(k) \/ Ready(k) \/ Elect(k) \/ LoseLeader(k)
          PROVE  <2>6
      BY <3>3, <2>1
         DEF Bootstrap, Ready, TakeBatch, Selecting, Elect, LoseLeader, LoopGoes,
             Inv, Served, TypeOK, rpcVars, raftVars, loopVars
    <3>4. ASSUME NEW k \in Nodes, NodeStep(k) PROVE <2>6
      BY <3>4, <3>1, <3>2, <3>3 DEF NodeStep
    <3>5. ASSUME NEW k \in Pausable, NEW b \in BOOLEAN, SetPaused(k, b) PROVE <2>6
      BY <3>5, <2>1, NodesOK
         DEF SetPaused, LoopGoes, Inv, Served, TypeOK, rpcVars, raftVars
    <3> QED
      BY <1>2, <3>4, <3>5 DEF Next, ClientCall, Cancel, rpcVars, loopVars,
      raftVars
  <2> QED  BY <2>1, <2>3, <2>4, <2>6 DEF Early, Unled
<1> QED  BY <1>1, <1>2

(* A Put, Add or Remove that a node serves while its loop registers the    *)
(* node itself, as with the first batch, and while there is no leader, is  *)
(* never answered unless its caller is cancelled, and nor is any call that *)
(* reaches the node.                                                       *)
THEOREM EarlyTheorem ==
  ASSUME NEW i \in Nodes, NEW x
  PROVE  Spec => [](Early(i) /\ Pending(x, i) => [](Early(i) /\ Pending(x, i)))
<1>1. Inv /\ cancelled \subseteq Impatient /\ [Next]_vars /\ Early(i) /\ Pending(x, i)
      => (Early(i) /\ Pending(x, i))'
  BY EarlyStays
<1> QED  BY <1>1, Invariance, OnlyImpatient, PTL DEF Spec
=============================================================================

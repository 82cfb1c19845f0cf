----------------------------- MODULE Transport ------------------------------
(***************************************************************************)
(* Who waits for whom.  Several nodes in one process, each with its event  *)
(* loop and a serial capnp server: the server takes one call at a time, in *)
(* the order they come, and a call is answered when its handler returns.   *)
(* Loops call servers (rpcSend, AddPeer), servers call servers (rpcGetId   *)
(* in Add and Remove) and wait for raft (Propose blocks without a leader). *)
(* NodeLoop has the inside of a loop, ReadyApply the inside of a batch.    *)
(***************************************************************************)
EXTENDS Integers, Sequences, FiniteSets

CONSTANTS
  Nodes,
  Clients,        \* contexts of the program, each good for one call
  Requests,       \* the calls each client may make: [to, op, arg]
  Pausable,       \* nodes on which the program calls Pause and Resume
  Impatient,      \* clients and loops whose context may end
  Flaky,          \* nodes whose RaftNodeRetrieval may fail or be slow
  MaxCancelled,   \* bound: contexts that end
  None            \* no argument, no change, no node

Ops == {"add", "remove", "send", "forward", "put", "items", "members", "id"}

ASSUME RequestsOK ==
  \A c \in Clients : \A r \in Requests[c] :
    /\ r \in [to : Nodes, op : Ops, arg : Nodes \cup {None}]
    /\ r.op \in {"add", "remove"} => r.arg \in Nodes
ASSUME NodesOK == Pausable \subseteq Nodes /\ Flaky \subseteq Nodes
ASSUME ImpatientOK == Impatient \subseteq Clients \cup ({"loop"} \X Nodes)
ASSUME NoneOK == None \notin Nodes

RetrievalRetries == 3

VARIABLES
  inbox,          \* the calls a server has not answered, the first in service
  server,         \* what the server's handler is doing
  loop,           \* what the event loop is doing
  batch,          \* the messages and the conf change the loop has yet to do
  tries,          \* retrievals of register that have failed
  fetches,        \* goroutines that fetch a node for a channel that is read
  answer,         \* what is in that channel, or came out of it; None: an error
  view,           \* n.View
  up, lead,       \* raft: not stopped; runs and knows a leader
  accepted,       \* raft: the conf changes proposed here
  done,           \* the conf changes this node has handled
  paused,         \* n.pause
  called,         \* clients that made their call
  cancelled       \* whose context has ended

rpcVars == <<inbox, server>>
fetchVars == <<tries, fetches, answer>>
loopVars == <<loop, batch, fetchVars, view, done>>
raftVars == <<up, lead, accepted>>
userVars == <<paused, called, cancelled>>
vars == <<rpcVars, loopVars, raftVars, userVars>>

Loop(i) == <<"loop", i>>
Server(i) == <<"server", i>>
Threads == {"loop", "server"} \X Nodes
Calls ==
  {c \in [from : Threads \cup Clients, op : Ops, arg : Nodes \cup {None}] :
     c.op \in {"add", "remove"} => c.arg \in Nodes}
Changes == [op : {"add", "remove"}, arg : Nodes]
NoBatch == [to |-> {}, change |-> None]
Fetches == [id : Nodes, attempt : 0 .. RetrievalRetries - 1]

Init ==
  /\ inbox = [i \in Nodes |-> <<>>]
  /\ server = [i \in Nodes |-> "idle"]
  /\ loop = [i \in Nodes |-> "select"]
  /\ batch = [i \in Nodes |-> NoBatch]
  /\ tries = [i \in Nodes |-> 0]
  /\ fetches = [i \in Nodes |-> {}]
  /\ answer = [i \in Nodes |-> {}]
  /\ view = [i \in Nodes |-> {}]
  /\ up = [i \in Nodes |-> TRUE]
  /\ lead = [i \in Nodes |-> FALSE]
  /\ accepted = [i \in Nodes |-> {}]
  /\ done = [i \in Nodes |-> {}]
  /\ paused = [i \in Nodes |-> FALSE]
  /\ called = {}
  /\ cancelled = {}

-----------------------------------------------------------------------------
(* Calls.  A thread has at most one and waits for the answer whatever      *)
(* becomes of its context; the call is gone when it is answered.           *)

Call(x, op, arg, j) ==
  inbox' = [inbox EXCEPT ![j] = Append(@, [from |-> x, op |-> op, arg |-> arg])]

Pending(x, j) == \E k \in DOMAIN inbox[j] : inbox[j][k].from = x
Waiting(x) == \E j \in Nodes : Pending(x, j)

Answer(i) ==
  /\ inbox' = [inbox EXCEPT ![i] = Tail(@)]
  /\ server' = [server EXCEPT ![i] = "idle"]

ClientCall(c, r) ==
  /\ c \notin called
  /\ called' = called \cup {c}
  /\ Call(c, r.op, r.arg, r.to)
  /\ UNCHANGED <<server, loopVars, raftVars, paused, cancelled>>

(* A client gives up, or the program cancels the context it gave to Start, *)
(* while there is somebody to notice.  The bound is on how many do.        *)
Cancel(x) ==
  /\ x \notin cancelled
  /\ Cardinality(cancelled) < MaxCancelled
  /\ \/ x \in Clients /\ Waiting(x)
     \/ \E i \in Nodes : x = Loop(i) /\ loop[i] \notin {"failed", "ended"}
  /\ cancelled' = cancelled \cup {x}
  /\ UNCHANGED <<rpcVars, loopVars, raftVars, paused, called>>

-----------------------------------------------------------------------------
(* The servers *)

Dispatch(i, ops) ==
  /\ server[i] = "idle"
  /\ inbox[i] # <<>>
  /\ Head(inbox[i]).op \in ops

HandlerGoes(i, s) == server' = [server EXCEPT ![i] = s]

(* Id answers at once; so do Items and Members, which have no body.        *)
Id(i) ==
  /\ Dispatch(i, {"id", "items", "members"})
  /\ Answer(i)
  /\ UNCHANGED <<loopVars, raftVars, userVars>>

(* Send: the message may make or unmake a leader.  A forwarded proposal    *)
(* waits for a leader like one made here.  If the node is paused send takes*)
(* pauseLock next, also when the node has been resumed in between ...      *)
Send(i) ==
  /\ Dispatch(i, {"send", "forward"})
  /\ \/ paused[i] /\ HandlerGoes(i, "lock") /\ UNCHANGED <<inbox, lead>>
     \/ /\ ~paused[i] /\ Head(inbox[i]).op = "send"
        /\ \E b \in BOOLEAN : lead' = [lead EXCEPT ![i] = b /\ up[i]]
        /\ Answer(i)
     \/ /\ ~paused[i] /\ Head(inbox[i]).op = "forward"
        /\ HandlerGoes(i, "propose")
        /\ UNCHANGED <<inbox, lead>>
  /\ UNCHANGED <<loopVars, up, accepted, userVars>>

(* ... and blocks at the queue with it, for good (NodeLoop,                *)
(* PausedSendNeverReturns).                                                *)
SendQueues(i) ==
  /\ server[i] = "lock"
  /\ HandlerGoes(i, "stuck")
  /\ UNCHANGED <<inbox, loopVars, raftVars, userVars>>

Put(i) ==
  /\ Dispatch(i, {"put"})
  /\ HandlerGoes(i, "propose")
  /\ UNCHANGED <<inbox, loopVars, raftVars, userVars>>

(* Add and Remove ask the node for its id: a call from inside the server.  *)
AddOrRemove(i) ==
  /\ Dispatch(i, {"add", "remove"})
  /\ HandlerGoes(i, "ask")
  /\ Call(Server(i), "id", None, Head(inbox[i]).arg)
  /\ UNCHANGED <<loopVars, raftVars, userVars>>

(* Variant: the id is not waited for as long as the context says.          *)
HasIdOrCtx(i) == ~Waiting(Server(i)) \/ Head(inbox[i]).from \in cancelled

HasId(i) == ~Waiting(Server(i))

ProposeChange(i) ==
  /\ server[i] = "ask"
  /\ HasId(i)
  /\ HandlerGoes(i, "propose")
  /\ UNCHANGED <<inbox, loopVars, raftVars, userVars>>

(* Raft takes the proposal once it knows a leader.                         *)
Proposed(i) ==
  /\ server[i] = "propose"
  /\ up[i] /\ lead[i]
  /\ LET c == Head(inbox[i])
     IN  accepted' = IF c.op \in {"add", "remove"}
                     THEN [accepted EXCEPT ![i] = @ \cup {[op |-> c.op, arg |-> c.arg]}]
                     ELSE accepted
  /\ Answer(i)
  /\ UNCHANGED <<loopVars, up, lead, userVars>>

(* Variant: nobody tells Propose that raft has stopped.                    *)
HopelessByCtx(i) == Head(inbox[i]).from \in cancelled

(* Propose gives up: raft has stopped, or the context of the call ended.   *)
Hopeless(i) == ~up[i] \/ Head(inbox[i]).from \in cancelled

ProposeFails(i) ==
  /\ server[i] = "propose"
  /\ Hopeless(i)
  /\ Answer(i)
  /\ UNCHANGED <<loopVars, raftVars, userVars>>

-----------------------------------------------------------------------------
(* The event loops *)

Selecting(i) == loop[i] = "select"
LoopGoes(i, s) == loop' = [loop EXCEPT ![i] = s]

(* Pause and Resume, taken by the select or by waitPause.  setPaused blocks*)
(* if a Send is stuck at the queue with pauseLock, and so does churnQueue. *)
SetPaused(i, b) ==
  /\ loop[i] \in {"select", "paused"}
  /\ \/ /\ server[i] # "stuck"
        /\ paused' = [paused EXCEPT ![i] = b]
        /\ LoopGoes(i, IF b THEN "paused" ELSE "churn")
     \/ /\ server[i] = "stuck"
        /\ LoopGoes(i, "stuck")
        /\ UNCHANGED paused
  /\ UNCHANGED <<rpcVars, batch, fetchVars, view, done, raftVars, called, cancelled>>

Churn(i) ==
  /\ loop[i] = "churn"
  /\ LoopGoes(i, IF server[i] = "stuck" THEN "stuck" ELSE "select")
  /\ UNCHANGED <<rpcVars, batch, fetchVars, view, done, raftVars, userVars>>

(* The context given to Start ends: waitPause returns, with pause still    *)
(* set, and the loop may take another turn before the error gets to it.    *)
WaitCtx(i) ==
  /\ loop[i] = "paused" /\ Loop(i) \in cancelled
  /\ LoopGoes(i, "select")
  /\ UNCHANGED <<rpcVars, batch, fetchVars, view, done, raftVars, userVars>>

CtxEnds(i) ==
  /\ loop[i] \in {"select", "paused"} /\ Loop(i) \in cancelled
  /\ LoopGoes(i, "failed")
  /\ UNCHANGED <<rpcVars, batch, fetchVars, view, done, raftVars, userVars>>

(* Ticks: a node campaigns once its first batch has been handled, and wins *)
(* alone or not; one that is not its only member may lose sight of a leader*)
Elect(i) ==
  /\ Selecting(i)
  /\ i \in view[i]
  /\ up[i] /\ ~lead[i]
  /\ lead' = [lead EXCEPT ![i] = TRUE]
  /\ UNCHANGED <<rpcVars, loopVars, up, accepted, userVars>>

LoseLeader(i) ==
  /\ Selecting(i)
  /\ view[i] \ {i} # {}
  /\ up[i] /\ lead[i]
  /\ lead' = [lead EXCEPT ![i] = FALSE]
  /\ UNCHANGED <<rpcVars, loopVars, up, accepted, userVars>>

(* A batch: messages to peers of the view, maybe a conf change.  The first *)
(* one is the entry with which the node bootstraps: it adds the node.      *)
TakeBatch(i, to, change) ==
  /\ Selecting(i)
  /\ up[i]
  /\ batch' = [batch EXCEPT ![i] = [to |-> to, change |-> change]]
  /\ LoopGoes(i, "send")
  /\ UNCHANGED <<rpcVars, fetchVars, view, done, raftVars, userVars>>

Bootstrap(i) ==
  view[i] = {} /\ TakeBatch(i, {}, [op |-> "add", arg |-> i])

Committed(i) ==
  (accepted[i] \cup UNION {accepted[j] : j \in {n \in Nodes : i \in view[n]}})
    \ done[i]

Ready(i) ==
  /\ view[i] # {}
  /\ \E to \in SUBSET (view[i] \ {i}), change \in Committed(i) \cup {None} :
       TakeBatch(i, to, change)

(* sendMessages: rpcSend to each, waiting for the answer before the next.  *)
SendNext(i) ==
  /\ loop[i] = "send"
  /\ ~Waiting(Loop(i))
  /\ \E j \in batch[i].to, op \in {"send", "forward"} :
       /\ op = "forward" => lead[i]
       /\ Call(Loop(i), op, None, j)
       /\ batch' = [batch EXCEPT ![i].to = @ \ {j}]
  /\ UNCHANGED <<server, loop, fetchVars, view, done, raftVars, userVars>>

(* The messages are out; the batch ends with Advance once its conf change, *)
(* if it has one, has been handled.                                        *)
Sent(i, op) ==
  /\ loop[i] = "send"
  /\ ~Waiting(Loop(i))
  /\ batch[i].to = {}
  /\ batch[i].change # None /\ batch[i].change.op = op

BatchOver(i) == batch' = [batch EXCEPT ![i] = NoBatch] /\ LoopGoes(i, "select")
BatchFails(i) == batch' = [batch EXCEPT ![i] = NoBatch] /\ LoopGoes(i, "failed")
Handled(i) == done' = [done EXCEPT ![i] = @ \cup {batch[i].change}]

NoChange(i) ==
  /\ loop[i] = "send"
  /\ ~Waiting(Loop(i))
  /\ batch[i] = NoBatch
  /\ BatchOver(i)
  /\ UNCHANGED <<rpcVars, fetchVars, view, done, raftVars, userVars>>

(* A stopped raft has no status: it knows no leader.                       *)
RaftStops(i) ==
  /\ up' = [up EXCEPT ![i] = FALSE]
  /\ lead' = [lead EXCEPT ![i] = FALSE]

(* A leader that is removed stops its raft; no node leaves its own view.   *)
(* If the leader is another node Campaign fails with the loop's context.   *)
RemoveNode(i) ==
  /\ Sent(i, "remove")
  /\ LET id == batch[i].change.arg
     IN  /\ view' = [view EXCEPT ![i] = @ \ ({id} \ {i})]
         /\ \/ UNCHANGED <<up, lead>>
            \/ id = i /\ lead[i] /\ RaftStops(i)
         /\ \/ BatchOver(i)
            \/ id # i /\ lead[i] /\ Loop(i) \in cancelled /\ BatchFails(i)
  /\ Handled(i)
  /\ UNCHANGED <<rpcVars, fetchVars, accepted, userVars>>

(* retrieveWithTimeout: every attempt has channels of its own, with room   *)
(* for the one answer they are for.  Nobody reads those of the last attempt*)
(* any more: its goroutine may go on, but what it gets is lost.            *)
StillRead(F) == F   \* variant: the attempts share their channels
Abandoned(F) == {}

NoAttempt(i) ==
  /\ fetches' = [fetches EXCEPT ![i] = Abandoned(@)]
  /\ answer' = [answer EXCEPT ![i] = {}]

Attempt(i, k) ==
  /\ fetches' = [fetches EXCEPT
       ![i] = Abandoned(@) \cup {[id |-> batch[i].change.arg, attempt |-> k]}]
  /\ answer' = [answer EXCEPT ![i] = {}]

AddNode(i) ==
  /\ Sent(i, "add")
  /\ LoopGoes(i, "fetch")
  /\ Attempt(i, 0)
  /\ UNCHANGED <<rpcVars, batch, tries, view, done, raftVars, userVars>>

(* The goroutine: RaftNodeRetrieval returns the node, or fails.            *)
RetrievalReturns(i) ==
  /\ answer[i] = {}
  /\ \E f \in fetches[i] :
       /\ fetches' = [fetches EXCEPT ![i] = @ \ {f}]
       /\ \E a \in {f.id} \cup (IF i \in Flaky THEN {None} ELSE {}) :
            answer' = [answer EXCEPT ![i] = {a}]
  /\ UNCHANGED <<rpcVars, loop, batch, tries, view, done, raftVars, userVars>>

(* register: an attempt succeeds, and AddPeer asks the node that it got for*)
(* its id, also when that is this one.                                     *)
Retrieved(i) ==
  /\ loop[i] = "fetch"
  /\ \E j \in answer[i] \ {None} : Call(Loop(i), "id", None, j)
  /\ LoopGoes(i, "ask")
  /\ tries' = [tries EXCEPT ![i] = 0]
  /\ fetches' = [fetches EXCEPT ![i] = Abandoned(@)]
  /\ UNCHANGED <<server, batch, answer, view, done, raftVars, userVars>>

RetriesLeftOnceMore(i) == tries[i] < RetrievalRetries   \* variant
RetriesLeft(i) == tries[i] + 1 < RetrievalRetries

RegisterFails(i) ==
  /\ tries' = [tries EXCEPT ![i] = 0]
  /\ NoAttempt(i)
  /\ BatchFails(i)

NextTry(i) ==
  IF RetriesLeft(i)
  THEN /\ tries' = [tries EXCEPT ![i] = @ + 1]
       /\ Attempt(i, tries[i] + 1)
       /\ UNCHANGED <<loop, batch>>
  ELSE RegisterFails(i)

RetrievalFails(i) ==
  /\ loop[i] = "fetch"
  /\ None \in answer[i]
  /\ NextTry(i)
  /\ UNCHANGED <<rpcVars, view, done, raftVars, userVars>>

(* The attempt times out, even as its answer arrives.                      *)
RetrievalTimesOut(i) ==
  /\ loop[i] = "fetch"
  /\ i \in Flaky
  /\ NextTry(i)
  /\ UNCHANGED <<rpcVars, view, done, raftVars, userVars>>

RegisterCtx(i) ==
  /\ loop[i] = "fetch"
  /\ Loop(i) \in cancelled
  /\ RegisterFails(i)
  /\ UNCHANGED <<rpcVars, view, done, raftVars, userVars>>

Registered(i) ==
  /\ loop[i] = "ask"
  /\ ~Waiting(Loop(i))
  /\ view' = [view EXCEPT ![i] = @ \cup answer[i]]
  /\ answer' = [answer EXCEPT ![i] = {}]
  /\ Handled(i)
  /\ BatchOver(i)
  /\ UNCHANGED <<rpcVars, tries, fetches, raftVars, userVars>>

(* The error comes back through stopChan, and doStop stops raft.           *)
Stop(i) ==
  /\ loop[i] = "failed"
  /\ LoopGoes(i, "ended")
  /\ RaftStops(i)
  /\ UNCHANGED <<rpcVars, batch, fetchVars, view, done, accepted, userVars>>

-----------------------------------------------------------------------------
Serve(i) ==
  \/ Id(i) \/ Send(i) \/ SendQueues(i) \/ Put(i)
  \/ AddOrRemove(i) \/ ProposeChange(i) \/ ProposeFails(i)
Registering(i) ==
  \/ Retrieved(i) \/ RetrievalFails(i) \/ RetrievalTimesOut(i)
  \/ RegisterCtx(i) \/ Registered(i)
InTurn(i) ==
  \/ Churn(i) \/ SendNext(i) \/ NoChange(i) \/ RemoveNode(i) \/ AddNode(i)
  \/ Registering(i) \/ Stop(i)

NodeStep(i) ==
  \/ Serve(i) \/ Proposed(i) \/ InTurn(i) \/ RetrievalReturns(i)
  \/ Bootstrap(i) \/ Ready(i) \/ Elect(i) \/ LoseLeader(i)
  \/ WaitCtx(i) \/ CtxEnds(i)

Next ==
  \/ \E c \in Clients : \E r \in Requests[c] : ClientCall(c, r)
  \/ \E x \in Impatient : Cancel(x)
  \/ \E i \in Pausable, b \in BOOLEAN : SetPaused(i, b)
  \/ \E i \in Nodes : NodeStep(i)

Spec == Init /\ [][Next]_vars

(* Goroutines that can run do; retrievals return at some time.  The select *)
(* of the loop picks at random among its cases, so ticks, the first batch  *)
(* and the end of the context get their turn however often the node is     *)
(* paused and resumed, and a node that is its only member elects itself.   *)
(* Raft takes a proposal it can take again and again.  Other elections are *)
(* not promised.                                                           *)
FairSpec ==
  /\ Spec
  /\ \A i \in Nodes :
       /\ WF_vars(Serve(i))
       /\ WF_vars(InTurn(i))
       /\ WF_vars(RetrievalReturns(i))
       /\ SF_vars(Bootstrap(i) \/ (Elect(i) /\ view[i] = {i}) \/ Proposed(i))
       /\ SF_vars(CtxEnds(i))

-----------------------------------------------------------------------------
(* Properties *)

(* The type of every variable.                                             *)
TypeOK ==
  /\ inbox \in [Nodes -> Seq(Calls)]
  /\ server \in [Nodes -> {"idle", "ask", "propose", "lock", "stuck"}]
  /\ loop \in [Nodes -> {"select", "paused", "churn", "stuck", "send", "fetch",
                         "ask", "failed", "ended"}]
  /\ batch \in [Nodes -> [to : SUBSET Nodes, change : Changes \cup {None}]]
  /\ tries \in [Nodes -> 0 .. RetrievalRetries - 1]
  /\ fetches \in [Nodes -> SUBSET Fetches]
  /\ answer \in [Nodes -> SUBSET (Nodes \cup {None})]
  /\ view \in [Nodes -> SUBSET Nodes]
  /\ up \in [Nodes -> BOOLEAN]
  /\ lead \in [Nodes -> BOOLEAN]
  /\ accepted \in [Nodes -> SUBSET Changes]
  /\ done \in [Nodes -> SUBSET Changes]
  /\ paused \in [Nodes -> BOOLEAN]
  /\ called \subseteq Clients
  /\ cancelled \subseteq Clients \cup ({"loop"} \X Nodes)

(* Threads that wait for one another, or for a Send stuck at the queue of  *)
(* a paused node: each member's call sits with a server that is a member.  *)
Wedged(D) ==
  \A x \in D :
    /\ x[1] = "server" => server[x[2]] \in {"ask", "stuck"}
    /\ \/ x[1] = "server" /\ server[x[2]] = "stuck"
       \/ \E j \in Nodes : Pending(x, j) /\ Server(j) \in D

(* rpcGetId and rpcSend wait for f.Done() and not for the context: nothing,*)
(* not even cancellation, Resume or a timeout, ever frees such threads.    *)
WedgedForever ==
  [][\A D \in SUBSET Threads : Wedged(D) => Wedged(D)']_vars

(* A handler in Propose that neither a leader nor its context lets go.     *)
Leaderless(i) ==
  /\ server[i] = "propose"
  /\ up[i] /\ ~lead[i]
  /\ Head(inbox[i]).from \notin cancelled

(* Whom a thread waits for: the server that has its call; the loop that    *)
(* would have to elect a leader.                                           *)
Awaits(x) ==
  {Server(j) : j \in {n \in Nodes : Pending(x, n)}}
    \cup {Loop(i) : i \in {n \in Nodes : x = Server(n) /\ Leaderless(n)}}

(* What no thread is bound to end: a pause, a Send stuck at the queue, a   *)
(* loop at its lock, the lack of a leader in a cluster of several.         *)
Halted(x) ==
  \E i \in Nodes :
    \/ x = Loop(i) /\ loop[i] = "paused" /\ Loop(i) \notin cancelled
    \/ x = Loop(i) /\ loop[i] = "stuck"
    \/ x = Server(i) /\ server[i] = "stuck"
    \/ x = Server(i) /\ Leaderless(i) /\ view[i] \ {i} # {}

Blocked(x) ==
  LET halted == {y \in Threads : Halted(y)}
      awaited == [y \in Threads |-> Awaits(y)]
  IN  \E D \in SUBSET Threads :
        /\ Awaits(x) \cap D # {}
        /\ \A y \in D : y \in halted \/ awaited[y] \cap D # {}

(* A call that is never answered is in the end blocked for good, by a      *)
(* circle of waiting threads or by what no thread can end: there is no     *)
(* other way for a call of Add, Remove, Put, Send or Id not to return.     *)
(* Servers call only on behalf of clients and loops, whose calls these are.*)
CallsEnd ==
  \A x \in Clients \cup {Loop(i) : i \in Nodes} :
    []<>~Waiting(x) \/ <>[]Blocked(x)

(* The node whose id AddPeer asks for, and which then joins the view, is   *)
(* the one the conf change adds: the answer of an attempt that timed out,  *)
(* in this registration or an earlier one, is never taken for another's.   *)
RightNode ==
  \A i \in Nodes : loop[i] = "ask" => answer[i] = {batch[i].change.arg}
=============================================================================

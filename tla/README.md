# TLA+ models of raft-capnp

raft-capnp runs a node of `go.etcd.io/raft` as a Cap'n Proto server. A `Node`
owns a raft instance; its event loop hands raft's `Ready` batches on (to the
storage, to the peers, to a map of items) and other nodes reach it through the
capability `api.Raft`. Raft itself is a library and is not verified here. What
is verified is the code around it: the goroutines of a node, the order in which
a batch is stored, sent and applied, what nodes wait for when they call each
other, and what becomes of the clusters they form.

## The system

| component | code | state | operations |
|---|---|---|---|
| event loop | `raft/node.go` `Start`, `doPause`, `waitPause`, `churnQueue`, `doStop`, `Pause`, `Resume`, `Stop`, `IsPaused` | `err` of the loop, `pause`, `pauseLock`, `pauseChan`, `stopChan`, `queue` | ticks, batches, pause and resume, stop, cancellation, reports of errors |
| Send | `raft/capnp.go` `Send`, `send` | `queue`, `pauseLock` | step a message into raft, or queue it while the node is paused |
| Ready handling | `raft/node.go` `doReady`, `sendMessages`, `addEntry`, `addConfChange`, `register`, `removeNode`, `unregister`; `raft/defaults.go` `DefaultRaftStore` | the batch, `Storage`, `Map`, `View` | store, send, apply, advance |
| view | `raft/view.go` | capability of each peer by raft id | `Peers`, `AddPeer`, `PopPeer` |
| registration | `raft/node.go` `register`, `retrieve`, `retrieveWithTimeout` | two channels, a timer and a goroutine per attempt | three attempts to get a peer's capability |
| membership and data RPCs | `raft/capnp.go` `Add`, `Remove`, `Put`, `Id`; `raft/helper.go` | none of their own | propose changes and items; ask a node for its id |
| cluster formation | `raft/node.go` `Init`, `example/main.go` | one raft cluster per node at first | start nodes, let them join through `Add` |
| items | `raft/item.go` | `ItemMap` | JSON and capnp forms of an item, the map keyed by md5 |
| configuration, capability lists, stubs | `raft/config.go`, `raft/msg.go`, `raft/capnp_utils.go`, `proto/` | fields | setters; `PointerList`, which nothing calls; generated code |

How they interact. The loop of `Start` is one goroutine; it alone runs
`doReady`, `doPause` and `doStop`. `Pause`, `Resume` and `Stop` block on the
unbuffered channels `pauseChan` and `stopChan` until the loop receives. Each
turn of the loop that leaves an error in `err` spawns a goroutine that sends
*the variable* `err` to `stopChan`. `Send` runs on the goroutines of the capnp
servers, one per capability handed out by `Cap`, each of which runs its calls one
after another; it shares `pause`, `pauseLock` and `queue` with the loop.
`doReady` calls other nodes synchronously, both `rpcSend` and the `rpcGetId` of
`AddPeer`, so the loop of one node waits for the servers of others.

What is hard, and what makes each component correct:

* *Event loop.* The select picks among the ready cases at random; the pause
  state, the lock, the error variable and two channels are shared with callers
  that come at any time. Correct: a paused node does no work and is resumed by
  `Resume`; the lock is always given back; no error of the loop is lost or
  changed before it is reported; cancelling and stopping end the loop, and one
  reason to stop does not panic.
* *Send.* The pause may change between `IsPaused` and the lock. Correct: the
  messages of one caller reach raft in order, and a call returns.
* *Ready handling.* Any step may fail or be cut off by the context; raft goes on
  in parallel, and a new leader may overrule entries between two steps. Correct:
  what is acknowledged or takes effect has been stored; committed entries take
  effect in log order, once each; raft is told exactly what was applied; the view
  is the configuration.
* *Registration.* Late answers race timeouts, the next attempt and the next
  registration. Correct: the node that joins the view is the one the entry adds;
  attempts are bounded and a failure ends the batch.
* *RPCs and cluster.* Serial servers that call each other can wait in a circle; a
  proposal blocks while there is no leader; nodes bootstrap as clusters of their
  own. Correct: calls end, and the members of a cluster know each other.

## The modules

| module | what it is |
|---|---|
| `NodeLoop` | the goroutines of one node: the loop, `Send`, the callers, the error reporters |
| `MCNodeLoop` | its symmetry, for TLC |
| `NodeLoopProofs` | theorems about it |
| `ReplicatedMap` | the abstract specification of what a node does with the log: `Revise` (raft adds, overrules or commits entries; a committed one stays what it is) and `Apply` |
| `ReadyApply` | `doReady` and all it calls, over a raft instance that goes on by itself; implements `ReplicatedMap` |
| `MCReadyApply` | what raft appends in each run |
| `ReadyApplyProofs` | theorems about it, the refinement included |
| `Transport` | several nodes in one process: who waits for whom, in the servers, the loops and raft |
| `MCTransport` | what the program asks of which node |
| `TransportProofs` | theorems about it |
| `Cluster` | several nodes that bootstrap alone and join each other: what their logs, configurations, views and maps become; each node implements `ReplicatedMap` |
| `MCCluster` | what the program asks of which node in each run |
| `ClusterProofs` | theorems about it: types, and what a joiner can know |
| `ClusterSafetyProofs` | theorems about it: agreement, what the starter commits, the refinement of `ReplicatedMap` |
| `ClusterJoinProofs` | theorems about it: what becomes of the starter when nobody is introduced |

`NodeLoop` and `ReadyApply` meet in `doReady`: for the first a batch succeeds
(`BatchDone`), fails before `Advance` (`BatchFails`) or stops raft
(`SelfRemoved`), which are the outcomes the second describes step by step
(`Advance`, `pc = "failed"`, `up = FALSE`). `Transport` takes from `NodeLoop` that a
Send on a paused node never returns, and from both when a loop is at its select;
`Cluster` takes from `ReadyApply` that a committed entry takes effect once, in
order, and from `Transport` nothing: it asks what happens if every call does
return. All of them have definitions marked
*variant*: a copy of an action or guard with a plausible mistake. No
specification uses them. They record, for each property, a mistake it detects.

### NodeLoop

Each variable is a field, a local variable, a channel or a goroutine of the
code. `loop` is the program counter of the loop: `select` is the select of
`Start`, `waitPause` the one of `waitPause`, `pausing` and `resuming` are before
the `Lock` of `setPaused`, `churnLock` and `churn` before and after the `Lock` of
`churnQueue`, `stopping` is before `doStop`, `closing` before the deferred
`close`. An action ends where another goroutine can notice: at a channel
operation, at a lock, at a call of raft. `hpc[c]` is the same for the `Send` that
the server of capability `c` runs, `user[u]` says in which API call a goroutine
of the program is blocked, and a goroutine `go func() { n.stopChan <- err }()` is
counted in `spawned` until it reads `err` and then in `sending[v]`, by the value
it has read.

Channels. A send on `pauseChan` or `stopChan` and its receive are one action, as
they are unbuffered. `n.queue` has capacity `QueueCap`, 0 in the code: a send on
it needs free buffer space, since the only receive, in `churnQueue`, is guarded
by `len(n.queue) > 0` and so no receiver ever waits at an unbuffered queue. A
close with senders blocked, and a send afterwards, panic (`proc = "closedChan"`).

`err` is read by the reporters without synchronisation. An interface value may
even be seen half written; such a value fails in `err.Error()` like nil, so
`ReadErr` reads the value of the moment and `"nil"` stands for the torn ones.

`Init` starts with raft nil or already initialised, as the example does. Before
`Start`, a call of `Send` finds `n.Raft` nil and panics (`proc = "nilRaft"`): an
outcome of the model, and the code promises nothing about it.

`FatalExits` says what `Logger.Fatalf` does. `raft.DefaultLogger`, the default,
exits the process there. A logger that returns lets `doStop` stop raft and `Start`
close `stopChan`, under whoever sends on it; `loop_full` and `loop_stop` take that
one, the other runs the default.

### ReadyApply

`pc` is where `doReady` is, `ready` the batch, `next` the entry its loop is at,
`attempts` the retrievals `register` has behind it. `stored` is what the storage
holds, `acked` the highest position of the log acknowledged to a peer, `view` and
`map` are the fields. The rest is raft's: its log and commit index, what of it was
`offered`, is `stable` and `applied`, its configuration, and whether it runs.

Assumed of raft (external, from its documented contract and its use here): it
appends and commits one entry at a time; a new leader may overrule the last entry
as long as it is not committed, and what was offered, stable or acknowledged of it
is void then; a `Ready` holds the entries that are not stable and the commit
index, and there is none before the `Advance` of the last; `Advance`
acknowledges the batch, its entries unless they were overruled; a stopped
instance ignores calls; `ApplyConfChange` panics if it leaves no voter; `StartNode`
begins with a committed entry that adds the node itself. Several entries at once
are several steps in a row.

`Fail` is a return with an error: the local state of the batch is gone and raft
offers no other. A node that applies its own removal as leader stops raft in the
middle of the batch; the rest of the batch runs on, and so does the model.
`IdCallFails` lets the `Id` call inside `AddPeer` fail.

A message is its addressee and the position it acknowledges; an item is a key and
a value; an entry that cannot be unmarshalled is `junk`. md5 is taken to be
injective.

### Transport

`inbox[i]` holds the calls the server of node `i` has not answered, the one in
service first; `server[i]` and `loop[i]` say where the handler and the event loop
are; `batch[i]` is what is left of a batch, its recipients and its conf change. A
loop in `fetch` is in `register`, in `ask` in the `rpcGetId` of `AddPeer`, in `paused`
in `waitPause`, in `churn` before `churnQueue`, in `stuck` at `pauseLock` for good. A
server in `ask` is in the `rpcGetId` of `Add` or `Remove`, in `propose` in raft's
`Propose` or `ProposeConfChange`, in `lock` in `send` between the check of `pause` and
the lock, in `stuck` at the queue with the lock. Check and lock are two steps, so the
node may have been resumed in between: its loop then runs while the Send is stuck,
until the next pause. `SetPaused` is `Pause` or `Resume`, taken by the select or by
`waitPause`, and `setPaused`; whether a caller of them is blocked is `NodeLoop`'s.

A handler, a `SendNext` of the loop and the registration of a node are each cut at
the calls they make: the call is put into the inbox of the other node and the
caller goes on when it is gone (`Waiting`). As `rpcGetId` and `rpcSend` wait for
`f.Done()`, their context is no way out; `Propose` does end with its context or with
raft (`Hopeless`), or when raft knows a leader (`Proposed`).

Contexts: a client's is that of its call; `Loop(i)` stands for the one given to
`Start`. When that ends (`Cancel`) so does a registration, at any attempt
(`RegisterCtx`) and the select or `waitPause` (`CtxEnds`; `WaitCtx` is the turn the loop
may take before the error reaches it), and the proposals its messages forward are
given up by the handlers that hold them.

A registration: `fetches[i]` are the goroutines of `retrieve` whose channels somebody
still reads, each with the node and the attempt it is for, `answer[i]` is what is in
the channel or was taken from it. Every attempt makes channels of its own, with room
for the one answer, so `Abandoned` leaves none of those before; what an abandoned
goroutine does after that reaches nobody and it is not followed further. Sharing the
channels among the attempts is the variant `StillRead`.

Assumed of capnp (external): all nodes are in one process and a capability is its
server; a server runs one call at a time, in the order of arrival, and answers when
the handler returns; nothing limits the calls in flight; a call with a cancelled
context that has begun is not answered early. Of raft: a message may make or
unmake a leader; whoever leads may bring the conf changes it has accepted; a
proposal without a leader waits.

Conf changes without effect, failing handlers, and messages of a batch whose order
does not matter are not told apart. An item or a message is nothing but the wait
it causes.

### Cluster

`view`, `map`, and raft's `log`, `commit`, `applied`, `conf`, `term`, `role`, `lead` for
each node; `next` and `match` as a leader keeps them. `Boot` is what `StartNode`
makes of the peer list in `Init`: one committed entry, of term 1, that adds the node.
`Apply` is one committed entry in `doReady`; `AddNode` and `RemoveNode` are
`addConfChange` with what raft does in `ApplyConfChange`. `Reaches(i, j)` is the
lookup in `sendMessages`: a message, and an answer in the other direction, gets
through only to a node in the sender's view. `Replicate` is a MsgApp, `Send` at the
recipient and the answer, in one step: delay and reordering are raft's concern, the
loss by the view is this code's. `Introduce` is a program that calls `AddPeer` on the
embedded view, the one way the code leaves to make a joiner know its cluster.

Assumed of raft (version 3 of August 2023, read from its source): entries of the
same index and term are taken to be the same, so the first entry is never replaced;
a follower answers an append before its commit index with that index; a new peer is
probed from the leader's last entry on; a proposed conf change becomes an empty
entry while another may be unapplied; a proposal of a follower goes to the leader it
knows; a node with committed conf changes it has not applied does not campaign,
which also makes the `Campaign` of `removeNode` ineffective, as that conf change is
not applied before `Advance`; there is no CheckQuorum and no pre-vote
(`DefaultConfig`). A leader that removes itself stops; a node that loses its last
voter panics.

Any node may be asked to add or remove any other or itself, the starter included
(`Program`), as `Add` and `Remove` check nothing; and a node may campaign whenever it
has no leader, also before it is added (`TimesOut`), as it would after three to six
seconds. `Eager` bounds which nodes do that before they have heard of anybody; the
theorems hold for any `Eager`. What the properties then say depends on the past of a
node: the history variable `followed` has the leaders a node has followed or been,
and a node has *departed* from the starter when one of them was another node or its
term is beyond 2, the starter's first (`Departed`). `Uninvited` says that nobody has
been asked to add the starter, which is how the example goes about it.

## What is checked

Runs that pass:

| run | specification | what it shows |
|---|---|---|
| `loop_full` | 2 capabilities with 2 calls each, 2 users with 2 API calls each, all of the API, cancellation, a logger that does not exit | the lock discipline (`PauseLockHeld`), a paused node does nothing until its context ends (`PausedMeansParked`), an error always has a reporter (`ErrorNeverLost`), messages stay in order (`InOrder`), and a Send that reached the queue of a paused node never returns (`PausedSendNeverReturns`) |
| `loop_stop` | only `Stop`, a logger that does not exit | the cause that stops the node is never overwritten (`CauseSurvives`), a single reason to stop never ends in a send on the closed `stopChan` (`OneCauseIsSafe`), `Stop` returns or the process ends (`StopReturns`) |
| `loop_buffered` | default logger, the queue given one slot, for the one call that can be in flight | `Resume` brings the loop back (`ResumeTakesEffect`) and cancellation ends it (`ForcedStop`): what the code would do if its queue were buffered |
| `apply_members` | nodes join and leave, entries of an unknown type, one message per batch | `DurableFirst`, `AppliedIsDone`, `ViewFollowsConf`, and the promise of `ReplicatedMap` |
| `apply_live` | items and empty entries | the map is what the puts in log order make it (`KeepsPromise`), and every committed entry takes effect unless a batch fails or raft ends (`AppliesCommitted`) |
| `transport` | 2 nodes, one of them pausable and with retrievals that fail or time out; 2 clients: one lets n1 add n2, the other lets n2 add n1, or n1 take an item, add itself or remove n2; the second may give up, or the context of n1 is cancelled | threads that wait in a circle, or for a Send at the queue, do so for good (`WedgedForever`); a call of a client or a loop that does not return is in such a circle, or behind a pause, such a Send, or the lack of a leader in a cluster of several (`CallsEnd`); a registration asks and keeps the node it is for, whatever answers come late (`RightNode`) |
| `cluster` | 3 nodes, introduced to each other; n1, the starter, adds the others and puts an item; n2 is asked to add n1 too and to remove it; n1 and n3 may campaign from the start | nodes that have followed nobody but the starter agree on what is committed (`CommittedAgree`) and on the items that have taken effect (`MapsAgree`); the starter commits only what a majority of its voters has stored (`CommitsHeld`); unless a node is asked to add the starter, no other ever counts it as a voter (`StarterUnknown`) and it is never deposed (`NeverDeposed`); no node has a committed entry replaced, whoever leads it (`KeepsPromise`); an item a leader has appended takes effect on it unless it is overruled (`PutTakesEffect`) |

What `transport` finds to wait for good, each by a few legal calls: a node asked to
add itself through its own capability; two nodes asked to add each other at the
same time; a Put or Add that reaches a node before its first batch is handled, as
the loop then asks the server for its id while the server waits for the leader the
loop would elect; a loop that sends to a paused node; a loop whose message is a
forwarded proposal for a node without a leader; a Send that met a pause, whose node
has been resumed since. `CallsEnd` says there is no further kind, not that these do
not happen. The repository makes no promise about any of them, so they are no
findings, but each stops a node or a server of it.

`CommittedAgree`, `MapsAgree` and `CommitsHeld` leave out the nodes that have departed.
Nothing holds of all nodes: one that has not been added yet and elects itself
commits an empty entry of its own where the starter commits another, in a few steps.
One that has been added counts itself alone until it applies the addition of a third
one, as it does not count the starter; it may then elect itself in term 3 and commit
its own entry where the starter and its followers commit an item. The starter, which
the new leader does not count, hears nothing of it and goes on with the nodes that
still follow it. So the log of one cluster splits, and what keeps each part
consistent is `KeepsPromise`: a node that changes sides keeps what it has committed,
be it agreed with the new side or not. Without `Departed`, TLC refutes the first two
in the run `cluster`. `CommitsHeld` would still hold there, as with three nodes
whoever completes a majority has the entry at that moment. With five it would not:
n2 acknowledges an entry, n3 is elected by n4 and cuts it from the log of n2, n5
acknowledges it, and n1 counts n1, n2 and n5 and commits what n1 and n5 hold.

`StarterUnknown` and `NeverDeposed` hold as long as no node is asked to add the
starter. If n2 is, its request goes through the starter like any other: the entry is
committed and applied by all, n2 counts n1 from then on, and may be elected over it.
Without `Uninvited`, TLC refutes both.

Two other things the model shows and no property states. A node that is removed and
added again replays the whole log, its own removal included, at which point its
configuration is itself only, and raft panics. And a node that has committed entries
of another leader acknowledges them to a leader that does not have them; raft may
panic on such an answer, the model goes on (`TermAt`).

`PausedSendNeverReturns` is the mechanism of the first finding below, stated as
what the code does rather than as what it should. `InOrder` depends on it: with a
queue of capacity 1 it is false (a Send that has checked `pause` may queue its
message after the node was resumed, and it is delivered only at the next pause),
so buffering the queue alone would not be a fix.

Disagreements with what the repository says:

| run | finding |
|---|---|
| `loop_resume_wedged` | One Send while the node is paused blocks with `pauseLock` held, as nobody receives from the unbuffered queue (`capnp.go:138`). The Resume that follows never gets the lock; the node is wedged, deaf to Stop and cancellation. |
| `loop_stop_blocks` | `Stop` is documented as non-blocking (`node.go:63`). On a paused node its caller blocks: `waitPause` does not receive from `stopChan`. |
| `loop_cancel_nil` | "To stop forcefully, cancel the context" (`node.go:64`). The reporter that `ctx.Done` spawns reads `err` late; if a batch has succeeded in between it sends nil, and the `stopChan` case panics in `err.Error()` (`node.go:108`, `node.go:99`). |
| `cluster_join` | In the example ("Join n1 from n2 and n3.", `main.go:29`) nobody introduces the nodes. n2 does not know n1 and drops its answers; from the first `Add` on n1 cannot commit, and what is put or added after it never takes effect although the calls succeed (`node.go:127`, `node.go:320`). |
| `apply_id_fails` | `AddPeer` drops the error of the `Id` call and keeps the peer under id 0 (`view.go:35`), while raft counts it as a voter. |

Two more things the model allows and no run calls a finding, since the repository
says nothing of them. With a logger whose `Fatalf` returns, several senders may be
blocked on `stopChan` when the loop closes it, and the process panics:
`OneCauseIsSafe` says that it takes a failed batch or two calls of `Stop`, no more is
true. And the default logger ends the process before `n.Raft.Stop()` is reached.

### Bounds

`MaxCalls`, `MaxUses`: two of each let a call or a pause meet the remains of an
earlier one, which is what the order and lock properties are about. `MaxSenders`:
once that many reports of errors are alive, the loop can only receive from
`stopChan`. The code has no such limit (a cancelled node spawns reporters in a
busy loop), but reporters differ only by the value they have read, so two of them
have every combination. In `loop_buffered` one is enough, as the properties ask
whether a report arrives and not which.

`MaxLog` is 3: the bootstrap entry and two more, so that a batch can hold several
entries, an entry can be overruled and replaced, and a second batch can follow.
`MaxMessages` is 1, since only the largest acknowledgement matters; it always
acknowledges the whole log, as much as raft ever would. One peer is enough for
the view, which treats ids independently. The theorems hold without the bounds.

`transport`: two nodes and two calls are enough for a circle (server and server,
server and loop, a server and itself) and for a call caught behind one. Each client
calls once. One node that is paused and has slow retrievals, one client and one loop
that may be cancelled (`Pausable`, `Flaky`, `Impatient`) keep the run small: what these
roles add is a wait more or less, and the others meet it through the calls they
share. n1 has all of them at once. `MaxCancelled` is 1: of two contexts that end each
frees the threads that wait under it. The theorems hold without this bound.

`cluster`: three nodes are the fewest in which one that was added can form a
majority without the starter, and two that were added can follow different leaders.
`MaxTerm` 3 is the bootstrap term, the starter's and a second election; `MaxLog` 5
leaves room for the bootstrap entry, the starter's empty one, two conf changes and an
item. One item is enough, as each is put once. `Eager` has the starter and n3: a
joiner that leads itself before it is added, and n2, one that does not. The safety
properties are proved without any of these bounds.

### Fairness

`NodeLoop`: a goroutine that can run runs (weak fairness of the loop's own steps,
of a reporter, of a Send in progress). Go's select chooses at random among ready
cases and `sync.Mutex` hands the lock to a starving waiter, so a case or a lock
that is available again and again is taken (strong fairness of `CtxCase` and
`WaitCtx`, of the receives from `stopChan`, of `SetPaused` and `ChurnLock`). The
end of a batch assumes that peers answer. Users, new calls of Send, ticks, further
batches and cancellation are not forced.

`ReadyApply`: the loop takes an offered batch and each step of `doReady` ends. A
retrieval ends by `RetrievalTimeout` at the latest; the answer of a peer to
`Send` is an assumption, as `rpcSend` has no timeout of its own.

`Transport`: goroutines that can run do (`Serve`, `InTurn`), retrievals return at some
time (`RetrievalReturns`: an assumption on `RaftNodeRetrieval`, which gets a context
that ends with its attempt). The select of the loop picks at random, so the first
batch, the ticks and the end of the context get their turn however often a node is
paused and resumed, and raft takes a proposal it can take again and again: strong
fairness of `Bootstrap`, of an election in a node that is its only member, of
`Proposed` and of `CtxEnds`. Elections among several nodes, further batches, calls and
resumes are not forced.

`Cluster`: weak fairness of `Apply`, `Replicate` and `Introduce`: loops handle their
batches, what the views let through gets through, and a program that introduces
nodes does so for all. Elections and proposals are not forced, and a leader is not
stable: `PutTakesEffect` lets go when the leader or one of its voters moves on.

`CHECK_DEADLOCK FALSE` everywhere: the process may exit, and with the bounds used
up nothing is left to do.

## What is proved

The theorems hold for every value of the constants that satisfies the named
assumptions of each module, in particular for any number of nodes, clients,
capabilities, users, calls, keys and ids, and logs of any length.

`NodeLoopProofs`

* `TypeCorrect`, `LockTheorem`, `ParkedTheorem`: the invariants are inductive as
  they stand (given the types).
* `StuckSend`: `PausedSendNeverReturns`, from `PauseLockHeld`. While a Send of
  capability `c` is at the queue, `c` holds the lock, so no other step changes it.
* `ErrorTheorem`: `ErrorNeverLost`. Inductive; `PendingFacts` says what each step
  does to the number of reporters.
* `CauseTheorem`: `CauseSurvives` needs `CauseInv`: once `err` is an error, raft is
  inside a batch it was never told to advance, or stopped. So no later batch can
  reset `err`, and no reporter reads nil.
* `OneCauseTheorem`: `OneCauseIsSafe`, from `StopInv`, which rests on `CauseInv`: while no
  batch has failed there is no reporter, so a loop on its way out was stopped by a
  call of `Stop` that has returned (`Stopper`), and whoever still sends is another call.
* `OrderTheorem`: `InOrder` for `QueueCap = 0`, from `OrderInv`: the queue is empty
  at all times, and raft has accepted nothing that was not sent.

`ReadyApplyProofs`

* `Invariance`: the inductive invariant `Inv`, the conjunction of the types,
  `BatchInv` (the batch stays within what is committed; `next` stays within the
  batch), `AppliedIsDone`, `DurableFirst` and `StorageInv`. The last is what
  `DurableFirst` needs: acknowledged, stable and applied positions all lie within
  what raft has offered and not dropped, and from the store on the storage agrees
  with the log up to there; before it, the batch fits onto what is stored. The
  types alone are not inductive, as `view` and `map` get their values from
  `log[next]`, and `SubSeq` in `RaftStore` needs the storage to reach up to the
  batch.
* `TypeCorrect`, `DurableTheorem`, `AppliedTheorem` follow.
* `ViewTheorem`: `ViewFollowsConf` if `IdCallFails` is FALSE (`apply_id_fails` shows
  that it fails otherwise). `ViewInv` extends it to every step of a batch.
* `PromiseTheorem`: `Spec => KeepsPromise`, the refinement of `ReplicatedMap` with
  `next - 1` for the number of entries that have taken effect. Every step is a
  step of `ReplicatedMap` or leaves its state; that a new batch begins where the
  last has ended is `AppliedIsDone`.

`TransportProofs`

* `TypeCorrect`: `Inv` adds to the types that a handler at work has its call at the
  head of the inbox (`BusyServes`), so that answering takes a call out of a nonempty
  inbox, and that a loop which registers a node has its conf change (`Registers`).
* `WedgedTheorem`: `WedgedForever`. In a wedged set every server waits for an answer
  or is stuck, so none of them answers (`ServerStays`), and other steps only add to
  inboxes (`InboxGrows`): each call a member waits for stays where it is.
* `RightNodeTheorem`: `RightNode`, with `Inv` strengthened by `RightAttempt`: a goroutine
  whose channel is read, and what is in that channel, are for the conf change at hand.
* `SelfTheorem`, `EachOtherTheorem`: the two circles a program closes most easily (a node
  asked to add or remove itself, two nodes asked to add or remove each other), with
  whoever calls into them later: none of these calls is ever answered, by the same
  two lemmas.
* `EarlyTheorem`: a third one, of the server and the loop of a node that has no leader
  yet: the loop registers the node itself and waits for the server, whose handler
  waits in Propose for a leader the loop would elect. It holds as long as the caller
  is not cancelled (`OnlyImpatient`), since `UnledInbox` then leaves the handler no way
  out.

`ClusterProofs`

* `TypeCorrect`: with `applied <= commit <= Len(log)`. What a follower is told to commit
  lies within its new log (`SplicedKeeps`), what a leader commits within its own
  (`LeaderCommitsWithin`, by the least-number principle).
* `StarterTheorem`: `StarterUnknown`. Needs `OwnFirst` (every log begins with the entry
  its own node has bootstrapped from, committed, hence never replaced) and
  `NeverAdded` (while nobody is asked to add the starter no later entry adds it, in any
  log). Nothing is assumed of views, introductions or elections.

`ClusterSafetyProofs`

* `HistoryTheorem`: the inductive invariant `History` beside the types. `Ages`: a node in
  term 1 is alone with its first entry, and one that leads in term 2 has never followed
  another. `Reign`: until it departs the starter leads from its first election on, and
  it does not depart unless a node is asked to add it, for whoever could raise its term
  would have to count it as a voter. `OneHistory`: the logs of nodes that have not
  departed agree as far as both go, also once the starter has departed itself;
  `Longest`: until then none is longer than the starter's. `AcksStored`: what the
  starter counts as stored at a node is stored there, or one of the two has departed;
  it needs `OneHistory`, as the starter cuts no log of a node that follows it. A node
  departs for good (`DepartedStays`), and whoever takes entries from another leader does
  (`LeaderDeparts`). The proof goes by what each action does to terms, roles and logs
  (`CampaignShape`, `ProposeShape`, ...), and gives `StarterCounts` on the way: a starter
  that commits more counts a majority.
* `AgreeTheorem`: `CommittedAgree`, from `OneHistory`: it holds for whatever the nodes
  are asked, the starter's addition included, and whoever campaigns.
* `HeldTheorem`: `CommitsHeld`. The starter commits by `Counted`, a majority of what
  `match` says (`LeaderCommitsWithin`); `AcksStored` turns that into what is stored, and
  a larger set has a majority too (`MajorityGrows`, where `Nodes` must be finite).
* `DeposedTheorem`: `NeverDeposed`, from `Reign`: whoever campaigns, also before it is
  added, and whoever it is that nodes are asked to add, but for the starter.
* `PromiseTheorem`: `Spec => KeepsPromise`, the refinement of `ReplicatedMap` by every
  node, with `applied` for the number of entries that have taken effect. Its core is
  `Preserves`: no step of any node replaces what is committed at one. For a MsgApp
  that is because `stale` protects everything up to the recipient's commit index, and
  holds for all nodes, departed or not.
* `MapsTheorem`: `MapsAgree`, from `CommittedAgree` and `MapIsLog`, another inductive
  invariant: the items of a map are the puts of the log up to `applied`.

`ClusterJoinProofs`

* `SeveredTheorem`: what the liveness run `cluster_join` shows by an example, as a safety
  property and for any number of nodes. Without introductions, and while no node is
  asked to add the starter in turn, from the moment the
  starter has applied an addition it never commits an entry nor changes its
  configuration. The invariant `Cut`: no view has the starter, so its `match` stays 0;
  of the conf changes it has not applied there is at most one, at `confAt`, and none is
  committed once a node has joined (otherwise a removal could make the starter its
  only voter again). `CommitsAlone` is the count: who knows of no other log has a
  majority only of itself.

`KeepsPromise` is proved at both levels, in `ReadyApplyProofs` for the steps of one
`doReady` over an arbitrary raft, in `ClusterSafetyProofs` for nodes whose logs come
from one another. The assumptions on raft's side differ, the promise is the same.

Only model-checked: the liveness properties (`StopReturns`, `ResumeTakesEffect`,
`ForcedStop`, `AppliesCommitted`, `CallsEnd`, `PutTakesEffect`), which
are out of the prover's reach. Every other property of a passing run is proved.

## What is not modelled

* Raft itself: `ReadyApply`, `Transport` and `Cluster` each assume of it what is said
  above. Flow control, snapshots, read requests and pre-vote do not occur.
* Nodes in different processes: a network would add lost calls and connections,
  which this code leaves to capnp (`rpcSend` reports an error to raft, `rpcGetId` in
  `AddPeer` ignores it: `apply_id_fails`).
* References to capabilities. The code adds to them and releases one, in
  `unregister`, the one `PopPeer` has just added; they only grow.
* The JSON and capnp forms of items and messages (libraries), `ItemMap.Get`,
  `ItemToApi` and `PointerList`, which nothing calls; the list of peers `Add` returns.
* The hard state and snapshots in `DefaultRaftStore`: a snapshot always ends the
  batch with an error, after it has been stored. `MemoryStorage` is in memory,
  so there is no restart to model.
* `config.go`, `msg.go`: setters and a type name. Of the generated stubs the accessors
  of structs, lists and futures.

## Plan

Done: `NodeLoop`, `ReplicatedMap`, `ReadyApply`, `Transport` (with the attempts of a
registration) and `Cluster`, with their proofs, the refinement of `ReplicatedMap` by
`ReadyApply` and by each node of `Cluster` included. Left:

1. `NodeLoop` and `ReadyApply` composed: the outcomes of a batch in the first shown
   to be those of the second.
2. In `Transport`, `EarlyTheorem` for wedged sets in general: circles that go through
   a leaderless handler, as `Blocked` describes them.

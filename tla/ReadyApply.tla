----------------------------- MODULE ReadyApply -----------------------------
(***************************************************************************)
(* One node handling the Ready batches of its raft instance: doReady with  *)
(* RaftStore, sendMessages, addEntry, addConfChange, register and          *)
(* unregister.  The raft instance (go.etcd.io/raft) is external: it grows  *)
(* its log, drops entries not committed when a new leader overrules them,  *)
(* commits, offers a batch, and offers the next one after Advance.         *)
(* A variant of an action carries a plausible mistake and is not part of   *)
(* the specification.  It is there to show that a property notices it.     *)
(***************************************************************************)
EXTENDS Integers, Sequences, FiniteSets

CONSTANTS
  Keys, Values,   \* of the items put
  Ids,            \* raft ids
  Self,           \* the id of this node
  ZeroId,         \* 0, what rpcGetId returns beside an error
  None,           \* no value, no peer, no argument
  IdCallFails,    \* the Id call of AddPeer may fail
  Proposals,      \* bound: the entries raft appends
  MaxLog,         \* bound: length of the log
  MaxMessages     \* bound: messages in a batch

ASSUME ConstantsOK ==
  /\ Self \in Ids
  /\ ZeroId \notin Ids
  /\ None \notin Ids \cup {ZeroId}
  /\ IdCallFails \in BOOLEAN
  /\ MaxLog \in Nat
  /\ MaxMessages \in Nat

RetrievalRetries == 3

VARIABLES
  log, commit,    \* the raft log and how much of it is committed
  offered,        \* raft: entries offered for storage and not dropped since
  stable,         \* raft: entries the node has acknowledged as stored
  applied,        \* raft: entries the node has acknowledged as applied
  up,             \* raft: not stopped
  conf,           \* raft: the voters of its configuration
  pc,             \* where doReady is: "select" outside, "failed" on an error
  ready,          \* the batch being handled
  next,           \* the entry the apply loop is at
  attempts,       \* retrievals that have failed register
  ctxDone,        \* the context is cancelled
  stored,         \* the entries in n.Storage
  acked,          \* highest position of log acknowledged to a peer
  view,           \* n.View: the capability kept under each id
  map             \* n.Map

raftVars == <<log, commit, offered, stable, applied, up, conf>>
loopVars == <<pc, ready, next, attempts>>
nodeVars == <<stored, acked, view, map>>
vars == <<raftVars, loopVars, ctxDone, nodeVars>>

Promise == INSTANCE ReplicatedMap WITH done <- next - 1

Entries == Promise!Entries
ASSUME ProposalsOK == Proposals \subseteq Entries
Messages == [to : Ids, ack : Nat]
NoReady == [from |-> 0, entries |-> <<>>, commit |-> 0, msgs |-> <<>>,
            snap |-> FALSE]
Least(a, b) == IF a < b THEN a ELSE b

(* StartNode, given this node as the only peer, appends and commits the    *)
(* entry that adds it, and already counts it as a voter.                   *)
Init ==
  /\ log = <<[kind |-> "add", arg |-> Self]>>
  /\ commit = 1
  /\ offered = 0
  /\ stable = 0
  /\ applied = 0
  /\ up = TRUE
  /\ conf = {Self}
  /\ pc = "select"
  /\ ready = NoReady
  /\ next = 1
  /\ attempts = 0
  /\ ctxDone = FALSE
  /\ stored = <<>>
  /\ acked = 0
  /\ view = [i \in Ids \cup {ZeroId} |-> None]
  /\ map = Promise!NoItems

-----------------------------------------------------------------------------
(* The raft instance and the program around the node *)

RaftAppend(e) ==
  /\ up
  /\ Len(log) < MaxLog
  /\ log' = Append(log, e)
  /\ UNCHANGED <<commit, offered, stable, applied, up, conf, loopVars,
                 ctxDone, nodeVars>>

(* Another leader overrules the last entry.  What was said of it before is *)
(* void: it no longer counts as offered, stable or acknowledged.           *)
RaftDrop ==
  /\ up
  /\ commit < Len(log)
  /\ LET n == Len(log) - 1
     IN  /\ log' = SubSeq(log, 1, n)
         /\ offered' = Least(offered, n)
         /\ stable' = Least(stable, n)
         /\ acked' = Least(acked, n)
  /\ UNCHANGED <<commit, applied, up, conf, loopVars, ctxDone, stored, view,
                 map>>

RaftCommit ==
  /\ up
  /\ commit < Len(log)
  /\ commit' = commit + 1
  /\ UNCHANGED <<log, offered, stable, applied, up, conf, loopVars, ctxDone,
                 nodeVars>>

Cancel ==
  /\ ~ctxDone
  /\ ctxDone' = TRUE
  /\ UNCHANGED <<raftVars, loopVars, nodeVars>>

(* A batch: what is not stable yet, what is committed and not applied,     *)
(* messages that acknowledge no more than the log has, maybe a snapshot.   *)
TakeReady(msgs, snap) ==
  /\ pc = "select"
  /\ up
  /\ stable < Len(log) \/ applied < commit \/ msgs # <<>> \/ snap
  /\ \A i \in DOMAIN msgs : msgs[i].ack <= Len(log)
  /\ ready' = [from |-> stable, entries |-> SubSeq(log, stable + 1, Len(log)),
               commit |-> commit, msgs |-> msgs, snap |-> snap]
  /\ offered' = Len(log)
  /\ next' = applied + 1
  /\ pc' = "store"
  /\ UNCHANGED <<log, commit, stable, applied, up, conf, attempts, ctxDone,
                 nodeVars>>

-----------------------------------------------------------------------------
(* doReady *)

(* Variant: the entries are appended to what the storage already has.      *)
AppendToStorage == stored \o ready.entries

(* DefaultRaftStore: the entries of the batch replace what the storage has *)
(* from the position of the first of them on; no entries change nothing.   *)
RaftStore ==
  IF ready.entries = <<>> THEN stored
  ELSE SubSeq(stored, 1, ready.from) \o ready.entries

(* doReady returns an error: it is not called again, nothing is left of it. *)
Fail == pc' = "failed" /\ ready' = NoReady

StoreBatch ==
  /\ pc = "store"
  /\ \/ stored' = RaftStore /\ pc' = "send" /\ UNCHANGED ready
     \/ Fail /\ UNCHANGED stored
  /\ UNCHANGED <<raftVars, next, attempts, ctxDone, acked, view, map>>

(* sendMessages: to itself by Step, to a peer of the view by its Send,     *)
(* whose failure is only reported to raft; any other message is dropped.   *)
(* Of what it acknowledges, the part raft has dropped meanwhile is void.   *)
SendMessage ==
  /\ pc = "send"
  /\ ready.msgs # <<>>
  /\ LET m == Head(ready.msgs)
         n == Least(m.ack, offered)
     IN  \/ UNCHANGED acked
         \/ /\ m.to # Self /\ view[m.to] # None
            /\ n > acked
            /\ acked' = n
  /\ ready' = [ready EXCEPT !.msgs = Tail(@)]
  /\ UNCHANGED <<raftVars, pc, next, attempts, ctxDone, stored, view, map>>

CheckSnapshot ==
  /\ pc = "send"
  /\ ready.msgs = <<>>
  /\ IF ready.snap THEN Fail ELSE pc' = "apply" /\ UNCHANGED ready
  /\ UNCHANGED <<raftVars, next, attempts, ctxDone, nodeVars>>

(* The apply loop is at a committed entry of one of the given kinds.       *)
At(kinds) == pc = "apply" /\ next <= ready.commit /\ log[next].kind \in kinds

(* Variant: the item is stored before OnNewValue is asked.                 *)
AddEntryStoresFirst ==
  /\ \/ /\ At({"put"})
        /\ map' = Promise!Effect(map, log[next])
        /\ \/ next' = next + 1 /\ UNCHANGED <<pc, ready>>
           \/ Fail /\ UNCHANGED next
     \/ /\ At({"empty"})
        /\ next' = next + 1
        /\ UNCHANGED <<pc, ready, map>>
     \/ /\ At({"junk"})
        /\ Fail
        /\ UNCHANGED <<next, map>>
  /\ UNCHANGED <<raftVars, attempts, ctxDone, stored, acked, view>>

(* addEntry: the map changes only once OnNewValue has accepted the item.   *)
AddEntry ==
  /\ \/ /\ At({"put"})
        /\ map' = Promise!Effect(map, log[next])
        /\ next' = next + 1
        /\ UNCHANGED <<pc, ready>>
     \/ /\ At({"empty"})
        /\ next' = next + 1
        /\ UNCHANGED <<pc, ready, map>>
     \/ /\ At({"put", "junk"})
        /\ Fail
        /\ UNCHANGED <<next, map>>
  /\ UNCHANGED <<raftVars, attempts, ctxDone, stored, acked, view>>

(* addConfChange ends with ApplyConfChange, whether or not the change was  *)
(* carried out here, and then returns the error if there was one.  A       *)
(* stopped raft instance ignores the call; raft panics if no voter is left.*)
EndConfChange(newConf, ok) ==
  /\ conf' = IF up' THEN newConf ELSE conf
  /\ next' = next + 1
  /\ \/ conf' = {} /\ pc' = "panic" /\ UNCHANGED ready
     \/ conf' # {} /\ ok /\ pc' = "apply" /\ UNCHANGED ready
     \/ conf' # {} /\ ~ok /\ Fail
  /\ attempts' = 0
  /\ UNCHANGED <<log, commit, offered, stable, applied, ctxDone, stored, acked,
                 map>>

OtherConfChange ==
  /\ At({"other"})
  /\ UNCHANGED <<up, view>>
  /\ EndConfChange(conf, FALSE)

BeginRegister ==
  /\ At({"add"})
  /\ pc' = "register"
  /\ UNCHANGED <<raftVars, ready, next, attempts, ctxDone, nodeVars>>

(* AddPeer asks the peer for its id and drops the error of that call: then *)
(* the peer is kept under id 0.                                            *)
AddPeer(peer) ==
  \E id \in {peer} \cup (IF IdCallFails THEN {ZeroId} ELSE {}) :
    view' = [view EXCEPT ![id] = peer]

(* register got the capability.                                            *)
Registered ==
  /\ pc = "register"
  /\ UNCHANGED up
  /\ AddPeer(log[next].arg)
  /\ EndConfChange(conf \cup {log[next].arg}, TRUE)

RetriesLeftOnceMore == attempts < RetrievalRetries   \* variant: off by one
RetriesLeft == attempts + 1 < RetrievalRetries

(* A retrieval failed or timed out; the next one follows, if any is left   *)
(* and the failure was not the end of the context.                         *)
RetrievalFails ==
  /\ pc = "register"
  /\ IF RetriesLeft
     THEN /\ attempts' = attempts + 1
          /\ UNCHANGED <<raftVars, pc, ready, next, ctxDone, nodeVars>>
     ELSE /\ UNCHANGED <<up, view>>
          /\ EndConfChange(conf \cup {log[next].arg}, FALSE)

RegisterCtx ==
  /\ pc = "register"
  /\ ctxDone
  /\ UNCHANGED <<up, view>>
  /\ EndConfChange(conf \cup {log[next].arg}, FALSE)

(* Variant: the peer is not unregistered.                                  *)
KeepPeer(id) == view

(* unregister: a node does not forget itself.                              *)
Unregister(id) == IF id = Self THEN view ELSE [view EXCEPT ![id] = None]

(* removeNode: the node being removed stops its raft instance if it leads; *)
(* if another leader is removed the node campaigns, which fails when the   *)
(* context has ended.  In every case the peer is unregistered.             *)
RemoveNode ==
  /\ At({"remove"})
  /\ LET id == log[next].arg
     IN  /\ \/ UNCHANGED up
            \/ id = Self /\ up' = FALSE
         /\ view' = Unregister(id)
         /\ \/ EndConfChange(conf \ {id}, TRUE)
            \/ id # Self /\ up /\ ctxDone /\ EndConfChange(conf \ {id}, FALSE)

(* Variants: Advance is called with entries left to apply, or only for a   *)
(* batch that commits some; what was applied is not acknowledged.          *)
AppliedInPart == TRUE
AppliedAny == next > ready.commit /\ ready.commit > applied
NothingAcknowledged == applied

BatchApplied == next > ready.commit
Acknowledged == IF up THEN ready.commit ELSE applied

(* Advance acknowledges the whole batch.  Raft counts its entries as       *)
(* stable unless some were dropped; a stopped instance ignores the call.   *)
Advance ==
  /\ pc = "apply"
  /\ BatchApplied
  /\ stable' = IF up /\ offered = ready.from + Len(ready.entries)
                THEN offered ELSE stable
  /\ applied' = Acknowledged
  /\ pc' = "select"
  /\ ready' = NoReady
  /\ UNCHANGED <<log, commit, offered, up, conf, next, attempts, ctxDone,
                 nodeVars>>

-----------------------------------------------------------------------------
DoReady ==
  \/ StoreBatch \/ SendMessage \/ CheckSnapshot \/ AddEntry
  \/ OtherConfChange \/ BeginRegister \/ Registered \/ RetrievalFails
  \/ RegisterCtx \/ RemoveNode \/ Advance

(* Bound: a message acknowledges all of the log, as much as any can.       *)
MessageBatches ==
  UNION {[1 .. n -> [to : Ids, ack : {Len(log)}]] : n \in 0 .. MaxMessages}

Next ==
  \/ \E e \in Proposals : RaftAppend(e)
  \/ RaftDrop
  \/ RaftCommit
  \/ Cancel
  \/ \E msgs \in MessageBatches, snap \in BOOLEAN : TakeReady(msgs, snap)
  \/ DoReady

Spec == Init /\ [][Next]_vars

(* The loop goroutine runs: it takes a batch that is offered and each step *)
(* of doReady ends (retrieval is cut off by RetrievalTimeout; peers are    *)
(* assumed to answer Send).                                                *)
FairSpec ==
  /\ Spec
  /\ WF_vars(DoReady)
  /\ WF_vars(TakeReady(<<>>, FALSE))

-----------------------------------------------------------------------------
(* Properties *)

(* The type of every variable.                                             *)
TypeOK ==
  /\ log \in Seq(Entries)
  /\ commit \in 0 .. Len(log)
  /\ offered \in Nat
  /\ stable \in Nat
  /\ applied \in Nat
  /\ up \in BOOLEAN
  /\ conf \subseteq Ids
  /\ pc \in {"select", "store", "send", "apply", "register", "failed",
            "panic"}
  /\ ready \in [from : Nat, entries : Seq(Entries), commit : Nat,
                msgs : Seq(Messages), snap : BOOLEAN]
  /\ next \in Nat \ {0}
  /\ attempts \in 0 .. RetrievalRetries - 1
  /\ ctxDone \in BOOLEAN
  /\ stored \in Seq(Entries)
  /\ acked \in Nat
  /\ view \in [Ids \cup {ZeroId} -> Ids \cup {None}]
  /\ map \in [Keys -> Values \cup {None}]

(* Nothing is acknowledged to a peer and nothing takes effect on this node *)
(* unless the storage holds just that: doReady stores before it sends and  *)
(* applies, and a batch overwrites what a new leader has overruled.        *)
Held(n) == n <= Len(stored) /\ \A i \in 1 .. n : stored[i] = log[i]
DurableFirst == Held(acked) /\ Held(next - 1)

(* Raft never believes more to be applied than has taken effect, and       *)
(* between batches exactly that, so no batch skips or repeats an entry.    *)
AppliedIsDone ==
  /\ applied <= next - 1
  /\ pc = "select" /\ up => applied = next - 1

(* Between batches the view holds the other voters of the configuration,   *)
(* each under its own id, and nobody else.                                 *)
ViewFollowsConf ==
  pc = "select" /\ up =>
    \A i \in Ids \ {Self} : view[i] = IF i \in conf THEN i ELSE None

(* The node keeps the promise of ReplicatedMap.                            *)
KeepsPromise == Promise!Spec

(* Every committed entry takes effect, unless a batch fails or raft ends.  *)
AppliesCommitted ==
  \A k \in 1 .. MaxLog :
    commit >= k ~> next > k \/ pc \in {"failed", "panic"} \/ ~up
=============================================================================

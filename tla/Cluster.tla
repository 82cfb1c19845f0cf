------------------------------- MODULE Cluster ------------------------------
(***************************************************************************)
(* What a cluster of these nodes amounts to.  Every node starts as a       *)
(* cluster of its own and may be asked to add or remove any node.          *)
(* A message reaches a node only if the sender's view has it, answers      *)
(* included, and views are built from the conf changes a node applies.     *)
(* Raft is external.  A message, how it is taken and its answer are one    *)
(* step here: they are lost by the views, delay is left to raft.           *)
(***************************************************************************)
EXTENDS Integers, Sequences, FiniteSets

CONSTANTS
  Nodes,
  Starter,        \* the node whose followers the properties are about
  Puts,           \* the items
  Program,        \* what the program asks of which node: Put, Add or Remove
  Meet,           \* the program calls AddPeer to introduce nodes to each other
  Eager,          \* bound: who may campaign before it has heard of a leader
  None,
  MaxTerm,        \* bound: raft terms
  MaxLog          \* bound: length of a log

ASSUME NodesOK == IsFiniteSet(Nodes)
ASSUME StarterOK == Starter \in Nodes
ASSUME NoneOK == None \notin Nodes
ASSUME PutsOK == Puts \cap Nodes = {}
ASSUME BoundsOK == MaxTerm \in Nat /\ MaxLog \in Nat

VARIABLES
  view,           \* n.View: the ids it has
  map,            \* n.Map: the items it has
  term, role, lead,     \* raft: term, whether it leads, whom it follows
  log, commit, applied, \* raft: log, committed and applied index
  conf,           \* raft: the voters of its configuration
  confAt,         \* raft: a conf change is refused while this is not applied
  next, match,    \* raft: what a leader knows of the logs of others
  asked,          \* what the program has asked of the nodes
  followed        \* history: the leaders a node has followed, or been

nodeVars == <<view, map>>
termVars == <<term, role, lead>>
logVars == <<log, commit>>
confVars == <<applied, conf, confAt>>
peerVars == <<next, match>>
vars == <<nodeVars, termVars, logVars, confVars, peerVars, asked, followed>>

Entries ==
  [term : Nat, op : {"add", "remove", "empty"}, arg : Nodes]
    \cup [term : Nat, op : {"put"}, arg : Puts]
Entry(t, op, arg) == [term |-> t, op |-> op, arg |-> arg]

(* Variant: a node that is going to join starts with an empty log.         *)
OnlyStarterBoots(i) ==
  IF i = Starter THEN <<Entry(1, "add", i)>> ELSE <<>>

(* Init makes the node itself its only peer: StartNode gives the log a     *)
(* first entry that adds the node, committed from the start.               *)
Boot(i) == <<Entry(1, "add", i)>>

Init ==
  /\ view = [i \in Nodes |-> {}]
  /\ map = [i \in Nodes |-> {}]
  /\ term = [i \in Nodes |-> 1]
  /\ role = [i \in Nodes |-> "follower"]
  /\ lead = [i \in Nodes |-> None]
  /\ log = [i \in Nodes |-> Boot(i)]
  /\ commit = [i \in Nodes |-> Len(Boot(i))]
  /\ applied = [i \in Nodes |-> 0]
  /\ conf = [i \in Nodes |-> {i}]
  /\ confAt = [i \in Nodes |-> 0]
  /\ next = [i \in Nodes |-> [j \in Nodes |-> 1]]
  /\ match = [i \in Nodes |-> [j \in Nodes |-> 0]]
  /\ asked = {}
  /\ followed = [i \in Nodes |-> {}]

-----------------------------------------------------------------------------
Least(a, b) == IF a < b THEN a ELSE b
Most(a, b) == IF a < b THEN b ELSE a

(* The term of an entry, 0 outside the log: a leader may be told, by an    *)
(* answer with its recipient's commit index, of entries it has not got.    *)
(* Raft may end in a panic there; the model goes on.                       *)
TermAt(i, k) == IF k \in DOMAIN log[i] THEN log[i][k].term ELSE 0
LastTerm(i) == TermAt(i, Len(log[i]))
Majority(Q, S) == 2 * Cardinality(Q \cap S) > Cardinality(S)

(* maybeCommit: up to the last entry of its own term that a majority of    *)
(* the voters holds, as far as the leader knows.                           *)
LeaderCommits(i, lg, t, known, voters) ==
  LET Holders(k) == {i} \cup {j \in Nodes : known[j] >= k}
      Agreed == {k \in commit[i] + 1 .. Len(lg) :
                   lg[k].term = t /\ Majority(Holders(k), voters)}
  IN  IF Agreed = {} THEN commit[i]
      ELSE CHOOSE k \in Agreed : \A m \in Agreed : m <= k

(* sendMessages: only to a peer of the view; anything else is dropped.     *)
Reaches(i, j) == j \in view[i]

-----------------------------------------------------------------------------
(* Elections (raft) *)

(* A node's election timeout may pass whenever it has no leader, so before *)
(* it is added too.                                                        *)
TimesOut(i) == i \in Eager \/ Len(log[i]) > 1

UpToDate(i, j) ==
  \/ LastTerm(i) > LastTerm(j)
  \/ LastTerm(i) = LastTerm(j) /\ Len(log[i]) >= Len(log[j])

(* A campaign asks the voters that can be reached; those behind take the   *)
(* new term and may grant their vote, which counts if it comes back.  No   *)
(* node campaigns with a committed conf change that it has not applied.    *)
Campaign(i) ==
  LET t == term[i] + 1
      Behind == {j \in conf[i] \ {i} :
                   Reaches(i, j) /\ term[j] < t /\ role[j] # "stopped"}
      Votes == {i} \cup {j \in Behind : Reaches(j, i) /\ UpToDate(i, j)}
      wins == Majority(Votes, conf[i])
  IN /\ role[i] = "follower"
     /\ TimesOut(i)
     /\ t <= MaxTerm /\ Len(log[i]) < MaxLog
     /\ i \in conf[i]
     /\ \A k \in applied[i] + 1 .. commit[i] : log[i][k].op \in {"put", "empty"}
     /\ term' = [j \in Nodes |-> IF j \in Behind \cup {i} THEN t ELSE term[j]]
     /\ role' = [j \in Nodes |->
                   IF j = i /\ wins THEN "leader"
                   ELSE IF j \in Behind \cup {i} THEN "follower" ELSE role[j]]
     /\ lead' = [j \in Nodes |->
                   IF j = i /\ wins THEN i
                   ELSE IF j \in Behind \cup {i} THEN None ELSE lead[j]]
     /\ IF wins
        THEN /\ log' = [log EXCEPT ![i] = Append(@, Entry(t, "empty", i))]
             /\ confAt' = [confAt EXCEPT ![i] = Len(log[i])]
             /\ next' = [next EXCEPT ![i] = [j \in Nodes |-> Len(log[i]) + 1]]
             /\ match' = [match EXCEPT ![i] = [j \in Nodes |-> 0]]
             /\ commit' = [commit EXCEPT
                  ![i] = LeaderCommits(i, log'[i], t, match'[i], conf[i])]
             /\ followed' = [followed EXCEPT ![i] = @ \cup {i}]
        ELSE UNCHANGED <<log, commit, confAt, next, match, followed>>
     /\ UNCHANGED <<nodeVars, applied, conf, asked>>

-----------------------------------------------------------------------------
(* Proposals *)

(* A leader appends the proposal, and has committed it if it is alone.  A  *)
(* conf change becomes an empty entry while another may be unapplied.      *)
LeaderAppends(l, op, arg) ==
  LET refused == op # "put" /\ confAt[l] > applied[l]
      e == IF refused THEN Entry(term[l], "empty", l) ELSE Entry(term[l], op, arg)
  IN /\ Len(log[l]) < MaxLog
     /\ log' = [log EXCEPT ![l] = Append(@, e)]
     /\ commit' = [commit EXCEPT
          ![l] = LeaderCommits(l, log'[l], term[l], match[l], conf[l])]
     /\ confAt' = IF op # "put" /\ ~refused
                  THEN [confAt EXCEPT ![l] = Len(log'[l])] ELSE confAt

(* Put, Add and Remove return without error once raft has taken the        *)
(* proposal: a leader appends it; a follower forwards it to the leader it  *)
(* knows, if that is in its view, and otherwise it is dropped.             *)
Propose(i, op, arg) ==
  /\ <<i, op, arg>> \in Program \ asked
  /\ asked' = asked \cup {<<i, op, arg>>}
  /\ lead[i] # None
  /\ \/ role[i] = "leader" /\ LeaderAppends(i, op, arg)
     \/ /\ role[i] = "follower" /\ Reaches(i, lead[i]) /\ role[lead[i]] = "leader"
        /\ LeaderAppends(lead[i], op, arg)
     \/ /\ role[i] = "follower" /\ ~(Reaches(i, lead[i]) /\ role[lead[i]] = "leader")
        /\ UNCHANGED <<log, commit, confAt>>
  /\ UNCHANGED <<nodeVars, termVars, applied, conf, peerVars, followed>>

Put(i, p) == Propose(i, "put", p)
Add(i, j) == Propose(i, "add", j)
Remove(i, j) == Propose(i, "remove", j)

-----------------------------------------------------------------------------
(* Replication (raft over sendMessages and Send) *)

(* Variant: the node does not store the entries of the batch.              *)
NotStored(i, j, prev) == log[j]

(* Variant: the node takes over the log of the leader.                     *)
WholeLog(i, j, prev) == log[i]

(* Variant: the entry at prev, which the node has, is appended once more.  *)
OneTooMany(i, j, prev) ==
  SubSeq(log[j], 1, prev) \o SubSeq(log[i], prev, Len(log[i]))

(* What j's log becomes when i sends it what follows index prev.           *)
Spliced(i, j, prev) ==
  IF \A k \in prev + 1 .. Len(log[i]) :
        k <= Len(log[j]) /\ log[j][k].term = log[i][k].term
  THEN log[j]
  ELSE SubSeq(log[j], 1, prev) \o SubSeq(log[i], prev + 1, Len(log[i]))

Answers(i, j) == Reaches(j, i)

(* j follows leader i, takes the entries if its log has the one before     *)
(* them, and answers; i learns from the answer and commits.                *)
Replicate(i, j) ==
  LET prev == next[i][j] - 1
      stale == prev < commit[j]
      fits == ~stale /\ prev <= Len(log[j]) /\ TermAt(j, prev) = TermAt(i, prev)
      ack == Most(match[i][j], IF stale THEN commit[j] ELSE Len(log[i]))
      known == IF stale \/ fits THEN ack ELSE match[i][j]
      probe == IF stale \/ fits THEN Most(next[i][j], ack + 1)
               ELSE Most(1, Least(prev, Len(log[j]) + 1))
  IN /\ role[i] = "leader"
     /\ j \in conf[i] \ {i} /\ Reaches(i, j)
     /\ role[j] # "stopped"
     /\ \/ term[j] < term[i]
        \/ term[j] = term[i] /\ role[j] # "leader"
     /\ term' = [term EXCEPT ![j] = term[i]]
     /\ role' = [role EXCEPT ![j] = "follower"]
     /\ lead' = [lead EXCEPT ![j] = i]
     /\ log' = IF fits THEN [log EXCEPT ![j] = Spliced(i, j, prev)] ELSE log
     /\ IF Answers(i, j)
        THEN /\ match' = [match EXCEPT ![i][j] = known]
             /\ next' = [next EXCEPT ![i][j] = probe]
        ELSE UNCHANGED peerVars
     /\ commit' = [commit EXCEPT
          ![i] = LeaderCommits(i, log[i], term[i], match'[i], conf[i]),
          ![j] = IF fits THEN Most(@, commit[i]) ELSE @]
     /\ followed' = [followed EXCEPT ![j] = @ \cup {i}]
     /\ UNCHANGED <<nodeVars, confVars, asked>>

-----------------------------------------------------------------------------
(* The node: doReady with the next committed entry *)

(* Variant: the peer is kept, but under another id than its own.           *)
AddPeerUnderZero(id) == {}

(* The ids AddPeer adds to the view.                                       *)
AddPeer(id) == {id}

(* addNode registers the node in the view; raft's configuration gets it    *)
(* too, and a leader starts sending to it from its last entry on.          *)
AddNode(i, id) ==
  /\ view' = [view EXCEPT ![i] = @ \cup AddPeer(id)]
  /\ conf' = [conf EXCEPT ![i] = @ \cup {id}]
  /\ IF id \in conf[i] THEN UNCHANGED peerVars
     ELSE /\ next' = [next EXCEPT ![i][id] = Len(log[i])]
          /\ match' = [match EXCEPT ![i][id] = 0]
  /\ UNCHANGED <<termVars, commit, map>>

(* unregister: nobody leaves its own view.                                 *)
Unregistered(i, id) == view[i] \ ({id} \ {i})

(* removeNode: a leader that is removed stops its raft, and fewer voters   *)
(* may be enough to commit what was open.                                  *)
(* Raft panics in a node that loses its last voter: "stopped" too.  If     *)
(* another leader is removed the node calls Campaign, which raft ignores   *)
(* as long as a conf change, this one, is committed and not yet applied.   *)
RemoveNode(i, id) ==
  LET left == conf[i] \ {id}
  IN  /\ view' = [view EXCEPT ![i] = Unregistered(i, id)]
      /\ conf' = [conf EXCEPT ![i] = left]
      /\ role' = IF left = {} \/ (id = i /\ role[i] = "leader")
                 THEN [role EXCEPT ![i] = "stopped"] ELSE role
      /\ commit' = IF role'[i] = "leader"
           THEN [commit EXCEPT ![i] = LeaderCommits(i, log[i], term[i], match[i], left)]
           ELSE commit
      /\ UNCHANGED <<term, lead, map, peerVars>>

Apply(i) ==
  LET k == applied[i] + 1
      e == log[i][k]
  IN /\ role[i] # "stopped"
     /\ k <= commit[i]
     /\ applied' = [applied EXCEPT ![i] = k]
     /\ \/ e.op = "add" /\ AddNode(i, e.arg)
        \/ e.op = "remove" /\ RemoveNode(i, e.arg)
        \/ /\ e.op = "put" /\ map' = [map EXCEPT ![i] = @ \cup {e.arg}]
           /\ UNCHANGED <<view, conf, commit, termVars, peerVars>>
        \/ e.op = "empty" /\ UNCHANGED <<nodeVars, conf, commit, termVars, peerVars>>
     /\ UNCHANGED <<log, confAt, asked, followed>>

(* The program introduces j to a node it has joined: i.View.AddPeer.       *)
Introduce(i, j) ==
  /\ Meet
  /\ i # j /\ i \in conf[j] /\ j \notin view[i]
  /\ view' = [view EXCEPT ![i] = @ \cup AddPeer(j)]
  /\ UNCHANGED <<map, termVars, logVars, confVars, peerVars, asked, followed>>

-----------------------------------------------------------------------------
Next ==
  \/ \E i \in Nodes : Campaign(i) \/ Apply(i)
  \/ \E i, j \in Nodes :
       Replicate(i, j) \/ Introduce(i, j) \/ Add(i, j) \/ Remove(i, j)
  \/ \E i \in Nodes, p \in Puts : Put(i, p)

Spec == Init /\ [][Next]_vars

(* Loops handle their batches, messages get through where the views let    *)
(* them, and a program that introduces nodes does so for all of them.      *)
FairSpec ==
  /\ Spec
  /\ \A i \in Nodes : WF_vars(Apply(i))
  /\ \A i \in Nodes : \A j \in Nodes \ {i} :
       WF_vars(Replicate(i, j)) /\ WF_vars(Introduce(i, j))

-----------------------------------------------------------------------------
(* Properties *)

(* The type of every variable.                                             *)
TypeOK ==
  /\ view \in [Nodes -> SUBSET Nodes]
  /\ map \in [Nodes -> SUBSET Puts]
  /\ term \in [Nodes -> Nat]
  /\ role \in [Nodes -> {"leader", "follower", "stopped"}]
  /\ lead \in [Nodes -> Nodes \cup {None}]
  /\ log \in [Nodes -> Seq(Entries)]
  /\ commit \in [Nodes -> Nat]
  /\ \A i \in Nodes : applied[i] <= commit[i] /\ commit[i] <= Len(log[i])
  /\ applied \in [Nodes -> Nat]
  /\ conf \in [Nodes -> SUBSET Nodes]
  /\ confAt \in [Nodes -> Nat]
  /\ next \in [Nodes -> [Nodes -> Nat \ {0}]]
  /\ match \in [Nodes -> [Nodes -> Nat]]
  /\ asked \subseteq Nodes \X {"put", "add", "remove"} \X (Nodes \cup Puts)
  /\ followed \in [Nodes -> SUBSET Nodes]

(* Nobody has been asked to add the starter: main.go lets the node that it *)
(* started first add the others.                                           *)
Uninvited == \A i \in Nodes : <<i, "add", Starter>> \notin asked

(* Unless a node is asked to add the starter too, no node that was added   *)
(* ever counts it as a voter, whatever it receives: its first entry is its *)
(* own and is never replaced by the one that adds the starter.  Alone with *)
(* nodes added later, it can form a majority the starter knows nothing of. *)
StarterUnknown == Uninvited => \A i \in Nodes \ {Starter} : Starter \notin conf[i]

(* A node has departed from the starter when it has followed, or been,     *)
(* another leader or has seen a term after the starter's first one, which  *)
(* is 2.  All that have not agree on every entry they have committed after *)
(* the first, which is each node's own, whoever else has been elected, been*)
(* added or removed, and however many answers were lost.                   *)
(* It is not more: a node counts itself alone until it has applied an      *)
(* addition, and when it elects itself, it commits entries of its own where*)
(* others commit the starter's.                                            *)
Departed(i) == term[i] > 2 \/ ~ (followed[i] \subseteq {Starter})
CommittedAgree ==
  \A i, j \in Nodes : \A k \in 2 .. Least(commit[i], commit[j]) :
    Departed(i) \/ Departed(j) \/ log[i][k] = log[j][k]

(* Of two such nodes the one that has applied more has every item that the *)
(* other one has: what Items of one answers, Items of the other does too.  *)
MapsAgree ==
  \A i, j \in Nodes :
    applied[i] <= applied[j] => Departed(i) \/ Departed(j) \/ map[i] \subseteq map[j]

(* Until it departs itself the starter commits nothing that a majority of  *)
(* its voters does not hold, those left out that have departed: its idea of*)
(* the logs of others, kept by answers that may be lost or late, is never  *)
(* ahead of what they stored.                                              *)
Holds(j, k) == \A m \in 2 .. k : m <= Len(log[j]) /\ log[j][m] = log[Starter][m]
CommitsHeld ==
  [][commit'[Starter] > commit[Starter] /\ ~ Departed(Starter)' =>
       Majority({j \in Nodes : Departed(j)' \/ Holds(j, commit[Starter])'},
                conf'[Starter])]_vars

(* Unless a node is asked to add the starter too, it is never deposed: once*)
(* it leads it does so, in its term and without losing an entry, until it  *)
(* removes itself.                                                         *)
NeverDeposed ==
  [][role[Starter] = "leader" /\ Uninvited' =>
       /\ role'[Starter] \in {"leader", "stopped"}
       /\ term'[Starter] = term[Starter]
       /\ \A k \in DOMAIN log[Starter] :
            k <= Len(log'[Starter]) /\ log'[Starter][k] = log[Starter][k]]_vars

(* Every node of a cluster, however it is led, keeps the promise of        *)
(* ReplicatedMap for its own log: no entry it has committed is replaced,   *)
(* whoever leads, and its map holds what the log said up to there.  An item*)
(* is a key of its own.                                                    *)
AsEntry(e) ==
  [kind |-> e.op,
   arg |-> CASE e.op = "put" -> [key |-> e.arg, val |-> e.arg]
             [] e.op = "empty" -> None
             [] OTHER -> e.arg]
Promise(i) == INSTANCE ReplicatedMap WITH
  Keys <- Puts, Values <- Puts, Ids <- Nodes,
  log <- [k \in DOMAIN log[i] |-> AsEntry(log[i][k])],
  commit <- commit[i],
  done <- applied[i],
  map <- [p \in Puts |-> IF p \in map[i] THEN p ELSE None]
KeepsPromise ==
  /\ \A i \in Nodes : Promise(i)!Init
  /\ [][\A i \in Nodes : [Promise(i)!Next]_(Promise(i)!vars)]_vars

(* An item a leader has appended takes effect on it, unless one of its     *)
(* voters has stopped, has moved on to a later term or leads itself.       *)
Leads(i, p) ==
  role[i] = "leader" /\ \E k \in DOMAIN log[i] : log[i][k] = Entry(log[i][k].term, "put", p)
Overruled(i) ==
  \/ role[i] # "leader"
  \/ \E j \in conf[i] \ {i} : term[j] > term[i] \/ role[j] # "follower"
PutTakesEffect ==
  \A i \in Nodes, p \in Puts : Leads(i, p) ~> p \in map[i] \/ Overruled(i)
=============================================================================

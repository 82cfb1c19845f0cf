------------------------ MODULE ClusterSafetyProofs -------------------------
(***************************************************************************)
(* What holds between the logs of a Cluster: those that have not departed  *)
(* from the starter have its entries, it commits only what a majority of   *)
(* its voters holds, it is not deposed, and every node keeps the promise of*)
(* ReplicatedMap.                                                          *)
(***************************************************************************)
EXTENDS ClusterProofs, FiniteSetTheorems

-----------------------------------------------------------------------------
(* A node is alone with its first entry in term 1, and leads in term 2 only*)
(* if it has never followed another.                                       *)
Ages ==
  \A i \in Nodes :
    /\ term[i] >= 1
    /\ term[i] = 1 => /\ role[i] = "follower" /\ followed[i] = {}
                      /\ Len(log[i]) = 1 /\ conf[i] = {i}
    /\ term[i] = 2 /\ role[i] = "leader" => followed[i] = {i}

(* Until it departs the starter leads from its first election on; it does  *)
(* not depart unless some node has been asked to add it.                   *)
Reign ==
  /\ Uninvited => ~ Departed(Starter)
  /\ ~ Departed(Starter) => term[Starter] = 1 \/ role[Starter] # "follower"

(* Logs of nodes that have not departed agree as far as both go, but for   *)
(* the first entry, also after the starter has departed.                   *)
OneHistory ==
  \A i, j \in Nodes : \A k \in 2 .. Len(log[i]) :
    Departed(i) \/ Departed(j) \/ k > Len(log[j]) \/ log[i][k] = log[j][k]

(* None of them is longer than the starter's, and what the starter counts  *)
(* as stored is stored.                                                    *)
Longest ==
  \A j \in Nodes : Departed(Starter) \/ Departed(j) \/ Len(log[j]) <= Len(log[Starter])
AcksStored ==
  \A j \in Nodes : Departed(Starter) \/ Departed(j) \/ match[Starter][j] <= Len(log[j])

Logs == OneHistory /\ Longest /\ AcksStored
History == Ages /\ Reign /\ Logs

(* A starter that has not departed commits more only if it counts a        *)
(* majority.                                                               *)
StarterCounts ==
  commit'[Starter] > commit[Starter] /\ ~ Departed(Starter)' =>
    Counted(Starter, match'[Starter], commit'[Starter], conf'[Starter])

-----------------------------------------------------------------------------
(* What the actions do to terms, roles and logs *)

(* A campaign raises the term of the candidate and of voters of its.       *)
LEMMA CampaignShape ==
  ASSUME Inv, NEW i \in Nodes, Campaign(i)
  PROVE  /\ role[i] = "follower"
         /\ UNCHANGED <<map, applied, conf>>
         /\ \E B \in SUBSET (conf[i] \ {i}) :
              /\ \A j \in B : term[j] < term[i] + 1
              /\ term' = [j \in Nodes |-> IF j \in B \cup {i} THEN term[i] + 1
                                          ELSE term[j]]
              /\ \A j \in Nodes \ (B \cup {i}) : role'[j] = role[j]
              /\ \A j \in B : role'[j] # "leader"
              /\ \/ /\ UNCHANGED <<log, commit, match, followed>>
                    /\ conf[i] # {i} /\ role'[i] = "follower"
                 \/ /\ role'[i] = "leader"
                    /\ followed' = [followed EXCEPT ![i] = @ \cup {i}]
                    /\ log' = [log EXCEPT
                         ![i] = Append(@, Entry(term[i] + 1, "empty", i))]
                    /\ match' = [match EXCEPT ![i] = [j \in Nodes |-> 0]]
                    /\ commit' = [commit EXCEPT ![i] =
                         LeaderCommits(i, log'[i], term[i] + 1, match'[i], conf[i])]
<1> DEFINE t == term[i] + 1
           Behind == {j \in conf[i] \ {i} :
                        Reaches(i, j) /\ term[j] < t /\ role[j] # "stopped"}
           Votes == {i} \cup {j \in Behind : Reaches(j, i) /\ UpToDate(i, j)}
           wins == Majority(Votes, conf[i])
<1>1. /\ role[i] = "follower"
      /\ UNCHANGED <<map, applied, conf>>
  BY DEF Campaign, nodeVars
<1>2. /\ term' = [j \in Nodes |-> IF j \in Behind \cup {i} THEN t ELSE term[j]]
      /\ role' = [j \in Nodes |->
                    IF j = i /\ wins THEN "leader"
                    ELSE IF j \in Behind \cup {i} THEN "follower" ELSE role[j]]
  BY DEF Campaign
<1>3. \/ ~wins /\ UNCHANGED <<log, commit, match, followed>>
      \/ /\ wins
         /\ followed' = [followed EXCEPT ![i] = @ \cup {i}]
         /\ log' = [log EXCEPT ![i] = Append(@, Entry(t, "empty", i))]
         /\ match' = [match EXCEPT ![i] = [j \in Nodes |-> 0]]
         /\ commit' = [commit EXCEPT
              ![i] = LeaderCommits(i, log'[i], t, match'[i], conf[i])]
  BY Zenon DEF Campaign
<1>4. ASSUME conf[i] = {i} PROVE wins
  <2>1. Votes \cap conf[i] = {i}
    BY <1>4
  <2>2. Cardinality({i}) = 1
    BY FS_Singleton
  <2> HIDE DEF Votes
  <2>3. 2 * Cardinality(Votes \cap conf[i]) > Cardinality(conf[i])
    BY <1>4, <2>1, <2>2
  <2> QED  BY <2>3 DEF Majority
<1>5. /\ Behind \in SUBSET (conf[i] \ {i}) /\ Behind \subseteq Nodes
      /\ \A j \in Behind : term[j] < term[i] + 1
  BY DEF Inv, TypeOK
<1> HIDE DEF Behind, wins
<1>6. /\ \A j \in Nodes \ (Behind \cup {i}) : role'[j] = role[j]
      /\ \A j \in Behind : role'[j] # "leader"
      /\ role'[i] = IF wins THEN "leader" ELSE "follower"
  BY <1>2, <1>5
<1>7. \/ /\ UNCHANGED <<log, commit, match, followed>>
         /\ conf[i] # {i} /\ role'[i] = "follower"
      \/ /\ role'[i] = "leader"
         /\ followed' = [followed EXCEPT ![i] = @ \cup {i}]
         /\ log' = [log EXCEPT ![i] = Append(@, Entry(t, "empty", i))]
         /\ match' = [match EXCEPT ![i] = [j \in Nodes |-> 0]]
         /\ commit' = [commit EXCEPT
              ![i] = LeaderCommits(i, log'[i], t, match'[i], conf[i])]
  BY <1>3, <1>4, <1>6
<1> QED  BY <1>1, <1>2, <1>5, <1>6, <1>7

(* A proposal is appended by a leader, in its term, or by nobody.          *)
LEMMA ProposeShape ==
  ASSUME Inv, NEW i \in Nodes, NEW op \in {"put", "add", "remove"},
         NEW arg \in Nodes \cup Puts,
         op = "put" => arg \in Puts, op # "put" => arg \in Nodes,
         Propose(i, op, arg)
  PROVE  /\ UNCHANGED <<map, term, role, applied, conf, match, followed>>
         /\ \/ UNCHANGED <<log, commit>>
            \/ \E l \in Nodes, e \in Entries :
                 /\ role[l] = "leader" /\ e.term = term[l]
                 /\ log' = [log EXCEPT ![l] = Append(@, e)]
                 /\ commit' = [commit EXCEPT ![l] =
                      LeaderCommits(l, log'[l], term[l], match[l], conf[l])]
<1>1. UNCHANGED <<map, term, role, applied, conf, match, followed>> /\ lead[i] # None
  BY DEF Propose, nodeVars, termVars, peerVars
<1>2. lead[i] \in Nodes
  BY <1>1 DEF Inv, TypeOK
<1>3. ASSUME NEW l \in Nodes, LeaderAppends(l, op, arg), role[l] = "leader"
      PROVE  \E e \in Entries :
               /\ e.term = term[l]
               /\ log' = [log EXCEPT ![l] = Append(@, e)]
               /\ commit' = [commit EXCEPT ![l] =
                    LeaderCommits(l, log'[l], term[l], match[l], conf[l])]
  <2> DEFINE refused == op # "put" /\ confAt[l] > applied[l]
             e == IF refused THEN Entry(term[l], "empty", l)
                  ELSE Entry(term[l], op, arg)
  <2>1. /\ log' = [log EXCEPT ![l] = Append(@, e)]
        /\ commit' = [commit EXCEPT ![l] =
             LeaderCommits(l, log'[l], term[l], match[l], conf[l])]
    BY <1>3 DEF LeaderAppends
  <2>2. term[l] \in Nat
    BY DEF Inv, TypeOK
  <2>3. e \in Entries /\ e.term = term[l]
    <3>1. CASE refused
      BY <2>2, <3>1 DEF Entry, Entries
    <3>2. CASE ~refused
      BY <2>2, <3>2 DEF Entry, Entries
    <3> QED  BY <3>1, <3>2
  <2> QED  BY <2>1, <2>3
<1> QED  BY <1>1, <1>2, <1>3 DEF Propose

(* A follower's log stays or takes over the leader's from an index on that *)
(* both have with the same term; the leader counts no more than is there.  *)
LEMMA ReplicateShape ==
  ASSUME Inv, NEW i \in Nodes, NEW j \in Nodes, Replicate(i, j)
  PROVE  /\ role[i] = "leader" /\ i # j /\ j \in conf[i] /\ term[j] <= term[i]
         /\ term' = [term EXCEPT ![j] = term[i]]
         /\ role' = [role EXCEPT ![j] = "follower"]
         /\ UNCHANGED <<map, applied, conf>>
         /\ \A l \in Nodes \ {j} : log'[l] = log[l]
         /\ \A l \in Nodes \ {i} : match'[l] = match[l]
         /\ \A l \in Nodes \ {j} : match'[i][l] = match[i][l]
         /\ commit'[i] = LeaderCommits(i, log[i], term[i], match'[i], conf[i])
         /\ \A l \in Nodes \ {i, j} : commit'[l] = commit[l]
         /\ \/ commit'[j] = commit[j]
            \/ commit'[j] = commit[i] /\ commit[j] < commit[i]
         /\ \/ /\ log'[j] = log[j]
               /\ match'[i][j] <= Most(match[i][j], Len(log[j]))
            \/ \E prev \in Nat :
                 /\ commit[j] <= prev /\ prev <= Len(log[j])
                 /\ prev < Len(log[i]) /\ log[j][prev].term = log[i][prev].term
                 /\ Len(log'[j]) = Len(log[i])
                 /\ \A k \in 1 .. Len(log[i]) :
                      log'[j][k] = IF k <= prev THEN log[j][k] ELSE log[i][k]
                 /\ match'[i][j] <= Most(match[i][j], Len(log[i]))
<1> DEFINE prev == next[i][j] - 1
           stale == prev < commit[j]
           fits == /\ ~stale /\ prev <= Len(log[j])
                   /\ TermAt(j, prev) = TermAt(i, prev)
           ack == Most(match[i][j], IF stale THEN commit[j] ELSE Len(log[i]))
           known == IF stale \/ fits THEN ack ELSE match[i][j]
           n == LeaderCommits(i, log[i], term[i], match'[i], conf[i])
           m == IF fits THEN Most(commit[j], commit[i]) ELSE commit[j]
<1>1. /\ role[i] = "leader" /\ i # j /\ j \in conf[i]
      /\ term[j] < term[i] \/ term[j] = term[i]
      /\ term' = [term EXCEPT ![j] = term[i]]
      /\ role' = [role EXCEPT ![j] = "follower"]
      /\ UNCHANGED <<map, applied, conf>>
  BY DEF Replicate, nodeVars, confVars
<1>2. log' = IF fits THEN [log EXCEPT ![j] = Spliced(i, j, prev)] ELSE log
  BY DEF Replicate
<1>3. match' = [match EXCEPT ![i][j] = known] \/ match' = match
  BY Zenon DEF Replicate, peerVars
<1>4. commit' = [commit EXCEPT ![i] = n,
                               ![j] = IF fits THEN Most(@, commit[i]) ELSE @]
  BY Zenon DEF Replicate
<1>5. /\ commit \in [Nodes -> Nat] /\ log \in [Nodes -> Seq(Entries)]
      /\ term \in [Nodes -> Nat] /\ match \in [Nodes -> [Nodes -> Nat]]
      /\ next \in [Nodes -> [Nodes -> Nat \ {0}]]
  BY DEF Inv, TypeOK
<1>6. /\ prev \in Nat /\ match[i] \in [Nodes -> Nat] /\ match[i][j] \in Nat
      /\ commit[i] \in Nat /\ commit[j] \in Nat /\ commit[j] >= 1
      /\ commit[j] <= Len(log[j]) /\ Len(log[i]) \in Nat /\ Len(log[j]) \in Nat
      /\ term[i] \in Nat /\ term[j] \in Nat
  <2>1. next[i] \in [Nodes -> Nat \ {0}] /\ match[i] \in [Nodes -> Nat]
    BY <1>5
  <2>2. next[i][j] \in Nat \ {0} /\ match[i][j] \in Nat
    BY <2>1
  <2> QED  BY <1>5, <2>1, <2>2, NodeFacts
<1>7. /\ commit'[i] = n /\ commit'[j] = m
      /\ \A l \in Nodes \ {i, j} : commit'[l] = commit[l]
  <2>1. commit' = [[commit EXCEPT ![i] = n] EXCEPT ![j] = m]
    BY <1>1, <1>4, <1>5
  <2> HIDE DEF m, n
  <2> QED  BY <1>1, <1>5, <2>1
<1>8. \/ m = commit[j]
      \/ m = commit[i] /\ commit[j] < commit[i]
  BY <1>6 DEF Most
<1>9. /\ \A l \in Nodes \ {i} : match'[l] = match[l]
      /\ \A l \in Nodes \ {j} : match'[i][l] = match[i][l]
      /\ match'[i][j] = known \/ match'[i][j] = match[i][j]
  <2> HIDE DEF known
  <2> QED  BY <1>3, <1>5, <1>6
<1>10. \A l \in Nodes \ {j} : log'[l] = log[l]
  BY <1>2, <1>5
<1>11. term[j] <= term[i]
  BY <1>1, <1>6
<1> DEFINE stays == log'[j] = log[j] /\ match'[i][j] <= Most(match[i][j], Len(log[j]))
           taken == /\ commit[j] <= prev /\ prev <= Len(log[j])
                    /\ prev < Len(log[i]) /\ log[j][prev].term = log[i][prev].term
                    /\ Len(log'[j]) = Len(log[i])
                    /\ \A k \in 1 .. Len(log[i]) :
                         log'[j][k] = IF k <= prev THEN log[j][k] ELSE log[i][k]
                    /\ match'[i][j] <= Most(match[i][j], Len(log[i]))
<1>12. CASE ~fits
  <2>1. log'[j] = log[j]
    BY <1>2, <1>12
  <2>2. known = match[i][j] \/ known = Most(match[i][j], commit[j])
    BY <1>12
  <2>3. known <= Most(match[i][j], Len(log[j]))
    <3> HIDE DEF known
    <3> QED  BY <1>6, <2>2 DEF Most
  <2>4. match[i][j] <= Most(match[i][j], Len(log[j]))
    BY <1>6 DEF Most
  <2> HIDE DEF known
  <2>5. stays
    BY <1>9, <2>1, <2>3, <2>4
  <2> QED  BY <1>1, <1>7, <1>8, <1>9, <1>10, <1>11, <2>5
<1>13. CASE fits
  <2>1. /\ log'[j] = Spliced(i, j, prev) /\ commit[j] <= prev /\ prev <= Len(log[j])
        /\ TermAt(j, prev) = TermAt(i, prev)
    BY <1>2, <1>5, <1>6, <1>13
  <2>2. known = Most(match[i][j], Len(log[i]))
    BY <1>13
  <2>3. match[i][j] <= Most(match[i][j], Len(log[i]))
    BY <1>6 DEF Most
  <2>4. match'[i][j] <= Most(match[i][j], Len(log[i]))
    <3>1. Most(match[i][j], Len(log[i])) \in Nat
      BY <1>6 DEF Most
    <3> HIDE DEF known
    <3> QED  BY <1>9, <2>2, <2>3, <3>1
  <2>5. CASE log'[j] = log[j] /\ Len(log[i]) <= Len(log[j])
    <3>1. match'[i][j] = Most(match[i][j], Len(log[i])) \/ match'[i][j] = match[i][j]
      <4> HIDE DEF known
      <4> QED  BY <1>9, <2>2
    <3>2. match'[i][j] <= Most(match[i][j], Len(log[j]))
      BY <1>6, <2>5, <3>1 DEF Most
    <3>3. stays
      BY <2>5, <3>2
    <3> QED  BY <1>1, <1>7, <1>8, <1>9, <1>10, <1>11, <3>3
  <2>6. CASE /\ Len(log'[j]) = Len(log[i]) /\ prev < Len(log[i])
             /\ \A k \in 1 .. Len(log[i]) :
                  log'[j][k] = IF k <= prev THEN log[j][k] ELSE log[i][k]
    <3>1. prev \in DOMAIN log[i] /\ prev \in DOMAIN log[j]
      BY <1>5, <1>6, <2>1, <2>6
    <3>2. log[j][prev].term = log[i][prev].term
      BY <2>1, <3>1 DEF TermAt
    <3>3. taken
      BY <2>1, <2>4, <2>6, <3>2
    <3> HIDE DEF stays, n, m
    <3>4. prev \in Nat
      BY <1>6
    <3> QED  BY <1>1, <1>7, <1>8, <1>9, <1>10, <1>11, <3>3, <3>4 DEF n
  <2> QED  BY <1>6, <2>1, <2>5, <2>6, SplicedShape
<1> QED  BY <1>12, <1>13

(* An entry that takes effect changes no term and no log, stops a node at  *)
(* the most, and makes a leader forget what others hold, not imagine it.   *)
LEMMA ApplyShape ==
  ASSUME Inv, NEW i \in Nodes, Apply(i)
  PROVE  /\ UNCHANGED <<log, term, followed>>
         /\ applied[i] + 1 <= commit[i]
         /\ applied' = [applied EXCEPT ![i] = applied[i] + 1]
         /\ map' = IF log[i][applied[i] + 1].op = "put"
                   THEN [map EXCEPT ![i] = @ \cup {log[i][applied[i] + 1].arg}]
                   ELSE map
         /\ \A l \in Nodes \ {i} : /\ role'[l] = role[l] /\ conf'[l] = conf[l]
                                   /\ commit'[l] = commit[l]
         /\ role'[i] = role[i] \/ role'[i] = "stopped"
         /\ log[i][applied[i] + 1].op = "add"
              => /\ role' = role
                 /\ conf'[i] = conf[i] \cup {log[i][applied[i] + 1].arg}
         /\ \/ commit' = commit
            \/ /\ match' = match
               /\ commit'[i] = LeaderCommits(i, log[i], term[i], match[i], conf'[i])
         /\ \A l, j \in Nodes : match'[l][j] = match[l][j] \/ match'[l][j] = 0
<1> DEFINE k == applied[i] + 1
           e == log[i][k]
<1>1. /\ UNCHANGED <<log, followed>>
      /\ k <= commit[i] /\ applied' = [applied EXCEPT ![i] = k]
      /\ \/ e.op = "add" /\ AddNode(i, e.arg)
         \/ e.op = "remove" /\ RemoveNode(i, e.arg)
         \/ /\ e.op = "put" /\ map' = [map EXCEPT ![i] = @ \cup {e.arg}]
            /\ UNCHANGED <<conf, commit, termVars, peerVars>>
         \/ e.op = "empty" /\ UNCHANGED <<nodeVars, conf, commit, termVars, peerVars>>
  BY DEF Apply
<1>2. /\ role \in [Nodes -> {"leader", "follower", "stopped"}]
      /\ conf \in [Nodes -> SUBSET Nodes] /\ commit \in [Nodes -> Nat]
      /\ match \in [Nodes -> [Nodes -> Nat]]
  BY DEF Inv, TypeOK
<1>3. e.arg \in Nodes \/ e.op = "put"
  <2>1. log[i] \in Seq(Entries) /\ k \in 1 .. Len(log[i])
    BY <1>1, NodeFacts
  <2>2. e \in Entries
    BY <2>1
  <2> QED  BY <2>2 DEF Entries
<1> HIDE DEF e, k
<1> SUFFICES
      /\ term' = term
      /\ map' = IF e.op = "put" THEN [map EXCEPT ![i] = @ \cup {e.arg}] ELSE map
      /\ \A l \in Nodes \ {i} : /\ role'[l] = role[l] /\ conf'[l] = conf[l]
                                /\ commit'[l] = commit[l]
      /\ role'[i] = role[i] \/ role'[i] = "stopped"
      /\ e.op = "add" => role' = role /\ conf'[i] = conf[i] \cup {e.arg}
      /\ \/ commit' = commit
         \/ /\ match' = match
            /\ commit'[i] = LeaderCommits(i, log[i], term[i], match[i], conf'[i])
      /\ \A l, j \in Nodes : match'[l][j] = match[l][j] \/ match'[l][j] = 0
  BY <1>1 DEF e, k
<1>4. CASE e.op = "add" /\ AddNode(i, e.arg)
  <2>1. /\ UNCHANGED <<term, role, commit, map>>
        /\ conf' = [conf EXCEPT ![i] = @ \cup {e.arg}]
        /\ match' = match \/ match' = [match EXCEPT ![i][e.arg] = 0]
    BY <1>4 DEF AddNode, termVars, peerVars
  <2>2. \A l, j \in Nodes : match'[l][j] = match[l][j] \/ match'[l][j] = 0
    <3>1. \A l \in Nodes : match[l] \in [Nodes -> Nat]
      BY <1>2
    <3> QED  BY <1>2, <2>1, <3>1
  <2> QED  BY <1>2, <1>4, <2>1, <2>2
<1>5. CASE e.op = "remove" /\ RemoveNode(i, e.arg)
  <2> DEFINE left == conf[i] \ {e.arg}
             n == LeaderCommits(i, log[i], term[i], match[i], left)
  <2>1. /\ UNCHANGED <<term, map, match>> /\ conf' = [conf EXCEPT ![i] = left]
        /\ role' = [role EXCEPT ![i] = "stopped"] \/ role' = role
        /\ commit' = [commit EXCEPT ![i] = n] \/ commit' = commit
    BY <1>5 DEF RemoveNode, peerVars
  <2>2. conf'[i] = left /\ \A l \in Nodes \ {i} : conf'[l] = conf[l]
    BY <1>2, <2>1
  <2>3. commit' = commit \/ commit'[i] = LeaderCommits(i, log[i], term[i], match[i], conf'[i])
    <3> HIDE DEF left
    <3> QED  BY <1>2, <2>1, <2>2
  <2>4. \A l \in Nodes \ {i} : commit'[l] = commit[l]
    <3> HIDE DEF n
    <3> QED  BY <1>2, <2>1
  <2> HIDE DEF left, n
  <2> QED  BY <1>2, <1>5, <2>1, <2>2, <2>3, <2>4
<1>6. CASE /\ e.op = "put" /\ map' = [map EXCEPT ![i] = @ \cup {e.arg}]
           /\ UNCHANGED <<conf, commit, termVars, peerVars>>
  BY <1>6 DEF termVars, peerVars
<1>7. CASE e.op = "empty" /\ UNCHANGED <<nodeVars, conf, commit, termVars, peerVars>>
  BY <1>7 DEF nodeVars, termVars, peerVars
<1> QED  BY <1>1, <1>4, <1>5, <1>6, <1>7

-----------------------------------------------------------------------------
(* Entries at the end of a log *)

(* What the invariant and the history say of one node.                     *)
LEMMA HistoryFacts ==
  ASSUME Inv, History, NEW i \in Nodes
  PROVE  /\ term[i] \in Nat /\ term[i] >= 1 /\ commit[i] \in Nat
         /\ Len(log[i]) \in Nat /\ Len(log[i]) >= 1
         /\ followed[i] \in SUBSET Nodes
         /\ term[i] = 1 => /\ role[i] = "follower" /\ followed[i] = {}
                           /\ Len(log[i]) = 1 /\ conf[i] = {i}
         /\ term[i] = 2 /\ role[i] = "leader" => followed[i] = {i}
         /\ match[Starter][i] \in Nat
<1>1. Len(log[i]) \in Nat /\ Len(log[i]) >= 1 /\ commit[i] \in Nat
  BY NodeFacts
<1>2. /\ term[i] \in Nat /\ match[Starter] \in [Nodes -> Nat]
      /\ followed[i] \in SUBSET Nodes
  BY StarterOK DEF Inv, TypeOK
<1> QED  BY <1>1, <1>2 DEF History, Ages

(* A node that has departed stays so: terms and what was followed grow.    *)
LEMMA DepartedStays ==
  ASSUME Inv, NEW i \in Nodes, term'[i] \in Nat, term[i] <= term'[i],
         followed[i] \subseteq followed'[i], Departed(i)
  PROVE  Departed(i)'
<1>1. term[i] \in Nat
  BY DEF Inv, TypeOK
<1> QED  BY <1>1 DEF Departed

(* A leader other than the starter has departed.                           *)
LEMMA LeaderDeparts ==
  ASSUME Inv, History, NEW i \in Nodes, i # Starter, role[i] = "leader"
  PROVE  Departed(i)
<1>1. term[i] \in Nat /\ term[i] >= 1 /\ term[i] # 1
  BY HistoryFacts
<1>2. CASE term[i] = 2
  <2>1. followed[i] = {i}
    BY <1>2, HistoryFacts
  <2> QED  BY <2>1 DEF Departed
<1>3. CASE term[i] > 2
  BY <1>3 DEF Departed
<1> QED  BY <1>1, <1>2, <1>3

(* Once asked, always asked.                                               *)
LEMMA AskedGrows == [Next]_vars /\ Uninvited' => Uninvited
<1> SUFFICES ASSUME [Next]_vars PROVE asked \subseteq asked'
  BY DEF Uninvited
<1>1. CASE UNCHANGED vars
  BY <1>1 DEF vars
<1>2. ASSUME NEW i \in Nodes, Campaign(i) \/ Apply(i) PROVE asked' = asked
  BY <1>2 DEF Campaign, Apply
<1>3. ASSUME NEW i \in Nodes, NEW j \in Nodes, Replicate(i, j) \/ Introduce(i, j)
      PROVE  asked' = asked
  BY <1>3 DEF Replicate, Introduce
<1>4. ASSUME NEW i, NEW op, NEW arg, Propose(i, op, arg) PROVE asked \subseteq asked'
  BY <1>4 DEF Propose
<1> QED  BY <1>1, <1>2, <1>3, <1>4 DEF Next, Put, Add, Remove

(* The node takes over the log of a starter that has not departed.         *)
Copies(l) ==
  /\ ~ Departed(Starter) /\ ~ Departed(Starter)' /\ log'[Starter] = log[Starter]
  /\ Len(log'[l]) = Len(log[Starter])
  /\ \A k \in 2 .. Len(log[Starter]) : log'[l][k] = log[Starter][k]

(* What holds between the logs goes on to hold if the log of the starter   *)
(* grows at its end, unless it departs, and that of another stays or takes *)
(* over the starter's, unless that one departs.                            *)
LEMMA LogsStep ==
  ASSUME Inv, History,
         \A l \in Nodes : Len(log'[l]) \in Nat /\ (Departed(l) => Departed(l)'),
         \A l \in Nodes \ {Starter} :
           Departed(l)' \/ log'[l] = log[l] \/ Copies(l),
         \/ Departed(Starter)'
         \/ /\ Len(log[Starter]) <= Len(log'[Starter])
            /\ \A k \in 1 .. Len(log[Starter]) : log'[Starter][k] = log[Starter][k],
         \A l \in Nodes :
           \/ Departed(Starter)' \/ Departed(l)'
           \/ match'[Starter][l] = match[Starter][l]
           \/ match'[Starter][l] <= Len(log'[l])
  PROVE  Logs'
<1>1. \A l \in Nodes : /\ Len(log[l]) \in Nat /\ Len(log[l]) >= 1
                       /\ match[Starter][l] \in Nat
  BY HistoryFacts
<1>2. /\ \A l \in Nodes : \/ Departed(Starter) \/ Departed(l)
                          \/ Len(log[l]) <= Len(log[Starter])
      /\ \A l \in Nodes : \/ Departed(Starter) \/ Departed(l)
                          \/ match[Starter][l] <= Len(log[l])
  BY DEF History, Logs, Longest, AcksStored
<1>3. CASE Departed(Starter)'
  <2>1. \A l \in Nodes : Departed(l)' \/ (log'[l] = log[l] /\ ~ Departed(l))
    BY <1>3 DEF Copies
  <2>2. OneHistory'
    <3> SUFFICES ASSUME NEW i \in Nodes, NEW j \in Nodes, NEW k \in 2 .. Len(log'[i]),
                        ~ Departed(i)', ~ Departed(j)', ~ (k > Len(log'[j]))
                 PROVE  log'[i][k] = log'[j][k]
      BY DEF OneHistory
    <3>1. /\ log'[i] = log[i] /\ log'[j] = log[j] /\ ~ Departed(i) /\ ~ Departed(j)
      BY <2>1
    <3> QED  BY <3>1 DEF History, Logs, OneHistory
  <2> QED  BY <1>3, <2>2 DEF Logs, Longest, AcksStored
<1>4. CASE ~ Departed(Starter)'
  <2>1. /\ ~ Departed(Starter)
        /\ Len(log[Starter]) <= Len(log'[Starter])
        /\ \A k \in 1 .. Len(log[Starter]) : log'[Starter][k] = log[Starter][k]
        /\ Len(log'[Starter]) \in Nat
    BY <1>4, StarterOK
  <2>2. ASSUME NEW l \in Nodes, ~ Departed(l)'
        PROVE  /\ Len(log'[l]) <= Len(log'[Starter]) /\ Len(log[l]) <= Len(log'[l])
               /\ \A k \in 2 .. Len(log'[l]) : log'[l][k] = log'[Starter][k]
    <3>1. ~ Departed(l) /\ Len(log[l]) <= Len(log[Starter])
      BY <1>2, <2>1, <2>2
    <3>2. CASE l = Starter
      BY <2>1, <3>2
    <3>3. CASE log'[l] = log[l]
      <4>1. Len(log'[l]) <= Len(log'[Starter]) /\ Len(log[l]) <= Len(log'[l])
        BY <1>1, <2>1, <3>1, <3>3, StarterOK
      <4>2. ASSUME NEW k \in 2 .. Len(log'[l])
            PROVE  log'[l][k] = log'[Starter][k]
        <5>1. k \in 2 .. Len(log[l]) /\ ~ (k > Len(log[Starter]))
          BY <1>1, <3>1, <3>3, StarterOK
        <5>2. log[l][k] = log[Starter][k]
          BY <2>1, <3>1, <5>1, StarterOK DEF History, Logs, OneHistory
        <5>3. k \in 1 .. Len(log[Starter])
          BY <1>1, <5>1, StarterOK
        <5> QED  BY <2>1, <3>3, <5>2, <5>3
      <4> QED  BY <4>1, <4>2
    <3>4. CASE Copies(l)
      <4>1. /\ log'[Starter] = log[Starter] /\ Len(log'[l]) = Len(log[Starter])
            /\ \A k \in 2 .. Len(log[Starter]) : log'[l][k] = log[Starter][k]
        BY <3>4 DEF Copies
      <4> QED  BY <2>1, <3>1, <4>1
    <3> QED  BY <2>2, <3>2, <3>3, <3>4
  <2>3. OneHistory'
    <3> SUFFICES ASSUME NEW i \in Nodes, NEW j \in Nodes, NEW k \in 2 .. Len(log'[i]),
                        ~ Departed(i)', ~ Departed(j)', ~ (k > Len(log'[j]))
                 PROVE  log'[i][k] = log'[j][k]
      BY DEF OneHistory
    <3>1. k \in 2 .. Len(log'[j])
      BY <1>1
    <3>2. log'[i][k] = log'[Starter][k]
      BY <2>2
    <3>3. log'[j][k] = log'[Starter][k]
      BY <2>2, <3>1
    <3> QED  BY <3>2, <3>3
  <2>4. Longest'
    BY <2>2 DEF Longest
  <2>5. AcksStored'
    <3> SUFFICES ASSUME NEW l \in Nodes, ~ Departed(l)'
                 PROVE  match'[Starter][l] <= Len(log'[l])
      BY DEF AcksStored
    <3>1. Len(log[l]) <= Len(log'[l]) /\ ~ Departed(l)
      BY <2>2
    <3>2. match[Starter][l] <= Len(log[l])
      BY <1>2, <2>1, <3>1
    <3>3. match[Starter][l] <= Len(log'[l])
      BY <1>1, <3>1, <3>2
    <3> QED  BY <1>4, <3>3
  <2> QED  BY <2>3, <2>4, <2>5 DEF Logs
<1> QED  BY <1>3, <1>4

(* An entry of a term that a node leads in goes to the end of its log.     *)
LEMMA AppendShape ==
  ASSUME Inv, NEW i \in Nodes, NEW e \in Entries, NEW t, NEW known,
         log' = [log EXCEPT ![i] = Append(@, e)],
         commit' = [commit EXCEPT ![i] =
           LeaderCommits(i, log'[i], t, known, conf[i])]
  PROVE  /\ Len(log'[i]) = Len(log[i]) + 1
         /\ \A k \in 1 .. Len(log[i]) : log'[i][k] = log[i][k]
         /\ log'[i][Len(log[i]) + 1] = e
         /\ \A l \in Nodes \ {i} : log'[l] = log[l] /\ commit'[l] = commit[l]
         /\ commit[i] <= commit'[i]
         /\ commit'[i] > commit[i] =>
              Counted(i, known, commit'[i], conf[i])
<1> DEFINE n == LeaderCommits(i, log'[i], t, known, conf[i])
<1>1. /\ log[i] \in Seq(Entries) /\ Len(log[i]) \in Nat
      /\ commit[i] \in Nat /\ commit[i] <= Len(log[i])
  BY NodeFacts
<1>2. log \in [Nodes -> Seq(Entries)] /\ commit \in [Nodes -> Nat]
  BY DEF Inv, TypeOK
<1>3. /\ log'[i] = Append(log[i], e)
      /\ \A l \in Nodes \ {i} : log'[l] = log[l]
  BY <1>2
<1>4. /\ log'[i] \in Seq(Entries)
      /\ Len(log'[i]) = Len(log[i]) + 1
      /\ \A k \in 1 .. Len(log[i]) : log'[i][k] = log[i][k]
      /\ log'[i][Len(log[i]) + 1] = e
  BY <1>1, <1>3
<1>5. /\ n \in Nat /\ commit[i] <= n
      /\ n = commit[i]
           \/ Counted(i, known, n, conf[i])
  <2>1. commit[i] <= Len(log'[i])
    BY <1>1, <1>4
  <2> QED  BY <1>1, <1>4, <2>1, LeaderCommitsWithin
<1>6. commit' = [commit EXCEPT ![i] = n]
  OBVIOUS
<1> HIDE DEF n
<1>7. commit'[i] = n /\ \A l \in Nodes \ {i} : commit'[l] = commit[l]
  BY <1>2, <1>6
<1>8. /\ commit[i] <= commit'[i]
      /\ commit'[i] > commit[i] =>
           Counted(i, known, commit'[i], conf[i])
  <2>1. CASE n = commit[i]
    BY <1>1, <1>7, <2>1
  <2>2. CASE Counted(i, known, n, conf[i])
    BY <1>5, <1>7, <2>2
  <2> QED  BY <1>5, <2>1, <2>2
<1> QED  BY <1>3, <1>4, <1>7, <1>8

-----------------------------------------------------------------------------
(* The history, action by action *)

(* Elections: whoever wins one in term 2 was alone; the starter wins its   *)
(* first one so, and all others that take part in one depart.              *)
LEMMA HistoryCampaign ==
  ASSUME Inv, History, NEW i \in Nodes, Campaign(i)
  PROVE  History' /\ StarterCounts
<1> DEFINE t == term[i] + 1
<1>1. PICK B \in SUBSET (conf[i] \ {i}) :
        /\ \A j \in B : term[j] < t
        /\ term' = [j \in Nodes |-> IF j \in B \cup {i} THEN t ELSE term[j]]
        /\ \A j \in Nodes \ (B \cup {i}) : role'[j] = role[j]
        /\ \A j \in B : role'[j] # "leader"
        /\ \/ /\ UNCHANGED <<log, commit, match, followed>>
              /\ conf[i] # {i} /\ role'[i] = "follower"
           \/ /\ role'[i] = "leader"
              /\ followed' = [followed EXCEPT ![i] = @ \cup {i}]
              /\ log' = [log EXCEPT ![i] = Append(@, Entry(t, "empty", i))]
              /\ match' = [match EXCEPT ![i] = [j \in Nodes |-> 0]]
              /\ commit' = [commit EXCEPT ![i] =
                   LeaderCommits(i, log'[i], t, match'[i], conf[i])]
  BY CampaignShape
<1>2. role[i] = "follower" /\ conf' = conf /\ Uninvited' = Uninvited
  BY CampaignShape DEF Campaign, Uninvited
<1>3. B \subseteq Nodes /\ conf[i] \in SUBSET Nodes
  BY DEF Inv, TypeOK
<1>4. \A l \in Nodes : /\ term[l] \in Nat /\ term[l] >= 1 /\ commit[l] \in Nat
                       /\ Len(log[l]) \in Nat /\ Len(log[l]) >= 1
  BY HistoryFacts
<1>5. t \in Nat /\ t >= 2 /\ t = term[i] + 1
  BY <1>4
<1>6. t = 2 => B = {} /\ followed[i] = {} /\ conf[i] = {i}
  <2>1. t = 2 => term[i] = 1
    BY <1>4
  <2>2. t = 2 => followed[i] = {} /\ conf[i] = {i}
    BY <2>1, HistoryFacts
  <2> QED  BY <2>2
<1> HIDE DEF t
<1>7. /\ \A l \in B \cup {i} : term'[l] = t
      /\ \A l \in Nodes \ (B \cup {i}) : term'[l] = term[l] /\ role'[l] = role[l]
      /\ \A l \in Nodes : term'[l] \in Nat /\ term[l] <= term'[l]
  <2>1. /\ \A l \in B \cup {i} : term'[l] = t
        /\ \A l \in Nodes \ (B \cup {i}) : term'[l] = term[l] /\ role'[l] = role[l]
    BY <1>1, <1>3
  <2>2. ASSUME NEW l \in Nodes PROVE term'[l] \in Nat /\ term[l] <= term'[l]
    <3>1. CASE l \in B
      BY <1>1, <1>4, <1>5, <2>1, <3>1
    <3>2. CASE l = i
      BY <1>4, <1>5, <2>1, <3>2
    <3>3. CASE l \notin B \cup {i}
      BY <1>4, <2>1, <3>3
    <3> QED  BY <3>1, <3>2, <3>3
  <2> QED  BY <2>1, <2>2
<1>8. \A l \in Nodes \ {i} : followed'[l] = followed[l]
  BY <1>1 DEF Inv, TypeOK
<1>9. \A l \in Nodes : Departed(l) => Departed(l)'
  <2>1. followed[i] \subseteq followed'[i]
    BY <1>1 DEF Inv, TypeOK
  <2>2. \A l \in Nodes : followed[l] \subseteq followed'[l]
    BY <1>8, <2>1
  <2> QED  BY <1>7, <2>2, DepartedStays
(* Nobody asks a starter that nobody was asked to add.                     *)
<1>10. Uninvited => Starter \notin B
  BY <1>3, StarterOK DEF Inv, StarterUnknown
<1>11. /\ Uninvited' => ~ Departed(Starter)
       /\ ~ Departed(Starter) /\ i = Starter => term[Starter] = 1
  BY <1>2 DEF History, Reign
<1>12. CASE /\ UNCHANGED <<log, commit, match, followed>>
            /\ conf[i] # {i} /\ role'[i] = "follower"
  <2>1. t > 2
    BY <1>5, <1>6, <1>12
  <2>2. \A l \in B \cup {i} : term'[l] > 2 /\ Departed(l)'
    BY <1>7, <2>1 DEF Departed
  <2>3. Ages'
    <3> SUFFICES ASSUME NEW l \in Nodes
                 PROVE  /\ term'[l] >= 1
                        /\ term'[l] = 1 => /\ role'[l] = "follower" /\ followed'[l] = {}
                                           /\ Len(log'[l]) = 1 /\ conf'[l] = {l}
                        /\ term'[l] = 2 /\ role'[l] = "leader" => followed'[l] = {l}
      BY DEF Ages
    <3>1. CASE l \in B \cup {i}
      <4>1. term'[l] > 2 /\ term'[l] \in Nat
        BY <1>7, <2>2, <3>1
      <4> QED  BY <4>1
    <3>2. CASE l \notin B \cup {i}
      BY <1>2, <1>7, <1>12, <3>2, HistoryFacts
    <3> QED  BY <3>1, <3>2
  <2>4. Reign'
    <3>1. ASSUME ~ Departed(Starter), Starter \notin B \cup {i}
          PROVE  /\ ~ Departed(Starter)'
                 /\ term'[Starter] = 1 \/ role'[Starter] # "follower"
      <4>1. term'[Starter] = term[Starter] /\ role'[Starter] = role[Starter]
        BY <1>7, <3>1, StarterOK
      <4> QED  BY <1>12, <3>1, <4>1 DEF History, Reign, Departed
    <3>2. ~ Departed(Starter) => Starter # i
      <4>1. term[i] # 1
        BY <1>12, HistoryFacts
      <4> QED  BY <1>11, <4>1
    <3>3. Uninvited' => ~ Departed(Starter)'
      BY <1>2, <1>10, <1>11, <3>1, <3>2
    <3>4. ~ Departed(Starter)' => ~ Departed(Starter) /\ Starter \notin B \cup {i}
      BY <1>9, <2>2, StarterOK
    <3> QED  BY <3>1, <3>3, <3>4 DEF Reign
  <2>5. Logs'
    BY <1>4, <1>9, <1>12, StarterOK, LogsStep
  <2>6. StarterCounts
    BY <1>4, <1>12, StarterOK DEF StarterCounts
  <2> QED  BY <2>3, <2>4, <2>5, <2>6 DEF History
<1>13. CASE /\ role'[i] = "leader"
            /\ followed' = [followed EXCEPT ![i] = @ \cup {i}]
            /\ log' = [log EXCEPT ![i] = Append(@, Entry(t, "empty", i))]
            /\ match' = [match EXCEPT ![i] = [j \in Nodes |-> 0]]
            /\ commit' = [commit EXCEPT ![i] =
                 LeaderCommits(i, log'[i], t, match'[i], conf[i])]
  <2>1. /\ Len(log'[i]) = Len(log[i]) + 1
        /\ \A k \in 1 .. Len(log[i]) : log'[i][k] = log[i][k]
        /\ \A l \in Nodes \ {i} : log'[l] = log[l] /\ commit'[l] = commit[l]
        /\ commit'[i] > commit[i] => Counted(i, match'[i], commit'[i], conf[i])
    <3>1. Entry(t, "empty", i) \in Entries
      BY <1>5 DEF Entry, Entries
    <3> QED  BY <1>13, <3>1, AppendShape, Zenon
  <2>2. followed'[i] = followed[i] \cup {i}
    BY <1>13 DEF Inv, TypeOK
  <2>3. Ages'
    <3> SUFFICES ASSUME NEW l \in Nodes
                 PROVE  /\ term'[l] >= 1
                        /\ term'[l] = 1 => /\ role'[l] = "follower" /\ followed'[l] = {}
                                           /\ Len(log'[l]) = 1 /\ conf'[l] = {l}
                        /\ term'[l] = 2 /\ role'[l] = "leader" => followed'[l] = {l}
      BY DEF Ages
    <3>1. CASE l = i
      BY <1>5, <1>6, <1>7, <2>2, <3>1
    <3>2. CASE l \in B
      BY <1>1, <1>5, <1>7, <3>2
    <3>3. CASE l \notin B \cup {i}
      BY <1>2, <1>7, <1>8, <2>1, <3>3, HistoryFacts
    <3> QED  BY <3>1, <3>2, <3>3
  <2>4. Reign'
    <3>1. ASSUME ~ Departed(Starter), Starter \notin B \cup {i}
          PROVE  /\ ~ Departed(Starter)'
                 /\ term'[Starter] = 1 \/ role'[Starter] # "follower"
      <4>1. /\ term'[Starter] = term[Starter] /\ role'[Starter] = role[Starter]
            /\ followed'[Starter] = followed[Starter]
        BY <1>7, <1>8, <3>1, StarterOK
      <4> QED  BY <3>1, <4>1 DEF History, Reign, Departed
    <3>2. ASSUME ~ Departed(Starter), Starter = i
          PROVE  ~ Departed(Starter)'
      <4>1. term[i] = 1
        BY <1>11, <3>2
      <4>2. t = 2 /\ term'[i] = 2
        BY <1>5, <1>7, <4>1
      <4>3. followed'[i] = {i}
        BY <1>6, <2>2, <4>2
      <4> QED  BY <3>2, <4>2, <4>3 DEF Departed
    <3>3. Uninvited' => ~ Departed(Starter)'
      BY <1>2, <1>10, <1>11, <3>1, <3>2
    <3>4. ASSUME ~ Departed(Starter)'
          PROVE  term'[Starter] = 1 \/ role'[Starter] # "follower"
      <4>1. Starter \notin B
        <5>1. ASSUME Starter \in B PROVE Departed(Starter)'
          <6>1. t > 2 /\ term'[Starter] = t
            BY <1>5, <1>6, <1>7, <5>1
          <6> QED  BY <6>1 DEF Departed
        <5> QED  BY <3>4, <5>1
      <4>2. ~ Departed(Starter)
        BY <1>9, <3>4, StarterOK
      <4> QED  BY <1>13, <3>1, <4>1, <4>2
    <3> QED  BY <3>3, <3>4 DEF Reign
  <2>5. Logs'
    <3>1. \A l \in Nodes \ {Starter} : Departed(l)' \/ log'[l] = log[l]
      <4>1. i # Starter => Departed(i)'
        BY <2>2 DEF Departed
      <4> QED  BY <2>1, <4>1
    <3>2. /\ Len(log[Starter]) <= Len(log'[Starter])
          /\ \A k \in 1 .. Len(log[Starter]) : log'[Starter][k] = log[Starter][k]
      <4>1. CASE i = Starter
        BY <1>4, <2>1, <4>1
      <4>2. CASE i # Starter
        BY <1>4, <2>1, <4>2, StarterOK
      <4> QED  BY <4>1, <4>2
    <3>3. \A l \in Nodes : Len(log'[l]) \in Nat
      BY <1>4, <2>1
    <3>4. \A l \in Nodes : \/ match'[Starter][l] = match[Starter][l]
                           \/ match'[Starter][l] <= Len(log'[l])
      <4>1. CASE i = Starter
        <5>1. match'[Starter] = [j \in Nodes |-> 0]
          BY <1>13, <4>1 DEF Inv, TypeOK
        <5> QED  BY <3>3, <5>1
      <4>2. CASE i # Starter
        BY <1>13, <4>2, StarterOK DEF Inv, TypeOK
      <4> QED  BY <4>1, <4>2
    <3> QED  BY <1>9, <3>1, <3>2, <3>3, <3>4, LogsStep
  <2>6. StarterCounts
    <3>1. CASE i = Starter
      BY <1>2, <2>1, <3>1 DEF StarterCounts
    <3>2. CASE i # Starter
      BY <1>4, <2>1, <3>2, StarterOK DEF StarterCounts
    <3> QED  BY <3>1, <3>2
  <2> QED  BY <2>3, <2>4, <2>5, <2>6 DEF History
<1> QED  BY <1>1, <1>12, <1>13

(* Proposals: a leader other than the starter has departed.                *)
LEMMA HistoryPropose ==
  ASSUME Inv, History, NEW i \in Nodes, NEW op \in {"put", "add", "remove"},
         NEW arg \in Nodes \cup Puts,
         op = "put" => arg \in Puts, op # "put" => arg \in Nodes,
         Propose(i, op, arg), Uninvited' => Uninvited
  PROVE  History' /\ StarterCounts
<1>1. UNCHANGED <<term, role, conf, match, followed>>
  BY ProposeShape
<1>2. \A l \in Nodes : /\ term[l] \in Nat /\ commit[l] \in Nat
                       /\ Len(log[l]) \in Nat /\ Len(log[l]) >= 1
  BY HistoryFacts
<1>3. \A l \in Nodes : Departed(l)' <=> Departed(l)
  BY <1>1 DEF Departed
<1>4. Reign'
  BY <1>1, <1>3, StarterOK DEF History, Reign
<1>5. CASE UNCHANGED <<log, commit>>
  <2>1. Ages'
    BY <1>1, <1>5 DEF History, Ages
  <2>2. Logs'
    BY <1>1, <1>2, <1>3, <1>5, StarterOK, LogsStep
  <2>3. StarterCounts
    BY <1>2, <1>5, StarterOK DEF StarterCounts
  <2> QED  BY <1>4, <2>1, <2>2, <2>3 DEF History
<1>6. ASSUME NEW l \in Nodes, NEW e \in Entries, role[l] = "leader",
             log' = [log EXCEPT ![l] = Append(@, e)],
             commit' = [commit EXCEPT ![l] =
               LeaderCommits(l, log'[l], term[l], match[l], conf[l])]
      PROVE  History' /\ StarterCounts
  <2>1. /\ Len(log'[l]) = Len(log[l]) + 1
        /\ \A k \in 1 .. Len(log[l]) : log'[l][k] = log[l][k]
        /\ \A j \in Nodes \ {l} : log'[j] = log[j] /\ commit'[j] = commit[j]
        /\ commit'[l] > commit[l] => Counted(l, match[l], commit'[l], conf[l])
    BY <1>6, AppendShape, Zenon
  <2>2. Ages'
    <3> SUFFICES ASSUME NEW j \in Nodes, term[j] = 1 PROVE Len(log'[j]) = 1
      BY <1>1 DEF History, Ages
    <3>1. j # l /\ Len(log[j]) = 1
      BY <1>6, HistoryFacts
    <3> QED  BY <2>1, <3>1
  <2>3. Logs'
    <3>1. \A j \in Nodes \ {Starter} : Departed(j)' \/ log'[j] = log[j]
      BY <1>3, <1>6, <2>1, LeaderDeparts
    <3>2. /\ Len(log[Starter]) <= Len(log'[Starter])
          /\ \A k \in 1 .. Len(log[Starter]) : log'[Starter][k] = log[Starter][k]
      <4>1. CASE l = Starter
        BY <1>2, <2>1, <4>1
      <4>2. CASE l # Starter
        BY <1>2, <2>1, <4>2, StarterOK
      <4> QED  BY <4>1, <4>2
    <3>3. \A j \in Nodes : Len(log'[j]) \in Nat
      BY <1>2, <2>1
    <3> QED  BY <1>1, <1>3, <3>1, <3>2, <3>3, LogsStep
  <2>4. StarterCounts
    <3>1. CASE l = Starter
      BY <1>1, <2>1, <3>1 DEF StarterCounts
    <3>2. CASE l # Starter
      BY <1>2, <2>1, <3>2, StarterOK DEF StarterCounts
    <3> QED  BY <3>1, <3>2
  <2> QED  BY <1>4, <2>2, <2>3, <2>4 DEF History
<1> QED  BY <1>5, <1>6, ProposeShape

(* Replication: whoever follows another than the starter departs; whoever  *)
(* follows the starter takes over its log.                                 *)
LEMMA HistoryReplicate ==
  ASSUME Inv, History, NEW i \in Nodes, NEW j \in Nodes, Replicate(i, j)
  PROVE  History' /\ StarterCounts
<1>1. /\ role[i] = "leader" /\ i # j /\ j \in conf[i] /\ term[j] <= term[i]
      /\ term' = [term EXCEPT ![j] = term[i]]
      /\ role' = [role EXCEPT ![j] = "follower"]
      /\ conf' = conf
      /\ \A l \in Nodes \ {j} : log'[l] = log[l]
      /\ \A l \in Nodes \ {i} : match'[l] = match[l]
      /\ \A l \in Nodes \ {j} : match'[i][l] = match[i][l]
      /\ commit'[i] = LeaderCommits(i, log[i], term[i], match'[i], conf[i])
      /\ \A l \in Nodes \ {i, j} : commit'[l] = commit[l]
  BY ReplicateShape
<1>2. \/ /\ log'[j] = log[j]
         /\ match'[i][j] <= Most(match[i][j], Len(log[j]))
      \/ \E prev \in Nat :
           /\ prev <= Len(log[j]) /\ prev < Len(log[i])
           /\ Len(log'[j]) = Len(log[i])
           /\ \A k \in 1 .. Len(log[i]) :
                log'[j][k] = IF k <= prev THEN log[j][k] ELSE log[i][k]
           /\ match'[i][j] <= Most(match[i][j], Len(log[i]))
  BY ReplicateShape
<1>3. \A l \in Nodes : /\ term[l] \in Nat /\ term[l] >= 1 /\ commit[l] \in Nat
                       /\ Len(log[l]) \in Nat /\ Len(log[l]) >= 1
  BY HistoryFacts
<1>4. /\ term'[j] = term[i] /\ role'[j] = "follower"
      /\ followed'[j] = followed[j] \cup {i}
      /\ \A l \in Nodes \ {j} : /\ term'[l] = term[l] /\ role'[l] = role[l]
                                /\ followed'[l] = followed[l]
  <2>1. followed' = [followed EXCEPT ![j] = @ \cup {i}]
    BY DEF Replicate
  <2> QED  BY <1>1, <2>1 DEF Inv, TypeOK
<1>5. /\ \A l \in Nodes : Departed(l) => Departed(l)'
      /\ \A l \in Nodes \ {j} : Departed(l)' <=> Departed(l)
      /\ i # Starter => Departed(j)'
  <2>1. \A l \in Nodes : /\ term'[l] \in Nat /\ term[l] <= term'[l]
                         /\ followed[l] \subseteq followed'[l]
    BY <1>1, <1>3, <1>4
  <2> QED  BY <1>4, <2>1, DepartedStays DEF Departed
<1>6. term[i] >= 2
  <2>1. term[i] # 1
    BY <1>1, HistoryFacts
  <2> QED  BY <1>3, <2>1
<1>7. Len(log'[j]) \in Nat /\ \A l \in Nodes : Len(log'[l]) \in Nat
  BY <1>1, <1>2, <1>3
<1>8. Ages'
  <2> SUFFICES ASSUME NEW l \in Nodes
               PROVE  /\ term'[l] >= 1
                      /\ term'[l] = 1 => /\ role'[l] = "follower" /\ followed'[l] = {}
                                         /\ Len(log'[l]) = 1 /\ conf'[l] = {l}
                      /\ term'[l] = 2 /\ role'[l] = "leader" => followed'[l] = {l}
    BY DEF Ages
  <2>1. CASE l = j
    BY <1>3, <1>4, <1>6, <2>1
  <2>2. CASE l # j
    BY <1>1, <1>4, <2>2, HistoryFacts
  <2> QED  BY <2>1, <2>2
<1>9. j = Starter => Departed(Starter)' /\ ~ Uninvited
  <2>1. j = Starter => i \in Nodes \ {Starter} /\ Starter \in conf[i]
    BY <1>1
  <2> QED  BY <1>1, <1>5, <2>1 DEF Inv, StarterUnknown
<1>10. Reign'
  <2>1. Uninvited' = Uninvited
    BY DEF Replicate, Uninvited
  <2>2. CASE j = Starter
    BY <1>9, <2>1, <2>2 DEF Reign
  <2>3. CASE j # Starter
    <3>1. /\ term'[Starter] = term[Starter] /\ role'[Starter] = role[Starter]
          /\ Departed(Starter)' <=> Departed(Starter)
      BY <1>4, <1>5, <2>3, StarterOK
    <3> QED  BY <2>1, <3>1 DEF History, Reign
  <2> QED  BY <2>2, <2>3
<1>11. Logs'
  <2>1. \/ Departed(Starter)'
        \/ /\ Len(log[Starter]) <= Len(log'[Starter])
           /\ \A k \in 1 .. Len(log[Starter]) : log'[Starter][k] = log[Starter][k]
    BY <1>1, <1>3, <1>9, StarterOK
  <2>2. ASSUME Departed(j)' PROVE Logs'
    <3>1. \A l \in Nodes : \/ Departed(l)'
                           \/ match'[Starter][l] = match[Starter][l]
      <4>1. CASE i = Starter
        BY <1>1, <2>2, <4>1
      <4>2. CASE i # Starter
        BY <1>1, <4>2, StarterOK
      <4> QED  BY <4>1, <4>2
    <3>2. \A l \in Nodes \ {Starter} : Departed(l)' \/ log'[l] = log[l]
      BY <1>1, <2>2
    <3> QED  BY <1>5, <1>7, <2>1, <3>1, <3>2, LogsStep
  <2>3. ASSUME ~ Departed(j)' PROVE Logs'
    <3>1. i = Starter /\ j # Starter /\ ~ Departed(j)
      BY <1>1, <1>5, <2>3
    <3>2. ~ Departed(Starter) /\ ~ Departed(Starter)'
      <4>1. term[Starter] = 2
        <5>1. ~ (term'[j] > 2)
          BY <2>3 DEF Departed
        <5> QED  BY <1>3, <1>4, <1>6, <3>1, <5>1
      <4>2. followed[Starter] = {Starter}
        BY <1>1, <3>1, <4>1, HistoryFacts
      <4> QED  BY <1>5, <3>1, <4>1, <4>2, StarterOK DEF Departed
    <3>3. /\ Len(log[j]) <= Len(log[Starter])
          /\ match[Starter][j] <= Len(log[j]) /\ match[Starter][j] \in Nat
          /\ \A k \in 2 .. Len(log[j]) : log[j][k] = log[Starter][k]
      <4>1. /\ Len(log[j]) <= Len(log[Starter])
            /\ match[Starter][j] <= Len(log[j]) /\ match[Starter][j] \in Nat
        BY <3>1, <3>2, HistoryFacts DEF History, Logs, Longest, AcksStored
      <4>2. ASSUME NEW k \in 2 .. Len(log[j]) PROVE log[j][k] = log[Starter][k]
        <5>1. ~ (k > Len(log[Starter]))
          BY <1>3, <4>1, StarterOK
        <5> QED  BY <3>1, <3>2, <5>1, StarterOK DEF History, Logs, OneHistory
      <4> QED  BY <4>1, <4>2
    <3>4. /\ log'[j] = log[j] \/ Copies(j)
          /\ match'[Starter][j] <= Len(log'[j])
      <4>1. CASE /\ log'[j] = log[j]
                 /\ match'[i][j] <= Most(match[i][j], Len(log[j]))
        <5>1. Most(match[i][j], Len(log[j])) = Len(log[j])
          BY <1>3, <3>1, <3>3 DEF Most
        <5> QED  BY <3>1, <4>1, <5>1
      <4>2. ASSUME NEW prev \in Nat, prev <= Len(log[j]), prev < Len(log[i]),
                   Len(log'[j]) = Len(log[i]),
                   \A k \in 1 .. Len(log[i]) :
                     log'[j][k] = IF k <= prev THEN log[j][k] ELSE log[i][k],
                   match'[i][j] <= Most(match[i][j], Len(log[i]))
            PROVE  Copies(j) /\ match'[Starter][j] <= Len(log'[j])
        <5>1. Most(match[i][j], Len(log[i])) = Len(log[i])
          BY <1>3, <3>1, <3>3 DEF Most
        <5>2. ASSUME NEW k \in 2 .. Len(log[Starter])
              PROVE  log'[j][k] = log[Starter][k]
          <6>1. k \in 1 .. Len(log[i])
            BY <1>3, <3>1
          <6>2. CASE k <= prev
            <7>1. k \in 2 .. Len(log[j])
              BY <1>3, <4>2, <6>2
            <7> QED  BY <3>3, <4>2, <6>1, <6>2, <7>1
          <6>3. CASE ~ (k <= prev)
            BY <3>1, <4>2, <6>1, <6>3
          <6> QED  BY <6>2, <6>3
        <5>3. log'[Starter] = log[Starter]
          BY <1>1, <3>1, StarterOK
        <5>4. Copies(j)
          BY <3>1, <3>2, <4>2, <5>2, <5>3 DEF Copies
        <5> QED  BY <3>1, <4>2, <5>1, <5>4
      <4> QED  BY <1>2, <4>1, <4>2
    <3>5. \A l \in Nodes \ {Starter} : log'[l] = log[l] \/ Copies(l)
      BY <1>1, <3>4
    <3>6. \A l \in Nodes : \/ match'[Starter][l] = match[Starter][l]
                           \/ match'[Starter][l] <= Len(log'[l])
      BY <1>1, <3>1, <3>4
    <3> QED  BY <1>5, <1>7, <2>1, <3>5, <3>6, LogsStep
  <2> QED  BY <2>2, <2>3
<1>12. StarterCounts
  <2> SUFFICES ASSUME commit'[Starter] > commit[Starter], ~ Departed(Starter)'
               PROVE  Counted(Starter, match'[Starter], commit'[Starter], conf'[Starter])
    BY DEF StarterCounts
  <2>1. CASE i = Starter
    <3>1. /\ log[i] \in Seq(Entries) /\ commit[i] \in Nat
          /\ commit[i] <= Len(log[i])
      BY NodeFacts
    <3> DEFINE n == LeaderCommits(i, log[i], term[i], match'[i], conf[i])
    <3>2. n = commit[i] \/ Counted(i, match'[i], n, conf[i])
      BY <3>1, LeaderCommitsWithin
    <3>3. commit'[i] = n
      BY <1>1
    <3> HIDE DEF n
    <3>4. commit'[i] = commit[i] \/ Counted(i, match'[i], commit'[i], conf[i])
      BY <3>2, <3>3
    <3> QED  BY <1>1, <2>1, <3>1, <3>4
  <2>2. CASE i # Starter
    <3>1. j # Starter
      BY <1>9
    <3>2. commit'[Starter] = commit[Starter] /\ commit[Starter] \in Nat
      BY <1>1, <1>3, <2>2, <3>1, StarterOK
    <3> QED  BY <3>2
  <2> QED  BY <2>1, <2>2
<1> QED  BY <1>8, <1>10, <1>11, <1>12 DEF History

(* Entries that take effect: in term 1 a node applies only the entry that  *)
(* makes it its own voter.                                                 *)
LEMMA HistoryApply ==
  ASSUME Inv, History, NEW i \in Nodes, Apply(i)
  PROVE  History' /\ StarterCounts
<1> DEFINE k == applied[i] + 1
<1>1. /\ UNCHANGED <<log, term, followed>> /\ k <= commit[i]
      /\ \A l \in Nodes \ {i} : /\ role'[l] = role[l] /\ conf'[l] = conf[l]
                                /\ commit'[l] = commit[l]
      /\ role'[i] = role[i] \/ role'[i] = "stopped"
      /\ log[i][k].op = "add" => role' = role /\ conf'[i] = conf[i] \cup {log[i][k].arg}
      /\ \/ commit' = commit
         \/ /\ match' = match
            /\ commit'[i] = LeaderCommits(i, log[i], term[i], match[i], conf'[i])
      /\ \A l, j \in Nodes : match'[l][j] = match[l][j] \/ match'[l][j] = 0
  BY ApplyShape
<1>2. \A l \in Nodes : /\ term[l] \in Nat /\ commit[l] \in Nat
                       /\ Len(log[l]) \in Nat /\ Len(log[l]) >= 1
  BY HistoryFacts
<1>3. \A l \in Nodes : Departed(l)' <=> Departed(l)
  BY <1>1 DEF Departed
<1>4. Ages'
  <2> SUFFICES ASSUME NEW l \in Nodes
               PROVE  /\ term[l] = 1 => role'[l] = "follower" /\ conf'[l] = {l}
                      /\ term[l] = 2 /\ role'[l] = "leader" => followed[l] = {l}
    BY <1>1 DEF History, Ages
  <2>1. term[l] = 2 /\ role'[l] = "leader" => followed[l] = {l}
    <3>1. role'[l] = "leader" => role[l] = "leader"
      BY <1>1
    <3> QED  BY <3>1, HistoryFacts
  <2>2. ASSUME term[l] = 1 PROVE role'[l] = "follower" /\ conf'[l] = {l}
    <3>1. role[l] = "follower" /\ Len(log[l]) = 1 /\ conf[l] = {l}
      BY <2>2, HistoryFacts
    <3>2. CASE l = i
      <4>1. applied[i] \in Nat /\ commit[i] <= Len(log[i])
        BY NodeFacts
      <4>2. k = 1
        BY <1>1, <1>2, <3>1, <3>2, <4>1
      <4>3. log[i][1].op = "add" /\ log[i][1].arg = i
        BY NodeFacts
      <4> HIDE DEF k
      <4> QED  BY <1>1, <3>1, <3>2, <4>2, <4>3
    <3>3. CASE l # i
      BY <1>1, <3>1, <3>3
    <3> QED  BY <3>2, <3>3
  <2> QED  BY <2>1, <2>2
<1>5. Reign'
  <2>1. Uninvited' = Uninvited
    BY DEF Apply, Uninvited
  <2>2. role'[Starter] = role[Starter] \/ role'[Starter] = "stopped"
    BY <1>1, StarterOK
  <2> QED  BY <1>1, <1>3, <2>1, <2>2, StarterOK DEF History, Reign
<1>6. Logs'
  <2>1. \A l \in Nodes : \/ match'[Starter][l] = match[Starter][l]
                         \/ match'[Starter][l] <= Len(log'[l])
    BY <1>1, <1>2, StarterOK
  <2> QED  BY <1>1, <1>2, <1>3, <2>1, StarterOK, LogsStep
<1>7. StarterCounts
  <2> SUFFICES ASSUME commit'[Starter] > commit[Starter]
               PROVE  Counted(Starter, match'[Starter], commit'[Starter], conf'[Starter])
    BY DEF StarterCounts
  <2>1. commit'[Starter] # commit[Starter]
    BY <1>2, StarterOK
  <2>2. i = Starter
    BY <1>1, <2>1, StarterOK
  <2>3. /\ match' = match
        /\ commit'[i] = LeaderCommits(i, log[i], term[i], match[i], conf'[i])
    BY <1>1, <2>1
  <2>4. /\ log[i] \in Seq(Entries) /\ commit[i] \in Nat
        /\ commit[i] <= Len(log[i])
    BY NodeFacts
  <2>5. commit'[i] = commit[i] \/ Counted(i, match[i], commit'[i], conf'[i])
    BY <2>3, <2>4, LeaderCommitsWithin
  <2> QED  BY <2>1, <2>2, <2>3, <2>5
<1> QED  BY <1>4, <1>5, <1>6, <1>7 DEF History

-----------------------------------------------------------------------------
(* The inductive invariant *)

(* At first every node is alone with its entry, in term 1.                 *)
LEMMA HistoryInit == Init => History
<1> SUFFICES ASSUME Init PROVE History
  OBVIOUS
<1>1. ASSUME NEW i \in Nodes
      PROVE  /\ Len(log[i]) = 1 /\ term[i] = 1 /\ role[i] = "follower"
             /\ followed[i] = {} /\ conf[i] = {i} /\ match[Starter][i] = 0
             /\ ~ Departed(i)
  BY StarterOK DEF Init, Boot, Entry, Departed
<1>2. Ages
  BY <1>1 DEF Ages
<1>3. Reign
  BY <1>1, StarterOK DEF Reign
<1>4. OneHistory
  <2>1. \A k \in 2 .. 1 : FALSE
    OBVIOUS
  <2> QED  BY <1>1, <2>1 DEF OneHistory
<1>5. Longest /\ AcksStored
  BY <1>1, StarterOK DEF Longest, AcksStored
<1> QED  BY <1>2, <1>3, <1>4, <1>5 DEF History, Logs

(* History is inductive given the types.                                   *)
LEMMA HistoryNext == Inv /\ History /\ [Next]_vars => History' /\ StarterCounts
<1> SUFFICES ASSUME Inv, History, [Next]_vars PROVE History' /\ StarterCounts
  OBVIOUS
<1>1. ASSUME UNCHANGED <<term, role, log, commit, conf, match, asked, followed>>
      PROVE  History' /\ StarterCounts
  <2>1. History'
    BY <1>1 DEF History, Ages, Reign, Logs, OneHistory, Longest, AcksStored,
                Departed, Uninvited
  <2>2. ~ (commit[Starter] > commit[Starter])
    BY HistoryFacts, StarterOK
  <2> QED  BY <1>1, <2>1, <2>2 DEF StarterCounts
<1>2. CASE UNCHANGED vars
  BY <1>1, <1>2 DEF vars, termVars, logVars, confVars, peerVars
<1>3. ASSUME NEW i \in Nodes, Campaign(i) \/ Apply(i)
      PROVE  History' /\ StarterCounts
  BY <1>3, HistoryCampaign, HistoryApply
<1>4. ASSUME NEW i \in Nodes, NEW j \in Nodes, Replicate(i, j)
      PROVE  History' /\ StarterCounts
  BY <1>4, HistoryReplicate
<1>5. ASSUME NEW i \in Nodes, NEW j \in Nodes, Introduce(i, j)
      PROVE  History' /\ StarterCounts
  BY <1>1, <1>5 DEF Introduce, termVars, logVars, confVars, peerVars
<1>6. ASSUME NEW i \in Nodes, NEW p \in Puts, Put(i, p)
      PROVE  History' /\ StarterCounts
  BY <1>6, HistoryPropose, AskedGrows DEF Put
<1>7. ASSUME NEW i \in Nodes, NEW j \in Nodes, Add(i, j) \/ Remove(i, j)
      PROVE  History' /\ StarterCounts
  BY <1>7, HistoryPropose, AskedGrows DEF Add, Remove
<1> QED  BY <1>2, <1>3, <1>4, <1>5, <1>6, <1>7 DEF Next

(* Ages, reign and logs hold together, with the types: of any nodes, with  *)
(* any program and whoever elects itself when.                             *)
THEOREM HistoryTheorem == Spec => []History
BY Invariance, InvInit, InvNext, HistoryInit, HistoryNext, PTL DEF Spec

-----------------------------------------------------------------------------
(* Agreement *)

(* Whatever a node that has not departed has committed is what every other *)
(* such node has committed there: of all nodes that have followed nobody   *)
(* but the starter in its first term, whoever was added, removed, cut off  *)
(* or elected elsewhere.                                                   *)
THEOREM AgreeTheorem == Spec => []CommittedAgree
<1>1. Inv /\ History => CommittedAgree
  <2> SUFFICES ASSUME Inv, History, NEW i \in Nodes, NEW j \in Nodes,
                      NEW k \in 2 .. Least(commit[i], commit[j]),
                      ~ Departed(i), ~ Departed(j)
               PROVE  log[i][k] = log[j][k]
    BY DEF CommittedAgree
  <2>1. \A l \in {i, j} : /\ commit[l] \in Nat /\ Len(log[l]) \in Nat
                          /\ commit[l] <= Len(log[l])
    BY NodeFacts
  <2>2. k <= commit[i] /\ k <= commit[j]
    BY <2>1 DEF Least
  <2>3. k \in 2 .. Len(log[i]) /\ ~ (k > Len(log[j]))
    BY <2>1, <2>2
  <2> QED  BY <2>3 DEF History, Logs, OneHistory
<1> QED  BY <1>1, Invariance, HistoryTheorem, PTL

(* A set of voters that has more of them than a majority is a majority.    *)
LEMMA MajorityGrows ==
  ASSUME NEW V \in SUBSET Nodes, NEW Q, NEW R, Q \subseteq R, Majority(Q, V)
  PROVE  Majority(R, V)
<1>1. IsFiniteSet(V)
  BY NodesOK, FS_Subset
<1>2. IsFiniteSet(R \cap V) /\ Q \cap V \in SUBSET (R \cap V)
  BY <1>1, FS_Subset
<1>3. /\ Cardinality(Q \cap V) <= Cardinality(R \cap V)
      /\ IsFiniteSet(Q \cap V)
  BY <1>2, FS_Subset
<1>4. /\ Cardinality(Q \cap V) \in Nat /\ Cardinality(R \cap V) \in Nat
      /\ Cardinality(V) \in Nat
  BY <1>1, <1>2, <1>3, FS_CardinalityType
<1>5. 2 * Cardinality(Q \cap V) > Cardinality(V)
  BY DEF Majority
<1>6. 2 * Cardinality(R \cap V) > Cardinality(V)
  BY <1>3, <1>4, <1>5
<1> QED  BY <1>6 DEF Majority

(* What a starter that has not departed commits, a majority of its voters  *)
(* has stored at that moment, entry by entry, those left out that have     *)
(* departed.                                                               *)
THEOREM HeldTheorem == Spec => CommitsHeld
<1>1. /\ Inv /\ History /\ Inv' /\ History' /\ [Next]_vars
      => [commit'[Starter] > commit[Starter] /\ ~ Departed(Starter)' =>
            Majority({j \in Nodes : Departed(j)' \/ Holds(j, commit[Starter])'},
                     conf'[Starter])]_vars
  <2> DEFINE c == commit'[Starter]
             R == {j \in Nodes : Departed(j)' \/ Holds(j, commit[Starter])'}
             Q == {Starter} \cup {j \in Nodes : match'[Starter][j] >= c}
  <2> SUFFICES ASSUME Inv, History, Inv', History', [Next]_vars,
                      commit'[Starter] > commit[Starter], ~ Departed(Starter)'
               PROVE  Majority(R, conf'[Starter])
    OBVIOUS
  <2>1. Majority(Q, conf'[Starter])
    BY HistoryNext DEF StarterCounts, Counted
  <2>2. c \in Nat /\ c <= Len(log'[Starter])
    BY StarterOK DEF Inv, TypeOK
  <2>3. \A j \in Nodes : Len(log'[j]) \in Nat /\ match'[Starter][j] \in Nat
    <3>1. match'[Starter] \in [Nodes -> Nat]
      BY StarterOK DEF Inv, TypeOK
    <3> QED  BY <3>1 DEF Inv, TypeOK
  <2> HIDE DEF c
  <2>4. Starter \in R
    <3>1. \A m \in 2 .. c : m <= Len(log'[Starter])
      BY <2>2, <2>3, StarterOK
    <3> QED  BY <3>1, StarterOK DEF Holds, c
  <2>5. ASSUME NEW j \in Nodes, match'[Starter][j] >= c PROVE j \in R
    <3>1. CASE Departed(j)'
      BY <3>1
    <3>2. CASE ~ Departed(j)'
      <4>1. match'[Starter][j] <= Len(log'[j])
        BY <3>2 DEF History, Logs, AcksStored
      <4>2. ASSUME NEW m \in 2 .. c
            PROVE  m <= Len(log'[j]) /\ log'[j][m] = log'[Starter][m]
        <5>1. m \in 2 .. Len(log'[j]) /\ ~ (m > Len(log'[Starter]))
          BY <2>2, <2>3, <2>5, <4>1, StarterOK
        <5>2. log'[j][m] = log'[Starter][m]
          BY <3>2, <5>1, StarterOK DEF History, Logs, OneHistory
        <5> QED  BY <2>3, <5>1, <5>2
      <4> QED  BY <4>2 DEF Holds, c
    <3> QED  BY <3>1, <3>2
  <2>6. Q \subseteq R
    BY <2>4, <2>5
  <2>7. conf'[Starter] \in SUBSET Nodes
    BY StarterOK DEF Inv, TypeOK
  <2> HIDE DEF Q, R
  <2> QED  BY <2>1, <2>6, <2>7, MajorityGrows
<1> QED  BY <1>1, Invariance, HistoryTheorem, PTL DEF Spec, CommitsHeld

(* Unless a node has been asked to add the starter, nobody can reach it: a *)
(* starter that leads does so until it removes itself, stays in its term   *)
(* and loses no entry of its log.                                          *)
THEOREM DeposedTheorem == Spec => NeverDeposed
<1>1. Inv /\ [Next]_vars =>
      [role[Starter] = "leader" /\ Uninvited' =>
         /\ role'[Starter] \in {"leader", "stopped"}
         /\ term'[Starter] = term[Starter]
         /\ \A k \in DOMAIN log[Starter] :
              k <= Len(log'[Starter]) /\ log'[Starter][k] = log[Starter][k]]_vars
  <2> DEFINE Leads1 == /\ role'[Starter] \in {"leader", "stopped"}
                       /\ term'[Starter] = term[Starter]
                       /\ \A k \in DOMAIN log[Starter] :
                            /\ k <= Len(log'[Starter])
                            /\ log'[Starter][k] = log[Starter][k]
  <2> SUFFICES ASSUME Inv, [Next]_vars, role[Starter] = "leader", Uninvited'
               PROVE  Leads1
    OBVIOUS
  <2>1. \A i \in Nodes \ {Starter} : Starter \notin conf[i]
    BY AskedGrows DEF Inv, StarterUnknown
  <2>2. DOMAIN log[Starter] = 1 .. Len(log[Starter]) /\ Len(log[Starter]) \in Nat
    BY NodeFacts, StarterOK
  <2>3. ASSUME role'[Starter] \in {"leader", "stopped"},
               term'[Starter] = term[Starter],
               \/ log'[Starter] = log[Starter]
               \/ /\ Len(log'[Starter]) = Len(log[Starter]) + 1
                  /\ \A k \in 1 .. Len(log[Starter]) : log'[Starter][k] = log[Starter][k]
        PROVE  Leads1
    BY <2>2, <2>3
  <2>4. ASSUME UNCHANGED <<role, term, log>> PROVE Leads1
    BY <2>3, <2>4
  <2> HIDE DEF Leads1
  <2>5. CASE UNCHANGED vars
    BY <2>4, <2>5 DEF vars, termVars, logVars
  <2>6. ASSUME NEW i \in Nodes, Campaign(i) PROVE Leads1
    <3>1. role[i] = "follower" /\ i # Starter
      BY <2>6, CampaignShape
    <3>2. PICK B \in SUBSET (conf[i] \ {i}) :
            /\ term' = [j \in Nodes |-> IF j \in B \cup {i} THEN term[i] + 1
                                        ELSE term[j]]
            /\ \A j \in Nodes \ (B \cup {i}) : role'[j] = role[j]
            /\ log' = log \/ log' = [log EXCEPT
                 ![i] = Append(@, Entry(term[i] + 1, "empty", i))]
      BY <2>6, CampaignShape
    <3>3. Starter \notin B \cup {i}
      BY <2>1, <3>1
    <3>4. role'[Starter] = role[Starter] /\ term'[Starter] = term[Starter]
      BY <3>2, <3>3, StarterOK
    <3>5. log'[Starter] = log[Starter]
      BY <3>1, <3>2, StarterOK DEF Inv, TypeOK
    <3> QED  BY <2>3, <3>4, <3>5
  <2>7. ASSUME NEW i \in Nodes, NEW j \in Nodes, Replicate(i, j) PROVE Leads1
    <3>1. /\ i # j /\ j \in conf[i] /\ term' = [term EXCEPT ![j] = term[i]]
          /\ role' = [role EXCEPT ![j] = "follower"]
          /\ \A l \in Nodes \ {j} : log'[l] = log[l]
      BY <2>7, ReplicateShape
    <3>2. j # Starter
      BY <2>1, <3>1
    <3>3. /\ role'[Starter] = role[Starter] /\ term'[Starter] = term[Starter]
          /\ log'[Starter] = log[Starter]
      BY <3>1, <3>2, StarterOK DEF Inv, TypeOK
    <3> QED  BY <2>3, <3>3
  <2>8. ASSUME NEW i \in Nodes, Apply(i) PROVE Leads1
    <3>1. /\ UNCHANGED <<log, term>>
          /\ \A l \in Nodes \ {i} : role'[l] = role[l]
          /\ role'[i] = role[i] \/ role'[i] = "stopped"
      BY <2>8, ApplyShape
    <3>2. role'[Starter] \in {"leader", "stopped"}
      BY <3>1, StarterOK
    <3> QED  BY <2>3, <3>1, <3>2
  <2>9. ASSUME NEW i \in Nodes, NEW op \in {"put", "add", "remove"},
               NEW arg \in Nodes \cup Puts,
               op = "put" => arg \in Puts, op # "put" => arg \in Nodes,
               Propose(i, op, arg)
        PROVE  Leads1
    <3>1. UNCHANGED <<term, role>>
      BY <2>9, ProposeShape
    <3>2. CASE UNCHANGED <<log, commit>>
      BY <2>4, <3>1, <3>2
    <3>3. ASSUME NEW l \in Nodes, NEW e \in Entries,
                 log' = [log EXCEPT ![l] = Append(@, e)],
                 commit' = [commit EXCEPT ![l] =
                   LeaderCommits(l, log'[l], term[l], match[l], conf[l])]
          PROVE  Leads1
      <4>1. /\ Len(log'[l]) = Len(log[l]) + 1
            /\ \A k \in 1 .. Len(log[l]) : log'[l][k] = log[l][k]
            /\ \A j \in Nodes \ {l} : log'[j] = log[j]
        BY <3>3, AppendShape, Zenon
      <4> QED  BY <2>3, <3>1, <4>1, StarterOK
    <3> QED  BY <2>9, <3>2, <3>3, ProposeShape
  <2>10. ASSUME NEW i \in Nodes, NEW j \in Nodes, Introduce(i, j) PROVE Leads1
    BY <2>4, <2>10 DEF Introduce, termVars, logVars
  <2> QED  BY <2>5, <2>6, <2>7, <2>8, <2>9, <2>10 DEF Next, Put, Add, Remove
<1> QED  BY <1>1, Invariance, PTL DEF Spec, NeverDeposed

-----------------------------------------------------------------------------
(* The promise of ReplicatedMap *)

(* A node goes on from what it has committed.                              *)
Preserves(l) ==
  /\ commit[l] <= commit'[l]
  /\ \A k \in 1 .. commit[l] : log'[l][k] = log[l][k]

(* Appending an entry and committing more replaces nothing committed.      *)
LEMMA PreservesAppend ==
  ASSUME Inv, NEW i \in Nodes, NEW e \in Entries, NEW t, NEW known,
         log' = [log EXCEPT ![i] = Append(@, e)],
         commit' = [commit EXCEPT ![i] =
           LeaderCommits(i, log'[i], t, known, conf[i])],
         NEW l \in Nodes
  PROVE  Preserves(l)
<1>1. /\ commit[l] \in Nat /\ Len(log[l]) \in Nat /\ commit[l] <= Len(log[l])
  BY NodeFacts
<1>2. /\ \A k \in 1 .. Len(log[i]) : log'[i][k] = log[i][k]
      /\ \A j \in Nodes \ {i} : log'[j] = log[j] /\ commit'[j] = commit[j]
      /\ commit[i] <= commit'[i]
  BY AppendShape, Zenon
<1>3. CASE l = i
  BY <1>1, <1>2, <1>3 DEF Preserves
<1>4. CASE l # i
  BY <1>1, <1>2, <1>4 DEF Preserves
<1> QED  BY <1>3, <1>4

(* What a leader sends replaces nothing its recipient has committed.       *)
LEMMA PreservesReplicate ==
  ASSUME Inv, NEW i \in Nodes, NEW j \in Nodes, Replicate(i, j), NEW l \in Nodes
  PROVE  Preserves(l)
<1>1. /\ commit[l] \in Nat /\ Len(log[l]) \in Nat /\ commit[l] <= Len(log[l])
      /\ log[l] \in Seq(Entries) /\ Len(log[i]) \in Nat
  BY NodeFacts
<1>2. /\ \A m \in Nodes \ {j} : log'[m] = log[m]
      /\ commit'[i] = LeaderCommits(i, log[i], term[i], match'[i], conf[i])
      /\ \A m \in Nodes \ {i, j} : commit'[m] = commit[m]
      /\ \/ commit'[j] = commit[j]
         \/ commit'[j] = commit[i] /\ commit[j] < commit[i]
      /\ i # j
  BY ReplicateShape
<1>3. \/ log'[j] = log[j]
      \/ \E prev \in Nat :
           /\ commit[j] <= prev /\ prev < Len(log[i])
           /\ \A k \in 1 .. Len(log[i]) :
                log'[j][k] = IF k <= prev THEN log[j][k] ELSE log[i][k]
  BY ReplicateShape
<1>4. CASE l = j
  <2>1. \A k \in 1 .. commit[j] : log'[j][k] = log[j][k]
    <3>1. ASSUME NEW prev \in Nat, commit[j] <= prev, prev < Len(log[i]),
                 \A k \in 1 .. Len(log[i]) :
                   log'[j][k] = IF k <= prev THEN log[j][k] ELSE log[i][k],
                 NEW k \in 1 .. commit[j]
          PROVE  log'[j][k] = log[j][k]
      <4>1. k \in 1 .. Len(log[i]) /\ k <= prev
        BY <1>1, <1>4, <3>1
      <4> QED  BY <3>1, <4>1
    <3> QED  BY <1>3, <3>1
  <2>2. commit[i] \in Nat
    BY NodeFacts
  <2>3. commit[j] <= commit'[j]
    BY <1>1, <1>2, <1>4, <2>2
  <2> QED  BY <1>4, <2>1, <2>3 DEF Preserves
<1>5. CASE l = i
  <2>1. commit[i] <= commit'[i]
    BY <1>1, <1>2, <1>5, LeaderCommitsWithin
  <2> QED  BY <1>2, <1>5, <2>1 DEF Preserves
<1>6. CASE l \notin {i, j}
  BY <1>1, <1>2, <1>6 DEF Preserves
<1> QED  BY <1>4, <1>5, <1>6

(* Applying an entry leaves the logs alone; fewer voters may commit more.  *)
LEMMA PreservesApply ==
  ASSUME Inv, NEW i \in Nodes, Apply(i), NEW l \in Nodes
  PROVE  Preserves(l)
<1>1. /\ log[l] \in Seq(Entries) /\ commit[l] \in Nat /\ commit[l] <= Len(log[l])
  BY NodeFacts
<1>2. /\ log' = log
      /\ \A m \in Nodes \ {i} : commit'[m] = commit[m]
      /\ \/ commit' = commit
         \/ commit'[i] = LeaderCommits(i, log[i], term[i], match[i], conf'[i])
  BY ApplyShape
<1>3. commit[l] <= commit'[l]
  <2>1. CASE commit'[l] = commit[l]
    BY <1>1, <2>1
  <2>2. CASE l = i /\ commit'[i] = LeaderCommits(i, log[i], term[i], match[i], conf'[i])
    BY <1>1, <2>2, LeaderCommitsWithin
  <2> QED  BY <1>2, <2>1, <2>2
<1> QED  BY <1>2, <1>3 DEF Preserves

(* No step replaces or uncommits what a node has committed, and no step but*)
(* Apply lets an entry take effect.                                        *)
LEMMA PreservesNext ==
  ASSUME Inv, [Next]_vars, NEW l \in Nodes
  PROVE  /\ Preserves(l)
         /\ Apply(l) \/ (applied'[l] = applied[l] /\ map'[l] = map[l])
<1>1. ASSUME UNCHANGED <<log, commit, applied, map>>
      PROVE  Preserves(l) /\ applied'[l] = applied[l] /\ map'[l] = map[l]
  <2>1. commit[l] \in Nat
    BY NodeFacts
  <2> QED  BY <1>1, <2>1 DEF Preserves
<1>2. CASE UNCHANGED vars
  BY <1>1, <1>2 DEF vars, nodeVars, logVars, confVars
<1>3. ASSUME NEW i \in Nodes, Campaign(i)
      PROVE  Preserves(l) /\ UNCHANGED <<applied, map>>
  <2>1. UNCHANGED <<map, applied>>
    BY <1>3, CampaignShape
  <2>2. \/ UNCHANGED <<log, commit>>
        \/ /\ log' = [log EXCEPT ![i] = Append(@, Entry(term[i] + 1, "empty", i))]
           /\ commit' = [commit EXCEPT ![i] =
                LeaderCommits(i, log'[i], term[i] + 1, match'[i], conf[i])]
    BY <1>3, CampaignShape
  <2>3. Entry(term[i] + 1, "empty", i) \in Entries
    BY DEF Inv, TypeOK, Entry, Entries
  <2> QED  BY <1>1, <2>1, <2>2, <2>3, PreservesAppend
<1>4. ASSUME NEW i \in Nodes, NEW op \in {"put", "add", "remove"},
             NEW arg \in Nodes \cup Puts,
             op = "put" => arg \in Puts, op # "put" => arg \in Nodes,
             Propose(i, op, arg)
      PROVE  Preserves(l) /\ UNCHANGED <<applied, map>>
  <2>1. UNCHANGED <<map, applied>>
    BY <1>4, ProposeShape
  <2>2. \/ UNCHANGED <<log, commit>>
        \/ \E m \in Nodes, e \in Entries :
             /\ log' = [log EXCEPT ![m] = Append(@, e)]
             /\ commit' = [commit EXCEPT ![m] =
                  LeaderCommits(m, log'[m], term[m], match[m], conf[m])]
    BY <1>4, ProposeShape
  <2> QED  BY <1>1, <2>1, <2>2, PreservesAppend
<1>5. ASSUME NEW i \in Nodes, NEW j \in Nodes, Replicate(i, j)
      PROVE  Preserves(l) /\ UNCHANGED <<applied, map>>
  BY <1>5, PreservesReplicate, ReplicateShape
<1>6. ASSUME NEW i \in Nodes, NEW j \in Nodes, Introduce(i, j)
      PROVE  Preserves(l) /\ UNCHANGED <<applied, map>>
  BY <1>1, <1>6 DEF Introduce, logVars, confVars
<1>7. ASSUME NEW i \in Nodes, Apply(i)
      PROVE  /\ Preserves(l)
             /\ Apply(l) \/ (applied'[l] = applied[l] /\ map'[l] = map[l])
  <2>1. CASE l = i
    BY <1>7, <2>1, PreservesApply
  <2>2. CASE l # i
    <3>1. /\ applied' = [applied EXCEPT ![i] = applied[i] + 1]
          /\ \/ map' = map
             \/ map' = [map EXCEPT ![i] = @ \cup {log[i][applied[i] + 1].arg}]
      BY <1>7, ApplyShape
    <3>2. applied \in [Nodes -> Nat] /\ map \in [Nodes -> SUBSET Puts]
      BY DEF Inv, TypeOK
    <3>3. applied'[l] = applied[l] /\ map'[l] = map[l]
      BY <2>2, <3>1, <3>2
    <3> QED  BY <1>7, <3>3, PreservesApply
  <2> QED  BY <2>1, <2>2
<1>8. ASSUME NEW i \in Nodes, NEW p \in Puts, Put(i, p)
      PROVE  Preserves(l) /\ UNCHANGED <<applied, map>>
  BY <1>4, <1>8 DEF Put
<1>9. ASSUME NEW i \in Nodes, NEW j \in Nodes, Add(i, j) \/ Remove(i, j)
      PROVE  Preserves(l) /\ UNCHANGED <<applied, map>>
  BY <1>4, <1>9 DEF Add, Remove
<1> QED  BY <1>2, <1>3, <1>5, <1>6, <1>7, <1>8, <1>9 DEF Next

(* A log and a map as ReplicatedMap has them.                              *)
AsLog(lg) == [k \in DOMAIN lg |-> AsEntry(lg[k])]
AsMap(m) == [p \in Puts |-> IF p \in m THEN p ELSE None]

(* An entry of the cluster is one of ReplicatedMap, of the same kind.      *)
LEMMA AsEntryType ==
  ASSUME NEW i \in Nodes, NEW e \in Entries
  PROVE  /\ AsEntry(e) \in Promise(i)!Entries
         /\ AsEntry(e).kind = e.op
         /\ e.op = "put" => e.arg \in Puts /\ AsEntry(e).arg = [key |-> e.arg, val |-> e.arg]
<1>1. CASE e.op = "put"
  <2>1. e.arg \in Puts
    BY <1>1 DEF Entries
  <2>2. AsEntry(e) = [kind |-> "put", arg |-> [key |-> e.arg, val |-> e.arg]]
    BY <1>1 DEF AsEntry
  <2> QED  BY <1>1, <2>1, <2>2 DEF Promise!Entries, Promise!Items
<1>2. CASE e.op = "empty"
  <2>1. AsEntry(e) = [kind |-> "empty", arg |-> None]
    BY <1>2 DEF AsEntry
  <2> QED  BY <1>2, <2>1 DEF Promise!Entries
<1>3. CASE e.op \in {"add", "remove"}
  <2>1. e.arg \in Nodes
    BY <1>3 DEF Entries
  <2>2. AsEntry(e) = [kind |-> e.op, arg |-> e.arg]
    BY <1>3 DEF AsEntry
  <2> QED  BY <1>3, <2>1, <2>2 DEF Promise!Entries
<1> QED  BY <1>1, <1>2, <1>3 DEF Entries

(* The mapped log is as long as the log, entry by entry.                   *)
LEMMA AsLogShape ==
  ASSUME NEW i \in Nodes, NEW lg \in Seq(Entries)
  PROVE  /\ AsLog(lg) \in Seq(Promise(i)!Entries)
         /\ Len(AsLog(lg)) = Len(lg)
         /\ \A k \in 1 .. Len(lg) : AsLog(lg)[k] = AsEntry(lg[k])
<1>1. DOMAIN lg = 1 .. Len(lg) /\ Len(lg) \in Nat
  OBVIOUS
<1>2. ASSUME NEW k \in 1 .. Len(lg) PROVE AsEntry(lg[k]) \in Promise(i)!Entries
  <2>1. lg[k] \in Entries
    BY <1>1
  <2> QED  BY <2>1, AsEntryType
<1>3. AsLog(lg) = [k \in 1 .. Len(lg) |-> AsEntry(lg[k])]
  BY <1>1 DEF AsLog
<1> QED  BY <1>1, <1>2, <1>3

(* Every node starts as a ReplicatedMap that has applied nothing.          *)
LEMMA PromiseInit ==
  ASSUME Init, NEW i \in Nodes
  PROVE  Promise(i)!Init
<1>1. log[i] = Boot(i) /\ commit[i] = 1 /\ applied[i] = 0 /\ map[i] = {}
  BY DEF Init, Boot
<1>2. Boot(i) \in Seq(Entries) /\ Len(Boot(i)) = 1
  BY DEF Boot, Entry, Entries
<1>3. AsLog(log[i]) \in Seq(Promise(i)!Entries) /\ Len(AsLog(log[i])) = 1
  BY <1>1, <1>2, AsLogShape
<1>4. AsMap(map[i]) = [p \in Puts |-> None]
  BY <1>1 DEF AsMap
<1> QED  BY <1>1, <1>3, <1>4 DEF Promise!Init, Promise!NoItems, AsLog, AsMap

(* What raft does to a node's log is a Revise of the promise, an entry that*)
(* takes effect is an Apply of it.                                         *)
LEMMA PromiseNext ==
  ASSUME Inv, Inv', [Next]_vars, NEW i \in Nodes
  PROVE  Promise(i)!Next
<1>1. /\ log[i] \in Seq(Entries) /\ log'[i] \in Seq(Entries)
      /\ commit[i] \in Nat /\ commit[i] <= Len(log[i]) /\ applied[i] \in Nat
      /\ commit'[i] \in Nat /\ commit'[i] <= Len(log'[i])
      /\ Len(log[i]) \in Nat /\ Len(log'[i]) \in Nat
  BY DEF Inv, TypeOK
<1>2. /\ AsLog(log[i]) \in Seq(Promise(i)!Entries)
      /\ Len(AsLog(log[i])) = Len(log[i])
      /\ \A k \in 1 .. Len(log[i]) : AsLog(log[i])[k] = AsEntry(log[i][k])
  BY <1>1, AsLogShape
<1>3. /\ AsLog(log'[i]) \in Seq(Promise(i)!Entries)
      /\ Len(AsLog(log'[i])) = Len(log'[i])
      /\ \A k \in 1 .. Len(log'[i]) : AsLog(log'[i])[k] = AsEntry(log'[i][k])
  BY <1>1, AsLogShape
<1>4. commit[i] <= commit'[i] /\ \A k \in 1 .. commit[i] : log'[i][k] = log[i][k]
  BY PreservesNext DEF Preserves
<1>5. CASE applied'[i] = applied[i] /\ map'[i] = map[i]
  <2>1. \A k \in 1 .. commit[i] : AsLog(log'[i])[k] = AsLog(log[i])[k]
    <3> SUFFICES ASSUME NEW k \in 1 .. commit[i]
                 PROVE  AsLog(log'[i])[k] = AsLog(log[i])[k]
      OBVIOUS
    <3>1. k \in 1 .. Len(log[i]) /\ k \in 1 .. Len(log'[i])
      BY <1>1, <1>4
    <3> QED  BY <1>2, <1>3, <1>4, <3>1
  <2>2. commit'[i] <= Len(AsLog(log'[i]))
    BY <1>1, <1>3
  <2>3. AsMap(map'[i]) = AsMap(map[i])
    BY <1>5
  <2>4. Promise(i)!Revise
    BY <1>3, <1>4, <1>5, <2>1, <2>2, <2>3 DEF Promise!Revise, AsLog, AsMap
  <2> QED  BY <2>4 DEF Promise!Next
<1>6. CASE Apply(i)
  <2> DEFINE k == applied[i] + 1
             e == log[i][k]
  <2>1. /\ log' = log /\ k <= commit[i] /\ applied' = [applied EXCEPT ![i] = k]
        /\ map' = IF e.op = "put" THEN [map EXCEPT ![i] = @ \cup {e.arg}] ELSE map
    BY <1>6, ApplyShape
  <2>2. map \in [Nodes -> SUBSET Puts] /\ applied \in [Nodes -> Nat]
    BY DEF Inv, TypeOK
  <2>3. applied'[i] = applied[i] + 1 /\ applied[i] < commit[i]
    BY <1>1, <2>1, <2>2
  <2>4. k \in 1 .. Len(log[i]) /\ e \in Entries
    <3>1. k \in 1 .. Len(log[i])
      BY <1>1, <2>1
    <3> QED  BY <1>1, <3>1
  <2> HIDE DEF k, e
  <2>5. AsLog(log[i])[k] = AsEntry(e)
    BY <1>2, <2>4 DEF e
  <2>6. AsMap(map'[i]) = Promise(i)!Effect(AsMap(map[i]), AsEntry(e))
    <3>1. CASE e.op = "put"
      <4>1. map'[i] = map[i] \cup {e.arg}
        BY <2>1, <2>2, <3>1
      <4>2. /\ AsEntry(e).kind = "put" /\ e.arg \in Puts
            /\ AsEntry(e).arg = [key |-> e.arg, val |-> e.arg]
        BY <2>4, <3>1, AsEntryType
      <4>3. AsMap(map'[i]) = [AsMap(map[i]) EXCEPT ![e.arg] = e.arg]
        BY <4>1, <4>2 DEF AsMap
      <4> QED  BY <4>2, <4>3 DEF Promise!Effect, Promise!Stored
    <3>2. CASE e.op # "put"
      <4>1. map'[i] = map[i] /\ AsEntry(e).kind # "put"
        BY <2>1, <2>4, <3>2, AsEntryType
      <4> QED  BY <4>1 DEF Promise!Effect
    <3> QED  BY <3>1, <3>2
  <2>7. AsMap(map'[i]) = Promise(i)!Effect(AsMap(map[i]), AsLog(log[i])[applied[i] + 1])
    BY <2>5, <2>6 DEF k
  <2>8. log'[i] = log[i] /\ commit'[i] <= Len(AsLog(log[i]))
    BY <1>1, <1>2, <2>1
  <2>9. Promise(i)!Apply
    BY <1>4, <2>3, <2>7, <2>8 DEF Promise!Apply, AsLog, AsMap
  <2> QED  BY <2>9 DEF Promise!Next
<1> QED  BY <1>5, <1>6, PreservesNext

(* Every node keeps the promise of ReplicatedMap for its own log, in a     *)
(* cluster of any size and however it is led: no committed entry of its log*)
(* is replaced, and its map holds what the log said up to there.           *)
THEOREM PromiseTheorem == Spec => KeepsPromise
<1>1. Init => \A i \in Nodes : Promise(i)!Init
  BY PromiseInit
<1>2. Inv /\ Inv' /\ [Next]_vars
      => [\A i \in Nodes : [Promise(i)!Next]_(Promise(i)!vars)]_vars
  BY PromiseNext
<1> QED  BY <1>1, <1>2, Invariance, PTL DEF Spec, KeepsPromise

-----------------------------------------------------------------------------
(* The maps *)

(* A map has the items of the puts among the entries applied, and no other.*)
MapIsLog ==
  \A i \in Nodes : \A p \in Puts :
    p \in map[i] <=>
      \E k \in 1 .. applied[i] : log[i][k].op = "put" /\ log[i][k].arg = p

(* A map grows by the put that is applied and by nothing else.             *)
LEMMA MapIsLogNext == Inv /\ Inv' /\ MapIsLog /\ [Next]_vars => MapIsLog'
<1> SUFFICES ASSUME Inv, Inv', MapIsLog, [Next]_vars,
                    NEW i \in Nodes, NEW p \in Puts
             PROVE  p \in map'[i] <=>
                      \E k \in 1 .. applied'[i] :
                        log'[i][k].op = "put" /\ log'[i][k].arg = p
  BY DEF MapIsLog
<1> DEFINE Has(lg, n) == \E k \in 1 .. n : lg[k].op = "put" /\ lg[k].arg = p
<1>1. p \in map[i] <=> Has(log[i], applied[i])
  BY DEF MapIsLog
<1>2. /\ applied[i] \in Nat /\ commit[i] \in Nat /\ applied[i] <= commit[i]
  BY NodeFacts
<1>3. \A k \in 1 .. commit[i] : log'[i][k] = log[i][k]
  BY PreservesNext DEF Preserves
<1>4. \A k \in 1 .. applied[i] : log'[i][k] = log[i][k]
  BY <1>2, <1>3
<1>5. CASE applied'[i] = applied[i] /\ map'[i] = map[i]
  BY <1>1, <1>4, <1>5
<1>6. CASE Apply(i)
  <2> DEFINE n == applied[i] + 1
  <2>1. /\ log' = log /\ n <= commit[i] /\ applied' = [applied EXCEPT ![i] = n]
        /\ map' = IF log[i][n].op = "put"
                  THEN [map EXCEPT ![i] = @ \cup {log[i][n].arg}] ELSE map
    BY <1>6, ApplyShape
  <2>2. applied'[i] = applied[i] + 1
    BY <2>1 DEF Inv, TypeOK
  <2>3. p \in map'[i] <=> \/ p \in map[i]
                          \/ log[i][n].op = "put" /\ log[i][n].arg = p
    BY <2>1 DEF Inv, TypeOK
  <2>4. 1 .. applied[i] + 1 = (1 .. applied[i]) \cup {n}
    BY <1>2
  <2> HIDE DEF n
  <2>5. Has(log[i], applied[i] + 1)
          <=> Has(log[i], applied[i]) \/ (log[i][n].op = "put" /\ log[i][n].arg = p)
    BY <2>4, Zenon
  <2> QED  BY <1>1, <2>1, <2>2, <2>3, <2>5
<1> QED  BY <1>5, <1>6, PreservesNext

(* Of any two nodes that have not departed the one that has applied more   *)
(* has every item of the other: a read of one node never shows what another*)
(* that is further along will not show.                                    *)
THEOREM MapsTheorem == Spec => []MapsAgree
<1>1. Init => MapIsLog
  BY DEF Init, MapIsLog
<1>2. Spec => []MapIsLog
  BY <1>1, MapIsLogNext, Invariance, PTL DEF Spec
<1>3. Inv /\ MapIsLog /\ CommittedAgree => MapsAgree
  <2> SUFFICES ASSUME Inv, MapIsLog, CommittedAgree,
                      NEW i \in Nodes, NEW j \in Nodes,
                      applied[i] <= applied[j], ~ Departed(i), ~ Departed(j),
                      NEW p \in map[i]
               PROVE  p \in map[j]
    BY DEF MapsAgree
  <2>1. p \in Puts
    BY DEF Inv, TypeOK
  <2>2. PICK k \in 1 .. applied[i] : log[i][k].op = "put" /\ log[i][k].arg = p
    BY <2>1 DEF MapIsLog
  <2>3. /\ applied[i] \in Nat /\ applied[i] <= commit[i] /\ commit[i] \in Nat
        /\ applied[j] \in Nat /\ applied[j] <= commit[j] /\ commit[j] \in Nat
    BY NodeFacts
  <2>4. k # 1
    BY <2>2, NodeFacts
  <2>5. k \in 2 .. Least(commit[i], commit[j]) /\ k \in 1 .. applied[j]
    BY <2>3, <2>4 DEF Least
  <2>6. log[j][k] = log[i][k]
    BY <2>5 DEF CommittedAgree
  <2> QED  BY <2>1, <2>2, <2>5, <2>6 DEF MapIsLog
<1> QED  BY <1>2, <1>3, Invariance, AgreeTheorem, PTL
=============================================================================

------------------------- MODULE ClusterJoinProofs --------------------------
(***************************************************************************)
(* What becomes of a Cluster whose program introduces nobody and asks      *)
(* nobody to add the starter, as the example: the answers to the starter   *)
(* are lost, so it commits nothing once it has a second voter.             *)
(***************************************************************************)
EXTENDS ClusterSafetyProofs

Changes == {"add", "remove"}

(* The starter has applied an addition.                                    *)
Joined == conf[Starter] # {Starter}

(* No node has the starter in its view, so no answer reaches it; of the    *)
(* conf changes it has not applied there is at most one, the one at confAt,*)
(* and that one is not committed if a node has joined already.             *)
Cut ==
  /\ \A j \in Nodes \ {Starter} : Starter \notin view[j] /\ match[Starter][j] = 0
  /\ \A k \in applied[Starter] + 1 .. Len(log[Starter]) :
       log[Starter][k].op \in Changes => k = confAt[Starter] \/ role[Starter] = "follower"
  /\ Joined => \A k \in applied[Starter] + 1 .. commit[Starter] :
                 log[Starter][k].op \notin Changes

(* What a step may not do to a starter that nodes have joined.             *)
Stays ==
  Joined => commit'[Starter] = commit[Starter] /\ conf'[Starter] = conf[Starter]

Severed == [][Uninvited' => Stays]_vars

-----------------------------------------------------------------------------
(* A starter that knows of no other log commits only if it is alone.       *)
LEMMA CommitsAlone ==
  ASSUME Inv, NEW lg \in Seq(Entries), Len(log[Starter]) <= Len(lg), NEW t,
         NEW known \in [Nodes -> Nat], \A j \in Nodes \ {Starter} : known[j] = 0,
         NEW V \in SUBSET Nodes
  PROVE  LeaderCommits(Starter, lg, t, known, V) = commit[Starter] \/ V = {Starter}
<1> SUFFICES ASSUME LeaderCommits(Starter, lg, t, known, V) # commit[Starter]
             PROVE  V = {Starter}
  OBVIOUS
<1> DEFINE n == LeaderCommits(Starter, lg, t, known, V)
<1>1. /\ commit[Starter] \in Nat /\ commit[Starter] >= 1
      /\ commit[Starter] <= Len(lg)
  BY NodeFacts, StarterOK
<1>2. n \in Nat /\ n >= 1 /\ Counted(Starter, known, n, V)
  BY <1>1, LeaderCommitsWithin
<1> HIDE DEF n
<1>3. {Starter} \cup {j \in Nodes : known[j] >= n} = {Starter}
  BY <1>2
<1>4. 2 * Cardinality({Starter} \cap V) > Cardinality(V)
  BY <1>2, <1>3 DEF Counted, Majority
<1>5. IsFiniteSet(V) /\ Cardinality(V) \in Nat
  BY NodesOK, FS_Subset, FS_CardinalityType
<1>6. Cardinality({Starter}) = 1 /\ Cardinality({}) = 0
  BY FS_Singleton, FS_EmptySet
<1>7. Starter \in V
  <2>1. ASSUME Starter \notin V PROVE FALSE
    <3>1. {Starter} \cap V = {}
      BY <2>1
    <3>2. Cardinality({Starter} \cap V) = 0
      BY <1>6, <3>1
    <3> QED  BY <1>4, <1>5, <3>2
  <2> QED  BY <2>1
<1>8. ASSUME NEW y \in V, y # Starter PROVE FALSE
  <2>1. {Starter} \cap V = {Starter}
    BY <1>7
  <2>2. Cardinality(V) < 2
    <3>1. Cardinality({Starter} \cap V) = 1
      BY <1>6, <2>1
    <3> QED  BY <1>4, <1>5, <3>1
  <2>3. Cardinality(V \ {Starter}) = Cardinality(V) - 1
    BY <1>5, <1>7, FS_RemoveElement
  <2>4. Cardinality(V \ {Starter}) = 0
    <3>1. IsFiniteSet(V \ {Starter})
      BY <1>5, FS_Subset
    <3>2. Cardinality(V \ {Starter}) \in Nat
      BY <3>1, FS_CardinalityType
    <3> QED  BY <1>5, <2>2, <2>3, <3>2
  <2>5. V \ {Starter} = {}
    BY <1>5, <2>4, FS_Subset, FS_EmptySet
  <2> QED  BY <1>8, <2>5
<1> QED  BY <1>7, <1>8

(* A step that leaves the starter alone and shows it to nobody.            *)
LEMMA CutFrame ==
  ASSUME Cut, \A j \in Nodes \ {Starter} : Starter \notin view'[j],
         match'[Starter] = match[Starter], log'[Starter] = log[Starter],
         commit'[Starter] = commit[Starter], applied'[Starter] = applied[Starter],
         conf'[Starter] = conf[Starter], confAt'[Starter] = confAt[Starter],
         role'[Starter] = role[Starter]
  PROVE  Cut' /\ Stays
BY DEF Cut, Joined, Stays

(* A starter that follows has only its first entry, and only itself.       *)
LEMMA StarterFollows ==
  ASSUME Inv, History, Uninvited, role[Starter] = "follower"
  PROVE  Len(log[Starter]) = 1 /\ conf[Starter] = {Starter}
<1>1. term[Starter] = 1
  BY DEF History, Reign
<1> QED  BY <1>1, StarterOK DEF History, Ages

(* The election of the starter, and those of others, which it is not in.   *)
LEMMA CutCampaign ==
  ASSUME Inv, History, Uninvited, Cut, NEW i \in Nodes, Campaign(i)
  PROVE  Cut' /\ Stays
<1> DEFINE e == Entry(term[i] + 1, "empty", i)
<1>1. PICK B \in SUBSET (conf[i] \ {i}) :
        /\ \A j \in Nodes \ (B \cup {i}) : role'[j] = role[j]
        /\ \/ UNCHANGED <<log, commit, match>> /\ conf[i] # {i}
           \/ /\ role'[i] = "leader"
              /\ log' = [log EXCEPT ![i] = Append(@, e)]
              /\ match' = [match EXCEPT ![i] = [j \in Nodes |-> 0]]
              /\ commit' = [commit EXCEPT ![i] =
                   LeaderCommits(i, log'[i], term[i] + 1, match'[i], conf[i])]
  BY CampaignShape
<1>2. role[i] = "follower" /\ UNCHANGED <<applied, conf>>
  BY CampaignShape
<1>3. /\ view' = view
      /\ \A k \in applied[i] + 1 .. commit[i] : log[i][k].op \in {"put", "empty"}
  BY DEF Campaign, nodeVars
<1>4. confAt' = confAt \/ confAt' = [confAt EXCEPT ![i] = Len(log[i])]
  BY Zenon DEF Campaign
<1>5. e.op = "empty"
  BY DEF Entry
<1>6. CASE i = Starter
  <2>1. Len(log[Starter]) = 1 /\ conf[Starter] = {Starter}
    BY <1>2, <1>6, StarterFollows
  <2>2. /\ log' = [log EXCEPT ![Starter] = Append(@, e)]
        /\ match' = [match EXCEPT ![Starter] = [j \in Nodes |-> 0]]
    BY <1>1, <1>6, <2>1
  <2>3. /\ log[Starter] \in Seq(Entries) /\ applied[Starter] = 1
        /\ log \in [Nodes -> Seq(Entries)] /\ match \in [Nodes -> [Nodes -> Nat]]
    <3>1. /\ commit[Starter] = 1 /\ applied[Starter] \in Nat
          /\ applied[Starter] <= commit[Starter]
          /\ log[Starter] \in Seq(Entries) /\ log[Starter][1].op = "add"
      <4>1. /\ log[Starter] \in Seq(Entries) /\ log[Starter][1].op = "add"
            /\ commit[Starter] \in Nat /\ commit[Starter] >= 1
            /\ commit[Starter] <= Len(log[Starter])
            /\ applied[Starter] \in Nat /\ applied[Starter] <= commit[Starter]
        BY NodeFacts, StarterOK
      <4> QED  BY <2>1, <4>1
    <3>2. log \in [Nodes -> Seq(Entries)] /\ match \in [Nodes -> [Nodes -> Nat]]
      BY DEF Inv, TypeOK
    <3>3. applied[Starter] # 0
      <4>1. applied[Starter] = 0 => 1 \in applied[Starter] + 1 .. commit[Starter]
        BY <3>1
      <4> QED  BY <1>3, <1>6, <3>1, <4>1
    <3>4. applied[Starter] = 1
      BY <3>1, <3>3
    <3> QED  BY <3>1, <3>2, <3>4
  <2> HIDE DEF e
  <2>4. log'[Starter] = Append(log[Starter], e) /\ match'[Starter] = [j \in Nodes |-> 0]
    BY <2>2, <2>3, StarterOK
  <2>5. Len(log'[Starter]) = 2 /\ log'[Starter][2] = e
    <3>1. /\ Len(Append(log[Starter], e)) = Len(log[Starter]) + 1
          /\ Append(log[Starter], e)[Len(log[Starter]) + 1] = e
      BY <2>3
    <3> QED  BY <2>1, <2>4, <3>1
  <2>6. \A k \in applied'[Starter] + 1 .. Len(log'[Starter]) :
          log'[Starter][k].op \notin Changes
    BY <1>2, <1>5, <2>3, <2>5 DEF Changes
  <2> QED  BY <1>2, <1>3, <2>1, <2>4, <2>6 DEF Cut, Joined, Stays
<1>7. CASE i # Starter
  <2>1. Starter \notin B \cup {i}
    BY <1>7, StarterOK DEF Inv, StarterUnknown
  <2>2. role'[Starter] = role[Starter]
    BY <1>1, <2>1, StarterOK
  <2>3. /\ log'[Starter] = log[Starter] /\ match'[Starter] = match[Starter]
        /\ commit'[Starter] = commit[Starter] /\ confAt'[Starter] = confAt[Starter]
    <3>1. \A j \in Nodes \ {i} : /\ log'[j] = log[j] /\ match'[j] = match[j]
                                /\ commit'[j] = commit[j]
      <4> DEFINE n == LeaderCommits(i, log'[i], term[i] + 1, match'[i], conf[i])
      <4>1. /\ log' = log \/ log' = [log EXCEPT ![i] = Append(@, e)]
            /\ match' = match \/ match' = [match EXCEPT ![i] = [j \in Nodes |-> 0]]
            /\ commit' = commit \/ commit' = [commit EXCEPT ![i] = n]
        BY <1>1, Zenon
      <4> HIDE DEF e, n
      <4> QED  BY <4>1 DEF Inv, TypeOK
    <3>2. confAt'[Starter] = confAt[Starter]
      BY <1>4, <1>7, StarterOK DEF Inv, TypeOK
    <3> QED  BY <1>7, <3>1, <3>2, StarterOK
  <2> QED  BY <1>2, <1>3, <2>2, <2>3, CutFrame DEF Cut
<1> QED  BY <1>6, <1>7

(* A conf change is appended by the starter only if it has applied the last*)
(* one, and is not committed if a node has joined.                         *)
LEMMA CutPropose ==
  ASSUME Inv, History, Uninvited, Cut, NEW i \in Nodes,
         NEW op \in {"put", "add", "remove"}, NEW arg \in Nodes \cup Puts,
         op = "put" => arg \in Puts, op # "put" => arg \in Nodes,
         Propose(i, op, arg)
  PROVE  Cut' /\ Stays
<1>1. UNCHANGED <<view, role, applied, conf, match>> /\ lead[i] # None
  BY DEF Propose, nodeVars, termVars, peerVars
<1>2. lead[i] \in Nodes
  BY <1>1 DEF Inv, TypeOK
<1>3. CASE UNCHANGED <<log, commit, confAt>>
  BY <1>1, <1>3, CutFrame DEF Cut
<1>4. ASSUME NEW l \in Nodes, LeaderAppends(l, op, arg), role[l] = "leader"
      PROVE  Cut' /\ Stays
  <2> DEFINE refused == op # "put" /\ confAt[l] > applied[l]
             e == IF refused THEN Entry(term[l], "empty", l)
                  ELSE Entry(term[l], op, arg)
  <2>1. /\ log' = [log EXCEPT ![l] = Append(@, e)]
        /\ commit' = [commit EXCEPT
             ![l] = LeaderCommits(l, log'[l], term[l], match[l], conf[l])]
        /\ \/ e.op \notin Changes /\ confAt' = confAt
           \/ /\ ~ (confAt[l] > applied[l])
              /\ confAt' = [confAt EXCEPT ![l] = Len(log'[l])]
    <3>1. CASE op # "put" /\ ~refused
      BY <1>4, <3>1 DEF LeaderAppends
    <3>2. CASE ~ (op # "put" /\ ~refused)
      <4>1. e.op \notin Changes
        BY <3>2 DEF Entry, Changes
      <4>2. confAt' = confAt
        BY <1>4, <3>2 DEF LeaderAppends
      <4>3. /\ log' = [log EXCEPT ![l] = Append(@, e)]
            /\ commit' = [commit EXCEPT
                 ![l] = LeaderCommits(l, log'[l], term[l], match[l], conf[l])]
        BY <1>4 DEF LeaderAppends
      <4> HIDE DEF e
      <4> QED  BY <4>1, <4>2, <4>3
    <3> QED  BY <3>1, <3>2
  <2>3. e \in Entries
    BY <1>4 DEF Entry, Entries, Inv, TypeOK
  <2> HIDE DEF e, refused
  <2>4. CASE l # Starter
    <3>1. /\ log'[Starter] = log[Starter] /\ commit'[Starter] = commit[Starter]
          /\ confAt'[Starter] = confAt[Starter]
      BY <2>1, <2>4, StarterOK DEF Inv, TypeOK
    <3> QED  BY <1>1, <3>1, CutFrame DEF Cut
  <2>5. CASE l = Starter
    <3>1. /\ log[Starter] \in Seq(Entries) /\ Len(log[Starter]) \in Nat
          /\ commit[Starter] \in Nat /\ applied[Starter] \in Nat
          /\ commit[Starter] <= Len(log[Starter])
          /\ applied[Starter] <= commit[Starter]
      BY NodeFacts, StarterOK
    <3>2. /\ log'[Starter] = Append(log[Starter], e)
          /\ commit'[Starter] = LeaderCommits(Starter, log'[Starter], term[Starter],
                                              match[Starter], conf[Starter])
      BY <2>1, <2>5, StarterOK DEF Inv, TypeOK
    <3>3. /\ log'[Starter] \in Seq(Entries)
          /\ Len(log'[Starter]) = Len(log[Starter]) + 1
          /\ log'[Starter][Len(log[Starter]) + 1] = e
          /\ \A k \in 1 .. Len(log[Starter]) : log'[Starter][k] = log[Starter][k]
      BY <2>3, <3>1, <3>2
    <3>4. match[Starter] \in [Nodes -> Nat] /\ conf[Starter] \in SUBSET Nodes
      BY StarterOK DEF Inv, TypeOK
    <3>5. \A j \in Nodes \ {Starter} : match[Starter][j] = 0
      BY DEF Cut
    <3>6. commit'[Starter] = commit[Starter] \/ conf[Starter] = {Starter}
      <4>1. Len(log[Starter]) <= Len(log'[Starter])
        BY <3>1, <3>3
      <4>2. \/ LeaderCommits(Starter, log'[Starter], term[Starter], match[Starter],
                             conf[Starter]) = commit[Starter]
            \/ conf[Starter] = {Starter}
        BY <3>3, <3>4, <3>5, <4>1, CommitsAlone, Zenon
      <4> QED  BY <3>2, <4>2
    <3>7. Stays
      BY <1>1, <3>6 DEF Stays, Joined
    <3>8. ASSUME NEW k \in applied'[Starter] + 1 .. Len(log'[Starter]),
                 log'[Starter][k].op \in Changes
          PROVE  k = confAt'[Starter]
      <4>1. /\ confAt[Starter] \in Nat
            /\ confAt' = [confAt EXCEPT ![l] = Len(log'[l])]
                 => confAt'[Starter] = Len(log'[Starter])
        BY <2>5, StarterOK DEF Inv, TypeOK
      <4>2. CASE k = Len(log[Starter]) + 1
        BY <2>1, <3>3, <3>8, <4>1, <4>2
      <4>3. CASE k # Len(log[Starter]) + 1
        <5>1. k \in applied[Starter] + 1 .. Len(log[Starter])
          BY <1>1, <3>1, <3>3, <4>3
        <5>2. log'[Starter][k] = log[Starter][k]
          BY <3>1, <3>3, <5>1
        <5>3. k = confAt[Starter]
          BY <1>4, <2>5, <3>8, <5>1, <5>2 DEF Cut
        <5>4. confAt[Starter] > applied[Starter]
          BY <3>1, <4>1, <5>1, <5>3
        <5> QED  BY <2>1, <2>5, <5>3, <5>4
      <4> QED  BY <4>2, <4>3
    <3>9. ASSUME Joined', NEW k \in applied'[Starter] + 1 .. commit'[Starter]
          PROVE  log'[Starter][k].op \notin Changes
      <4>1. Joined /\ commit'[Starter] = commit[Starter]
        BY <1>1, <3>6, <3>9 DEF Joined
      <4>2. k \in applied[Starter] + 1 .. commit[Starter]
        BY <1>1, <4>1
      <4>3. log'[Starter][k] = log[Starter][k]
        BY <3>1, <3>3, <4>2
      <4> QED  BY <4>1, <4>2, <4>3 DEF Cut
    <3> QED  BY <1>1, <3>7, <3>8, <3>9 DEF Cut
  <2> QED  BY <2>4, <2>5
<1> QED  BY <1>1, <1>2, <1>3, <1>4 DEF Propose

(* What the starter sends may get through, but no answer comes back; nobody*)
(* sends to the starter.                                                   *)
LEMMA CutReplicate ==
  ASSUME Inv, History, Uninvited, Cut, NEW i \in Nodes, NEW j \in Nodes, Replicate(i, j)
  PROVE  Cut' /\ Stays
<1>1. /\ i # j /\ j \in conf[i]
      /\ role' = [role EXCEPT ![j] = "follower"]
      /\ UNCHANGED <<applied, conf>>
      /\ \A l \in Nodes \ {j} : log'[l] = log[l]
      /\ \A l \in Nodes \ {i} : match'[l] = match[l]
      /\ commit'[i] = LeaderCommits(i, log[i], term[i], match'[i], conf[i])
      /\ \A l \in Nodes \ {i, j} : commit'[l] = commit[l]
  BY ReplicateShape
<1>2. UNCHANGED <<view, confAt>>
  BY DEF Replicate, nodeVars, confVars
<1>3. j # Starter
  BY <1>1, StarterOK DEF Inv, StarterUnknown
<1>4. role'[Starter] = role[Starter] /\ log'[Starter] = log[Starter]
  BY <1>1, <1>3, StarterOK DEF Inv, TypeOK
<1>5. CASE i # Starter
  <2>1. match'[Starter] = match[Starter] /\ commit'[Starter] = commit[Starter]
    BY <1>1, <1>3, <1>5, StarterOK
  <2> QED  BY <1>1, <1>2, <1>4, <2>1, CutFrame DEF Cut
<1>6. CASE i = Starter
  <2>1. ~ Answers(i, j)
    BY <1>3, <1>6 DEF Answers, Reaches, Cut
  <2>2. match' = match
    BY <2>1 DEF Replicate, peerVars
  <2>3. conf[Starter] # {Starter}
    BY <1>1, <1>3, <1>6
  <2>4. /\ commit'[Starter] = LeaderCommits(Starter, log[Starter], term[Starter],
                                            match[Starter], conf[Starter])
        /\ \A l \in Nodes \ {Starter} : match[Starter][l] = 0
    BY <1>1, <1>6, <2>2 DEF Cut
  <2>5. /\ log[Starter] \in Seq(Entries) /\ Len(log[Starter]) \in Nat
        /\ Len(log[Starter]) <= Len(log[Starter])
    BY NodeFacts, StarterOK
  <2>6. match[Starter] \in [Nodes -> Nat] /\ conf[Starter] \in SUBSET Nodes
    BY StarterOK DEF Inv, TypeOK
  <2>7. \/ LeaderCommits(Starter, log[Starter], term[Starter], match[Starter],
                         conf[Starter]) = commit[Starter]
        \/ conf[Starter] = {Starter}
    BY <2>4, <2>5, <2>6, CommitsAlone, Zenon
  <2>8. commit'[Starter] = commit[Starter]
    BY <2>3, <2>4, <2>7
  <2> QED  BY <1>1, <1>2, <1>4, <2>2, <2>8, CutFrame DEF Cut
<1> QED  BY <1>5, <1>6

(* The first node joins with the one conf change that is open; after that  *)
(* no conf change takes effect, as none is committed.                      *)
LEMMA CutApply ==
  ASSUME Inv, History, Uninvited, Cut, Inv', NEW i \in Nodes, Apply(i)
  PROVE  Cut' /\ Stays
<1> DEFINE k == applied[i] + 1
           e == log[i][k]
<1>1. /\ log' = log /\ k <= commit[i] /\ applied' = [applied EXCEPT ![i] = k]
      /\ confAt' = confAt
      /\ \/ e.op = "add" /\ AddNode(i, e.arg)
         \/ e.op = "remove" /\ RemoveNode(i, e.arg)
         \/ /\ e.op \in {"put", "empty"}
            /\ UNCHANGED <<view, conf, commit, role, match>>
  BY DEF Apply, termVars, peerVars, nodeVars
<1>2. /\ log[i] \in Seq(Entries) /\ Len(log[i]) \in Nat /\ applied[i] \in Nat
      /\ commit[i] \in Nat /\ commit[i] <= Len(log[i])
      /\ log[i][1].arg = i
  BY NodeFacts
<1>3. /\ \A l \in Nodes \ {i} : /\ role'[l] = role[l] /\ conf'[l] = conf[l]
                                /\ commit'[l] = commit[l]
      /\ \A l, j \in Nodes : match'[l][j] = match[l][j] \/ match'[l][j] = 0
      /\ role'[i] = role[i] \/ role'[i] = "stopped"
  BY ApplyShape
<1>4. \A j \in Nodes \ {Starter} : Starter \notin view'[j]
  <2> SUFFICES ASSUME NEW j \in Nodes \ {Starter} PROVE Starter \notin view'[j]
    OBVIOUS
  <2>1. Starter \notin view[j] /\ view \in [Nodes -> SUBSET Nodes]
    BY DEF Cut, Inv, TypeOK
  <2>2. CASE e.op = "add" /\ AddNode(i, e.arg)
    <3>1. view' = [view EXCEPT ![i] = @ \cup {e.arg}]
      BY <2>2 DEF AddNode, AddPeer
    <3>2. CASE i = Starter
      BY <2>1, <3>1, <3>2
    <3>3. CASE i # Starter
      <4>1. e.arg # Starter
        <5>1. CASE k = 1
          BY <1>2, <3>3, <5>1
        <5>2. CASE k # 1
          <6>1. k \in 2 .. Len(log[i])
            BY <1>1, <1>2, <5>2
          <6> QED  BY <2>2, <6>1 DEF Inv, NeverAdded
        <5> QED  BY <5>1, <5>2
      <4> QED  BY <2>1, <3>1, <4>1
    <3> QED  BY <3>2, <3>3
  <2>3. CASE e.op = "remove" /\ RemoveNode(i, e.arg)
    <3>1. view' = [view EXCEPT ![i] = view[i] \ ({e.arg} \ {i})]
      BY <2>3 DEF RemoveNode, Unregistered
    <3> QED  BY <2>1, <3>1
  <2>4. CASE view' = view
    BY <2>1, <2>4
  <2> QED  BY <1>1, <2>2, <2>3, <2>4
<1>5. CASE i # Starter
  <2>1. /\ applied'[Starter] = applied[Starter] /\ match'[Starter] = match[Starter]
    <3>1. applied'[Starter] = applied[Starter]
      BY <1>1, <1>5, StarterOK DEF Inv, TypeOK
    <3>2. match' = match \/ match' = [match EXCEPT ![i][e.arg] = 0]
      BY <1>1 DEF AddNode, RemoveNode, peerVars
    <3> QED  BY <1>5, <3>1, <3>2, StarterOK DEF Inv, TypeOK
  <2> QED  BY <1>1, <1>3, <1>4, <1>5, <2>1, StarterOK, CutFrame
<1>6. CASE i = Starter
  <2>1. applied'[Starter] = k /\ k \in applied[Starter] + 1 .. commit[Starter]
        /\ k \in applied[Starter] + 1 .. Len(log[Starter])
    BY <1>1, <1>2, <1>6, StarterOK DEF Inv, TypeOK
  <2>2. \A j \in Nodes \ {Starter} : match'[Starter][j] = 0
    BY <1>3, StarterOK DEF Cut
  <2>3. role[Starter] = "follower" => k + 1 .. Len(log[Starter]) = {}
    <3>1. k \in Nat /\ k >= 1
      BY <1>2
    <3> HIDE DEF k
    <3>2. \A n \in {1} : k + 1 .. n = {}
      BY <3>1
    <3> QED  BY <3>2, StarterFollows
  <2>4. ASSUME NEW m \in k + 1 .. Len(log[Starter]), log[Starter][m].op \in Changes
        PROVE  m = confAt[Starter] /\ e.op \notin Changes
    <3>1. m \in applied[Starter] + 1 .. Len(log[Starter]) /\ m > k
      BY <1>2, <1>6, <2>1
    <3>2. role[Starter] # "follower"
      BY <2>3
    <3>3. m = confAt[Starter]
      BY <2>4, <3>1, <3>2 DEF Cut
    <3>4. e.op \in Changes => k = confAt[Starter]
      BY <1>6, <2>1, <3>2 DEF Cut
    <3> QED  BY <1>2, <3>1, <3>3, <3>4
  <2>5. commit'[Starter] \in Nat /\ commit'[Starter] <= Len(log[Starter])
    BY <1>1, NodeFacts, StarterOK DEF Inv, TypeOK
  <2>6. CASE e.op \notin Changes
    <3>1. UNCHANGED <<conf, commit>>
      BY <1>1, <2>6 DEF Changes
    <3>2. ASSUME Joined' PROVE \A m \in k + 1 .. commit'[Starter] :
                                 log[Starter][m].op \notin Changes
      BY <1>2, <1>6, <2>1, <3>1, <3>2 DEF Cut, Joined
    <3> QED  BY <1>1, <1>4, <2>1, <2>2, <2>4, <3>1, <3>2 DEF Cut, Stays
  <2>7. CASE e.op \in Changes
    <3>1. ~ Joined
      BY <1>6, <2>1, <2>7 DEF Cut
    <3>2. \A m \in k + 1 .. commit'[Starter] : log[Starter][m].op \notin Changes
      BY <1>2, <1>6, <2>4, <2>5, <2>7
    <3> QED  BY <1>1, <1>4, <2>1, <2>2, <2>4, <2>7, <3>1, <3>2 DEF Cut, Stays
  <2> QED  BY <2>6, <2>7
<1> QED  BY <1>5, <1>6

(* One case for each action; without Meet there is no introduction.        *)
LEMMA CutNext ==
  ASSUME ~ Meet, Inv, History, Uninvited, Cut, Inv', [Next]_vars
  PROVE  Cut' /\ Stays
<1>1. CASE UNCHANGED vars
  BY <1>1, CutFrame DEF Cut, vars, nodeVars, termVars, logVars, confVars, peerVars
<1>2. ASSUME NEW i \in Nodes, NEW p \in Puts, Put(i, p) PROVE Cut' /\ Stays
  BY <1>2, CutPropose DEF Put
<1>3. ASSUME NEW i \in Nodes, NEW j \in Nodes, Add(i, j) \/ Remove(i, j)
      PROVE  Cut' /\ Stays
  BY <1>3, CutPropose DEF Add, Remove
<1>4. ASSUME NEW i \in Nodes, NEW j \in Nodes, Introduce(i, j) PROVE FALSE
  BY <1>4 DEF Introduce
<1> QED  BY <1>1, <1>2, <1>3, <1>4, CutCampaign, CutApply, CutReplicate DEF Next

(* If nobody is introduced, a starter that has applied an addition never   *)
(* again commits an entry nor changes its configuration, unless a node is  *)
(* asked to add it in turn: nothing that is put, added or removed from then*)
(* on takes effect on it, whatever becomes of the others.                  *)
THEOREM SeveredTheorem == ~ Meet => (Spec => Severed)
<1> DEFINE ICut == Uninvited => Cut
<1> SUFFICES ASSUME ~ Meet PROVE Spec => Severed
  OBVIOUS
<1>1. Init => ICut
  <2> SUFFICES ASSUME Init PROVE Cut
    OBVIOUS
  <2> QED  BY StarterOK DEF Init, Cut, Joined
<1>2. Inv /\ History /\ Inv' /\ ICut /\ [Next]_vars
      => ICut' /\ [Uninvited' => Stays]_vars
  BY CutNext, AskedGrows
<1> QED  BY <1>1, <1>2, Invariance, HistoryTheorem, PTL DEF Spec, Severed
=============================================================================

---------------------------- MODULE ClusterProofs ---------------------------
(***************************************************************************)
(* Theorems about Cluster: the types, and that a node which is added never *)
(* learns of the starter, unless a node is asked to add the starter too.   *)
(***************************************************************************)
EXTENDS Cluster, WellFoundedInduction, SequenceTheorems, TLAPS

(* Every log begins with the entry its own node bootstrapped from.         *)
OwnFirst ==
  \A i \in Nodes : /\ commit[i] >= 1
                   /\ log[i][1].op = "add" /\ log[i][1].arg = i

(* No other entry adds the starter, unless a node was asked to.            *)
NeverAdded ==
  Uninvited =>
    \A i \in Nodes : \A k \in 2 .. Len(log[i]) :
      log[i][k].op = "add" => log[i][k].arg # Starter

Inv == TypeOK /\ OwnFirst /\ NeverAdded /\ StarterUnknown

-----------------------------------------------------------------------------
(* A set of naturals that is not empty has a least member.                 *)
LEMMA LeastOf ==
  ASSUME NEW S \in SUBSET Nat, S # {}
  PROVE  \E x \in S : \A y \in S : x <= y
<1> DEFINE R == OpToRel(<, Nat)
<1>1. \A y, x \in Nat : y < x => <<y, x>> \in R
  BY DEF OpToRel
<1>2. IsWellFoundedOn(R, Nat)
  BY NatLessThanWellFounded
<1> HIDE DEF R
<1>3. PICK x \in S : \A y \in S : ~ (<<y, x>> \in R)
  BY <1>2, WFMin
<1>4. ASSUME NEW y \in S PROVE x <= y
  <2>1. x \in Nat /\ y \in Nat
    OBVIOUS
  <2>2. ~ (y < x)
    BY <1>1, <1>3, <2>1, Zenon
  <2> QED  BY <2>1, <2>2
<1> QED  BY <1>4

(* A majority of the voters has entry n, as far as leader i knows.         *)
Counted(i, known, n, voters) ==
  Majority({i} \cup {j \in Nodes : known[j] >= n}, voters)

(* A leader commits no less than before, nothing beyond its log, and more  *)
(* only if it counts a majority of the voters.                             *)
LEMMA LeaderCommitsWithin ==
  ASSUME NEW i, NEW lg \in Seq(Entries), NEW t, NEW known, NEW voters,
         commit[i] \in Nat, commit[i] <= Len(lg)
  PROVE  /\ LeaderCommits(i, lg, t, known, voters) \in Nat
         /\ commit[i] <= LeaderCommits(i, lg, t, known, voters)
         /\ LeaderCommits(i, lg, t, known, voters) <= Len(lg)
         /\ \/ LeaderCommits(i, lg, t, known, voters) = commit[i]
            \/ Counted(i, known, LeaderCommits(i, lg, t, known, voters), voters)
<1> DEFINE Holders(k) == {i} \cup {j \in Nodes : known[j] >= k}
           Agreed == {k \in commit[i] + 1 .. Len(lg) :
                        lg[k].term = t /\ Majority(Holders(k), voters)}
           n == LeaderCommits(i, lg, t, known, voters)
<1>1. n = IF Agreed = {} THEN commit[i]
          ELSE CHOOSE k \in Agreed : \A m \in Agreed : m <= k
  BY DEF LeaderCommits
<1>2. /\ Agreed \subseteq commit[i] + 1 .. Len(lg)
      /\ \A k \in Agreed : Majority(Holders(k), voters)
  OBVIOUS
<1> HIDE DEF Agreed, n, Holders
<1>3. Len(lg) \in Nat
  OBVIOUS
<1>4. ASSUME Agreed # {}
      PROVE  \E k \in Agreed : \A m \in Agreed : m <= k
  <2> DEFINE Gaps == {Len(lg) - k : k \in Agreed}
  <2>1. Gaps \in SUBSET Nat
    <3>1. ASSUME NEW k \in Agreed PROVE Len(lg) - k \in Nat
      <4>1. k \in commit[i] + 1 .. Len(lg)
        BY <1>2
      <4> QED  BY <4>1, <1>3
    <3> QED  BY <3>1
  <2>2. PICK g \in Gaps : \A h \in Gaps : g <= h
    <3>1. Gaps # {}
      BY <1>4
    <3> HIDE DEF Gaps
    <3> QED  BY <2>1, <3>1, LeastOf
  <2>3. PICK k \in Agreed : g = Len(lg) - k
    BY <2>2
  <2>4. ASSUME NEW m \in Agreed PROVE m <= k
    <3>1. Len(lg) - k <= Len(lg) - m
      BY <2>2, <2>3
    <3> QED  BY <3>1, <1>2, <1>3
  <2> QED  BY <2>4
<1>5. n = commit[i] \/ n \in Agreed
  BY <1>1, <1>4
<1>6. n = commit[i] \/ n \in commit[i] + 1 .. Len(lg)
  BY <1>2, <1>5
<1>7. n \in Nat /\ commit[i] <= n /\ n <= Len(lg)
  BY <1>3, <1>6
<1>8. n = commit[i] \/ Majority(Holders(n), voters)
  BY <1>2, <1>5
<1> QED  BY <1>7, <1>8 DEF n, Holders, Counted

(* What the invariant says of one node.                                    *)
LEMMA NodeFacts ==
  ASSUME Inv, NEW i \in Nodes
  PROVE  /\ log[i] \in Seq(Entries) /\ Len(log[i]) \in Nat
         /\ commit[i] \in Nat /\ commit[i] >= 1 /\ commit[i] <= Len(log[i])
         /\ applied[i] \in Nat /\ applied[i] <= commit[i]
         /\ log[i][1].op = "add" /\ log[i][1].arg = i
<1>1. log[i] \in Seq(Entries) /\ commit[i] \in Nat /\ applied[i] \in Nat
  BY DEF Inv, TypeOK
<1> QED  BY <1>1 DEF Inv, TypeOK, OwnFirst

(* What a node's log becomes: what it was, if that has the leader's entries*)
(* already, or its own entries up to prev and the leader's from there on.  *)
LEMMA SplicedShape ==
  ASSUME Inv, NEW i \in Nodes, NEW j \in Nodes, NEW prev \in Nat,
         prev <= Len(log[j])
  PROVE  \/ Spliced(i, j, prev) = log[j] /\ Len(log[i]) <= Len(log[j])
         \/ /\ Spliced(i, j, prev) \in Seq(Entries)
            /\ Len(Spliced(i, j, prev)) = Len(log[i]) /\ prev < Len(log[i])
            /\ \A k \in 1 .. Len(log[i]) :
                 Spliced(i, j, prev)[k] = IF k <= prev THEN log[j][k] ELSE log[i][k]
<1> DEFINE has == \A k \in prev + 1 .. Len(log[i]) :
                    k <= Len(log[j]) /\ log[j][k].term = log[i][k].term
           s == SubSeq(log[j], 1, prev)
           r == SubSeq(log[i], prev + 1, Len(log[i]))
<1>1. /\ log[i] \in Seq(Entries) /\ log[j] \in Seq(Entries)
      /\ Len(log[i]) \in Nat /\ Len(log[j]) \in Nat
  BY NodeFacts
<1>2. CASE has
  <2>1. Spliced(i, j, prev) = log[j]
    BY <1>2 DEF Spliced
  <2>2. Len(log[i]) <= prev \/ Len(log[i]) <= Len(log[j])
    <3>1. CASE Len(log[i]) > prev
      <4>1. Len(log[i]) \in prev + 1 .. Len(log[i])
        BY <1>1, <3>1
      <4> QED  BY <4>1, <1>2
    <3> QED  BY <1>1, <3>1
  <2> QED  BY <1>1, <2>1, <2>2
<1>3. CASE ~has
  <2>1. Spliced(i, j, prev) = s \o r
    BY <1>3 DEF Spliced
  <2>2. prev < Len(log[i])
    BY <1>1, <1>3
  <2>3. /\ s \in Seq(Entries) /\ Len(s) = prev
        /\ \A k \in 1 .. prev : s[k] = log[j][k]
    BY <1>1
  <2>4. /\ r \in Seq(Entries) /\ Len(r) = Len(log[i]) - prev
        /\ \A k \in 1 .. Len(log[i]) - prev : r[k] = log[i][prev + k]
    BY <1>1, <2>2
  <2> HIDE DEF s, r
  <2>5. /\ s \o r \in Seq(Entries) /\ Len(s \o r) = Len(log[i])
        /\ \A k \in 1 .. Len(log[i]) :
             (s \o r)[k] = IF k <= prev THEN s[k] ELSE r[k - prev]
    <3>1. Len(s) + Len(r) = Len(log[i])
      BY <1>1, <2>3, <2>4
    <3>2. /\ s \o r \in Seq(Entries)
          /\ Len(s \o r) = Len(s) + Len(r)
          /\ \A k \in 1 .. Len(s) + Len(r) :
               (s \o r)[k] = IF k <= Len(s) THEN s[k] ELSE r[k - Len(s)]
      <4>1. s \in Seq(Entries) /\ r \in Seq(Entries)
        BY <2>3, <2>4
      <4> QED  BY <4>1, ConcatProperties, Zenon
    <3>3. Len(s) = prev
      BY <2>3
    <3> QED  BY <3>1, <3>2, <3>3, Zenon
  <2> DEFINE c == s \o r
  <2>6. /\ c \in Seq(Entries) /\ Len(c) = Len(log[i])
        /\ \A k \in 1 .. Len(log[i]) :
             c[k] = IF k <= prev THEN s[k] ELSE r[k - prev]
    BY <2>5
  <2> HIDE DEF c
  <2>7. ASSUME NEW k \in 1 .. Len(log[i])
        PROVE  c[k] = IF k <= prev THEN log[j][k] ELSE log[i][k]
    <3>1. CASE k <= prev
      <4>1. k \in 1 .. prev
        BY <1>1, <3>1
      <4> QED  BY <2>3, <2>6, <3>1, <4>1
    <3>2. CASE k > prev
      <4>1. k - prev \in 1 .. Len(log[i]) - prev /\ prev + (k - prev) = k
        BY <1>1, <3>2
      <4>2. ~ (k <= prev)
        BY <3>2
      <4>3. c[k] = r[k - prev]
        BY <2>6, <4>2
      <4>4. r[k - prev] = log[i][prev + (k - prev)]
        BY <2>4, <4>1
      <4> QED  BY <4>1, <4>2, <4>3, <4>4
    <3> QED  BY <3>1, <3>2
  <2>8. Spliced(i, j, prev) = c
    BY <2>1 DEF c
  <2> QED  BY <2>2, <2>6, <2>7, <2>8
<1> QED  BY <1>2, <1>3

(* It keeps its own first entry, adds no starter, and is long enough for   *)
(* what the leader has committed.                                          *)
LEMMA SplicedKeeps ==
  ASSUME Inv, NEW i \in Nodes, NEW j \in Nodes, NEW prev \in Nat,
         commit[j] <= prev, prev <= Len(log[j])
  PROVE  /\ Spliced(i, j, prev) \in Seq(Entries)
         /\ commit[i] <= Len(Spliced(i, j, prev))
         /\ commit[j] <= Len(Spliced(i, j, prev))
         /\ Spliced(i, j, prev)[1] = log[j][1]
         /\ Uninvited => \A k \in 2 .. Len(Spliced(i, j, prev)) :
              Spliced(i, j, prev)[k].op = "add"
                => Spliced(i, j, prev)[k].arg # Starter
<1> DEFINE c == Spliced(i, j, prev)
<1>1. /\ log[i] \in Seq(Entries) /\ log[j] \in Seq(Entries)
      /\ commit[i] \in Nat /\ commit[i] <= Len(log[i])
      /\ commit[j] \in Nat /\ commit[j] >= 1 /\ commit[j] <= Len(log[j])
      /\ Len(log[i]) \in Nat /\ Len(log[j]) \in Nat
  BY NodeFacts
<1>2. CASE c = log[j] /\ Len(log[i]) <= Len(log[j])
  <2> HIDE DEF c
  <2>1. /\ c \in Seq(Entries) /\ commit[i] <= Len(c) /\ commit[j] <= Len(c)
        /\ c[1] = log[j][1]
    BY <1>1, <1>2
  <2>2. Uninvited => \A k \in 2 .. Len(c) : c[k].op = "add" => c[k].arg # Starter
    BY <1>2 DEF Inv, NeverAdded
  <2> QED  BY <2>1, <2>2 DEF c
<1>3. CASE /\ c \in Seq(Entries) /\ Len(c) = Len(log[i]) /\ prev < Len(log[i])
           /\ \A k \in 1 .. Len(log[i]) :
                c[k] = IF k <= prev THEN log[j][k] ELSE log[i][k]
  <2> HIDE DEF c
  <2>1. commit[i] <= Len(c) /\ commit[j] <= Len(c)
    BY <1>1, <1>3
  <2>2. c[1] = log[j][1]
    <3>1. 1 \in 1 .. Len(log[i]) /\ 1 <= prev
      BY <1>1, <1>3
    <3> QED  BY <1>3, <3>1
  <2>3. ASSUME Uninvited, NEW k \in 2 .. Len(c), c[k].op = "add"
        PROVE  c[k].arg # Starter
    <3>1. k \in 1 .. Len(log[i])
      BY <1>1, <1>3
    <3>2. CASE k <= prev
      <4>1. k \in 2 .. Len(log[j]) /\ c[k] = log[j][k]
        BY <1>1, <1>3, <3>1, <3>2
      <4> QED  BY <2>3, <4>1 DEF Inv, NeverAdded
    <3>3. CASE ~ (k <= prev)
      <4>1. k \in 2 .. Len(log[i]) /\ c[k] = log[i][k]
        BY <1>3, <3>1, <3>3
      <4> QED  BY <2>3, <4>1 DEF Inv, NeverAdded
    <3> QED  BY <3>2, <3>3
  <2> QED  BY <1>3, <2>1, <2>2, <2>3 DEF c
<1> QED  BY <1>1, <1>2, <1>3, SplicedShape

(* The first entry of every log is the one its own node boots with.        *)
LEMMA InvInit == Init => Inv
<1> SUFFICES ASSUME Init PROVE Inv
  OBVIOUS
<1>1. ASSUME NEW i \in Nodes
      PROVE  /\ Boot(i) \in Seq(Entries) /\ Len(Boot(i)) = 1
             /\ Boot(i)[1].op = "add" /\ Boot(i)[1].arg = i
  BY DEF Boot, Entry, Entries
<1> QED
  BY <1>1 DEF Init, Inv, TypeOK, OwnFirst, NeverAdded, StarterUnknown

-----------------------------------------------------------------------------
(* An entry at the end of a log: a new leader's, or a proposal.            *)
LEMMA AppendKeeps ==
  ASSUME Inv, NEW i \in Nodes, NEW e \in Entries,
         Uninvited' => Uninvited /\ (e.op = "add" => e.arg # Starter),
         log' = [log EXCEPT ![i] = Append(@, e)],
         NEW t, NEW known,
         commit' = [commit EXCEPT
           ![i] = LeaderCommits(i, log'[i], t, known, conf[i])],
         UNCHANGED <<applied>>
  PROVE  /\ log' \in [Nodes -> Seq(Entries)] /\ commit' \in [Nodes -> Nat]
         /\ \A j \in Nodes : applied'[j] <= commit'[j] /\ commit'[j] <= Len(log'[j])
         /\ OwnFirst' /\ NeverAdded'
<1>1. /\ log[i] \in Seq(Entries) /\ commit[i] \in Nat /\ commit[i] >= 1
      /\ commit[i] <= Len(log[i]) /\ Len(log[i]) \in Nat
  BY NodeFacts
<1>2. /\ Append(log[i], e) \in Seq(Entries)
      /\ Len(Append(log[i], e)) = Len(log[i]) + 1
      /\ \A k \in 1 .. Len(log[i]) : Append(log[i], e)[k] = log[i][k]
      /\ Append(log[i], e)[Len(log[i]) + 1] = e
  BY <1>1
<1>3. log'[i] = Append(log[i], e) /\ \A j \in Nodes \ {i} : log'[j] = log[j]
  BY DEF Inv, TypeOK
<1>4. /\ LeaderCommits(i, log'[i], t, known, conf[i]) \in Nat
      /\ commit[i] <= LeaderCommits(i, log'[i], t, known, conf[i])
      /\ LeaderCommits(i, log'[i], t, known, conf[i]) <= Len(log'[i])
  <2>1. log'[i] \in Seq(Entries) /\ commit[i] <= Len(log'[i])
    BY <1>1, <1>2, <1>3
  <2> HIDE DEF Inv
  <2> QED  BY <1>1, <2>1, LeaderCommitsWithin
<1>5. /\ commit'[i] \in Nat /\ commit[i] <= commit'[i] /\ commit'[i] <= Len(log'[i])
      /\ \A j \in Nodes \ {i} : commit'[j] = commit[j]
  BY <1>4 DEF Inv, TypeOK
<1>6. log' \in [Nodes -> Seq(Entries)] /\ commit' \in [Nodes -> Nat]
  BY <1>2, <1>4 DEF Inv, TypeOK
<1>7. \A j \in Nodes : applied'[j] <= commit'[j] /\ commit'[j] <= Len(log'[j])
  BY <1>1, <1>3, <1>5 DEF Inv, TypeOK
<1>8. OwnFirst'
  BY <1>1, <1>2, <1>3, <1>5 DEF Inv, TypeOK, OwnFirst
<1>9. NeverAdded'
  <2> SUFFICES ASSUME Uninvited', NEW j \in Nodes, NEW k \in 2 .. Len(log'[j]),
                      log'[j][k].op = "add"
               PROVE  log'[j][k].arg # Starter
    BY DEF NeverAdded
  <2>1. CASE j = i
    BY <1>1, <1>2, <1>3, <2>1 DEF Inv, NeverAdded
  <2>2. CASE j # i
    BY <1>3, <2>2 DEF Inv, NeverAdded
  <2> QED  BY <2>1, <2>2
<1> QED  BY <1>6, <1>7, <1>8, <1>9

(* The invariant is inductive: elections.                                  *)
LEMMA InvCampaign ==
  ASSUME Inv, NEW i \in Nodes, Campaign(i)
  PROVE  Inv'
<1> DEFINE t == term[i] + 1
<1> DEFINE Behind == {j \in conf[i] \ {i} :
                       Reaches(i, j) /\ term[j] < t /\ role[j] # "stopped"}
           Votes == {i} \cup {j \in Behind : Reaches(j, i) /\ UpToDate(i, j)}
           wins == Majority(Votes, conf[i])
<1> HIDE DEF Votes, wins
<1>0. /\ term' \in [Nodes -> Nat] /\ lead' \in [Nodes -> Nodes \cup {None}]
      /\ role' \in [Nodes -> {"leader", "follower", "stopped"}]
  <2>1. /\ term' = [j \in Nodes |-> IF j \in Behind \cup {i} THEN t ELSE term[j]]
        /\ role' = [j \in Nodes |->
                      IF j = i /\ wins THEN "leader"
                      ELSE IF j \in Behind \cup {i} THEN "follower" ELSE role[j]]
        /\ lead' = [j \in Nodes |->
                      IF j = i /\ wins THEN i
                      ELSE IF j \in Behind \cup {i} THEN None ELSE lead[j]]
    BY DEF Campaign, Votes, wins
  <2>2. /\ term \in [Nodes -> Nat] /\ lead \in [Nodes -> Nodes \cup {None}]
        /\ role \in [Nodes -> {"leader", "follower", "stopped"}]
    BY DEF Inv, TypeOK
  <2> HIDE DEF Behind
  <2> QED  BY <2>1, <2>2
<1>1. UNCHANGED <<view, map, applied, conf>>
  BY DEF Campaign, nodeVars
<1>2. /\ asked' = asked /\ (Uninvited' <=> Uninvited)
      /\ followed' \in [Nodes -> SUBSET Nodes]
  <2>1. \/ followed' = followed
        \/ followed' = [followed EXCEPT ![i] = @ \cup {i}]
    BY Zenon DEF Campaign
  <2>2. followed \in [Nodes -> SUBSET Nodes]
    BY DEF Inv, TypeOK
  <2>3. asked' = asked
    BY DEF Campaign
  <2> QED  BY <2>1, <2>2, <2>3 DEF Uninvited
<1>3. CASE UNCHANGED <<log, commit, confAt, next, match>>
  <2>1. TypeOK'
    BY <1>0, <1>1, <1>2, <1>3 DEF Inv, TypeOK
  <2> QED
    BY <1>1, <1>2, <1>3, <2>1 DEF Inv, OwnFirst, NeverAdded, StarterUnknown
<1>4. CASE /\ log' = [log EXCEPT ![i] = Append(@, Entry(t, "empty", i))]
           /\ confAt' = [confAt EXCEPT ![i] = Len(log[i])]
           /\ next' = [next EXCEPT ![i] = [j \in Nodes |-> Len(log[i]) + 1]]
           /\ match' = [match EXCEPT ![i] = [j \in Nodes |-> 0]]
           /\ commit' = [commit EXCEPT
                ![i] = LeaderCommits(i, log'[i], t, match'[i], conf[i])]
  <2>1. /\ Entry(t, "empty", i) \in Entries /\ Entry(t, "empty", i).op = "empty"
    BY DEF Entry, Entries, Inv, TypeOK
  <2>2. /\ log' \in [Nodes -> Seq(Entries)] /\ commit' \in [Nodes -> Nat]
        /\ \A j \in Nodes : applied'[j] <= commit'[j] /\ commit'[j] <= Len(log'[j])
        /\ OwnFirst' /\ NeverAdded'
    BY <1>1, <1>2, <1>4, <2>1, AppendKeeps
  <2>3. Len(log[i]) \in Nat
    BY DEF Inv, TypeOK
  <2>4. /\ confAt' \in [Nodes -> Nat]
        /\ next' \in [Nodes -> [Nodes -> Nat \ {0}]]
        /\ match' \in [Nodes -> [Nodes -> Nat]]
    <3>1. /\ [j \in Nodes |-> Len(log[i]) + 1] \in [Nodes -> Nat \ {0}]
          /\ [j \in Nodes |-> 0] \in [Nodes -> Nat]
      BY <2>3
    <3>2. /\ confAt \in [Nodes -> Nat]
          /\ next \in [Nodes -> [Nodes -> Nat \ {0}]]
          /\ match \in [Nodes -> [Nodes -> Nat]]
      BY DEF Inv, TypeOK
    <3> QED  BY <1>4, <2>3, <3>1, <3>2
  <2>5. TypeOK'
    BY <1>0, <1>1, <1>2, <2>2, <2>4 DEF Inv, TypeOK
  <2> QED  BY <1>1, <1>2, <2>2, <2>5 DEF Inv, StarterUnknown
<1> QED  BY <1>3, <1>4 DEF Campaign

(* Proposals, wherever they are made.                                      *)
LEMMA InvPropose ==
  ASSUME Inv, NEW i \in Nodes, NEW op \in {"put", "add", "remove"},
         NEW arg \in Nodes \cup Puts,
         op = "put" => arg \in Puts, op # "put" => arg \in Nodes,
         Propose(i, op, arg)
  PROVE  Inv'
<1>1. /\ UNCHANGED <<view, map, term, role, lead, applied, conf, next, match,
                     followed>>
      /\ asked' = asked \cup {<<i, op, arg>>} /\ lead[i] # None
  BY DEF Propose, nodeVars, termVars, peerVars
<1>2. /\ asked' \subseteq Nodes \X {"put", "add", "remove"} \X (Nodes \cup Puts)
      /\ Uninvited' => Uninvited /\ (op = "add" => arg # Starter)
  <2>1. <<i, op, arg>> \in Nodes \X {"put", "add", "remove"} \X (Nodes \cup Puts)
    OBVIOUS
  <2>2. asked \subseteq Nodes \X {"put", "add", "remove"} \X (Nodes \cup Puts)
    BY DEF Inv, TypeOK
  <2> QED  BY <1>1, <2>1, <2>2 DEF Uninvited
<1>3. CASE UNCHANGED <<log, commit, confAt>>
  <2>1. TypeOK'
    BY <1>1, <1>2, <1>3 DEF Inv, TypeOK
  <2> QED
    BY <1>1, <1>2, <1>3, <2>1 DEF Inv, OwnFirst, NeverAdded, StarterUnknown
<1>4. ASSUME NEW l \in Nodes, LeaderAppends(l, op, arg) PROVE Inv'
  <2> DEFINE refused == op # "put" /\ confAt[l] > applied[l]
             e == IF refused THEN Entry(term[l], "empty", l)
                  ELSE Entry(term[l], op, arg)
  <2>1. /\ log' = [log EXCEPT ![l] = Append(@, e)]
        /\ commit' = [commit EXCEPT
             ![l] = LeaderCommits(l, log'[l], term[l], match[l], conf[l])]
        /\ confAt' = IF op # "put" /\ ~refused
                     THEN [confAt EXCEPT ![l] = Len(log'[l])] ELSE confAt
    BY <1>4 DEF LeaderAppends
  <2>2. /\ e \in Entries
        /\ Uninvited' => Uninvited /\ (e.op = "add" => e.arg # Starter)
    <3>1. term[l] \in Nat
      BY DEF Inv, TypeOK
    <3>2. CASE refused
      BY <1>2, <3>1, <3>2 DEF Entry, Entries
    <3>3. CASE ~refused
      BY <1>2, <3>1, <3>3 DEF Entry, Entries
    <3> QED  BY <3>2, <3>3
  <2> HIDE DEF e
  <2>3. /\ log' \in [Nodes -> Seq(Entries)] /\ commit' \in [Nodes -> Nat]
        /\ \A j \in Nodes : applied'[j] <= commit'[j] /\ commit'[j] <= Len(log'[j])
        /\ OwnFirst' /\ NeverAdded'
    BY <1>1, <2>1, <2>2, AppendKeeps
  <2>4. confAt' \in [Nodes -> Nat]
    <3>1. log'[l] \in Seq(Entries)
      BY <2>3
    <3>2. Len(log'[l]) \in Nat
      BY <3>1
    <3>3. confAt \in [Nodes -> Nat]
      BY DEF Inv, TypeOK
    <3> QED  BY <2>1, <3>2, <3>3
  <2>5. TypeOK'
    BY <1>1, <1>2, <2>3, <2>4 DEF Inv, TypeOK
  <2> QED  BY <1>1, <1>2, <2>3, <2>5 DEF Inv, StarterUnknown
<1>5. lead[i] \in Nodes
  BY <1>1 DEF Inv, TypeOK
<1> QED  BY <1>3, <1>4, <1>5 DEF Propose

-----------------------------------------------------------------------------
(* Replication: what the follower's log and the two commit indices become. *)
LEMMA InvReplicate ==
  ASSUME Inv, NEW i \in Nodes, NEW j \in Nodes, Replicate(i, j)
  PROVE  Inv'
<1> DEFINE prev == next[i][j] - 1
           stale == prev < commit[j]
           fits == /\ ~stale /\ prev <= Len(log[j])
                   /\ TermAt(j, prev) = TermAt(i, prev)
           ack == Most(match[i][j], IF stale THEN commit[j] ELSE Len(log[i]))
           known == IF stale \/ fits THEN ack ELSE match[i][j]
           probe == IF stale \/ fits THEN Most(next[i][j], ack + 1)
                    ELSE Most(1, Least(prev, Len(log[j]) + 1))
           n == LeaderCommits(i, log[i], term[i], match'[i], conf[i])
           m == IF fits THEN Most(commit[j], commit[i]) ELSE commit[j]
<1>1. /\ i # j
      /\ term' = [term EXCEPT ![j] = term[i]]
      /\ role' = [role EXCEPT ![j] = "follower"]
      /\ lead' = [lead EXCEPT ![j] = i]
      /\ log' = IF fits THEN [log EXCEPT ![j] = Spliced(i, j, prev)] ELSE log
      /\ \/ /\ match' = [match EXCEPT ![i][j] = known]
            /\ next' = [next EXCEPT ![i][j] = probe]
         \/ UNCHANGED <<next, match>>
      /\ commit' = [commit EXCEPT ![i] = n, ![j] = IF fits THEN Most(@, commit[i]) ELSE @]
      /\ UNCHANGED <<view, map, applied, conf, confAt, asked>>
      /\ followed' = [followed EXCEPT ![j] = @ \cup {i}]
  <2>1. /\ i # j /\ UNCHANGED <<view, map, applied, conf, confAt, asked>>
        /\ followed' = [followed EXCEPT ![j] = @ \cup {i}]
    BY DEF Replicate, nodeVars, confVars
  <2>2. /\ term' = [term EXCEPT ![j] = term[i]]
        /\ role' = [role EXCEPT ![j] = "follower"]
        /\ lead' = [lead EXCEPT ![j] = i]
    BY DEF Replicate
  <2>3. log' = IF fits THEN [log EXCEPT ![j] = Spliced(i, j, prev)] ELSE log
    BY DEF Replicate
  <2>4. \/ /\ match' = [match EXCEPT ![i][j] = known]
           /\ next' = [next EXCEPT ![i][j] = probe]
        \/ UNCHANGED <<next, match>>
    BY Zenon DEF Replicate, peerVars
  <2>5. commit' = [commit EXCEPT ![i] = n,
                                 ![j] = IF fits THEN Most(@, commit[i]) ELSE @]
    BY Zenon DEF Replicate
  <2> QED  BY <2>1, <2>2, <2>3, <2>4, <2>5
<1>2. /\ prev \in Nat /\ match[i][j] \in Nat /\ next[i][j] \in Nat \ {0}
  <2>1. /\ match \in [Nodes -> [Nodes -> Nat]]
        /\ next \in [Nodes -> [Nodes -> Nat \ {0}]]
    BY DEF Inv, TypeOK
  <2>2. match[i] \in [Nodes -> Nat] /\ next[i] \in [Nodes -> Nat \ {0}]
    BY <2>1
  <2> QED  BY <2>2
<1>3. /\ commit[i] \in Nat /\ commit[j] \in Nat
      /\ Len(log[i]) \in Nat /\ Len(log[j]) \in Nat
      /\ commit[i] <= Len(log[i]) /\ commit[j] <= Len(log[j])
      /\ commit[i] >= 1 /\ commit[j] >= 1
  BY NodeFacts
<1>4. known \in Nat /\ probe \in Nat \ {0}
  <2>1. ack \in Nat
    BY <1>2, <1>3 DEF Most
  <2> HIDE DEF ack, prev
  <2> QED  BY <1>2, <1>3, <2>1 DEF Most, Least
<1>5. n \in Nat /\ commit[i] <= n /\ n <= Len(log[i])
  <2>1. log[i] \in Seq(Entries)
    BY NodeFacts
  <2> QED  BY <1>3, <2>1, LeaderCommitsWithin
<1> HIDE DEF n, known, probe
<1>6. /\ match' \in [Nodes -> [Nodes -> Nat]]
      /\ next' \in [Nodes -> [Nodes -> Nat \ {0}]]
  <2>1. /\ match \in [Nodes -> [Nodes -> Nat]]
        /\ next \in [Nodes -> [Nodes -> Nat \ {0}]]
    BY DEF Inv, TypeOK
  <2>2. CASE UNCHANGED <<next, match>>
    BY <2>1, <2>2
  <2>3. CASE /\ match' = [match EXCEPT ![i][j] = known]
             /\ next' = [next EXCEPT ![i][j] = probe]
    <3>1. [match[i] EXCEPT ![j] = known] \in [Nodes -> Nat]
      BY <1>4, <2>1
    <3>2. [next[i] EXCEPT ![j] = probe] \in [Nodes -> Nat \ {0}]
      BY <1>4, <2>1
    <3> QED  BY <2>1, <2>3, <3>1, <3>2
  <2> QED  BY <1>1, <2>2, <2>3
<1>7. /\ log'[j] \in Seq(Entries) /\ \A l \in Nodes \ {j} : log'[l] = log[l]
      /\ log' \in [Nodes -> Seq(Entries)]
      /\ m \in Nat /\ commit[j] <= m /\ m <= Len(log'[j])
      /\ log'[j][1] = log[j][1]
      /\ Uninvited => \A k \in 2 .. Len(log'[j]) :
           log'[j][k].op = "add" => log'[j][k].arg # Starter
  <2>1. CASE fits
    <3>1. commit[j] <= prev /\ prev <= Len(log[j])
      BY <1>2, <1>3, <2>1
    <3>2. log'[j] = Spliced(i, j, prev) /\ \A l \in Nodes \ {j} : log'[l] = log[l]
      BY <1>1, <2>1 DEF Inv, TypeOK
    <3>3. /\ Spliced(i, j, prev) \in Seq(Entries)
          /\ commit[i] <= Len(Spliced(i, j, prev))
          /\ commit[j] <= Len(Spliced(i, j, prev))
          /\ Spliced(i, j, prev)[1] = log[j][1]
          /\ Uninvited => \A k \in 2 .. Len(Spliced(i, j, prev)) :
               Spliced(i, j, prev)[k].op = "add"
                 => Spliced(i, j, prev)[k].arg # Starter
      BY <1>2, <3>1, SplicedKeeps
    <3>4. log' \in [Nodes -> Seq(Entries)]
      BY <1>1, <2>1, <3>3 DEF Inv, TypeOK
    <3>5. m = IF commit[j] < commit[i] THEN commit[i] ELSE commit[j]
      BY <2>1 DEF Most
    <3> HIDE DEF m, prev
    <3> QED  BY <1>3, <3>2, <3>3, <3>4, <3>5
  <2>2. CASE ~fits
    <3>1. log' = log /\ m = commit[j] /\ log[j] \in Seq(Entries)
      BY <1>1, <2>2, NodeFacts
    <3>2. log \in [Nodes -> Seq(Entries)]
      BY DEF Inv, TypeOK
    <3> HIDE DEF m, fits, prev
    <3> QED  BY <1>3, <3>1, <3>2 DEF Inv, NeverAdded
  <2> QED  BY <2>1, <2>2
<1>8. /\ commit'[i] = n /\ commit'[j] = m
      /\ \A l \in Nodes \ {i, j} : commit'[l] = commit[l]
      /\ commit' \in [Nodes -> Nat]
  <2>1. commit \in [Nodes -> Nat]
    BY DEF Inv, TypeOK
  <2>2. commit' = [[commit EXCEPT ![i] = n] EXCEPT ![j] = m]
    BY <1>1, <2>1
  <2> HIDE DEF m
  <2> QED  BY <1>1, <1>5, <1>7, <2>1, <2>2
<1> HIDE DEF fits, prev, stale, ack, m
<1>9. \A l \in Nodes : applied'[l] <= commit'[l] /\ commit'[l] <= Len(log'[l])
  <2> SUFFICES ASSUME NEW l \in Nodes
               PROVE  applied'[l] <= commit'[l] /\ commit'[l] <= Len(log'[l])
    OBVIOUS
  <2>1. /\ applied[l] \in Nat /\ commit[l] \in Nat /\ applied[l] <= commit[l]
        /\ commit[l] <= Len(log[l]) /\ Len(log[l]) \in Nat
    BY NodeFacts
  <2>2. applied' = applied
    BY <1>1
  <2>3. Len(log'[j]) \in Nat
    BY <1>7
  <2>4. CASE l = i
    BY <1>1, <1>5, <1>7, <1>8, <2>1, <2>2, <2>4
  <2>5. CASE l = j
    BY <1>7, <1>8, <2>1, <2>2, <2>3, <2>5
  <2>6. CASE l \notin {i, j}
    BY <1>7, <1>8, <2>1, <2>2, <2>6
  <2> QED  BY <2>4, <2>5, <2>6
<1>10. TypeOK'
  <2>1. /\ term' \in [Nodes -> Nat] /\ lead' \in [Nodes -> Nodes \cup {None}]
        /\ role' \in [Nodes -> {"leader", "follower", "stopped"}]
        /\ followed' \in [Nodes -> SUBSET Nodes]
    BY <1>1 DEF Inv, TypeOK
  <2> QED  BY <1>1, <1>6, <1>7, <1>8, <1>9, <2>1 DEF Inv, TypeOK
<1>11. OwnFirst'
  <2> SUFFICES ASSUME NEW l \in Nodes
               PROVE  /\ commit'[l] >= 1
                      /\ log'[l][1].op = "add" /\ log'[l][1].arg = l
    BY DEF OwnFirst
  <2>1. /\ commit[l] \in Nat /\ commit[l] >= 1
        /\ log[l][1].op = "add" /\ log[l][1].arg = l
    BY NodeFacts
  <2>2. commit'[l] >= 1
    BY <1>1, <1>3, <1>5, <1>7, <1>8, <2>1
  <2>3. log'[l][1] = log[l][1]
    BY <1>7
  <2> QED  BY <2>1, <2>2, <2>3
<1>12. Uninvited' <=> Uninvited
  BY <1>1 DEF Uninvited
<1>13. NeverAdded'
  BY <1>7, <1>12 DEF Inv, NeverAdded
<1> QED  BY <1>1, <1>10, <1>11, <1>12, <1>13 DEF Inv, StarterUnknown

-----------------------------------------------------------------------------
(* The node applies an entry: it adds a node, which is the starter only if *)
(* the node is the starter, at its first entry.                            *)
LEMMA InvApply ==
  ASSUME Inv, NEW i \in Nodes, Apply(i)
  PROVE  Inv'
<1> DEFINE k == applied[i] + 1
           e == log[i][k]
<1>1. /\ k <= commit[i]
      /\ applied' = [applied EXCEPT ![i] = k]
      /\ UNCHANGED <<log, confAt, asked, followed>>
      /\ Uninvited' <=> Uninvited
  BY DEF Apply, Uninvited
<1>2. /\ log[i] \in Seq(Entries) /\ Len(log[i]) \in Nat /\ Len(log[i]) >= 1
      /\ k \in 1 .. Len(log[i]) /\ commit[i] \in Nat /\ commit[i] <= Len(log[i])
  BY <1>1, NodeFacts
<1>3. e \in Entries
  BY <1>2
<1>4. ASSUME Uninvited, e.op = "add", i # Starter PROVE e.arg # Starter
  <2>1. CASE k = 1
    BY <1>4, <2>1, NodeFacts
  <2>2. CASE k # 1
    <3>1. k \in 2 .. Len(log[i])
      BY <1>2, <2>2
    <3> QED  BY <1>4, <3>1 DEF Inv, NeverAdded
  <2> QED  BY <2>1, <2>2
<1> HIDE DEF e, k
<1>5. applied' \in [Nodes -> Nat]
  BY <1>1, <1>2 DEF Inv, TypeOK
<1>6. SUFFICES
        /\ view' \in [Nodes -> SUBSET Nodes] /\ map' \in [Nodes -> SUBSET Puts]
        /\ UNCHANGED <<term, lead>>
        /\ role' \in [Nodes -> {"leader", "follower", "stopped"}]
        /\ conf' \in [Nodes -> SUBSET Nodes] /\ StarterUnknown'
        /\ next' \in [Nodes -> [Nodes -> Nat \ {0}]]
        /\ match' \in [Nodes -> [Nodes -> Nat]]
        /\ commit' \in [Nodes -> Nat]
        /\ \A l \in Nodes : commit[l] <= commit'[l] /\ commit'[l] <= Len(log[l])
  <2>1. \A l \in Nodes : applied'[l] <= commit'[l] /\ commit'[l] <= Len(log'[l])
    <3> SUFFICES ASSUME NEW l \in Nodes
                 PROVE  applied'[l] <= commit'[l] /\ commit'[l] <= Len(log'[l])
      OBVIOUS
    <3>1. /\ applied[l] \in Nat /\ commit[l] \in Nat /\ applied[l] <= commit[l]
      BY NodeFacts
    <3>2. applied'[l] = IF l = i THEN k ELSE applied[l]
      BY <1>1 DEF Inv, TypeOK
    <3>3. commit'[l] \in Nat /\ commit[l] <= commit'[l] /\ commit'[l] <= Len(log'[l])
      BY <1>1, <1>6
    <3> QED  BY <1>1, <1>2, <3>1, <3>2, <3>3
  <2>2. TypeOK'
    BY <1>1, <1>5, <1>6, <2>1 DEF Inv, TypeOK
  <2>3. OwnFirst'
    <3> SUFFICES ASSUME NEW l \in Nodes
                 PROVE  /\ commit'[l] >= 1
                        /\ log'[l][1].op = "add" /\ log'[l][1].arg = l
      BY DEF OwnFirst
    <3>1. /\ commit[l] \in Nat /\ commit[l] >= 1
          /\ log[l][1].op = "add" /\ log[l][1].arg = l
      BY NodeFacts
    <3> QED  BY <1>1, <1>6, <3>1
  <2>4. NeverAdded'
    BY <1>1 DEF Inv, NeverAdded
  <2> QED  BY <1>6, <2>2, <2>3, <2>4 DEF Inv
<1>7. \A l \in Nodes : commit[l] \in Nat /\ commit[l] <= commit[l]
                        /\ commit[l] <= Len(log[l])
  BY NodeFacts
<1>8. /\ view \in [Nodes -> SUBSET Nodes] /\ map \in [Nodes -> SUBSET Puts]
      /\ role \in [Nodes -> {"leader", "follower", "stopped"}]
      /\ conf \in [Nodes -> SUBSET Nodes] /\ StarterUnknown
      /\ next \in [Nodes -> [Nodes -> Nat \ {0}]]
      /\ match \in [Nodes -> [Nodes -> Nat]]
      /\ commit \in [Nodes -> Nat]
  BY DEF Inv, TypeOK
<1>9. CASE e.op = "add" /\ AddNode(i, e.arg)
  <2>1. e.arg \in Nodes
    BY <1>3, <1>9 DEF Entries
  <2>2. /\ view' = [view EXCEPT ![i] = @ \cup {e.arg}]
        /\ conf' = [conf EXCEPT ![i] = @ \cup {e.arg}]
        /\ UNCHANGED <<term, role, lead, commit, map>>
        /\ \/ UNCHANGED <<next, match>>
           \/ /\ next' = [next EXCEPT ![i][e.arg] = Len(log[i])]
              /\ match' = [match EXCEPT ![i][e.arg] = 0]
    BY <1>9 DEF AddNode, AddPeer, termVars, peerVars
  <2>3. /\ view' \in [Nodes -> SUBSET Nodes] /\ conf' \in [Nodes -> SUBSET Nodes]
    BY <1>8, <2>1, <2>2
  <2>4. StarterUnknown'
    BY <1>1, <1>4, <1>8, <1>9, <2>2 DEF StarterUnknown
  <2>5. /\ next' \in [Nodes -> [Nodes -> Nat \ {0}]]
        /\ match' \in [Nodes -> [Nodes -> Nat]]
    <3>1. next[i] \in [Nodes -> Nat \ {0}] /\ match[i] \in [Nodes -> Nat]
      BY <1>8
    <3>2. Len(log[i]) \in Nat \ {0}
      BY <1>2
    <3>3. /\ [next[i] EXCEPT ![e.arg] = Len(log[i])] \in [Nodes -> Nat \ {0}]
          /\ [match[i] EXCEPT ![e.arg] = 0] \in [Nodes -> Nat]
      BY <3>1, <3>2
    <3>4. CASE UNCHANGED <<next, match>>
      BY <1>8, <3>4
    <3>5. CASE /\ next' = [next EXCEPT ![i][e.arg] = Len(log[i])]
               /\ match' = [match EXCEPT ![i][e.arg] = 0]
      BY <1>8, <3>3, <3>5
    <3> QED  BY <2>2, <3>4, <3>5
  <2> QED  BY <1>7, <1>8, <2>2, <2>3, <2>4, <2>5
<1>10. CASE e.op = "remove" /\ RemoveNode(i, e.arg)
  <2> DEFINE left == conf[i] \ {e.arg}
             n == LeaderCommits(i, log[i], term[i], match[i], left)
  <2>1. /\ view' = [view EXCEPT ![i] = view[i] \ ({e.arg} \ {i})]
        /\ conf' = [conf EXCEPT ![i] = left]
        /\ UNCHANGED <<term, lead, map, next, match>>
    BY <1>10 DEF RemoveNode, Unregistered, peerVars
  <2>2. role' = [role EXCEPT ![i] = "stopped"] \/ role' = role
    BY <1>10 DEF RemoveNode
  <2>3. commit' = [commit EXCEPT ![i] = n] \/ commit' = commit
    BY <1>10 DEF RemoveNode
  <2>4. n \in Nat /\ commit[i] <= n /\ n <= Len(log[i])
    BY <1>2, LeaderCommitsWithin
  <2> HIDE DEF n
  <2>5. /\ commit' \in [Nodes -> Nat]
        /\ \A l \in Nodes : commit[l] <= commit'[l] /\ commit'[l] <= Len(log[l])
    BY <1>7, <1>8, <2>3, <2>4
  <2>6. /\ view' \in [Nodes -> SUBSET Nodes] /\ conf' \in [Nodes -> SUBSET Nodes]
        /\ role' \in [Nodes -> {"leader", "follower", "stopped"}]
    BY <1>8, <2>1, <2>2
  <2>7. StarterUnknown'
    BY <1>1, <1>8, <2>1 DEF StarterUnknown
  <2> QED  BY <1>8, <2>1, <2>5, <2>6, <2>7
<1>11. CASE /\ e.op = "put" /\ map' = [map EXCEPT ![i] = @ \cup {e.arg}]
            /\ UNCHANGED <<view, conf, commit, termVars, peerVars>>
  <2>1. e.arg \in Puts
    BY <1>3, <1>11 DEF Entries
  <2> QED  BY <1>1, <1>7, <1>8, <1>11, <2>1 DEF termVars, peerVars, StarterUnknown
<1>12. CASE UNCHANGED <<nodeVars, conf, commit, termVars, peerVars>>
  BY <1>1, <1>7, <1>8, <1>12 DEF nodeVars, termVars, peerVars, StarterUnknown
<1> QED  BY <1>9, <1>10, <1>11, <1>12 DEF Apply, e, k

(* An introduction changes a view and nothing else.                        *)
LEMMA InvIntroduce ==
  ASSUME Inv, NEW i \in Nodes, NEW j \in Nodes, Introduce(i, j)
  PROVE  Inv'
<1>1. /\ view' = [view EXCEPT ![i] = @ \cup {j}]
      /\ UNCHANGED <<map, term, role, lead, log, commit, applied, conf, confAt,
                     next, match, asked, followed>>
  BY DEF Introduce, AddPeer, termVars, logVars, confVars, peerVars
<1>2. TypeOK' /\ (Uninvited' <=> Uninvited)
  BY <1>1 DEF Inv, TypeOK, Uninvited
<1> QED  BY <1>1, <1>2 DEF Inv, OwnFirst, NeverAdded, StarterUnknown

(* The invariant is inductive: one step for each action.                   *)
LEMMA InvNext == Inv /\ [Next]_vars => Inv'
<1> SUFFICES ASSUME Inv, [Next]_vars PROVE Inv'
  OBVIOUS
<1>1. CASE UNCHANGED vars
  BY <1>1 DEF Inv, TypeOK, OwnFirst, NeverAdded, StarterUnknown, Uninvited, vars,
              nodeVars, termVars, logVars, confVars, peerVars
<1>2. ASSUME NEW i \in Nodes, Campaign(i) \/ Apply(i) PROVE Inv'
  BY <1>2, InvCampaign, InvApply
<1>3. ASSUME NEW i \in Nodes, NEW j \in Nodes, Replicate(i, j) \/ Introduce(i, j)
      PROVE  Inv'
  BY <1>3, InvReplicate, InvIntroduce
<1>4. ASSUME NEW i \in Nodes, NEW p \in Puts, Put(i, p) PROVE Inv'
  BY <1>4, InvPropose DEF Put
<1>5. ASSUME NEW i \in Nodes, NEW j \in Nodes, Add(i, j) \/ Remove(i, j) PROVE Inv'
  BY <1>5, InvPropose DEF Add, Remove
<1> QED  BY <1>1, <1>2, <1>3, <1>4, <1>5 DEF Next

(* The types, and with them what a node knows of the starter.              *)
THEOREM Invariance == Spec => []Inv
BY InvInit, InvNext, PTL DEF Spec

(* Every variable keeps its type: no node commits or applies what its log  *)
(* does not hold.                                                          *)
THEOREM TypeCorrect == Spec => []TypeOK
BY Invariance, PTL DEF Inv

(* Whatever the nodes put, add and remove, however they are introduced to  *)
(* each other and whoever elects itself: unless one is asked to add the    *)
(* starter, a node that was added never counts the starter as a voter.     *)
THEOREM StarterTheorem == Spec => []StarterUnknown
BY Invariance, PTL DEF Inv
=============================================================================

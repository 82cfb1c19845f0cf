---------------------------- MODULE ReplicatedMap ----------------------------
(***************************************************************************)
(* What a Node promises about its Map: the committed entries of the raft   *)
(* log take effect one at a time, in log order, each once, and the map is  *)
(* what the puts among them leave behind.  A node may stop anywhere.       *)
(***************************************************************************)
EXTENDS Integers, Sequences

CONSTANTS Keys, Values, Ids,
          None     \* no value, no argument

Items == [key : Keys, val : Values]

(* Log entries: a put; a configuration change that adds or removes a node, *)
(* or one of another type; the empty entry of a new leader; and one the    *)
(* node cannot read (not an Item, or of an unknown entry type).            *)
Entries == [kind : {"put"}, arg : Items]
             \cup [kind : {"add", "remove"}, arg : Ids]
             \cup [kind : {"other", "empty", "junk"}, arg : {None}]

VARIABLES
  log,      \* the entries raft holds
  commit,   \* how many of them are committed
  done,     \* how many of those have taken effect here
  map       \* n.Map

vars == <<log, commit, done, map>>

NoItems == [k \in Keys |-> None]

(* ItemMap.Put: one item for each key (hashed: md5 is taken as injective). *)
Stored(m, item) == [m EXCEPT ![item.key] = item.val]

(* addEntry: a put stores its item, no other entry touches the map.        *)
Effect(m, e) == IF e.kind = "put" THEN Stored(m, e.arg) ELSE m

Init ==
  /\ log \in Seq(Entries)
  /\ commit = Len(log)
  /\ done = 0
  /\ map = NoItems

(* Raft adds entries, overrules those that are not committed, and commits; *)
(* a committed entry stays what it is.                                     *)
Revise ==
  /\ log' \in Seq(Entries)
  /\ commit <= commit' /\ commit' <= Len(log')
  /\ \A k \in 1 .. commit : log'[k] = log[k]
  /\ UNCHANGED <<done, map>>

(* The next entry takes effect. With one voter less, raft may commit more. *)
Apply ==
  /\ done < commit
  /\ done' = done + 1
  /\ map' = Effect(map, log[done + 1])
  /\ log' = log
  /\ commit <= commit' /\ commit' <= Len(log)

Next == Revise \/ Apply

Spec == Init /\ [][Next]_vars
=============================================================================

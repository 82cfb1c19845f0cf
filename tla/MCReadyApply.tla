---------------------------- MODULE MCReadyApply ----------------------------
(* ReadyApply for TLC: what raft appends in each run. *)
EXTENDS ReadyApply

Peers == Ids \ {Self}
NoArg(kinds) == [kind : kinds, arg : {None}]

(* Nodes join and leave, this one only leaves. *)
Membership == [kind : {"add"}, arg : Peers] \cup [kind : {"remove"}, arg : Ids]
                \cup NoArg({"other"})

Joins == [kind : {"add"}, arg : Peers]

(* Items, and the empty entry of a new leader. *)
Data == [kind : {"put"}, arg : [key : Keys, val : Values]]
          \cup NoArg({"empty"})
=============================================================================

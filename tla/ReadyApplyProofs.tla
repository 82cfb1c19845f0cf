-------------------------- MODULE ReadyApplyProofs --------------------------
(***************************************************************************)
(* Theorems about ReadyApply, for every set of keys, values and ids, every *)
(* choice of what raft appends, and every bound.                           *)
(***************************************************************************)
EXTENDS ReadyApply, SequenceTheorems, TLAPS

-----------------------------------------------------------------------------
(* What the argument of an entry is, by its kind.                          *)
LEMMA EntryArgs ==
  ASSUME NEW e \in Entries
  PROVE  /\ e.kind \in {"add", "remove"} => e.arg \in Ids
         /\ e.kind = "put" => e.arg.key \in Keys /\ e.arg.val \in Values
BY DEF Entries, Promise!Entries, Promise!Items

(* A batch of messages is a sequence of messages.                          *)
LEMMA BatchOfMessages ==
  ASSUME NEW msgs \in MessageBatches, Len(log) \in Nat
  PROVE  msgs \in Seq(Messages)
<1>1. PICK n \in 0 .. MaxMessages :
        msgs \in [1 .. n -> [to : Ids, ack : {Len(log)}]]
  BY DEF MessageBatches
<1>2. n \in Nat /\ msgs \in [1 .. n -> Messages]
  BY <1>1, ConstantsOK DEF Messages
<1> QED
  BY <1>2, SeqDef

(* What the first n elements of a sequence are.                            *)
LEMMA Prefix ==
  ASSUME NEW S, NEW s \in Seq(S), NEW n \in 0 .. Len(s)
  PROVE  /\ SubSeq(s, 1, n) \in Seq(S)
         /\ Len(SubSeq(s, 1, n)) = n
         /\ \A i \in 1 .. n : SubSeq(s, 1, n)[i] = s[i]
<1>1. n \in Int /\ 1 \in Int /\ \A i \in 1 .. n : s[i] \in S
  OBVIOUS
<1>2. /\ SubSeq(s, 1, n) \in Seq(S)
      /\ Len(SubSeq(s, 1, n)) = IF 1 <= n THEN n - 1 + 1 ELSE 0
      /\ \A i \in 1 .. n - 1 + 1 : SubSeq(s, 1, n)[i] = s[1 + i - 1]
  BY <1>1, SubSeqProperties
<1> QED
  BY <1>1, <1>2

-----------------------------------------------------------------------------
(* What raft does to its log: it grows at the end, and what is dropped was *)
(* not committed.                                                          *)
LEMMA AppendLog ==
  ASSUME TypeOK, NEW e \in Proposals, RaftAppend(e)
  PROVE  /\ log' \in Seq(Entries) /\ Len(log') = Len(log) + 1
         /\ \A i \in 1 .. Len(log) : log'[i] = log[i]
<1>1. e \in Entries /\ log \in Seq(Entries) /\ log' = Append(log, e)
  BY ProposalsOK DEF RaftAppend, TypeOK
<1> QED
  BY <1>1, AppendProperties

(* Overruling takes the last entry, which is not committed.                *)
LEMMA DropLog ==
  ASSUME TypeOK, RaftDrop
  PROVE  /\ log' \in Seq(Entries) /\ Len(log') = Len(log) - 1
         /\ \A i \in 1 .. Len(log) - 1 : log'[i] = log[i]
         /\ commit <= Len(log) - 1
<1>1. /\ log \in Seq(Entries) /\ Len(log) \in Nat /\ commit \in Nat
      /\ commit < Len(log) /\ log' = SubSeq(log, 1, Len(log) - 1)
  BY DEF RaftDrop, TypeOK
<1>2. Len(log) - 1 \in 0 .. Len(log) /\ commit <= Len(log) - 1
  BY <1>1
<1>3. /\ SubSeq(log, 1, Len(log) - 1) \in Seq(Entries)
      /\ Len(SubSeq(log, 1, Len(log) - 1)) = Len(log) - 1
      /\ \A i \in 1 .. Len(log) - 1 :
           SubSeq(log, 1, Len(log) - 1)[i] = log[i]
  <2>1. log \in Seq(Entries)
    BY <1>1
  <2> QED
    BY <2>1, <1>2, Prefix
<1> QED
  BY <1>1, <1>2, <1>3

(* The batch that TakeReady hands over, and the part of the log it has.    *)
LEMMA TakenBatch ==
  ASSUME TypeOK, NEW msgs \in MessageBatches, NEW snap \in BOOLEAN,
         TakeReady(msgs, snap)
  PROVE  /\ ready'.from = stable /\ ready'.entries \in Seq(Entries)
         /\ ready'.commit = commit /\ ready'.msgs \in Seq(Messages)
         /\ ready'.snap \in BOOLEAN
         /\ ready' \in [from : Nat, entries : Seq(Entries), commit : Nat,
                        msgs : Seq(Messages), snap : BOOLEAN]
         /\ stable <= Len(log) =>
              /\ Len(ready'.entries) = Len(log) - stable
              /\ \A i \in 1 .. Len(log) - stable :
                   ready'.entries[i] = log[stable + i]
<1> DEFINE new == SubSeq(log, stable + 1, Len(log))
<1>1. /\ log \in Seq(Entries) /\ Len(log) \in Nat /\ stable \in Nat
      /\ commit \in Nat
  BY DEF TypeOK
<1>2. ready' = [from |-> stable, entries |-> new, commit |-> commit,
                msgs |-> msgs, snap |-> snap]
  BY DEF TakeReady
<1>3. msgs \in Seq(Messages)
  BY <1>1, BatchOfMessages
<1>4. \A i \in stable + 1 .. Len(log) : log[i] \in Entries
  BY <1>1
<1>5. /\ new \in Seq(Entries)
      /\ Len(new) = IF stable + 1 <= Len(log)
                    THEN Len(log) - (stable + 1) + 1 ELSE 0
      /\ \A i \in 1 .. Len(log) - (stable + 1) + 1 :
           new[i] = log[stable + 1 + i - 1]
  <2>1. stable + 1 \in Int /\ Len(log) \in Int
    BY <1>1
  <2> QED
    BY <2>1, <1>4, SubSeqProperties
<1>6. stable <= Len(log) =>
        /\ Len(new) = Len(log) - stable
        /\ \A i \in 1 .. Len(log) - stable : new[i] = log[stable + i]
  BY <1>1, <1>5
<1>7. /\ ready'.from = stable /\ ready'.entries = new
      /\ ready'.commit = commit /\ ready'.msgs = msgs /\ ready'.snap = snap
  BY <1>2
<1>8. ready' \in [from : Nat, entries : Seq(Entries), commit : Nat,
                 msgs : Seq(Messages), snap : BOOLEAN]
  <2> HIDE DEF new
  <2> QED
    BY <1>1, <1>2, <1>3, <1>5
<1> HIDE DEF new
<1> QED
  BY <1>3, <1>5, <1>6, <1>7, <1>8

-----------------------------------------------------------------------------
(* The batch being handled never runs ahead of raft's commit index, and a  *)
(* registration is for an entry of the batch that adds a node.  The type   *)
(* of view and map rests on it: they take their values from log[next].     *)
Handling == pc \in {"store", "send", "apply", "register"}

BatchInv ==
  /\ next - 1 <= commit
  /\ ready.commit <= commit
  /\ Handling => next <= ready.commit + 1
  /\ pc = "register" => next <= ready.commit /\ log[next].kind = "add"

(* In every step of a batch the storage, once it has the batch, agrees with *)
(* the log on all that has been offered and not dropped since: this covers *)
(* what raft counts as stable, what was acknowledged and what has taken    *)
(* effect.  A batch not stored yet fits onto what the storage has.         *)
BatchFits ==
  /\ ready.from <= Len(stored)
  /\ offered <= ready.from + Len(ready.entries)
  /\ \A i \in 1 .. offered :
       log[i] = IF i <= ready.from THEN stored[i]
                                   ELSE ready.entries[i - ready.from]

StorageInv ==
  /\ stable <= offered /\ offered <= Len(log)
  /\ acked <= offered /\ next - 1 <= offered
  /\ Handling => ready.commit <= offered
  /\ Held(stable)
  /\ pc = "store" => BatchFits
  /\ pc \in {"send", "apply", "register"} => Held(offered)

(* The inductive invariant.                                                *)
Inv == TypeOK /\ BatchInv /\ AppliedIsDone /\ StorageInv /\ DurableFirst

ReadyType == [from : Nat, entries : Seq(Entries), commit : Nat,
              msgs : Seq(Messages), snap : BOOLEAN]

(* The empty batch is a batch that commits nothing.                        *)
LEMMA NoReadyType == NoReady \in ReadyType /\ NoReady.commit = 0
BY DEF NoReady, ReadyType

(* The entry that is applied is one of the log.                            *)
LEMMA AppliedEntry ==
  ASSUME TypeOK, BatchInv, next <= ready.commit
  PROVE  next \in 1 .. Len(log) /\ log[next] \in Entries /\ next <= commit
<1>1. /\ next \in Nat \ {0} /\ commit \in 0 .. Len(log) /\ Len(log) \in Nat
      /\ ready.commit \in Nat /\ ready.commit <= commit
  BY DEF TypeOK, BatchInv
<1> QED
  BY <1>1 DEF TypeOK

(* What the end of a configuration change does.                            *)
LEMMA EndEffect ==
  ASSUME NEW newConf, NEW ok \in BOOLEAN, EndConfChange(newConf, ok)
  PROVE  /\ conf' \in {newConf, conf} /\ next' = next + 1 /\ attempts' = 0
         /\ \/ pc' \in {"panic", "apply"} /\ ready' = ready
            \/ pc' = "failed" /\ ready' = NoReady
         /\ UNCHANGED <<log, commit, offered, stable, applied, ctxDone,
                        stored, acked, map>>
BY DEF EndConfChange, Fail

(* The end of a conf change, applied or refused, keeps the types.          *)
LEMMA EndType ==
  ASSUME TypeOK, up' \in BOOLEAN, NEW newConf \in SUBSET Ids,
         NEW ok \in BOOLEAN, EndConfChange(newConf, ok),
         view' \in [Ids \cup {ZeroId} -> Ids \cup {None}]
  PROVE  TypeOK'
<1>1. ready' \in ReadyType
  BY EndEffect, NoReadyType DEF TypeOK, ReadyType
<1>2. conf' \subseteq Ids
  <2>1. conf' = newConf \/ conf' = conf
    BY EndEffect
  <2> QED
    BY <2>1 DEF TypeOK
<1>3. pc' \in {"panic", "apply", "failed"} /\ attempts' = 0
  BY EndEffect
<1>4. /\ next' = next + 1
      /\ UNCHANGED <<log, commit, offered, stable, applied, ctxDone, stored,
                     acked, map>>
  BY EndEffect
<1> QED
  BY <1>1, <1>2, <1>3, <1>4 DEF TypeOK, ReadyType, RetrievalRetries

(* Every step keeps the types, given where the batch is.                   *)
LEMMA TypeStep == Inv /\ [Next]_vars => TypeOK'
<1> SUFFICES ASSUME TypeOK, BatchInv, StorageInv, [Next]_vars
             PROVE  TypeOK'
  BY DEF Inv
<1>1. commit \in Nat /\ Len(log) \in Nat /\ commit <= Len(log)
  BY DEF TypeOK
<1>2. ASSUME NEW e \in Proposals, RaftAppend(e)
      PROVE  TypeOK'
  <2>1. log' \in Seq(Entries) /\ Len(log') = Len(log) + 1
    BY <1>2, AppendLog
  <2> QED
    BY <1>1, <1>2, <2>1 DEF RaftAppend, TypeOK, loopVars, nodeVars
<1>3. CASE RaftDrop
  <2>1. offered' \in Nat /\ stable' \in Nat /\ acked' \in Nat
    BY <1>1, <1>3 DEF RaftDrop, Least, TypeOK
  <2>2. log' \in Seq(Entries) /\ Len(log') = Len(log) - 1
        /\ commit <= Len(log) - 1
    BY <1>3, DropLog
  <2>3. UNCHANGED <<commit, applied, up, conf, loopVars, ctxDone, stored, view,
                    map>>
    BY <1>3 DEF RaftDrop
  <2> QED
    BY <1>1, <2>1, <2>2, <2>3 DEF TypeOK, loopVars
<1>4. CASE RaftCommit
  BY <1>1, <1>4 DEF RaftCommit, TypeOK, loopVars, nodeVars
<1>5. CASE Cancel
  BY <1>5 DEF Cancel, TypeOK, raftVars, loopVars, nodeVars
<1>6. ASSUME NEW msgs \in MessageBatches, NEW snap \in BOOLEAN,
             TakeReady(msgs, snap)
      PROVE  TypeOK'
  <2>1. next' \in Nat \ {0} /\ offered' \in Nat /\ pc' = "store"
    BY <1>1, <1>6 DEF TakeReady, TypeOK
  <2>2. ready' \in [from : Nat, entries : Seq(Entries), commit : Nat,
                   msgs : Seq(Messages), snap : BOOLEAN]
    BY <1>6, TakenBatch
  <2> QED
    BY <1>6, <2>1, <2>2 DEF TakeReady, TypeOK, nodeVars
<1>7. CASE StoreBatch
  <2>1. stored' \in Seq(Entries)
    <3>1. stored \in Seq(Entries) /\ ready.entries \in Seq(Entries)
          /\ ready.from \in Nat
      BY DEF TypeOK
    <3>2. RaftStore \in Seq(Entries)
      <4>1. ready.from \in 0 .. Len(stored)
        BY <1>7, <3>1 DEF StoreBatch, StorageInv, BatchFits
      <4>2. SubSeq(stored, 1, ready.from) \in Seq(Entries)
        BY <3>1, <4>1, Prefix
      <4> QED
        BY <3>1, <4>2, ConcatProperties DEF RaftStore
    <3> QED
      BY <1>7, <3>1, <3>2 DEF StoreBatch
  <2>2. ready' \in ReadyType /\ pc' \in {"send", "failed"}
    BY <1>7, NoReadyType DEF StoreBatch, Fail, TypeOK, ReadyType
  <2> QED
    BY <1>7, <2>1, <2>2 DEF StoreBatch, TypeOK, ReadyType, raftVars
<1>8. CASE SendMessage
  <2>1. ready.msgs \in Seq(Messages) /\ ready.msgs # <<>>
    BY <1>8 DEF SendMessage, TypeOK
  <2>2. Head(ready.msgs).ack \in Nat /\ Tail(ready.msgs) \in Seq(Messages)
    <3>1. Head(ready.msgs) \in Messages /\ Tail(ready.msgs) \in Seq(Messages)
      BY <2>1, HeadTailProperties
    <3> QED
      BY <3>1 DEF Messages
  <2>3. acked' \in Nat
    BY <1>8, <2>2 DEF SendMessage, TypeOK, Least
  <2>4. ready' \in ReadyType
    <3>1. ready \in ReadyType /\ ready' = [ready EXCEPT !.msgs = Tail(@)]
      BY <1>8 DEF SendMessage, TypeOK, ReadyType
    <3> QED
      BY <2>2, <3>1 DEF ReadyType
  <2> QED
    BY <1>8, <2>3, <2>4 DEF SendMessage, TypeOK, ReadyType, raftVars
<1>9. CASE CheckSnapshot
  <2>1. ready' \in ReadyType /\ pc' \in {"apply", "failed"}
    BY <1>9, NoReadyType DEF CheckSnapshot, Fail, TypeOK, ReadyType
  <2> QED
    BY <1>9, <2>1 DEF CheckSnapshot, TypeOK, ReadyType, raftVars, nodeVars
<1>10. CASE AddEntry
  <2>1. ready' \in ReadyType /\ pc' \in {"apply", "failed"}
        /\ next' \in Nat \ {0}
    BY <1>10, NoReadyType DEF AddEntry, At, Fail, TypeOK, ReadyType
  <2>2. map' \in [Keys -> Values \cup {None}]
    <3>1. CASE map' = map
      BY <3>1 DEF TypeOK
    <3>2. CASE At({"put"}) /\ map' = Promise!Effect(map, log[next])
      <4>1. log[next].arg.key \in Keys /\ log[next].arg.val \in Values
        BY <3>2, AppliedEntry, EntryArgs DEF At
      <4> QED
        BY <3>2, <4>1 DEF TypeOK, Promise!Effect, Promise!Stored, At
    <3> QED
      BY <1>10, <3>1, <3>2 DEF AddEntry
  <2> QED
    BY <1>10, <2>1, <2>2 DEF AddEntry, TypeOK, ReadyType, raftVars
<1>11. CASE OtherConfChange
  BY <1>11, EndType DEF OtherConfChange, TypeOK
<1>12. CASE BeginRegister
  BY <1>12 DEF BeginRegister, TypeOK, raftVars, nodeVars
<1>13. CASE Registered
  <2>1. log[next].arg \in Ids
    BY <1>13, AppliedEntry, EntryArgs DEF Registered, BatchInv
  <2>2. view' \in [Ids \cup {ZeroId} -> Ids \cup {None}]
    BY <1>13, <2>1 DEF Registered, AddPeer, TypeOK
  <2> QED
    BY <1>13, <2>1, <2>2, EndType DEF Registered, TypeOK
<1>14. CASE RetrievalFails
  <2>1. log[next].arg \in Ids
    BY <1>14, AppliedEntry, EntryArgs DEF RetrievalFails, BatchInv
  <2>2. CASE RetriesLeft
    <3>1. attempts' \in 0 .. RetrievalRetries - 1
      BY <1>14, <2>2 DEF RetrievalFails, RetriesLeft, RetrievalRetries, TypeOK
    <3> QED
      BY <1>14, <2>2, <3>1 DEF RetrievalFails, TypeOK, raftVars, nodeVars
  <2>3. CASE ~RetriesLeft
    BY <1>14, <2>1, <2>3, EndType DEF RetrievalFails, TypeOK
  <2> QED
    BY <2>2, <2>3
<1>15. CASE RegisterCtx
  <2>1. log[next].arg \in Ids
    BY <1>15, AppliedEntry, EntryArgs DEF RegisterCtx, BatchInv
  <2> QED
    BY <1>15, <2>1, EndType DEF RegisterCtx, TypeOK
<1>16. CASE RemoveNode
  <2>1. log[next].arg \in Ids
    BY <1>16, AppliedEntry, EntryArgs DEF RemoveNode, At
  <2>2. up' \in BOOLEAN /\ view' \in [Ids \cup {ZeroId} -> Ids \cup {None}]
    BY <1>16, <2>1 DEF RemoveNode, Unregister, TypeOK
  <2>3. \E ok \in BOOLEAN : EndConfChange(conf \ {log[next].arg}, ok)
    BY <1>16 DEF RemoveNode
  <2>4. conf \ {log[next].arg} \in SUBSET Ids
    BY DEF TypeOK
  <2> QED
    BY <2>2, <2>3, <2>4, EndType
<1>17. CASE Advance
  <2>1. /\ stable' \in Nat /\ applied' \in Nat /\ ready' \in ReadyType
        /\ pc' = "select"
    BY <1>17, NoReadyType DEF Advance, Acknowledged, TypeOK
  <2> QED
    BY <1>17, <2>1 DEF Advance, TypeOK, ReadyType, nodeVars
<1>18. CASE UNCHANGED vars
  BY <1>18 DEF vars, raftVars, loopVars, nodeVars, TypeOK
<1> QED
  BY <1>2, <1>3, <1>4, <1>5, <1>6, <1>7, <1>8, <1>9, <1>10, <1>11, <1>12,
     <1>13, <1>14, <1>15, <1>16, <1>17, <1>18 DEF Next, DoReady

-----------------------------------------------------------------------------
(* BatchInv and AppliedIsDone: the log up to commit does not change, and   *)
(* doReady moves next only over the entries of its batch.                  *)
LEMMA EndBatch ==
  ASSUME TypeOK, BatchInv, AppliedIsDone, pc \in {"apply", "register"},
         next <= ready.commit, NEW newConf, NEW ok \in BOOLEAN,
         EndConfChange(newConf, ok)
  PROVE  BatchInv' /\ AppliedIsDone'
<1>1. /\ next' = next + 1 /\ commit' = commit /\ applied' = applied
      /\ \/ pc' \in {"panic", "apply"} /\ ready' = ready
         \/ pc' = "failed" /\ ready' = NoReady
  BY EndEffect
<1>2. /\ next \in Nat /\ commit \in Nat /\ applied \in Nat
      /\ ready.commit \in Nat
  BY DEF TypeOK
<1>3. CASE pc' \in {"panic", "apply"} /\ ready' = ready
  BY <1>1, <1>2, <1>3 DEF BatchInv, AppliedIsDone, Handling
<1>4. CASE pc' = "failed" /\ ready' = NoReady
  BY <1>1, <1>2, <1>4, NoReadyType DEF BatchInv, AppliedIsDone, Handling
<1> QED
  BY <1>1, <1>3, <1>4

(* The batch stays within the log, and Advance tells raft what was done.   *)
LEMMA BatchStep == Inv /\ [Next]_vars => BatchInv' /\ AppliedIsDone'
<1> SUFFICES ASSUME TypeOK, BatchInv, AppliedIsDone, [Next]_vars
             PROVE  BatchInv' /\ AppliedIsDone'
  BY DEF Inv
<1>1. /\ next \in Nat \ {0} /\ commit \in Nat /\ applied \in Nat
      /\ Len(log) \in Nat /\ commit <= Len(log)
      /\ ready.commit \in Nat
  BY DEF TypeOK
<1>2. ASSUME UNCHANGED <<applied, up, pc, next, ready>>, commit' \in Nat,
             commit <= commit',
             pc = "register" => log'[next] = log[next]
      PROVE  BatchInv' /\ AppliedIsDone'
  BY <1>1, <1>2 DEF BatchInv, AppliedIsDone, Handling
<1>3. ASSUME NEW e \in Proposals, RaftAppend(e)
      PROVE  BatchInv' /\ AppliedIsDone'
  <2>1. \A i \in 1 .. Len(log) : log'[i] = log[i]
    BY <1>3, AppendLog
  <2>2. pc = "register" => log'[next] = log[next]
    BY <1>1, <2>1 DEF BatchInv
  <2>3. UNCHANGED <<commit, applied, up, pc, next, ready>>
    BY <1>3 DEF RaftAppend, loopVars
  <2> QED
    BY <1>1, <1>2, <2>2, <2>3
<1>4. CASE RaftDrop
  <2>1. (\A i \in 1 .. Len(log) - 1 : log'[i] = log[i])
        /\ commit <= Len(log) - 1
    BY <1>4, DropLog
  <2>2. pc = "register" => log'[next] = log[next]
    BY <1>1, <2>1 DEF BatchInv
  <2>3. UNCHANGED <<commit, applied, up, pc, next, ready>>
    BY <1>4 DEF RaftDrop, loopVars
  <2> QED
    BY <1>1, <1>2, <2>2, <2>3
<1>5. CASE RaftCommit \/ Cancel \/ UNCHANGED vars
  BY <1>1, <1>2, <1>5 DEF RaftCommit, Cancel, vars, raftVars, loopVars
<1>6. ASSUME NEW msgs \in MessageBatches, NEW snap \in BOOLEAN,
             TakeReady(msgs, snap)
      PROVE  BatchInv' /\ AppliedIsDone'
  <2>1. ready'.commit = commit
    BY <1>6, TakenBatch
  <2>2. /\ next' = next /\ applied' = applied /\ commit' = commit
        /\ pc' = "store"
    BY <1>1, <1>6 DEF TakeReady, AppliedIsDone
  <2> QED
    BY <1>1, <2>1, <2>2 DEF BatchInv, AppliedIsDone, Handling
<1>7. ASSUME UNCHANGED <<applied, commit, next>>, pc' # "register", Handling,
             \/ ready'.commit = ready.commit /\ pc' # "select"
             \/ pc' = "failed" /\ ready' = NoReady
      PROVE  BatchInv' /\ AppliedIsDone'
  BY <1>1, <1>7, NoReadyType DEF BatchInv, AppliedIsDone, Handling
<1>8. CASE StoreBatch
  BY <1>7, <1>8 DEF StoreBatch, Fail, Handling, raftVars
<1>9. CASE SendMessage
  <2>1. ready'.commit = ready.commit
    BY <1>9 DEF SendMessage, TypeOK
  <2> QED
    BY <1>7, <1>9, <2>1 DEF SendMessage, Handling, raftVars
<1>10. CASE CheckSnapshot
  BY <1>7, <1>10 DEF CheckSnapshot, Fail, Handling, raftVars
<1>11. CASE AddEntry
  <2>1. /\ pc = "apply" /\ next <= ready.commit /\ UNCHANGED <<applied, commit>>
        /\ \/ next' = next + 1 /\ pc' = pc /\ ready' = ready
           \/ next' = next /\ Fail
    BY <1>11 DEF AddEntry, At, raftVars
  <2>2. CASE next' = next + 1 /\ pc' = pc /\ ready' = ready
    BY <1>1, <2>1, <2>2 DEF BatchInv, AppliedIsDone, Handling
  <2>3. CASE next' = next /\ Fail
    BY <1>7, <2>1, <2>3 DEF Fail, Handling
  <2> QED
    BY <2>1, <2>2, <2>3
<1>12. CASE OtherConfChange
  BY <1>12, EndBatch DEF OtherConfChange, At
<1>13. CASE BeginRegister
  BY <1>1, <1>13 DEF BeginRegister, At, BatchInv, AppliedIsDone, Handling,
     raftVars
<1>14. CASE Registered
  BY <1>14, EndBatch DEF Registered, BatchInv
<1>15. CASE RetrievalFails
  <2>1. CASE RetriesLeft
    BY <1>1, <1>2, <1>15, <2>1 DEF RetrievalFails, raftVars
  <2>2. CASE ~RetriesLeft
    BY <1>15, <2>2, EndBatch DEF RetrievalFails, BatchInv
  <2> QED
    BY <2>1, <2>2
<1>16. CASE RegisterCtx
  BY <1>16, EndBatch DEF RegisterCtx, BatchInv
<1>17. CASE RemoveNode
  <2>1. PICK ok \in BOOLEAN : EndConfChange(conf \ {log[next].arg}, ok)
    BY <1>17 DEF RemoveNode
  <2> QED
    BY <1>17, <2>1, EndBatch DEF RemoveNode, At
<1>18. CASE Advance
  <2>1. /\ next > ready.commit /\ next <= ready.commit + 1 /\ pc' = "select"
        /\ next' = next /\ commit' = commit /\ ready' = NoReady /\ up' = up
        /\ applied' = IF up THEN ready.commit ELSE applied
    BY <1>18 DEF Advance, BatchApplied, Acknowledged, BatchInv, Handling
  <2> QED
    BY <1>1, <2>1, NoReadyType DEF BatchInv, AppliedIsDone, Handling
<1> QED
  BY <1>3, <1>4, <1>5, <1>6, <1>8, <1>9, <1>10, <1>11, <1>12, <1>13, <1>14,
     <1>15, <1>16, <1>17, <1>18 DEF Next, DoReady

-----------------------------------------------------------------------------
(* StorageInv and DurableFirst.                                            *)
LEMMA StorageStep ==
  Inv /\ [Next]_vars => StorageInv' /\ DurableFirst'
<1> SUFFICES ASSUME Inv, [Next]_vars
             PROVE  StorageInv' /\ DurableFirst'
  OBVIOUS
<1>1. TypeOK /\ BatchInv /\ AppliedIsDone /\ StorageInv /\ DurableFirst
  BY DEF Inv
<1>2. /\ next \in Nat \ {0} /\ commit \in Nat /\ applied \in Nat
      /\ acked \in Nat /\ stable \in Nat /\ offered \in Nat
      /\ Len(log) \in Nat /\ commit <= Len(log) /\ Len(stored) \in Nat
      /\ ready.commit \in Nat /\ ready.from \in Nat
      /\ ready.entries \in Seq(Entries) /\ Len(ready.entries) \in Nat
  BY <1>1 DEF TypeOK
<1>3. /\ stable <= offered /\ offered <= Len(log)
      /\ acked <= offered /\ next - 1 <= offered
      /\ Handling => ready.commit <= offered
      /\ Held(stable) /\ Held(acked) /\ Held(next - 1)
      /\ pc = "store" => BatchFits
      /\ pc \in {"send", "apply", "register"} => Held(offered)
  BY <1>1 DEF StorageInv, DurableFirst
<1>4. ASSUME UNCHANGED <<log, stored, stable, offered, next, acked>>,
             \/ Handling /\ ready'.commit = ready.commit
             \/ ~Handling',
             pc' # "store",
             pc' \in {"send", "apply", "register"} =>
               pc \in {"send", "apply", "register"}
      PROVE  StorageInv' /\ DurableFirst'
  BY <1>2, <1>3, <1>4 DEF StorageInv, DurableFirst, Held, Handling
<1>5. CASE UNCHANGED <<log, stored, stable, offered, next, acked, ready, pc>>
  BY <1>3, <1>5 DEF StorageInv, DurableFirst, Held, Handling, BatchFits
<1>6. ASSUME NEW e \in Proposals, RaftAppend(e)
      PROVE  StorageInv' /\ DurableFirst'
  <2>1. Len(log') = Len(log) + 1 /\ \A i \in 1 .. Len(log) : log'[i] = log[i]
    BY <1>1, <1>6, AppendLog
  <2>2. UNCHANGED <<stored, stable, offered, next, acked, ready, pc>>
    BY <1>6 DEF RaftAppend, loopVars, nodeVars
  <2>3. Held(stable)' /\ Held(acked)' /\ Held(next - 1)'
    BY <1>2, <1>3, <2>1, <2>2 DEF Held
  <2>4. pc \in {"send", "apply", "register"} => Held(offered)'
    BY <1>2, <1>3, <2>1, <2>2 DEF Held
  <2>5. pc = "store" => BatchFits'
    BY <1>2, <1>3, <2>1, <2>2 DEF BatchFits
  <2> QED
    BY <1>2, <1>3, <2>1, <2>2, <2>3, <2>4, <2>5
    DEF StorageInv, DurableFirst, Handling
<1>7. CASE RaftDrop
  <2>1. /\ Len(log') = Len(log) - 1 /\ commit <= Len(log) - 1
        /\ \A i \in 1 .. Len(log) - 1 : log'[i] = log[i]
    BY <1>1, <1>7, DropLog
  <2>2. UNCHANGED <<stored, next, ready, pc>>
    BY <1>7 DEF RaftDrop, loopVars
  <2>3. /\ stable' = IF stable < Len(log) - 1 THEN stable ELSE Len(log) - 1
        /\ offered' = IF offered < Len(log) - 1 THEN offered ELSE Len(log) - 1
        /\ acked' = IF acked < Len(log) - 1 THEN acked ELSE Len(log) - 1
    BY <1>7 DEF RaftDrop, Least
  <2>4. next - 1 <= Len(log) - 1 /\ ready.commit <= Len(log) - 1
    BY <1>1, <1>2, <2>1 DEF BatchInv
  <2>5. Held(stable)' /\ Held(acked)' /\ Held(next - 1)'
    BY <1>2, <1>3, <2>1, <2>2, <2>3, <2>4 DEF Held
  <2>6. pc \in {"send", "apply", "register"} => Held(offered)'
    BY <1>2, <1>3, <2>1, <2>2, <2>3 DEF Held
  <2>7. ASSUME pc = "store" PROVE BatchFits'
    <3>1. BatchFits
      BY <1>3, <2>7
    <3>2. offered' \in Nat /\ offered' <= offered /\ offered' <= Len(log) - 1
      BY <1>2, <2>1, <2>3
    <3>3. ASSUME NEW n \in 1 .. offered'
          PROVE  n \in 1 .. offered /\ log'[n] = log[n]
      BY <1>2, <2>1, <3>2
    <3>4. offered' <= ready.from + Len(ready.entries)
      BY <1>2, <3>1, <3>2 DEF BatchFits
    <3> QED  BY <2>2, <3>1, <3>3, <3>4 DEF BatchFits
  <2> QED
    BY <1>2, <1>3, <2>1, <2>2, <2>3, <2>4, <2>5, <2>6, <2>7
    DEF StorageInv, DurableFirst, Handling
<1>8. CASE RaftCommit \/ Cancel \/ UNCHANGED vars
  BY <1>5, <1>8 DEF RaftCommit, Cancel, vars, raftVars, loopVars, nodeVars
<1>9. ASSUME NEW msgs \in MessageBatches, NEW snap \in BOOLEAN,
             TakeReady(msgs, snap)
      PROVE  StorageInv' /\ DurableFirst'
  <2>1. /\ ready'.from = stable /\ ready'.commit = commit
        /\ Len(ready'.entries) = Len(log) - stable
        /\ \A i \in 1 .. Len(log) - stable :
             ready'.entries[i] = log[stable + i]
    <3>1. stable <= Len(log)
      BY <1>2, <1>3
    <3>2. /\ ready'.from = stable /\ ready'.commit = commit
          /\ stable <= Len(log) =>
               /\ Len(ready'.entries) = Len(log) - stable
               /\ \A i \in 1 .. Len(log) - stable :
                    ready'.entries[i] = log[stable + i]
      BY <1>1, <1>9, TakenBatch
    <3> QED
      BY <3>1, <3>2
  <2>2. /\ offered' = Len(log) /\ next' = next /\ pc' = "store"
        /\ UNCHANGED <<log, stored, stable, acked>>
    BY <1>1, <1>2, <1>9 DEF TakeReady, AppliedIsDone, nodeVars
  <2>3. Held(stable)' /\ Held(acked)' /\ Held(next - 1)'
    BY <1>3, <2>2 DEF Held
  <2>4. BatchFits'
    BY <1>2, <1>3, <2>1, <2>2 DEF BatchFits, Held
  <2> QED
    BY <1>2, <1>3, <2>1, <2>2, <2>3, <2>4 DEF StorageInv, DurableFirst
<1>10. CASE StoreBatch
  <2>1. pc = "store" /\ UNCHANGED <<log, stable, offered, next, acked>>
    BY <1>10 DEF StoreBatch, raftVars
  <2>2. CASE Fail /\ UNCHANGED stored
    BY <1>4, <2>1, <2>2 DEF Fail, Handling
  <2>3. CASE stored' = RaftStore /\ pc' = "send" /\ UNCHANGED ready
    <3>1. Len(stored') >= offered /\ \A i \in 1 .. offered : stored'[i] = log[i]
      <4>1. BatchFits /\ stored \in Seq(Entries)
        BY <1>1, <1>3, <2>1 DEF TypeOK
      <4>2. CASE ready.entries = <<>>
        BY <1>2, <2>3, <4>1, <4>2 DEF RaftStore, BatchFits
      <4>3. CASE ready.entries # <<>>
        <5> DEFINE kept == SubSeq(stored, 1, ready.from)
        <5>1. ready.from \in 0 .. Len(stored)
          BY <1>2, <4>1 DEF BatchFits
        <5>2. /\ kept \in Seq(Entries) /\ Len(kept) = ready.from
              /\ \A i \in 1 .. ready.from : kept[i] = stored[i]
          BY <4>1, <5>1, Prefix
        <5>3. stored' = kept \o ready.entries
          BY <2>3, <4>3 DEF RaftStore
        <5> HIDE DEF kept
        <5>4. /\ Len(stored') = ready.from + Len(ready.entries)
              /\ \A i \in 1 .. ready.from + Len(ready.entries) :
                   stored'[i] = IF i <= ready.from THEN kept[i]
                                ELSE ready.entries[i - ready.from]
          <6>1. /\ Len(kept \o ready.entries) = Len(kept) + Len(ready.entries)
                /\ \A i \in 1 .. Len(kept) + Len(ready.entries) :
                     (kept \o ready.entries)[i] =
                       IF i <= Len(kept) THEN kept[i]
                       ELSE ready.entries[i - Len(kept)]
            BY <1>2, <5>2, ConcatProperties
          <6> QED
            BY <5>2, <5>3, <6>1
        <5> QED
          BY <1>2, <4>1, <5>2, <5>4 DEF BatchFits
      <4> QED
        BY <4>2, <4>3
    <3>2. Held(offered)' /\ Held(stable)' /\ Held(acked)' /\ Held(next - 1)'
      BY <1>2, <1>3, <2>1, <3>1 DEF Held
    <3> QED
      BY <1>3, <2>1, <2>3, <3>2 DEF StorageInv, DurableFirst, Handling
  <2> QED
    BY <1>10, <2>2, <2>3 DEF StoreBatch
<1>11. CASE SendMessage
  <2>1. /\ pc = "send" /\ pc' = pc /\ ready'.commit = ready.commit
        /\ UNCHANGED <<log, stored, stable, offered, next>>
    BY <1>1, <1>11 DEF SendMessage, TypeOK, raftVars
  <2>2. acked' \in Nat /\ acked' <= offered
    <3>1. Head(ready.msgs).ack \in Nat
      <4>1. ready.msgs \in Seq(Messages) /\ ready.msgs # <<>>
        BY <1>1, <1>11 DEF SendMessage, TypeOK
      <4>2. Head(ready.msgs) \in Messages
        BY <4>1, HeadTailProperties
      <4> QED
        BY <4>2 DEF Messages
    <3> QED
      BY <1>2, <1>3, <1>11, <3>1 DEF SendMessage, Least
  <2>3. Held(offered)' /\ Held(stable)' /\ Held(acked)' /\ Held(next - 1)'
    BY <1>2, <1>3, <2>1, <2>2 DEF Held
  <2> QED
    BY <1>3, <2>1, <2>2, <2>3 DEF StorageInv, DurableFirst, Handling
<1>12. CASE CheckSnapshot
  BY <1>4, <1>12 DEF CheckSnapshot, Fail, Handling, raftVars, nodeVars
<1>13. ASSUME pc \in {"apply", "register"}, next <= ready.commit,
              next' = next + 1,
              \/ pc' \in {"panic", "apply"} /\ ready' = ready
              \/ pc' = "failed" /\ ready' = NoReady,
              UNCHANGED <<log, stored, stable, offered, acked>>
       PROVE  StorageInv' /\ DurableFirst'
  <2>1. next' - 1 = next /\ next <= offered /\ Held(offered)
    BY <1>2, <1>3, <1>13 DEF Handling
  <2>2. Held(offered)' /\ Held(stable)' /\ Held(acked)' /\ Held(next - 1)'
    BY <1>2, <1>3, <1>13, <2>1 DEF Held
  <2>3. Handling' => ready'.commit <= offered
    BY <1>3, <1>13 DEF Handling
  <2>4. pc' # "store"
    BY <1>13
  <2> QED
    BY <1>2, <1>3, <1>13, <2>1, <2>2, <2>3, <2>4 DEF StorageInv, DurableFirst
<1>14. ASSUME NEW newConf, NEW ok \in BOOLEAN, EndConfChange(newConf, ok),
              pc \in {"apply", "register"}, next <= ready.commit
       PROVE  StorageInv' /\ DurableFirst'
  <2>1. /\ next' = next + 1
        /\ \/ pc' \in {"panic", "apply"} /\ ready' = ready
           \/ pc' = "failed" /\ ready' = NoReady
        /\ UNCHANGED <<log, stored, stable, offered, acked>>
    BY <1>14, EndEffect
  <2> QED
    BY <1>13, <1>14, <2>1
<1>15. CASE AddEntry
  <2>1. /\ pc = "apply" /\ next <= ready.commit
        /\ UNCHANGED <<log, stored, stable, offered, acked>>
        /\ \/ next' = next + 1 /\ pc' = pc /\ ready' = ready
           \/ next' = next /\ Fail
    BY <1>15 DEF AddEntry, At, raftVars
  <2>2. CASE next' = next + 1 /\ pc' = pc /\ ready' = ready
    BY <1>13, <2>1, <2>2
  <2>3. CASE next' = next /\ Fail
    BY <1>4, <2>1, <2>3 DEF Fail, Handling
  <2> QED
    BY <2>1, <2>2, <2>3
<1>16. CASE OtherConfChange
  BY <1>14, <1>16 DEF OtherConfChange, At
<1>17. CASE BeginRegister
  BY <1>4, <1>17 DEF BeginRegister, At, Handling, raftVars, nodeVars
<1>18. CASE Registered
  BY <1>1, <1>14, <1>18 DEF Registered, BatchInv
<1>19. CASE RetrievalFails
  <2>1. CASE RetriesLeft
    BY <1>5, <1>19, <2>1 DEF RetrievalFails, raftVars, nodeVars
  <2>2. CASE ~RetriesLeft
    BY <1>1, <1>14, <1>19, <2>2 DEF RetrievalFails, BatchInv
  <2> QED
    BY <2>1, <2>2
<1>20. CASE RegisterCtx
  BY <1>1, <1>14, <1>20 DEF RegisterCtx, BatchInv
<1>21. CASE RemoveNode
  <2>1. PICK ok \in BOOLEAN : EndConfChange(conf \ {log[next].arg}, ok)
    BY <1>21 DEF RemoveNode
  <2> QED
    BY <1>14, <1>21, <2>1 DEF RemoveNode, At
<1>22. CASE Advance
  <2>1. /\ pc = "apply" /\ pc' = "select" /\ stable' \in {stable, offered}
        /\ UNCHANGED <<log, stored, offered, next, acked>>
    BY <1>22 DEF Advance, nodeVars
  <2>2. Held(stable)' /\ Held(acked)' /\ Held(next - 1)' /\ stable' <= offered
    BY <1>2, <1>3, <2>1 DEF Held
  <2> QED
    BY <1>3, <2>1, <2>2 DEF StorageInv, DurableFirst, Handling
<1> QED
  BY <1>6, <1>7, <1>8, <1>9, <1>10, <1>11, <1>12, <1>15, <1>16, <1>17, <1>18,
     <1>19, <1>20, <1>21, <1>22 DEF Next, DoReady

-----------------------------------------------------------------------------
(* The bootstrap entry is committed, and nothing is stored or offered.     *)
LEMMA InvInit == Init => Inv
<1> SUFFICES ASSUME Init
             PROVE  Inv
  OBVIOUS
<1> DEFINE e == [kind |-> "add", arg |-> Self]
<1>1. /\ log = <<e>> /\ commit = 1 /\ offered = 0 /\ stable = 0 /\ applied = 0
      /\ up = TRUE /\ pc = "select" /\ ready = NoReady /\ next = 1
      /\ stored = <<>> /\ acked = 0 /\ conf = {Self} /\ attempts = 0
      /\ ctxDone = FALSE
  BY DEF Init
<1>2. e \in Entries
  BY ConstantsOK DEF Entries, Promise!Entries
<1>3. log \in Seq(Entries) /\ Len(log) = 1
  <2> HIDE DEF e
  <2> QED
    BY <1>1, <1>2
<1>4. view \in [Ids \cup {ZeroId} -> Ids \cup {None}]
      /\ map \in [Keys -> Values \cup {None}]
  BY DEF Init, Promise!NoItems
<1>5. TypeOK
  <2>1. ready \in ReadyType
    BY <1>1, NoReadyType
  <2>2. stored \in Seq(Entries)
    BY <1>1
  <2>3. /\ commit \in 0 .. Len(log) /\ offered \in Nat /\ stable \in Nat
        /\ applied \in Nat /\ next \in Nat \ {0} /\ acked \in Nat
        /\ attempts \in 0 .. RetrievalRetries - 1
    BY <1>1, <1>3 DEF RetrievalRetries
  <2>4. /\ up \in BOOLEAN /\ conf \subseteq Ids /\ ctxDone \in BOOLEAN
        /\ pc = "select"
    BY <1>1, ConstantsOK
  <2> QED
    BY <1>3, <1>4, <2>1, <2>2, <2>3, <2>4 DEF TypeOK, ReadyType
<1>6. BatchInv /\ AppliedIsDone
  BY <1>1, NoReadyType DEF BatchInv, AppliedIsDone, Handling
<1>7. StorageInv /\ DurableFirst
  BY <1>1, <1>3 DEF StorageInv, DurableFirst, Held, Handling
<1> QED
  BY <1>5, <1>6, <1>7 DEF Inv

(* Inv holds throughout.                                                   *)
THEOREM Invariance == Spec => []Inv
<1>1. Inv /\ [Next]_vars => Inv'
  BY TypeStep, BatchStep, StorageStep DEF Inv
<1> QED
  BY <1>1, InvInit, PTL DEF Spec

(* Every variable keeps its type through every step of doReady; with it,   *)
(* register never retries beyond RetrievalRetries.                         *)
THEOREM TypeCorrect == Spec => []TypeOK
<1>1. Inv => TypeOK
  BY DEF Inv
<1> QED
  BY <1>1, Invariance, PTL

(* doReady acknowledges to a peer, and lets take effect, only what the     *)
(* storage holds, although leaders overrule entries at any moment of it.   *)
THEOREM DurableTheorem == Spec => []DurableFirst
<1>1. Inv => DurableFirst
  BY DEF Inv
<1> QED
  BY <1>1, Invariance, PTL

(* Raft is told of exactly the entries that have taken effect: Advance     *)
(* comes after the last of the batch, and a failed batch has no Advance.   *)
THEOREM AppliedTheorem == Spec => []AppliedIsDone
<1>1. Inv => AppliedIsDone
  BY DEF Inv
<1> QED
  BY <1>1, Invariance, PTL

-----------------------------------------------------------------------------
(* ViewFollowsConf holds in every step of a batch, not only between two:   *)
(* the view and the configuration change together.                         *)
ViewInv ==
  pc \notin {"failed", "panic"} /\ up =>
    \A i \in Ids \ {Self} : view[i] = IF i \in conf THEN i ELSE None

(* The view follows the configuration if no Id call fails.                 *)
LEMMA ViewStep ==
  ~IdCallFails /\ Inv /\ ViewInv /\ [Next]_vars => ViewInv'
<1> SUFFICES ASSUME ~IdCallFails, TypeOK, BatchInv, ViewInv, [Next]_vars
             PROVE  ViewInv'
  BY DEF Inv
<1>1. CASE UNCHANGED <<view, conf, up>> /\ pc \notin {"failed", "panic"}
  BY <1>1 DEF ViewInv
<1>2. CASE UNCHANGED <<view, conf, up, pc>>
  BY <1>2 DEF ViewInv
<1>3. CASE pc' \in {"failed", "panic"} \/ ~up'
  BY <1>3 DEF ViewInv
<1>4. CASE \/ RaftDrop \/ RaftCommit \/ Cancel \/ UNCHANGED vars
           \/ \E e \in Proposals : RaftAppend(e)
  BY <1>2, <1>4 DEF RaftDrop, RaftCommit, Cancel, RaftAppend, vars, raftVars,
     loopVars, nodeVars
<1>5. ASSUME NEW msgs \in MessageBatches, NEW snap \in BOOLEAN,
             TakeReady(msgs, snap)
      PROVE  ViewInv'
  BY <1>1, <1>5 DEF TakeReady, nodeVars
<1>6. CASE StoreBatch \/ SendMessage \/ CheckSnapshot \/ AddEntry
           \/ BeginRegister \/ Advance
  BY <1>1, <1>6 DEF StoreBatch, SendMessage, CheckSnapshot, AddEntry,
     BeginRegister, Advance, At, raftVars, nodeVars
<1>7. ASSUME NEW newConf, EndConfChange(newConf, FALSE)
      PROVE  ViewInv'
  BY <1>3, <1>7 DEF EndConfChange, Fail
<1>8. CASE OtherConfChange
  BY <1>7, <1>8 DEF OtherConfChange
<1>9. CASE Registered
  <2>1. log[next].arg \in Ids /\ pc = "register"
    BY <1>9, AppliedEntry, EntryArgs DEF Registered, BatchInv
  <2>2. view' = [view EXCEPT ![log[next].arg] = log[next].arg]
    BY <1>9 DEF Registered, AddPeer
  <2>3. up' = up /\ (up => conf' = conf \cup {log[next].arg})
    BY <1>9 DEF Registered, EndConfChange
  <2>4. view \in [Ids \cup {ZeroId} -> Ids \cup {None}]
    BY DEF TypeOK
  <2>5. ASSUME NEW i \in Ids \ {Self}, up
        PROVE  view'[i] = IF i \in conf' THEN i ELSE None
    <3>1. view[i] = IF i \in conf THEN i ELSE None
      BY <2>1, <2>5 DEF ViewInv
    <3> QED
      BY <2>1, <2>2, <2>3, <2>4, <2>5, <3>1
  <2> QED
    BY <2>3, <2>5 DEF ViewInv
<1>10. CASE RetrievalFails
  BY <1>2, <1>7, <1>10 DEF RetrievalFails, raftVars, nodeVars
<1>11. CASE RegisterCtx
  BY <1>7, <1>11 DEF RegisterCtx
<1>12. CASE RemoveNode
  <2> DEFINE id == log[next].arg
  <2>1. id \in Ids /\ pc = "apply"
    BY <1>12, AppliedEntry, EntryArgs DEF RemoveNode, At
  <2>2. view' = Unregister(id)
    BY <1>12 DEF RemoveNode
  <2>3. ASSUME up' = TRUE
        PROVE  conf' = conf \ {id} /\ up = TRUE
    BY <1>12, <2>3 DEF RemoveNode, EndConfChange
  <2>4. view \in [Ids \cup {ZeroId} -> Ids \cup {None}]
    BY DEF TypeOK
  <2> HIDE DEF id
  <2>5. ASSUME NEW i \in Ids \ {Self}, up' = TRUE
        PROVE  view'[i] = IF i \in conf' THEN i ELSE None
    <3>1. view[i] = IF i \in conf THEN i ELSE None
      BY <2>1, <2>3, <2>5 DEF ViewInv
    <3> QED
      BY <2>1, <2>2, <2>3, <2>4, <2>5, <3>1 DEF Unregister
  <2>6. up' \in BOOLEAN
    BY <1>12 DEF RemoveNode, TypeOK
  <2> QED
    BY <2>5, <2>6 DEF ViewInv
<1> QED
  BY <1>4, <1>5, <1>6, <1>8, <1>9, <1>10, <1>11, <1>12 DEF Next, DoReady

(* As long as the Id calls of AddPeer succeed, the view holds between      *)
(* batches exactly the other voters, each under its own id.                *)
THEOREM ViewTheorem == ~IdCallFails => (Spec => []ViewFollowsConf)
<1> SUFFICES ASSUME ~IdCallFails
             PROVE  Spec => []ViewFollowsConf
  OBVIOUS
<1>1. Init => ViewInv
  BY ConstantsOK DEF Init, ViewInv
<1>2. Inv /\ ViewInv /\ [Next]_vars => ViewInv'
  BY ViewStep
<1>3. ViewInv => ViewFollowsConf
  BY DEF ViewInv, ViewFollowsConf
<1> QED
  BY <1>1, <1>2, <1>3, Invariance, PTL DEF Spec

-----------------------------------------------------------------------------
(* Every step of the node is one of ReplicatedMap or leaves its state.     *)
LEMMA PromiseStep == Inv /\ [Next]_vars => [Promise!Next]_(Promise!vars)
<1> SUFFICES ASSUME TypeOK, BatchInv, AppliedIsDone, [Next]_vars
             PROVE  [Promise!Next]_(Promise!vars)
  BY DEF Inv
<1> DEFINE Goal == [Promise!Next]_(Promise!vars)
<1>0. /\ log \in Seq(Promise!Entries) /\ commit \in Nat /\ Len(log) \in Nat
      /\ commit <= Len(log)
  BY DEF TypeOK, Entries
<1>1. CASE UNCHANGED <<log, commit, next, map>>
  BY <1>1 DEF Promise!vars
<1>2. ASSUME next <= ready.commit, next' = next + 1, UNCHANGED <<log, commit>>,
             map' = Promise!Effect(map, log[next])
      PROVE  Goal
  <2>1. next \in Nat \ {0} /\ commit \in Nat /\ next <= commit
    BY <1>2, AppliedEntry DEF TypeOK
  <2>2. next - 1 < commit /\ next' - 1 = next - 1 + 1 /\ next - 1 + 1 = next
    BY <1>2, <2>1
  <2>3. commit <= commit' /\ commit' <= Len(log)
    BY <1>0, <1>2
  <2>4. Promise!Apply
    BY <1>2, <2>2, <2>3, Zenon DEF Promise!Apply
  <2> QED
    BY <2>4 DEF Promise!Next
<1>3. ASSUME NEW newConf, NEW ok \in BOOLEAN, EndConfChange(newConf, ok),
             next <= ready.commit, log[next].kind # "put"
      PROVE  Goal
  <2>1. next' = next + 1 /\ UNCHANGED <<log, commit, map>>
    BY <1>3, EndEffect
  <2> QED
    BY <1>2, <1>3, <2>1 DEF Promise!Effect
<1>4. ASSUME NEW e \in Proposals, RaftAppend(e)
      PROVE  Goal
  <2>1. /\ log' \in Seq(Promise!Entries) /\ Len(log') = Len(log) + 1
        /\ \A k \in 1 .. Len(log) : log'[k] = log[k]
    BY <1>4, AppendLog DEF Entries
  <2>2. UNCHANGED <<commit, next, map>>
    BY <1>4 DEF RaftAppend, loopVars, nodeVars
  <2> QED
    BY <1>0, <2>1, <2>2 DEF Promise!Next, Promise!Revise
<1>5. CASE RaftDrop
  <2>1. /\ log' \in Seq(Promise!Entries) /\ Len(log') = Len(log) - 1
        /\ commit <= Len(log) - 1
        /\ \A k \in 1 .. Len(log) - 1 : log'[k] = log[k]
    BY <1>5, DropLog DEF Entries
  <2>2. UNCHANGED <<commit, next, map>>
    BY <1>5 DEF RaftDrop, loopVars
  <2> QED
    BY <1>0, <2>1, <2>2 DEF Promise!Next, Promise!Revise
<1>6. CASE RaftCommit
  <2>1. /\ commit' = commit + 1 /\ commit < Len(log)
        /\ UNCHANGED <<log, next, map>>
    BY <1>6 DEF RaftCommit, loopVars, nodeVars
  <2> QED
    BY <1>0, <2>1 DEF Promise!Next, Promise!Revise
<1>7. ASSUME NEW msgs \in MessageBatches, NEW snap \in BOOLEAN,
             TakeReady(msgs, snap)
      PROVE  Goal
  <2>1. next' = next /\ UNCHANGED <<log, commit, map>>
    BY <1>7 DEF TakeReady, AppliedIsDone, TypeOK, nodeVars
  <2> QED
    BY <1>1, <2>1
<1>8. CASE Cancel \/ StoreBatch \/ SendMessage \/ CheckSnapshot
           \/ BeginRegister \/ Advance \/ UNCHANGED vars
  BY <1>1, <1>8 DEF Cancel, StoreBatch, SendMessage, CheckSnapshot,
     BeginRegister, Advance, vars, raftVars, loopVars, nodeVars
<1>9. CASE AddEntry
  <2>1. UNCHANGED <<log, commit>> /\ next <= ready.commit
    BY <1>9 DEF AddEntry, At, raftVars
  <2>2. \/ next' = next + 1 /\ map' = Promise!Effect(map, log[next])
        \/ UNCHANGED <<next, map>>
    BY <1>9 DEF AddEntry, At, Promise!Effect
  <2> QED
    BY <1>1, <1>2, <2>1, <2>2
<1>10. CASE OtherConfChange
  BY <1>3, <1>10 DEF OtherConfChange, At
<1>11. CASE Registered
  BY <1>3, <1>11 DEF Registered, BatchInv
<1>12. CASE RetrievalFails
  BY <1>1, <1>3, <1>12 DEF RetrievalFails, BatchInv, raftVars, nodeVars
<1>13. CASE RegisterCtx
  BY <1>3, <1>13 DEF RegisterCtx, BatchInv
<1>14. CASE RemoveNode
  <2>1. PICK ok \in BOOLEAN : EndConfChange(conf \ {log[next].arg}, ok)
    BY <1>14 DEF RemoveNode
  <2> QED
    BY <1>3, <1>14, <2>1 DEF RemoveNode, At
<1> QED
  BY <1>4, <1>5, <1>6, <1>7, <1>8, <1>9, <1>10, <1>11, <1>12, <1>13, <1>14
  DEF Next, DoReady

(* The node implements ReplicatedMap: committed entries take effect in log *)
(* order, each once, whatever fails and however the batches fall.          *)
THEOREM PromiseTheorem == Spec => KeepsPromise
<1>1. Init => Promise!Init
  <2> SUFFICES ASSUME Init
               PROVE  Promise!Init
    OBVIOUS
  <2>1. log \in Seq(Promise!Entries) /\ Len(log) = 1
    BY InvInit DEF Init, Inv, TypeOK, Entries
  <2>2. commit = 1 /\ next - 1 = 0 /\ map = Promise!NoItems
    BY DEF Init
  <2> QED
    BY <2>1, <2>2 DEF Promise!Init
<1> QED
  BY <1>1, PromiseStep, Invariance, PTL DEF Spec, KeepsPromise, Promise!Spec
=============================================================================

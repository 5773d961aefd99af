----------------------------- MODULE RaftProofs -----------------------------
(***************************************************************************)
(* Theorems about Raft, for every group of peers, every command set and    *)
(* every value of the bounds.                                              *)
(***************************************************************************)
EXTENDS Raft, FiniteSetTheorems, TLAPS

-----------------------------------------------------------------------------
(***************************************************************************)
(* Types, storage and application.                                         *)
(***************************************************************************)
\* The type of a message decides which fields it has (RaftPayload.Type).
LEMMA MessageTypes ==
  ASSUME NEW m \in Message
  PROVE  /\ m.type = "RequestVote" => m \in RequestVoteMsg
         /\ m.type = "RequestVoteResponse" => m \in VoteResponseMsg
         /\ m.type = "AppendEntries" => m \in AppendEntriesMsg
         /\ m.type = "AppendEntriesResponse" => m \in AppendResponseMsg
         /\ m.term \in Nat /\ m.from \in Peers /\ m.to \in Peers
BY DEF Message, RequestVoteMsg, VoteResponseMsg, AppendEntriesMsg, AppendResponseMsg

\* The stored log stays a log when SaveLog writes over it.
LEMMA SavedOverType ==
  ASSUME NEW stored \in Seq(Entry), NEW log \in Seq(Entry)
  PROVE  SavedOver(stored, log) \in Seq(Entry)
BY DEF SavedOver

\* Whatever was stored before, the log in memory is a prefix of what SaveLog leaves.
LEMMA SavedOverKeeps ==
  ASSUME NEW stored \in Seq(Entry), NEW log \in Seq(Entry)
  PROVE  /\ Len(log) <= Len(SavedOver(stored, log))
         /\ SubSeq(SavedOver(stored, log), 1, Len(log)) = log
<1> DEFINE s == SavedOver(stored, log)
<1>1. s \in Seq(Entry) /\ Len(log) <= Len(s) /\ \A i \in 1..Len(log) : s[i] = log[i]
  BY SavedOverType DEF SavedOver
<1> HIDE DEF s
<1>2. /\ SubSeq(s, 1, Len(log)) \in Seq(Entry) /\ Len(SubSeq(s, 1, Len(log))) = Len(log)
      /\ \A i \in 1..Len(log) : SubSeq(s, 1, Len(log))[i] = log[i]
  BY <1>1
<1>3. SubSeq(s, 1, Len(log)) = log
  BY <1>2
<1> QED BY <1>1, <1>3 DEF s

\* The append loop of handleAppendEntries leaves a log behind.
LEMMA MergeType ==
  ASSUME NEW log \in Seq(Entry), NEW prev \in Int, prev <= Len(log),
         NEW entries \in Seq(Entry)
  PROVE  MergeEntries(log, prev, entries) \in Seq(Entry)
<1> DEFINE merged == [i \in 1..(prev + Len(entries)) |->
                        IF Holds(log, prev, entries, i - prev) THEN log[i]
                        ELSE entries[i - prev]]
<1>1. ASSUME NEW i \in 1..(prev + Len(entries)) PROVE merged[i] \in Entry
  <2>1. CASE Holds(log, prev, entries, i - prev)
    <3>1. i <= Len(log)
      <4>1. CASE i <= prev
        BY <4>1
      <4>2. CASE i > prev
        <5>1. i - prev \in 1..(i - prev)
          BY <4>2
        <5>2. prev + (i - prev) <= Len(log)
          BY <2>1, <5>1 DEF Holds
        <5> QED BY <5>2
      <4> QED BY <4>1, <4>2
    <3> QED BY <2>1, <3>1
  <2>2. CASE ~Holds(log, prev, entries, i - prev)
    <3>1. i - prev >= 1
      BY <2>2 DEF Holds
    <3> QED BY <2>2, <3>1
  <2> QED BY <2>1, <2>2
<1>2. CASE Holds(log, prev, entries, Len(entries))
  BY <1>2 DEF MergeEntries
<1>3. CASE ~Holds(log, prev, entries, Len(entries))
  <2>1. prev + Len(entries) \in Nat \/ prev + Len(entries) < 0
    OBVIOUS
  <2>2. merged \in Seq(Entry)
    BY <1>1, <2>1
  <2> QED BY <1>3, <2>2 DEF MergeEntries
<1> QED BY <1>2, <1>3

-----------------------------------------------------------------------------
\* What the meta record of a process says: term, vote and last applied index are
\* those in memory, and the stored commit index has been applied, unless the process
\* ended while it applied entries; then these entries are in the stored log.
StoreInv ==
  \A n \in Peers : /\ disk[n].term = CurrentTerm[n]
                   /\ disk[n].votedFor = VotedFor[n]
                   /\ disk[n].lastApplied = LastApplied[n]
                   /\ \/ disk[n].commitIndex <= LastApplied[n]
                      \/ ~up[n] /\ disk[n].commitIndex <= Len(disk[n].log)

\* The inductive invariant behind TypeOK and AppliedOnceInOrder.
Durable == TypeOK /\ AppliedOnceInOrder /\ StoreInv

\* A group starts with empty databases, and what is stored agrees with them.
LEMMA DurableInit == Init => Durable
<1> SUFFICES ASSUME Init PROVE Durable
  OBVIOUS
<1>1. TypeOK
  BY PeersAssumption DEF Init, TypeOK, Roles, Election, NoElection, Disk, Message
<1>2. AppliedOnceInOrder
  BY DEF Init, AppliedOnceInOrder
<1>3. StoreInv
  BY DEF Init, StoreInv
<1> QED BY <1>1, <1>2, <1>3 DEF Durable

\* SaveMeta makes a record of the right type.
LEMMA SaveMetaType ==
  ASSUME TypeOK, NEW n \in Peers, NEW t \in Nat, NEW v \in Peers \cup {NoNode},
         NEW commit \in Nat, NEW last \in Nat
  PROVE  /\ SaveMeta(n, t, v, commit, last) \in Disk
         /\ SaveMeta(n, t, v, commit, last).term = t
         /\ SaveMeta(n, t, v, commit, last).votedFor = v
         /\ SaveMeta(n, t, v, commit, last).commitIndex = commit
         /\ SaveMeta(n, t, v, commit, last).lastApplied = last
         /\ SaveMeta(n, t, v, commit, last).log = disk[n].log
<1>1. disk[n] \in Disk
  BY DEF TypeOK
<1> QED BY ONLY <1>1, t \in Nat, v \in Peers \cup {NoNode}, commit \in Nat, last \in Nat
        DEF Disk, SaveMeta

\* A step that saves the meta record it leaves in memory preserves StoreInv, whatever
\* else it writes to the stored log.
LEMMA StoreStep ==
  ASSUME TypeOK, StoreInv, NEW n \in Peers, NEW t \in Nat, NEW v \in Peers \cup {NoNode},
         NEW commit \in Nat, NEW last \in Nat, commit <= last, NEW d \in Disk,
         d.term = t, d.votedFor = v, d.commitIndex = commit, d.lastApplied = last,
         disk' = [disk EXCEPT ![n] = d],
         CurrentTerm' = [CurrentTerm EXCEPT ![n] = t],
         VotedFor' = [VotedFor EXCEPT ![n] = v],
         LastApplied' = [LastApplied EXCEPT ![n] = last], up' = up
  PROVE  StoreInv' /\ disk' \in [Peers -> Disk]
<1>1. /\ disk \in [Peers -> Disk] /\ CurrentTerm \in [Peers -> Nat]
      /\ VotedFor \in [Peers -> Peers \cup {NoNode}] /\ LastApplied \in [Peers -> Nat]
  BY DEF TypeOK
<1>2. disk' \in [Peers -> Disk]
  BY <1>1
<1>3. ASSUME NEW p \in Peers
      PROVE  /\ disk'[p].term = CurrentTerm'[p]
             /\ disk'[p].votedFor = VotedFor'[p]
             /\ disk'[p].lastApplied = LastApplied'[p]
             /\ \/ disk'[p].commitIndex <= LastApplied'[p]
                \/ ~up'[p] /\ disk'[p].commitIndex <= Len(disk'[p].log)
  <2>1. CASE p = n
    BY <1>1, <2>1
  <2>2. CASE p # n
    BY <1>1, <2>2 DEF StoreInv
  <2> QED BY <2>1, <2>2
<1> QED BY <1>2, <1>3 DEF StoreInv

\* The term of the last entry of a log is a term.
LEMMA LastTermType ==
  ASSUME NEW log \in Seq(Entry)
  PROVE  LastTerm(log) \in Nat
<1>1. CASE Len(log) = 0
  BY <1>1 DEF LastTerm
<1>2. CASE Len(log) # 0
  <2>1. Len(log) \in 1..Len(log)
    BY <1>2
  <2>2. log[Len(log)] \in Entry
    BY <2>1
  <2> QED BY <1>2, <2>2 DEF LastTerm, Entry
<1> QED BY <1>1, <1>2

\* The sections of startElection preserve Durable.
LEMMA ElectDurable ==
  ASSUME Durable, NEW n \in Peers, Elect(n)
  PROVE  Durable'
<1> USE DEF electionVars, logVars, leaderVars, taskVars, procVars
<1>0. TypeOK /\ AppliedOnceInOrder /\ StoreInv
  BY DEF Durable
<1>1. CASE ElectionTimeout(n)
  <2>1. /\ election \in [Peers -> Election]
        /\ election' = [election EXCEPT ![n].started = @ + 1]
    BY <1>0, <1>1 DEF ElectionTimeout, TypeOK
  <2>2. election' \in [Peers -> Election]
    BY <2>1 DEF Election
  <2>3. TypeOK'
    BY <1>0, <1>1, <2>2 DEF ElectionTimeout, TypeOK
  <2>4. AppliedOnceInOrder' /\ StoreInv'
    BY <1>0, <1>1 DEF ElectionTimeout, AppliedOnceInOrder, StoreInv
  <2> QED BY <2>3, <2>4 DEF Durable
<1>2. CASE CheckRole(n)
  <2>1. /\ election \in [Peers -> Election]
        /\ election[n].started > 0
        /\ election' = [election EXCEPT ![n].started = @ - 1, ![n].checked = @ + 1]
    BY <1>0, <1>2 DEF CheckRole, TypeOK
  <2>2. election' \in [Peers -> Election]
    BY <2>1 DEF Election
  <2>3. TypeOK'
    BY <1>0, <1>2, <2>2 DEF CheckRole, TypeOK
  <2>4. AppliedOnceInOrder' /\ StoreInv'
    BY <1>0, <1>2 DEF CheckRole, AppliedOnceInOrder, StoreInv
  <2> QED BY <2>3, <2>4 DEF Durable
<1>3. CASE ResetVoteResult(n)
  <2>1. /\ election \in [Peers -> Election]
        /\ election[n].checked > 0
        /\ election' = [election EXCEPT ![n].checked = @ - 1,
                                                ![n].reset = @ + 1]
    BY <1>0, <1>3 DEF ResetVoteResult, TypeOK
  <2>2. election' \in [Peers -> Election]
    BY <2>1 DEF Election
  <2>3. TypeOK'
    BY <1>0, <1>3, <2>2 DEF ResetVoteResult, TypeOK
  <2>4. AppliedOnceInOrder' /\ StoreInv'
    BY <1>0, <1>3 DEF ResetVoteResult, AppliedOnceInOrder, StoreInv
  <2> QED BY <2>3, <2>4 DEF Durable
<1>4. CASE SwitchToCandidate(n)
  <2>1. /\ election \in [Peers -> Election]
        /\ election[n].reset > 0
        /\ election' = [election EXCEPT ![n].reset = @ - 1]
    BY <1>0, <1>4 DEF SwitchToCandidate, TypeOK
  <2>2. election' \in [Peers -> Election]
    BY <2>1 DEF Election
  <2>3. /\ CurrentTerm[n] + 1 \in Nat
        /\ CommitIndex[n] \in Nat /\ LastApplied[n] \in Nat /\ Log[n] \in Seq(Entry)
    BY <1>0 DEF TypeOK
  <2>4. CommitIndex[n] <= LastApplied[n]
    BY <1>0, <1>4 DEF SwitchToCandidate, AppliedOnceInOrder
  <2>5. StoreInv' /\ disk' \in [Peers -> Disk]
    <3> DEFINE d == SaveMeta(n, CurrentTerm[n] + 1, n, CommitIndex[n], LastApplied[n])
    <3>1. /\ disk' = [disk EXCEPT ![n] = d]
          /\ CurrentTerm' = [CurrentTerm EXCEPT ![n] = CurrentTerm[n] + 1]
          /\ VotedFor' = [VotedFor EXCEPT ![n] = n]
          /\ LastApplied' = [LastApplied EXCEPT ![n] = LastApplied[n]]
          /\ up' = up
      BY <1>0, <1>4 DEF SwitchToCandidate, TypeOK
    <3>2. /\ d \in Disk /\ d.term = CurrentTerm[n] + 1 /\ d.votedFor = n
          /\ d.commitIndex = CommitIndex[n] /\ d.lastApplied = LastApplied[n]
      BY <1>0, <2>3, SaveMetaType
    <3> HIDE DEF d
    <3> QED BY <1>0, <2>3, <2>4, <3>1, <3>2, StoreStep
  <2>6. msgs' \subseteq Message
    <3>1. LastTerm(Log[n]) \in Nat /\ Len(Log[n]) \in Nat
      BY <2>3, LastTermType
    <3>2. {[type |-> "RequestVote", term |-> CurrentTerm[n] + 1, from |-> n, to |-> p,
            lastIndex |-> Len(Log[n]), lastTerm |-> LastTerm(Log[n])] : p \in Others(n)}
            \subseteq RequestVoteMsg
      BY <2>3, <3>1 DEF RequestVoteMsg, Others
    <3> QED BY <1>0, <1>4, <3>2 DEF SwitchToCandidate, TypeOK, Message, LastIndex
  <2>7. TypeOK'
    BY <1>0, <1>4, <2>2, <2>5, <2>6 DEF SwitchToCandidate, TypeOK, Roles
  <2>8. AppliedOnceInOrder'
    BY <1>0, <1>4 DEF SwitchToCandidate, AppliedOnceInOrder
  <2> QED BY <2>5, <2>7, <2>8 DEF Durable
<1>5. CASE LeaderSkipsElection(n)
  <2>1. /\ election \in [Peers -> Election]
        /\ election[n].started > 0
        /\ election' = [election EXCEPT ![n].started = @ - 1]
    BY <1>0, <1>5 DEF LeaderSkipsElection, TypeOK
  <2>2. election' \in [Peers -> Election]
    BY <2>1 DEF Election
  <2>3. TypeOK'
    BY <1>0, <1>5, <2>2 DEF LeaderSkipsElection, TypeOK
  <2>4. AppliedOnceInOrder' /\ StoreInv'
    BY <1>0, <1>5 DEF LeaderSkipsElection, AppliedOnceInOrder, StoreInv
  <2> QED BY <2>3, <2>4 DEF Durable
<1> QED BY <1>1, <1>2, <1>3, <1>4, <1>5 DEF Elect

\* Handling a request for a vote, or a vote, preserves Durable.
LEMMA VoteDurable ==
  ASSUME Durable, NEW n \in Peers, NEW m \in msgs,
         HandleRequestVote(n, m) \/ ResponseNewerTerm(n, m) \/ RecordVote(n, m)
  PROVE  Durable'
<1> USE DEF electionVars, logVars, leaderVars, taskVars, procVars
<1>0. TypeOK /\ AppliedOnceInOrder /\ StoreInv
  BY DEF Durable
<1>1. /\ m \in Message /\ m.term \in Nat /\ m.from \in Peers
      /\ CurrentTerm[n] \in Nat /\ VotedFor[n] \in Peers \cup {NoNode}
      /\ CommitIndex[n] \in Nat /\ LastApplied[n] \in Nat /\ Log[n] \in Seq(Entry)
      /\ CommitIndex[n] <= LastApplied[n] /\ disk[n] \in Disk
  <2>1. up[n]
    BY DEF HandleRequestVote, ResponseNewerTerm, RecordVote, Receives
  <2> QED BY <1>0, <2>1, MessageTypes DEF TypeOK, AppliedOnceInOrder
<1>5. LastApplied = [LastApplied EXCEPT ![n] = LastApplied[n]]
  BY <1>0 DEF TypeOK
<1>2. CASE HandleRequestVote(n, m)
  <2> DEFINE t == TermAfter(n, m)
             v == IF Grants(n, m) THEN m.from ELSE VoteAfter(n, m)
             save == Grants(n, m) \/ m.term > CurrentTerm[n]
             d == SaveMeta(n, t, v, CommitIndex[n], LastApplied[n])
             r == [type |-> "RequestVoteResponse", from |-> n, to |-> m.from,
                   term |-> t, granted |-> Grants(n, m)]
  <2>1. /\ t \in Nat /\ v \in Peers \cup {NoNode} /\ Grants(n, m) \in BOOLEAN
        /\ ~save => t = CurrentTerm[n] /\ v = VotedFor[n]
    BY <1>1 DEF TermAfter, VoteAfter, Grants
  <2>2. /\ CurrentTerm' = [CurrentTerm EXCEPT ![n] = t]
        /\ VotedFor' = [VotedFor EXCEPT ![n] = v]
        /\ Role' = [Role EXCEPT ![n] = RoleAfter(n, m)]
        /\ disk' = [disk EXCEPT ![n] = IF save THEN d ELSE @]
        /\ timer' = [timer EXCEPT ![n] = IF Grants(n, m) THEN "armed" ELSE @]
        /\ msgs' = msgs \cup {r}
        /\ UNCHANGED <<LeaderHint, voteResult, election, logVars, leaderVars, taskVars,
                       procVars>>
    BY <1>2 DEF HandleRequestVote
  <2>3. r \in Message
    BY <1>1, <2>1 DEF Message, VoteResponseMsg
  <2> HIDE DEF t, v, save, r
  <2>4. /\ d \in Disk /\ d.term = t /\ d.votedFor = v
        /\ d.commitIndex = CommitIndex[n] /\ d.lastApplied = LastApplied[n]
    BY <1>1, <2>1 DEF SaveMeta, Disk
  <2> HIDE DEF d
  <2>5. StoreInv' /\ disk' \in [Peers -> Disk]
    <3>1. CASE save
      BY <1>0, <1>1, <1>5, <2>1, <2>2, <2>4, <3>1, StoreStep
    <3>2. CASE ~save
      BY <1>0, <2>1, <2>2, <3>2 DEF StoreInv, TypeOK
    <3> QED BY <3>1, <3>2
  <2>6. RoleAfter(n, m) \in Roles
    BY <1>0 DEF TypeOK, RoleAfter, Roles
  <2>7. TypeOK'
    BY <1>0, <2>1, <2>2, <2>3, <2>5, <2>6 DEF TypeOK
  <2>8. AppliedOnceInOrder'
    BY <1>0, <2>2 DEF AppliedOnceInOrder
  <2> QED BY <2>5, <2>7, <2>8 DEF Durable
<1>3. CASE ResponseNewerTerm(n, m)
  <2> DEFINE d == SaveMeta(n, m.term, NoNode, CommitIndex[n], LastApplied[n])
  <2>1. /\ CurrentTerm' = [CurrentTerm EXCEPT ![n] = m.term]
        /\ VotedFor' = [VotedFor EXCEPT ![n] = NoNode]
        /\ Role' = [Role EXCEPT ![n] = "Follower"]
        /\ disk' = [disk EXCEPT ![n] = d]
        /\ timer' = [timer EXCEPT ![n] = "armed"]
        /\ UNCHANGED <<LeaderHint, voteResult, election, logVars, leaderVars, taskVars,
                       procVars, msgs>>
    BY <1>3 DEF ResponseNewerTerm, SwitchToFollower
  <2>2. /\ d \in Disk /\ d.term = m.term /\ d.votedFor = NoNode
        /\ d.commitIndex = CommitIndex[n] /\ d.lastApplied = LastApplied[n]
    BY <1>1 DEF SaveMeta, Disk
  <2> HIDE DEF d
  <2>3. StoreInv' /\ disk' \in [Peers -> Disk]
    BY <1>0, <1>1, <1>5, <2>1, <2>2, StoreStep
  <2>4. TypeOK'
    BY <1>0, <1>1, <2>1, <2>3 DEF TypeOK, Roles
  <2>5. AppliedOnceInOrder'
    BY <1>0, <2>1 DEF AppliedOnceInOrder
  <2> QED BY <2>3, <2>4, <2>5 DEF Durable
<1>4. CASE RecordVote(n, m)
  <2> DEFINE votes == IF m.granted THEN voteResult[n] \cup {m.from}
                      ELSE voteResult[n] \ {m.from}
             wins == Role[n] = "Candidate" /\ Majority(votes)
             next == [p \in Peers |-> IF p = n THEN NextIndex[n][p] ELSE Len(Log[n]) + 1]
             match == [p \in Peers |-> IF p = n THEN MatchIndex[n][p] ELSE 0]
  <2>1. /\ voteResult' = [voteResult EXCEPT ![n] = votes]
        /\ Role' = [Role EXCEPT ![n] = IF wins THEN "Leader" ELSE @]
        /\ timer' = [timer EXCEPT ![n] = IF wins THEN "disabled" ELSE @]
        /\ NextIndex' = [NextIndex EXCEPT ![n] = IF wins THEN next ELSE @]
        /\ MatchIndex' = [MatchIndex EXCEPT ![n] = IF wins THEN match ELSE @]
        /\ bcast' = [bcast EXCEPT ![n] = @ \/ wins]
        /\ UNCHANGED <<CurrentTerm, VotedFor, LeaderHint, election, logVars,
                       appendTo, beats, disk, procVars, msgs>>
    BY <1>4 DEF RecordVote
  <2>2. votes \subseteq Peers /\ wins \in BOOLEAN
    BY <1>0, <1>1 DEF TypeOK
  <2>3. next \in [Peers -> Int] /\ match \in [Peers -> Int]
    BY <1>0, <1>1 DEF TypeOK
  <2> HIDE DEF votes, wins, next, match
  <2>4. NextIndex' \in [Peers -> [Peers -> Int]] /\ MatchIndex' \in [Peers -> [Peers -> Int]]
    BY <1>0, <2>1, <2>3 DEF TypeOK
  <2>5. bcast' \in [Peers -> BOOLEAN]
    BY <1>0, <2>1, <2>2, Zenon DEF TypeOK
  <2>6. voteResult' \in [Peers -> SUBSET Peers]
    BY <1>0, <2>1, <2>2 DEF TypeOK
  <2>7. Role' \in [Peers -> Roles] /\ timer' \in [Peers -> {"armed", "disabled"}]
    BY <1>0, <2>1 DEF TypeOK, Roles
  <2>8. TypeOK'
    BY <1>0, <2>1, <2>4, <2>5, <2>6, <2>7 DEF TypeOK
  <2>9. AppliedOnceInOrder' /\ StoreInv'
    BY <1>0, <2>1 DEF AppliedOnceInOrder, StoreInv
  <2> QED BY <2>8, <2>9 DEF Durable
<1> QED BY <1>2, <1>3, <1>4

\* Applying the entries after LastApplied up to commit extends the sequence of
\* applied entries by exactly those indexes.
LEMMA ApplySteps ==
  ASSUME NEW log \in Seq(Entry), NEW done \in Seq(Entry), NEW commit \in Nat,
         commit <= Len(done) \/ commit <= Len(log)
  PROVE  /\ done \o SubSeq(log, Len(done) + 1, commit) \in Seq(Entry)
         /\ Len(done \o SubSeq(log, Len(done) + 1, commit)) =
              IF commit > Len(done) THEN commit ELSE Len(done)
<1>0. Len(done) \in Nat /\ Len(log) \in Nat
  OBVIOUS
<1>1. CASE commit <= Len(done)
  <2>1. SubSeq(log, Len(done) + 1, commit) = << >>
    BY <1>0, <1>1
  <2> QED BY <1>0, <1>1, <2>1
<1>2. CASE commit > Len(done)
  <2>1. /\ SubSeq(log, Len(done) + 1, commit) \in Seq(Entry)
        /\ Len(SubSeq(log, Len(done) + 1, commit)) = commit - Len(done)
    BY <1>0, <1>2
  <2> QED BY <1>0, <1>2, <2>1
<1> QED BY <1>0, <1>1, <1>2

\* What the returns of handleAppendEntries have in common preserves Durable.
LEMMA FollowDurable ==
  ASSUME Durable, NEW n \in Peers, NEW m \in msgs, NEW log \in Seq(Entry),
         NEW stored \in Seq(Entry), NEW commit \in Nat, NEW reply \in Message,
         \/ commit = CommitIndex[n]
         \/ reply.success /\ m.commit > CommitIndex[n] /\ commit <= Len(log),
         up[n], FollowLeader(n, m, log, stored, commit, reply)
  PROVE  Durable'
<1> USE DEF electionVars, logVars, leaderVars, taskVars, procVars
<1>0. TypeOK /\ AppliedOnceInOrder /\ StoreInv
  BY DEF Durable
<1>1. /\ m.term \in Nat /\ m.from \in Peers
      /\ CurrentTerm[n] \in Nat /\ VotedFor[n] \in Peers \cup {NoNode}
      /\ CommitIndex[n] \in Nat /\ LastApplied[n] \in Nat /\ disk[n] \in Disk
      /\ CommitIndex[n] <= LastApplied[n]
      /\ applied[n] \in Seq(Entry) /\ Len(applied[n]) = LastApplied[n]
  BY <1>0, MessageTypes DEF TypeOK, AppliedOnceInOrder
<1> DEFINE t == TermAfter(n, m)
           v == VoteAfter(n, m)
           last == IF commit > LastApplied[n] THEN commit ELSE LastApplied[n]
           save == \/ m.term > CurrentTerm[n]
                   \/ reply.success /\ m.commit > CommitIndex[n]
           meta == IF save THEN SaveMeta(n, t, v, commit, last) ELSE disk[n]
           d == [meta EXCEPT !.log = stored]
           done == applied[n] \o SubSeq(log, LastApplied[n] + 1, commit)
<1>2. /\ t \in Nat /\ v \in Peers \cup {NoNode}
      /\ ~save => /\ t = CurrentTerm[n] /\ v = VotedFor[n]
                  /\ commit = CommitIndex[n] /\ last = LastApplied[n]
  BY <1>1 DEF TermAfter, VoteAfter
<1>3. last \in Nat /\ commit <= last
  BY <1>1
<1>4. done \in Seq(Entry) /\ Len(done) = last
  <2>1. commit <= Len(applied[n]) \/ commit <= Len(log)
    BY <1>1
  <2>2. done = applied[n] \o SubSeq(log, Len(applied[n]) + 1, commit)
    BY <1>1
  <2>3. last = IF commit > Len(applied[n]) THEN commit ELSE Len(applied[n])
    BY <1>1
  <2> HIDE DEF done, last
  <2> QED BY <1>1, <2>1, <2>2, <2>3, ApplySteps
<1>5. /\ CurrentTerm' = [CurrentTerm EXCEPT ![n] = t]
      /\ Role' = [Role EXCEPT ![n] = RoleAfter(n, m)]
      /\ VotedFor' = [VotedFor EXCEPT ![n] = v]
      /\ LeaderHint' = [LeaderHint EXCEPT ![n] = m.from]
      /\ timer' = [timer EXCEPT ![n] = "armed"]
      /\ Log' = [Log EXCEPT ![n] = log]
      /\ CommitIndex' = [CommitIndex EXCEPT ![n] = commit]
      /\ LastApplied' = [LastApplied EXCEPT ![n] = last]
      /\ applied' = [applied EXCEPT ![n] = done]
      /\ disk' = [disk EXCEPT ![n] = d]
      /\ msgs' = msgs \cup {reply}
      /\ UNCHANGED <<voteResult, election, leaderVars, taskVars, procVars>>
  BY DEF FollowLeader
<1> HIDE DEF t, v, last, done, save
<1>6. /\ d \in Disk /\ d.term = t /\ d.votedFor = v /\ d.lastApplied = last
      /\ d.commitIndex \in Nat /\ d.commitIndex <= last
  <2>1. CASE save
    <3>1. meta = SaveMeta(n, t, v, commit, last)
      BY <2>1
    <3> QED BY <1>1, <1>2, <1>3, <3>1 DEF SaveMeta, Disk
  <2>2. CASE ~save
    <3>1. meta = disk[n]
      BY <2>2
    <3>2. /\ disk[n].term = t /\ disk[n].votedFor = v /\ disk[n].lastApplied = last
          /\ disk[n].commitIndex <= last
      BY <1>0, <1>2, <2>2 DEF StoreInv
    <3> QED BY <1>1, <3>1, <3>2 DEF Disk
  <2> QED BY <2>1, <2>2
<1> HIDE DEF d
<1>7. StoreInv' /\ disk' \in [Peers -> Disk]
  BY <1>0, <1>2, <1>3, <1>5, <1>6, StoreStep
<1>8. AppliedOnceInOrder'
  <2>1. /\ applied \in [Peers -> Seq(Entry)] /\ LastApplied \in [Peers -> Nat]
        /\ CommitIndex \in [Peers -> Nat]
    BY <1>0 DEF TypeOK
  <2> QED BY <1>0, <1>3, <1>4, <1>5, <2>1 DEF AppliedOnceInOrder
<1>9. TypeOK'
  <2>1. RoleAfter(n, m) \in Roles
    BY <1>0 DEF TypeOK, RoleAfter, Roles
  <2>2. /\ CurrentTerm' \in [Peers -> Nat] /\ Role' \in [Peers -> Roles]
        /\ VotedFor' \in [Peers -> Peers \cup {NoNode}]
        /\ LeaderHint' \in [Peers -> Peers \cup {NoNode}]
        /\ timer' \in [Peers -> {"armed", "disabled"}]
    BY <1>0, <1>1, <1>2, <1>5, <2>1 DEF TypeOK
  <2>3. /\ Log' \in [Peers -> Seq(Entry)] /\ applied' \in [Peers -> Seq(Entry)]
        /\ CommitIndex' \in [Peers -> Nat] /\ LastApplied' \in [Peers -> Nat]
        /\ msgs' \subseteq Message
    BY <1>0, <1>3, <1>4, <1>5 DEF TypeOK
  <2> QED BY <1>0, <1>5, <1>7, <2>2, <2>3 DEF TypeOK
<1> QED BY <1>7, <1>8, <1>9 DEF Durable

\* handleAppendEntries preserves Durable on every one of its returns.
LEMMA AppendDurable ==
  ASSUME Durable, NEW n \in Peers, NEW m \in msgs,
         \/ RejectStaleAppend(n, m) \/ RejectShortLog(n, m)
         \/ RejectConflict(n, m) \/ AcceptEntries(n, m)
  PROVE  Durable'
<1>0. TypeOK /\ AppliedOnceInOrder /\ StoreInv
  BY DEF Durable
<1>1. m.type = "AppendEntries" /\ up[n]
  BY DEF RejectStaleAppend, RejectShortLog, RejectConflict, AcceptEntries, Accepts, Receives
<1>2. m \in AppendEntriesMsg
  BY <1>0, <1>1, MessageTypes DEF TypeOK
<1>3. /\ m.term \in Nat /\ m.from \in Peers /\ m.prevIndex \in Int /\ m.commit \in Nat
      /\ m.entries \in Seq(Entry)
  BY <1>2 DEF AppendEntriesMsg
<1>4. /\ CurrentTerm[n] \in Nat /\ TermAfter(n, m) \in Nat
      /\ CommitIndex[n] \in Nat /\ Log[n] \in Seq(Entry) /\ Len(Log[n]) \in Nat
      /\ disk[n].log \in Seq(Entry)
  <2>1. /\ CurrentTerm[n] \in Nat /\ CommitIndex[n] \in Nat /\ Log[n] \in Seq(Entry)
        /\ disk[n] \in Disk
    BY <1>0 DEF TypeOK
  <2> QED BY <1>3, <2>1 DEF TermAfter, Disk
<1>5. ASSUME NEW t \in Nat, NEW ct \in Nat, NEW ci \in Nat, NEW li \in Nat
      PROVE  /\ AppendReply(n, m, t, FALSE, ct, ci, li) \in Message
             /\ AppendReply(n, m, t, TRUE, ct, ci, li) \in Message
             /\ AppendReply(n, m, t, TRUE, ct, ci, li).success = TRUE
  BY <1>3 DEF AppendReply, Message, AppendResponseMsg
<1>6. CASE RejectStaleAppend(n, m)
  <2>1. /\ msgs' \subseteq Message
        /\ UNCHANGED <<electionVars, logVars, leaderVars, taskVars, disk, procVars>>
    <3>1. AppendReply(n, m, CurrentTerm[n], FALSE, 0, 0, Len(Log[n])) \in Message
      BY <1>4, <1>5
    <3> QED BY <1>0, <1>6, <3>1 DEF RejectStaleAppend, TypeOK
  <2>2. TypeOK'
    BY <1>0, <2>1 DEF TypeOK, electionVars, logVars, leaderVars, taskVars, procVars
  <2>3. AppliedOnceInOrder' /\ StoreInv'
    BY <1>0, <2>1 DEF AppliedOnceInOrder, StoreInv, electionVars, logVars, procVars
  <2> QED BY <2>2, <2>3 DEF Durable
<1>7. CASE RejectShortLog(n, m)
  <2> DEFINE r == AppendReply(n, m, TermAfter(n, m), FALSE, 0, Len(Log[n]) + 1,
                              Len(Log[n]))
  <2>1. FollowLeader(n, m, Log[n], disk[n].log, CommitIndex[n], r)
    BY <1>7 DEF RejectShortLog
  <2>2. r \in Message
    <3>1. Len(Log[n]) + 1 \in Nat
      BY <1>4
    <3> QED BY <1>4, <1>5, <3>1
  <2> HIDE DEF r
  <2> QED BY <1>1, <1>4, <2>1, <2>2, FollowDurable
<1>8. CASE RejectConflict(n, m)
  <2>1. m.prevIndex \in 1..Len(Log[n])
    BY <1>8 DEF RejectConflict, PrevConflicts
  <2>2. PICK start \in 1..m.prevIndex :
          LET log == SubSeq(Log[n], 1, start - 1)
          IN FollowLeader(n, m, log, log, CommitIndex[n],
                          AppendReply(n, m, TermAfter(n, m), FALSE,
                                      Log[n][m.prevIndex].term, start, Len(log)))
    BY <1>8 DEF RejectConflict
  <2> DEFINE log == SubSeq(Log[n], 1, start - 1)
             r == AppendReply(n, m, TermAfter(n, m), FALSE,
                              Log[n][m.prevIndex].term, start, Len(log))
  <2>3. log \in Seq(Entry) /\ Len(log) \in Nat
    BY <1>4, <2>1
  <2>4. Log[n][m.prevIndex].term \in Nat
    <3>1. Log[n][m.prevIndex] \in Entry
      BY <1>4, <2>1
    <3> QED BY <3>1 DEF Entry
  <2>5. r \in Message
    <3>1. start \in Nat
      BY <1>3
    <3> HIDE DEF log
    <3> QED BY <1>4, <1>5, <2>3, <2>4, <3>1
  <2>6. FollowLeader(n, m, log, log, CommitIndex[n], r)
    BY <2>2
  <2> HIDE DEF log, r
  <2> QED BY <1>1, <1>4, <2>3, <2>5, <2>6, FollowDurable
<1>9. CASE AcceptEntries(n, m)
  <2> DEFINE log == MergedLog(n, m)
             commit == CommitAfter(n, m)
             r == AppendReply(n, m, TermAfter(n, m), TRUE, 0, Len(log), Len(log))
  <2>1. log \in Seq(Entry) /\ Len(log) \in Nat
    <3>1. m.prevIndex <= Len(Log[n])
      BY <1>9 DEF AcceptEntries, Accepts
    <3>2. log \in Seq(Entry)
      BY <1>3, <1>4, <3>1, MergeType DEF MergedLog
    <3> HIDE DEF log
    <3> QED BY <3>2
  <2>2. FollowLeader(n, m, log, SavedOver(disk[n].log, log), commit, r)
    BY <1>9 DEF AcceptEntries
  <2>3. SavedOver(disk[n].log, log) \in Seq(Entry)
    BY <1>4, <2>1, SavedOverType
  <2>4. r \in Message /\ r.success = TRUE
    BY <1>4, <1>5, <2>1
  <2> HIDE DEF r
  <2>5. /\ commit \in Nat
        /\ \/ commit = CommitIndex[n]
           \/ r.success /\ m.commit > CommitIndex[n] /\ commit <= Len(log)
    BY <1>3, <1>4, <2>1, <2>4 DEF CommitAfter
  <2> HIDE DEF log
  <2> HIDE DEF commit
  <2> QED BY <1>1, <2>1, <2>2, <2>3, <2>4, <2>5, FollowDurable
<1> QED BY <1>6, <1>7, <1>8, <1>9

\* A step that leaves terms, votes, logs and the disk alone only has to keep the
\* types of what it changes.
LEMMA QuietDurable ==
  ASSUME Durable, UNCHANGED <<electionVars, logVars, disk>>,
         NextIndex' \in [Peers -> [Peers -> Int]], MatchIndex' \in [Peers -> [Peers -> Int]],
         appendTo' \in [Peers -> SUBSET Peers], bcast' \in [Peers -> BOOLEAN],
         beats' \in [Peers -> SUBSET Beat], up' \in [Peers -> BOOLEAN], restarts' \in Nat,
         \A p \in Peers : up'[p] => up[p],
         msgs' \subseteq Message
  PROVE  Durable'
<1>1. TypeOK'
  BY DEF Durable, TypeOK, electionVars, logVars
<1>2. AppliedOnceInOrder' /\ StoreInv'
  BY DEF Durable, AppliedOnceInOrder, StoreInv, electionVars, logVars
<1> QED BY <1>1, <1>2 DEF Durable

\* A panic ends the process and touches nothing else.
LEMMA PanicDurable ==
  ASSUME Durable, NEW n \in Peers, Panic(n) \/ Crash(n)
  PROVE  Durable'
<1>1. /\ UNCHANGED <<electionVars, logVars, leaderVars, taskVars, disk, restarts, msgs>>
      /\ up' = [up EXCEPT ![n] = FALSE]
  BY DEF Panic, Crash
<1>2. up' \in [Peers -> BOOLEAN] /\ \A p \in Peers : up'[p] => up[p]
  BY <1>1, Zenon DEF Durable, TypeOK
<1> QED BY <1>1, <1>2, QuietDurable DEF Durable, TypeOK, leaderVars, taskVars

\* handleAppendEntriesResponse preserves Durable.
LEMMA ResponseDurable ==
  ASSUME Durable, NEW n \in Peers, NEW m \in msgs,
         CommitPanic(n, m) \/ AppendSucceeded(n, m) \/ AppendFailed(n, m)
  PROVE  Durable'
<1>0. TypeOK /\ AppliedOnceInOrder /\ StoreInv
  BY DEF Durable
<1>1. m.type = "AppendEntriesResponse" /\ up[n]
  BY DEF CommitPanic, AppendSucceeded, AppendFailed, FromFollower, Receives
<1>2. m \in AppendResponseMsg
  BY <1>0, <1>1, MessageTypes DEF TypeOK
<1>3. m.from \in Peers /\ m.lastIndex \in Nat /\ m.conflictIndex \in Nat
  BY <1>2 DEF AppendResponseMsg
<1>4. /\ NextIndex \in [Peers -> [Peers -> Int]] /\ MatchIndex \in [Peers -> [Peers -> Int]]
      /\ Log[n] \in Seq(Entry) /\ Len(Log[n]) \in Nat
  BY <1>0 DEF TypeOK
<1>5. CASE CommitPanic(n, m)
  BY <1>5, PanicDurable DEF CommitPanic
<1>6. CASE AppendFailed(n, m)
  <2>1. PICK last \in 0..Len(Log[n]) :
          NextIndex' = [NextIndex EXCEPT ![n][m.from] =
                          IF m.conflictTerm = 0
                          THEN IF NextIndex[n][m.from] > 1 THEN NextIndex[n][m.from] - 1
                               ELSE NextIndex[n][m.from]
                          ELSE IF last > 0 THEN last + 1 ELSE m.conflictIndex]
    BY <1>6 DEF AppendFailed
  <2>2. NextIndex' \in [Peers -> [Peers -> Int]]
    BY <1>3, <1>4, <2>1
  <2>3. /\ UNCHANGED <<electionVars, logVars, MatchIndex, bcast, beats, disk, procVars,
                       msgs>>
        /\ appendTo' = [appendTo EXCEPT ![n] = @ \cup {m.from}]
    BY <1>6 DEF AppendFailed
  <2>4. appendTo' \in [Peers -> SUBSET Peers]
    BY <1>0, <1>3, <2>3 DEF TypeOK
  <2> QED BY <1>0, <2>2, <2>3, <2>4, QuietDurable DEF TypeOK, procVars
<1>7. CASE AppendSucceeded(n, m)
  <2>1. ReportedMatch(n, m) \in Int
    BY <1>3, <1>4 DEF ReportedMatch
  <2>2. /\ NextIndex' \in [Peers -> [Peers -> Int]]
        /\ MatchIndex' \in [Peers -> [Peers -> Int]]
    <3>1. /\ MatchIndex' = [MatchIndex EXCEPT ![n][m.from] = ReportedMatch(n, m)]
          /\ NextIndex' = [NextIndex EXCEPT ![n][m.from] = ReportedMatch(n, m) + 1]
      BY <1>7 DEF AppendSucceeded
    <3>2. ReportedMatch(n, m) + 1 \in Int
      BY <2>1
    <3>3. NextIndex' \in [Peers -> [Peers -> Int]]
      BY <1>3, <1>4, <3>1, <3>2
    <3>4. MatchIndex' \in [Peers -> [Peers -> Int]]
      BY <1>3, <1>4, <2>1, <3>1
    <3> QED BY <3>3, <3>4
  <2>3. PICK N \in CommitCandidates(n, m) :
          LET commits == N > CommitIndex[n] /\ Log[n][N].term = CurrentTerm[n]
              commit == IF commits THEN N ELSE CommitIndex[n]
              applies == commit > LastApplied[n]
          IN /\ N <= CommitIndex[n] \/ N <= Len(Log[n])
             /\ CommitIndex' = [CommitIndex EXCEPT ![n] = commit]
             /\ LastApplied' = [LastApplied EXCEPT ![n] = IF applies THEN commit ELSE @]
             /\ applied' = [applied EXCEPT ![n] =
                              @ \o SubSeq(Log[n], LastApplied[n] + 1, commit)]
             /\ disk' = [disk EXCEPT ![n] = IF applies
                           THEN SaveMeta(n, CurrentTerm[n], VotedFor[n], commit, commit)
                           ELSE @]
    BY <1>7 DEF AppendSucceeded
  <2>4. N \in Int
    BY <1>3, <1>4, <2>1 DEF CommitCandidates, Selected
  <2>5. /\ CurrentTerm[n] \in Nat /\ VotedFor[n] \in Peers \cup {NoNode}
        /\ CommitIndex[n] \in Nat /\ LastApplied[n] \in Nat /\ disk[n] \in Disk
        /\ CommitIndex[n] <= LastApplied[n]
        /\ applied[n] \in Seq(Entry) /\ Len(applied[n]) = LastApplied[n]
    BY <1>0, <1>1 DEF TypeOK, AppliedOnceInOrder
  <2> DEFINE commits == N > CommitIndex[n] /\ Log[n][N].term = CurrentTerm[n]
             commit == IF commits THEN N ELSE CommitIndex[n]
             last == IF commit > LastApplied[n] THEN commit ELSE LastApplied[n]
             d == IF commit > LastApplied[n]
                  THEN SaveMeta(n, CurrentTerm[n], VotedFor[n], commit, commit)
                  ELSE disk[n]
             done == applied[n] \o SubSeq(Log[n], LastApplied[n] + 1, commit)
  <2>6. /\ CommitIndex' = [CommitIndex EXCEPT ![n] = commit]
        /\ LastApplied' = [LastApplied EXCEPT ![n] = last]
        /\ applied' = [applied EXCEPT ![n] = done]
        /\ disk' = [disk EXCEPT ![n] = d]
    BY <2>3
  <2>7. commit \in Nat /\ (commit <= LastApplied[n] \/ commit <= Len(Log[n]))
    BY <1>4, <2>3, <2>4, <2>5
  <2> HIDE DEF commits, commit
  <2>8. last \in Nat /\ commit <= last
    BY <2>5, <2>7
  <2>9. done \in Seq(Entry) /\ Len(done) = last
    <3>1. done = applied[n] \o SubSeq(Log[n], Len(applied[n]) + 1, commit)
      BY <2>5
    <3>2. last = IF commit > Len(applied[n]) THEN commit ELSE Len(applied[n])
      BY <2>5
    <3> HIDE DEF done, last
    <3> QED BY <1>4, <2>5, <2>7, <3>1, <3>2, ApplySteps
  <2>10. /\ d \in Disk /\ d.term = CurrentTerm[n] /\ d.votedFor = VotedFor[n]
         /\ d.lastApplied = last /\ d.commitIndex \in Nat /\ d.commitIndex <= last
    <3>1. CASE commit > LastApplied[n]
      <4>1. d = SaveMeta(n, CurrentTerm[n], VotedFor[n], commit, commit) /\ last = commit
        BY <3>1
      <4>2. commit \in Nat
        BY <2>7
      <4> HIDE DEF d, last
      <4>3. /\ d \in Disk /\ d.term = CurrentTerm[n] /\ d.votedFor = VotedFor[n]
            /\ d.lastApplied = commit /\ d.commitIndex = commit
        <5>1. /\ disk[n] \in Disk /\ CurrentTerm[n] \in Nat
              /\ VotedFor[n] \in Peers \cup {NoNode}
          BY <2>5
        <5> QED BY <4>1, <4>2, <5>1 DEF SaveMeta, Disk
      <4> QED BY <4>1, <4>2, <4>3
    <3>2. CASE ~(commit > LastApplied[n])
      <4>1. d = disk[n] /\ last = LastApplied[n]
        BY <3>2
      <4>2. disk[n].commitIndex \in Nat
        BY <2>5 DEF Disk
      <4> HIDE DEF d, last
      <4> QED BY <1>0, <1>1, <2>5, <4>1, <4>2 DEF StoreInv
    <3> QED BY <3>1, <3>2
  <2> HIDE DEF last, done, d
  <2>11. /\ CurrentTerm' = [CurrentTerm EXCEPT ![n] = CurrentTerm[n]]
         /\ VotedFor' = [VotedFor EXCEPT ![n] = VotedFor[n]]
         /\ UNCHANGED <<electionVars, Log, taskVars, procVars, msgs>>
         /\ up' = up
    BY <1>0, <1>7 DEF AppendSucceeded, electionVars, procVars, TypeOK
  <2>12. StoreInv' /\ disk' \in [Peers -> Disk]
    BY <1>0, <2>5, <2>6, <2>8, <2>10, <2>11, StoreStep
  <2>13. AppliedOnceInOrder'
    <3>1. /\ applied \in [Peers -> Seq(Entry)] /\ LastApplied \in [Peers -> Nat]
          /\ CommitIndex \in [Peers -> Nat]
      BY <1>0 DEF TypeOK
    <3> QED BY <1>0, <2>6, <2>7, <2>8, <2>9, <2>11, <3>1 DEF AppliedOnceInOrder
  <2>14. TypeOK'
    <3>1. /\ applied' \in [Peers -> Seq(Entry)] /\ CommitIndex' \in [Peers -> Nat]
          /\ LastApplied' \in [Peers -> Nat]
      BY <1>0, <2>6, <2>7, <2>8, <2>9 DEF TypeOK
    <3> QED BY <1>0, <2>2, <2>11, <2>12, <3>1
            DEF TypeOK, electionVars, taskVars, procVars
  <2> QED BY <2>12, <2>13, <2>14 DEF Durable
<1> QED BY <1>5, <1>6, <1>7

\* The leader's proposals and sends preserve Durable.
LEMMA LeadDurable ==
  ASSUME Durable, NEW n \in Peers, Lead(n)
  PROVE  Durable'
<1>0. TypeOK /\ AppliedOnceInOrder /\ StoreInv
  BY DEF Durable
<1>1. /\ Log[n] \in Seq(Entry) /\ Len(Log[n]) \in Nat /\ CurrentTerm[n] \in Nat
      /\ CommitIndex[n] \in Nat /\ NextIndex[n] \in [Peers -> Int] /\ disk[n] \in Disk
  BY <1>0 DEF TypeOK
<1>2. ASSUME NEW p \in Peers, NEW term \in Nat, NEW entries \in Seq(Entry),
             NEW commit \in Nat
      PROVE  AppendEntriesRequest(n, p, term, NextIndex[n][p], entries, commit) \in Message
  <2> DEFINE next == NextIndex[n][p]
             pt == IF next - 1 \in DOMAIN Log[n] THEN Log[n][next - 1].term ELSE 0
  <2>1. next - 1 \in Int
    BY <1>1
  <2>2. pt \in Nat
    <3>1. CASE next - 1 \in DOMAIN Log[n]
      <4>1. Log[n][next - 1] \in Entry
        BY <1>1, <3>1
      <4> QED BY <3>1, <4>1 DEF Entry
    <3>2. CASE next - 1 \notin DOMAIN Log[n]
      BY <3>2
    <3> QED BY <3>1, <3>2
  <2>3. AppendEntriesRequest(n, p, term, NextIndex[n][p], entries, commit) =
          [type |-> "AppendEntries", from |-> n, to |-> p, term |-> term,
           prevIndex |-> next - 1, prevTerm |-> pt, entries |-> entries, commit |-> commit]
    BY DEF AppendEntriesRequest
  <2> HIDE DEF next, pt
  <2> QED BY <2>1, <2>2, <2>3 DEF Message, AppendEntriesMsg
<1>3. ASSUME NEW cmd \in Commands, ProposeCommand(n, cmd)
      PROVE  Durable'
  <2> DEFINE log == Append(Log[n], [term |-> CurrentTerm[n], cmd |-> cmd])
             stored == SavedOver(disk[n].log, log)
  <2>1. log \in Seq(Entry)
    BY <1>1 DEF Entry
  <2>2. stored \in Seq(Entry)
    BY <1>1, <2>1, SavedOverType DEF Disk
  <2>3. /\ Log' = [Log EXCEPT ![n] = log]
        /\ disk' = [disk EXCEPT ![n].log = stored]
        /\ appendTo' = [appendTo EXCEPT ![n] = Others(n)]
        /\ UNCHANGED <<electionVars, CommitIndex, LastApplied, applied, leaderVars, bcast,
                       beats, procVars, msgs>>
    BY <1>3 DEF ProposeCommand
  <2> HIDE DEF log, stored
  <2>4. disk \in [Peers -> Disk]
    BY <1>0 DEF TypeOK
  <2>5. disk' \in [Peers -> Disk]
    BY <2>2, <2>3, <2>4 DEF Disk
  <2>6. \A p \in Peers : /\ disk'[p].term = disk[p].term
                         /\ disk'[p].votedFor = disk[p].votedFor
                         /\ disk'[p].lastApplied = disk[p].lastApplied
                         /\ disk'[p].commitIndex = disk[p].commitIndex
    BY <2>3, <2>4 DEF Disk
  <2>7. StoreInv'
    <3>1. \A p \in Peers : up[p] \/ disk'[p].log = disk[p].log
      BY <1>3, <2>3, <2>4 DEF ProposeCommand, Disk
    <3>2. /\ CurrentTerm' = CurrentTerm /\ VotedFor' = VotedFor /\ up' = up
          /\ LastApplied' = LastApplied
      BY <2>3 DEF electionVars, procVars
    <3> QED BY <1>0, <2>6, <3>1, <3>2 DEF StoreInv
  <2>8. AppliedOnceInOrder'
    BY <1>0, <2>3 DEF AppliedOnceInOrder, procVars
  <2>9. TypeOK'
    BY <1>0, <2>1, <2>3, <2>5 DEF TypeOK, Others, electionVars, leaderVars, procVars
  <2> QED BY <2>7, <2>8, <2>9 DEF Durable
<1>4. ASSUME NEW p \in Peers, SendAppendEntriesTo(n, p)
      PROVE  Durable'
  <2> DEFINE entries == SubSeq(Log[n], NextIndex[n][p], Len(Log[n]))
  <2>1. entries \in Seq(Entry)
    BY <1>1, <1>4 DEF SendAppendEntriesTo
  <2>2. /\ msgs' = msgs \cup {AppendEntriesRequest(n, p, CurrentTerm[n], NextIndex[n][p],
                                                   entries, CommitIndex[n])}
        /\ appendTo' = [appendTo EXCEPT ![n] = @ \ {p}]
        /\ UNCHANGED <<electionVars, logVars, leaderVars, bcast, beats, disk, procVars>>
    BY <1>4 DEF SendAppendEntriesTo
  <2> HIDE DEF entries
  <2>3. msgs' \subseteq Message
    BY <1>0, <1>1, <1>2, <2>1, <2>2 DEF TypeOK
  <2>4. appendTo' \in [Peers -> SUBSET Peers]
    BY <1>0, <2>2 DEF TypeOK
  <2> QED BY <1>0, <2>2, <2>3, <2>4, QuietDurable DEF TypeOK, leaderVars, procVars
<1>5. ASSUME NEW p \in Peers, SendPanic(n, p)
      PROVE  Durable'
  BY <1>5, PanicDurable DEF SendPanic
<1>6. CASE HeartbeatTimeout(n)
  <2>1. /\ bcast' = [bcast EXCEPT ![n] = TRUE]
        /\ UNCHANGED <<electionVars, logVars, leaderVars, appendTo, beats, disk, procVars,
                       msgs>>
    BY <1>6 DEF HeartbeatTimeout
  <2>2. bcast' \in [Peers -> BOOLEAN]
    BY <1>0, <2>1, Zenon DEF TypeOK
  <2> QED BY <1>0, <2>1, <2>2, QuietDurable DEF TypeOK, leaderVars, procVars
<1>7. CASE BroadcastHeartbeat(n)
  <2> DEFINE new == [to : Others(n), term : {CurrentTerm[n]}, commit : {CommitIndex[n]}]
  <2>1. /\ bcast' = [bcast EXCEPT ![n] = FALSE]
        /\ beats' = [beats EXCEPT ![n] = @ \cup new]
        /\ UNCHANGED <<electionVars, logVars, leaderVars, appendTo, disk, procVars, msgs>>
    BY <1>7 DEF BroadcastHeartbeat
  <2>2. bcast' \in [Peers -> BOOLEAN]
    BY <1>0, <2>1, Zenon DEF TypeOK
  <2>3. new \subseteq Beat
    BY <1>1 DEF Beat, Others
  <2> HIDE DEF new
  <2>4. beats' \in [Peers -> SUBSET Beat]
    BY <1>0, <2>1, <2>3 DEF TypeOK
  <2> QED BY <1>0, <2>1, <2>2, <2>4, QuietDurable DEF TypeOK, leaderVars, procVars
<1>8. ASSUME NEW b \in beats[n], SendHeartbeat(n, b)
      PROVE  Durable'
  <2>0. beats \in [Peers -> SUBSET Beat]
    BY <1>0 DEF TypeOK
  <2>a. b \in Beat
    BY <2>0, <1>8
  <2>1. b.to \in Peers /\ b.term \in Nat /\ b.commit \in Nat
    BY <2>a DEF Beat
  <2>2. /\ msgs' = msgs \cup {AppendEntriesRequest(n, b.to, b.term, NextIndex[n][b.to],
                                                   << >>, b.commit)}
        /\ beats' = [beats EXCEPT ![n] = @ \ {b}]
        /\ UNCHANGED <<electionVars, logVars, leaderVars, appendTo, bcast, disk, procVars>>
    BY <1>8 DEF SendHeartbeat
  <2>3. << >> \in Seq(Entry)
    OBVIOUS
  <2>4. msgs' \subseteq Message
    <3>1. AppendEntriesRequest(n, b.to, b.term, NextIndex[n][b.to], << >>, b.commit)
            \in Message
      BY <1>2, <2>1, <2>3
    <3> QED BY <1>0, <2>2, <3>1 DEF TypeOK
  <2>5. beats' \in [Peers -> SUBSET Beat]
    BY <1>0, <2>2 DEF TypeOK
  <2> QED BY <1>0, <2>2, <2>4, <2>5, QuietDurable DEF TypeOK, leaderVars, procVars
<1> QED BY <1>3, <1>4, <1>5, <1>6, <1>7, <1>8 DEF Lead

\* A process that ends inside applyLogToStateMachine leaves on disk how far it got.
LEMMA DieDurable ==
  ASSUME Durable, NEW n \in Peers, NEW m \in msgs, NEW log \in Seq(Entry),
         NEW stored \in Seq(Entry), Len(log) <= Len(stored), NEW commit \in Nat,
         commit <= Len(log) \/ commit <= LastApplied[n], up[n],
         DieApplying(n, m, log, stored, commit)
  PROVE  Durable'
<1> USE DEF electionVars, logVars, leaderVars, taskVars, procVars
<1>0. TypeOK /\ AppliedOnceInOrder /\ StoreInv
  BY DEF Durable
<1>1. /\ m.term \in Nat /\ CurrentTerm[n] \in Nat /\ VotedFor[n] \in Peers \cup {NoNode}
      /\ CommitIndex[n] \in Nat /\ LastApplied[n] \in Nat /\ disk[n] \in Disk
      /\ CommitIndex[n] <= LastApplied[n]
      /\ applied[n] \in Seq(Entry) /\ Len(applied[n]) = LastApplied[n]
      /\ Len(log) \in Nat /\ Len(stored) \in Nat
  BY <1>0, MessageTypes DEF TypeOK, AppliedOnceInOrder
<1> DEFINE t == TermAfter(n, m)
           v == VoteAfter(n, m)
           Meta(k) == IF k > LastApplied[n] THEN SaveMeta(n, t, v, commit, k)
                      ELSE IF m.term > CurrentTerm[n]
                      THEN SaveMeta(n, m.term, NoNode, CommitIndex[n], k)
                      ELSE disk[n]
           Done(k) == applied[n] \o SubSeq(log, LastApplied[n] + 1, k)
           Saved(k) == [Meta(k) EXCEPT !.log = stored]
<1>2. PICK k \in LastApplied[n]..(commit - 1) :
        /\ CurrentTerm' = [CurrentTerm EXCEPT ![n] = t]
        /\ Role' = [Role EXCEPT ![n] = RoleAfter(n, m)]
        /\ VotedFor' = [VotedFor EXCEPT ![n] = v]
        /\ Log' = [Log EXCEPT ![n] = log]
        /\ CommitIndex' = [CommitIndex EXCEPT ![n] = commit]
        /\ LastApplied' = [LastApplied EXCEPT ![n] = k]
        /\ applied' = [applied EXCEPT ![n] = Done(k)]
        /\ disk' = [disk EXCEPT ![n] = Saved(k)]
        /\ up' = [up EXCEPT ![n] = FALSE]
        /\ UNCHANGED <<LeaderHint, voteResult, timer, election, leaderVars, taskVars,
                       restarts, msgs>>
  BY DEF DieApplying
<1>3. k \in Nat /\ k >= LastApplied[n] /\ k < commit /\ commit <= Len(log)
  BY <1>1, <1>2
<1>4. /\ t \in Nat /\ v \in Peers \cup {NoNode}
      /\ m.term > CurrentTerm[n] => t = m.term /\ v = NoNode
      /\ ~(m.term > CurrentTerm[n]) => t = CurrentTerm[n] /\ v = VotedFor[n]
  BY <1>1 DEF TermAfter, VoteAfter
<1>5. Done(k) \in Seq(Entry) /\ Len(Done(k)) = k
  <2>1. Done(k) = applied[n] \o SubSeq(log, Len(applied[n]) + 1, k)
    BY <1>1
  <2>2. k = IF k > Len(applied[n]) THEN k ELSE Len(applied[n])
    BY <1>1, <1>3
  <2>3. k <= Len(applied[n]) \/ k <= Len(log)
    BY <1>1, <1>3
  <2> DEFINE grown == applied[n] \o SubSeq(log, Len(applied[n]) + 1, k)
  <2>4. /\ grown \in Seq(Entry)
        /\ Len(grown) = IF k > Len(applied[n]) THEN k ELSE Len(applied[n])
    BY <1>1, <1>3, <2>3, ApplySteps
  <2> HIDE DEF Done, grown
  <2> QED BY <2>1, <2>2, <2>4 DEF grown
<1> HIDE DEF t, v, Done
<1>6. /\ Saved(k) \in Disk /\ Saved(k).term = t /\ Saved(k).votedFor = v
      /\ Saved(k).lastApplied = k /\ Saved(k).log = stored
      /\ Saved(k).commitIndex \in Nat
      /\ (Saved(k).commitIndex <= Len(stored) \/ Saved(k).commitIndex <= k)
  <2>1. CASE k > LastApplied[n]
    <3>1. Meta(k) = SaveMeta(n, t, v, commit, k)
      BY <2>1
    <3>2. /\ Saved(k) \in Disk /\ Saved(k).term = t /\ Saved(k).votedFor = v
          /\ Saved(k).lastApplied = k /\ Saved(k).log = stored
          /\ Saved(k).commitIndex = commit
      BY <1>1, <1>3, <1>4, <3>1 DEF SaveMeta, Disk
    <3> HIDE DEF Saved
    <3> QED BY <1>1, <1>3, <3>2
  <2>2. CASE ~(k > LastApplied[n]) /\ m.term > CurrentTerm[n]
    <3>1. Meta(k) = SaveMeta(n, t, v, CommitIndex[n], k)
      BY <1>4, <2>2
    <3>2. /\ Saved(k) \in Disk /\ Saved(k).term = t /\ Saved(k).votedFor = v
          /\ Saved(k).lastApplied = k /\ Saved(k).log = stored
          /\ Saved(k).commitIndex = CommitIndex[n]
      BY <1>1, <1>3, <1>4, <3>1 DEF SaveMeta, Disk
    <3> HIDE DEF Saved
    <3> QED BY <1>1, <1>3, <3>2
  <2>3. CASE ~(k > LastApplied[n]) /\ ~(m.term > CurrentTerm[n])
    <3>1. Meta(k) = disk[n] /\ k = LastApplied[n]
      BY <1>1, <1>3, <2>3
    <3>2. /\ disk[n].term = t /\ disk[n].votedFor = v /\ disk[n].lastApplied = k
          /\ disk[n].commitIndex <= k
      BY <1>0, <1>4, <2>3, <3>1 DEF StoreInv
    <3> QED BY <1>1, <3>1, <3>2 DEF Disk
  <2> QED BY <2>1, <2>2, <2>3
<1> DEFINE d == Saved(k)
           done == Done(k)
<1>7. /\ disk' = [disk EXCEPT ![n] = d] /\ applied' = [applied EXCEPT ![n] = done]
      /\ d \in Disk /\ d.term = t /\ d.votedFor = v /\ d.lastApplied = k
      /\ d.commitIndex <= Len(d.log) \/ d.commitIndex <= k
      /\ done \in Seq(Entry) /\ Len(done) = k
  BY <1>2, <1>5, <1>6
<1> HIDE DEF d, done, Saved, Meta
<1>8. /\ disk \in [Peers -> Disk] /\ CurrentTerm \in [Peers -> Nat]
      /\ VotedFor \in [Peers -> Peers \cup {NoNode}] /\ LastApplied \in [Peers -> Nat]
      /\ applied \in [Peers -> Seq(Entry)] /\ CommitIndex \in [Peers -> Nat]
      /\ up \in [Peers -> BOOLEAN] /\ Log \in [Peers -> Seq(Entry)]
      /\ Role \in [Peers -> Roles]
  BY <1>0 DEF TypeOK
<1>9. /\ up' \in [Peers -> BOOLEAN] /\ ~up'[n]
      /\ \A p \in Peers \ {n} : up'[p] <=> up[p]
  BY <1>2, <1>8, Zenon
<1>10. StoreInv'
  <2> SUFFICES ASSUME NEW p \in Peers
               PROVE  /\ disk'[p].term = CurrentTerm'[p]
                      /\ disk'[p].votedFor = VotedFor'[p]
                      /\ disk'[p].lastApplied = LastApplied'[p]
                      /\ \/ disk'[p].commitIndex <= LastApplied'[p]
                         \/ ~up'[p] /\ disk'[p].commitIndex <= Len(disk'[p].log)
    BY DEF StoreInv
  <2>1. CASE p = n
    BY <1>2, <1>7, <1>8, <1>9, <2>1
  <2>2. CASE p # n
    BY <1>0, <1>2, <1>7, <1>8, <1>9, <2>2 DEF StoreInv
  <2> QED BY <2>1, <2>2
<1>11. AppliedOnceInOrder'
  BY <1>0, <1>2, <1>7, <1>8, <1>9 DEF AppliedOnceInOrder
<1>12. TypeOK'
  <2>1. RoleAfter(n, m) \in Roles
    BY <1>8 DEF RoleAfter, Roles
  <2>2. /\ CurrentTerm' \in [Peers -> Nat] /\ Role' \in [Peers -> Roles]
        /\ VotedFor' \in [Peers -> Peers \cup {NoNode}]
        /\ Log' \in [Peers -> Seq(Entry)] /\ applied' \in [Peers -> Seq(Entry)]
        /\ CommitIndex' \in [Peers -> Nat] /\ LastApplied' \in [Peers -> Nat]
        /\ disk' \in [Peers -> Disk]
    BY <1>2, <1>3, <1>4, <1>7, <1>8, <2>1
  <2> QED BY <1>0, <1>2, <1>9, <2>2 DEF TypeOK
<1> QED BY <1>10, <1>11, <1>12 DEF Durable

\* The two places from which applyLogToStateMachine is called on a running node.
LEMMA DiesDurable ==
  ASSUME Durable, NEW n \in Peers, NEW m \in msgs,
         FollowerDiesApplying(n, m) \/ LeaderDiesApplying(n, m), LogPersisted
  PROVE  Durable'
<1>0. TypeOK
  BY DEF Durable
<1>1. /\ Log[n] \in Seq(Entry) /\ Len(Log[n]) \in Nat /\ disk[n].log \in Seq(Entry)
      /\ CommitIndex[n] \in Nat
  <2>1. Log[n] \in Seq(Entry) /\ disk[n] \in Disk /\ CommitIndex[n] \in Nat
    BY <1>0 DEF TypeOK
  <2> QED BY <2>1 DEF Disk
<1>2. CASE FollowerDiesApplying(n, m)
  <2>1. m.type = "AppendEntries" /\ up[n] /\ m.prevIndex <= Len(Log[n])
    BY <1>2 DEF FollowerDiesApplying, Accepts, Receives
  <2>2. m \in AppendEntriesMsg
    BY <1>0, <2>1, MessageTypes DEF TypeOK
  <2>3. m.prevIndex \in Int /\ m.commit \in Nat /\ m.entries \in Seq(Entry)
    BY <2>2 DEF AppendEntriesMsg
  <2> DEFINE log == MergedLog(n, m)
             stored == SavedOver(disk[n].log, log)
             commit == CommitAfter(n, m)
  <2>4. log \in Seq(Entry)
    BY <1>1, <2>1, <2>3, MergeType DEF MergedLog
  <2>5. commit \in Nat /\ (commit <= Len(log) \/ commit = CommitIndex[n])
    <3>1. Len(MergedLog(n, m)) \in Nat
      BY <2>4
    <3> QED BY <1>1, <2>3, <3>1 DEF CommitAfter
  <2>6. DieApplying(n, m, log, stored, commit)
    BY <1>2 DEF FollowerDiesApplying
  <2>7. commit <= Len(log) \/ commit <= LastApplied[n]
    BY <2>1, <2>5 DEF Durable, AppliedOnceInOrder
  <2> HIDE DEF log, commit
  <2>8. stored \in Seq(Entry) /\ Len(log) <= Len(stored)
    BY <1>1, <2>4, SavedOverType, SavedOverKeeps
  <2> HIDE DEF stored
  <2> QED BY <2>1, <2>4, <2>5, <2>6, <2>7, <2>8, DieDurable
<1>3. CASE LeaderDiesApplying(n, m)
  <2>1. PICK N \in CommitCandidates(n, m) :
          N \in DOMAIN Log[n] /\ DieApplying(n, m, Log[n], disk[n].log, N)
    BY <1>3 DEF LeaderDiesApplying
  <2>2. N \in Nat /\ N <= Len(Log[n])
    BY <1>1, <2>1
  <2>3. up[n] /\ Len(Log[n]) <= Len(disk[n].log)
    BY <1>3 DEF LeaderDiesApplying, FromFollower, Receives, LogPersisted
  <2> QED BY <1>1, <2>1, <2>2, <2>3, DieDurable
<1> QED BY <1>2, <1>3

\* NewRaftClient finds in the database what Durable says is there, and applies the
\* rest of what was committed.
LEMMA RestartDurable ==
  ASSUME Durable, NEW n \in Peers, Restart(n)
  PROVE  Durable'
<1>0. TypeOK /\ AppliedOnceInOrder /\ StoreInv
  BY DEF Durable
<1>1. /\ disk[n].term \in Nat /\ disk[n].votedFor \in Peers \cup {NoNode}
      /\ disk[n].commitIndex \in Nat /\ disk[n].lastApplied \in Nat
      /\ disk[n].log \in Seq(Entry) /\ disk[n] \in Disk
  <2>1. disk[n] \in Disk
    BY <1>0 DEF TypeOK
  <2> QED BY <2>1 DEF Disk
<1> DEFINE last == AppliedAtStart(disk[n])
           d == [disk[n] EXCEPT !.lastApplied = last]
           done == applied[n] \o SubSeq(disk[n].log, disk[n].lastApplied + 1, last)
<1>2. /\ disk[n].term = CurrentTerm[n] /\ disk[n].votedFor = VotedFor[n]
      /\ disk[n].lastApplied = LastApplied[n]
      /\ last \in Nat /\ disk[n].commitIndex <= last /\ last >= disk[n].lastApplied
      /\ last = disk[n].lastApplied \/ last <= Len(disk[n].log)
  BY <1>0, <1>1 DEF StoreInv, AppliedAtStart
<1>3. /\ CurrentTerm' = CurrentTerm /\ VotedFor' = VotedFor
      /\ LastApplied' = [LastApplied EXCEPT ![n] = last]
      /\ CommitIndex' = [CommitIndex EXCEPT ![n] = disk[n].commitIndex]
      /\ applied' = [applied EXCEPT ![n] = done]
      /\ disk' = [disk EXCEPT ![n] = d]
  BY <1>0, <1>2 DEF Restart, TypeOK
<1>4. done \in Seq(Entry) /\ Len(done) = last
  <2>1. applied[n] \in Seq(Entry) /\ Len(applied[n]) = disk[n].lastApplied
    BY <1>0, <1>2 DEF TypeOK, AppliedOnceInOrder
  <2>2. done = applied[n] \o SubSeq(disk[n].log, Len(applied[n]) + 1, last)
    BY <2>1
  <2>3. last = IF last > Len(applied[n]) THEN last ELSE Len(applied[n])
    BY <1>1, <1>2, <2>1
  <2>4. last <= Len(applied[n]) \/ last <= Len(disk[n].log)
    BY <1>1, <1>2, <2>1
  <2> HIDE DEF done, last
  <2> QED BY <1>1, <1>2, <2>1, <2>2, <2>3, <2>4, ApplySteps
<1> HIDE DEF last, done
<1>5. /\ d \in Disk /\ d.term = disk[n].term /\ d.votedFor = disk[n].votedFor
      /\ d.lastApplied = last /\ d.commitIndex = disk[n].commitIndex
  BY <1>1, <1>2 DEF Disk
<1> HIDE DEF d
<1>6. /\ disk \in [Peers -> Disk] /\ LastApplied \in [Peers -> Nat]
      /\ CommitIndex \in [Peers -> Nat] /\ applied \in [Peers -> Seq(Entry)]
      /\ up \in [Peers -> BOOLEAN]
  BY <1>0 DEF TypeOK
<1>7. up' \in [Peers -> BOOLEAN] /\ \A p \in Peers \ {n} : up'[p] <=> up[p]
  BY <1>6, Zenon DEF Restart
<1>8. StoreInv'
  <2> SUFFICES ASSUME NEW p \in Peers
               PROVE  /\ disk'[p].term = CurrentTerm'[p]
                      /\ disk'[p].votedFor = VotedFor'[p]
                      /\ disk'[p].lastApplied = LastApplied'[p]
                      /\ \/ disk'[p].commitIndex <= LastApplied'[p]
                         \/ ~up'[p] /\ disk'[p].commitIndex <= Len(disk'[p].log)
    BY DEF StoreInv
  <2>1. CASE p = n
    BY <1>2, <1>3, <1>5, <1>6, <2>1
  <2>2. CASE p # n
    BY <1>0, <1>3, <1>6, <1>7, <2>2 DEF StoreInv
  <2> QED BY <2>1, <2>2
<1>9. AppliedOnceInOrder'
  BY <1>0, <1>2, <1>3, <1>4, <1>6, <1>7 DEF AppliedOnceInOrder
<1>10. TypeOK'
  <2>1. /\ Role' \in [Peers -> Roles] /\ LeaderHint' \in [Peers -> Peers \cup {NoNode}]
        /\ voteResult' \in [Peers -> SUBSET Peers]
        /\ timer' \in [Peers -> {"armed", "disabled"}]
        /\ Log' \in [Peers -> Seq(Entry)]
    BY <1>0, <1>1 DEF Restart, TypeOK, Roles
  <2>2. /\ CommitIndex' \in [Peers -> Nat] /\ LastApplied' \in [Peers -> Nat]
        /\ applied' \in [Peers -> Seq(Entry)] /\ disk' \in [Peers -> Disk]
    BY <1>1, <1>2, <1>3, <1>4, <1>5, <1>6
  <2>3. NoElection \in Election
    BY DEF NoElection, Election
  <2>4. election' \in [Peers -> Election]
    BY <1>0, <2>3 DEF Restart, TypeOK
  <2>5. /\ NextIndex' \in [Peers -> [Peers -> Int]]
        /\ MatchIndex' \in [Peers -> [Peers -> Int]]
        /\ appendTo' \in [Peers -> SUBSET Peers]
        /\ beats' \in [Peers -> SUBSET Beat]
        /\ restarts' \in Nat /\ msgs' = msgs
    BY <1>0 DEF Restart, TypeOK
  <2>6. bcast' \in [Peers -> BOOLEAN]
    BY <1>0, Zenon DEF Restart, TypeOK
  <2> QED BY <1>0, <1>3, <1>7, <2>1, <2>2, <2>4, <2>5, <2>6 DEF TypeOK
<1> QED BY <1>8, <1>9, <1>10 DEF Durable

\* Every step of every node preserves Durable.
LEMMA DurableNext == Durable /\ LogPersisted /\ [Next]_vars => Durable'
<1> SUFFICES ASSUME Durable, LogPersisted, [Next]_vars PROVE Durable'
  OBVIOUS
<1>1. ASSUME NEW n \in Peers, NEW m \in msgs, Receive(n, m) PROVE Durable'
  BY <1>1, VoteDurable, AppendDurable, ResponseDurable, DiesDurable DEF Receive
<1>2. ASSUME NEW n \in Peers, Elect(n) PROVE Durable'
  BY <1>2, ElectDurable
<1>3. ASSUME NEW n \in Peers, Lead(n) PROVE Durable'
  BY <1>3, LeadDurable
<1>4. ASSUME NEW n \in Peers, Crash(n) PROVE Durable'
  BY <1>4, PanicDurable
<1>5. ASSUME NEW n \in Peers, Restart(n) PROVE Durable'
  BY <1>5, RestartDurable
<1>6. CASE UNCHANGED vars
  <2>1. TypeOK'
    BY <1>6 DEF Durable, TypeOK, vars, electionVars, logVars, leaderVars, taskVars, procVars
  <2>2. AppliedOnceInOrder' /\ StoreInv'
    BY <1>6 DEF Durable, AppliedOnceInOrder, StoreInv, vars, electionVars, logVars,
                procVars
  <2> QED BY <2>1, <2>2 DEF Durable
<1> QED BY <1>1, <1>2, <1>3, <1>4, <1>5, <1>6 DEF Next

-----------------------------------------------------------------------------
\* A step that writes to disk the log it leaves in memory.
LEMMA PersistStep ==
  ASSUME TypeOK, LogPersisted, NEW n \in Peers, NEW log \in Seq(Entry),
         NEW stored \in Seq(Entry), Len(log) <= Len(stored),
         SubSeq(stored, 1, Len(log)) = log, Log' = [Log EXCEPT ![n] = log],
         NEW meta, "log" \in DOMAIN meta,
         disk' = [disk EXCEPT ![n] = [meta EXCEPT !.log = stored]]
  PROVE  LogPersisted'
<1> SUFFICES ASSUME NEW p \in Peers
             PROVE  /\ Len(Log'[p]) <= Len(disk'[p].log)
                    /\ SubSeq(disk'[p].log, 1, Len(Log'[p])) = Log'[p]
  BY DEF LogPersisted
<1>1. Log \in [Peers -> Seq(Entry)] /\ disk \in [Peers -> Disk]
  BY DEF TypeOK
<1>2. CASE p = n
  <2>1. disk'[n] = [meta EXCEPT !.log = stored]
    BY <1>1
  <2>2. disk'[n].log = stored
    BY <2>1
  <2> QED BY <1>1, <1>2, <2>2
<1>3. CASE p # n
  BY <1>1, <1>3 DEF LogPersisted
<1> QED BY <1>2, <1>3

\* A step that leaves the log alone, in memory and on disk.
LEMMA LogsKept ==
  ASSUME LogPersisted, Log' = Log, \A p \in Peers : disk'[p].log = disk[p].log
  PROVE  LogPersisted'
BY DEF LogPersisted

\* What a process that ends while applying leaves behind of its log.
LEMMA DieWrites ==
  ASSUME TypeOK, NEW n \in Peers, NEW m, NEW log, NEW stored, NEW commit,
         DieApplying(n, m, log, stored, commit)
  PROVE  \E meta : /\ "log" \in DOMAIN meta
                   /\ disk' = [disk EXCEPT ![n] = [meta EXCEPT !.log = stored]]
                   /\ Log' = [Log EXCEPT ![n] = log]
<1>1. "log" \in DOMAIN disk[n]
  BY DEF TypeOK, Disk
<1>2. \A t, v, c, l : "log" \in DOMAIN SaveMeta(n, t, v, c, l)
  BY <1>1 DEF SaveMeta
<1> DEFINE Meta(k) == IF k > LastApplied[n]
                      THEN SaveMeta(n, TermAfter(n, m), VoteAfter(n, m), commit, k)
                      ELSE IF m.term > CurrentTerm[n]
                      THEN SaveMeta(n, m.term, NoNode, CommitIndex[n], k)
                      ELSE disk[n]
<1>3. PICK k : /\ disk' = [disk EXCEPT ![n] = [Meta(k) EXCEPT !.log = stored]]
               /\ Log' = [Log EXCEPT ![n] = log]
  BY DEF DieApplying
<1>4. "log" \in DOMAIN Meta(k)
  BY <1>1, <1>2
<1> HIDE DEF Meta
<1> QED BY <1>3, <1>4

\* The log on disk follows the log in memory in every step: SaveLog comes before
\* anything is sent or applied.
LEMMA PersistedNext == Durable /\ LogPersisted /\ [Next]_vars => LogPersisted'
<1> SUFFICES ASSUME Durable, LogPersisted, [Next]_vars PROVE LogPersisted'
  OBVIOUS
<1>0. TypeOK /\ disk \in [Peers -> Disk] /\ Log \in [Peers -> Seq(Entry)]
  BY DEF Durable, TypeOK
<1>1. ASSUME NEW n \in Peers, NEW t, NEW v, NEW c, NEW l
      PROVE  /\ SaveMeta(n, t, v, c, l).log = disk[n].log
             /\ "log" \in DOMAIN SaveMeta(n, t, v, c, l) /\ "log" \in DOMAIN disk[n]
  <2>1. disk[n] \in Disk
    BY <1>0
  <2> QED BY <2>1 DEF SaveMeta, Disk
<1>2. ASSUME NEW n \in Peers PROVE Log[n] \in Seq(Entry) /\ disk[n].log \in Seq(Entry)
  <2>1. disk[n] \in Disk /\ Log[n] \in Seq(Entry)
    BY <1>0
  <2> QED BY <2>1 DEF Disk
<1>3. ASSUME NEW n \in Peers, NEW m \in msgs, Receive(n, m) PROVE LogPersisted'
  <2>1. CASE HandleRequestVote(n, m)
    BY <1>0, <1>1, <2>1, LogsKept DEF HandleRequestVote, logVars
  <2>2. CASE ResponseNewerTerm(n, m)
    BY <1>0, <1>1, <2>2, LogsKept DEF ResponseNewerTerm, SwitchToFollower, logVars
  <2>3. CASE \/ RecordVote(n, m) \/ RejectStaleAppend(n, m) \/ CommitPanic(n, m)
             \/ AppendFailed(n, m)
    BY <2>3, LogsKept DEF RecordVote, RejectStaleAppend, CommitPanic, Panic, AppendFailed,
                          logVars
  <2>4. CASE AppendSucceeded(n, m)
    BY <1>0, <1>1, <2>4, LogsKept DEF AppendSucceeded
  <2>5. ASSUME NEW log \in Seq(Entry), NEW stored \in Seq(Entry), NEW commit, NEW reply,
               FollowLeader(n, m, log, stored, commit, reply),
               Len(log) <= Len(stored), SubSeq(stored, 1, Len(log)) = log
        PROVE  LogPersisted'
    <3>1. PICK meta : /\ "log" \in DOMAIN meta
                      /\ disk' = [disk EXCEPT ![n] = [meta EXCEPT !.log = stored]]
                      /\ Log' = [Log EXCEPT ![n] = log]
      BY <1>1, <2>5 DEF FollowLeader
    <3> QED BY <1>0, <2>5, <3>1, PersistStep
  <2>6. CASE RejectShortLog(n, m)
    BY <1>2, <2>5, <2>6 DEF RejectShortLog, LogPersisted
  <2>7. CASE RejectConflict(n, m)
    <3>1. PICK start \in 1..m.prevIndex : \E reply :
            FollowLeader(n, m, SubSeq(Log[n], 1, start - 1), SubSeq(Log[n], 1, start - 1),
                         CommitIndex[n], reply)
      BY <2>7 DEF RejectConflict
    <3> DEFINE log == SubSeq(Log[n], 1, start - 1)
    <3>2. log \in Seq(Entry)
      <4>1. m.prevIndex \in 1..Len(Log[n])
        BY <2>7 DEF RejectConflict, PrevConflicts
      <4> QED BY <1>2, <4>1
    <3>3. \E reply : FollowLeader(n, m, log, log, CommitIndex[n], reply)
      BY <3>1
    <3> HIDE DEF log
    <3>4. Len(log) <= Len(log) /\ SubSeq(log, 1, Len(log)) = log
      BY <3>2
    <3> QED BY <2>5, <3>2, <3>3, <3>4
  <2>8. CASE AcceptEntries(n, m) \/ FollowerDiesApplying(n, m)
    <3>1. Accepts(n, m)
      BY <2>8 DEF AcceptEntries, FollowerDiesApplying
    <3>2. m \in AppendEntriesMsg
      BY <1>0, <3>1, MessageTypes DEF Accepts, Receives, TypeOK
    <3>3. m.prevIndex \in Int /\ m.entries \in Seq(Entry)
      BY <3>2 DEF AppendEntriesMsg
    <3> DEFINE log == MergedLog(n, m)
               stored == SavedOver(disk[n].log, log)
    <3>4. log \in Seq(Entry)
      BY <1>2, <3>1, <3>3, MergeType DEF MergedLog, Accepts
    <3>5. /\ stored \in Seq(Entry) /\ Len(log) <= Len(stored)
          /\ SubSeq(stored, 1, Len(log)) = log
      BY <1>2, <3>4, SavedOverType, SavedOverKeeps
    <3>6. CASE AcceptEntries(n, m)
      <4>1. \E commit, reply : FollowLeader(n, m, log, stored, commit, reply)
        BY <3>6 DEF AcceptEntries
      <4> HIDE DEF log, stored
      <4> QED BY <2>5, <3>4, <3>5, <4>1
    <3>7. CASE FollowerDiesApplying(n, m)
      <4>0. DieApplying(n, m, log, stored, CommitAfter(n, m))
        BY <3>7 DEF FollowerDiesApplying
      <4>1. PICK meta : /\ "log" \in DOMAIN meta
                        /\ disk' = [disk EXCEPT ![n] = [meta EXCEPT !.log = stored]]
                        /\ Log' = [Log EXCEPT ![n] = log]
        BY <1>0, <4>0, DieWrites
      <4> HIDE DEF log, stored
      <4> QED BY <1>0, <3>4, <3>5, <4>1, PersistStep
    <3> QED BY <2>8, <3>6, <3>7
  <2>9. CASE LeaderDiesApplying(n, m)
    <3>0. \E N : DieApplying(n, m, Log[n], disk[n].log, N)
      BY <2>9 DEF LeaderDiesApplying
    <3>1. PICK meta : /\ "log" \in DOMAIN meta
                      /\ disk' = [disk EXCEPT ![n] = [meta EXCEPT !.log = disk[n].log]]
                      /\ Log' = [Log EXCEPT ![n] = Log[n]]
      BY <1>0, <3>0, DieWrites
    <3>2. Len(Log[n]) <= Len(disk[n].log) /\ SubSeq(disk[n].log, 1, Len(Log[n])) = Log[n]
      BY DEF LogPersisted
    <3> QED BY <1>0, <1>2, <3>1, <3>2, PersistStep
  <2> QED BY <1>3, <2>1, <2>2, <2>3, <2>4, <2>6, <2>7, <2>8, <2>9 DEF Receive
<1>4. ASSUME NEW n \in Peers, Elect(n) PROVE LogPersisted'
  <2>1. CASE SwitchToCandidate(n)
    BY <1>0, <1>1, <2>1, LogsKept DEF SwitchToCandidate, logVars
  <2>2. CASE ~SwitchToCandidate(n)
    BY <1>4, <2>2, LogsKept DEF Elect, ElectionTimeout, LeaderSkipsElection, CheckRole,
                                ResetVoteResult, logVars
  <2> QED BY <2>1, <2>2
<1>5. ASSUME NEW n \in Peers, Lead(n) PROVE LogPersisted'
  <2>1. ASSUME NEW cmd \in Commands, ProposeCommand(n, cmd) PROVE LogPersisted'
    <3> DEFINE log == Append(Log[n], [term |-> CurrentTerm[n], cmd |-> cmd])
               stored == SavedOver(disk[n].log, log)
    <3>1. log \in Seq(Entry)
      <4>1. CurrentTerm[n] \in Nat
        BY <1>0 DEF TypeOK
      <4>2. [term |-> CurrentTerm[n], cmd |-> cmd] \in Entry
        BY <4>1 DEF Entry
      <4> QED BY <1>2, <4>2
    <3>2. /\ disk' = [disk EXCEPT ![n] = [disk[n] EXCEPT !.log = stored]]
          /\ Log' = [Log EXCEPT ![n] = log]
      BY <1>0, <2>1 DEF ProposeCommand
    <3>3. /\ stored \in Seq(Entry) /\ Len(log) <= Len(stored)
          /\ SubSeq(stored, 1, Len(log)) = log
      BY <1>2, <3>1, SavedOverType, SavedOverKeeps
    <3> HIDE DEF log, stored
    <3> QED BY <1>0, <1>1, <3>1, <3>2, <3>3, PersistStep
  <2>2. CASE ~\E cmd \in Commands : ProposeCommand(n, cmd)
    BY <1>5, <2>2, LogsKept DEF Lead, SendAppendEntriesTo, SendPanic, Panic,
       HeartbeatTimeout, BroadcastHeartbeat, SendHeartbeat, logVars
  <2> QED BY <2>1, <2>2
<1>6. ASSUME NEW n \in Peers, Crash(n) PROVE LogPersisted'
  BY <1>6, LogsKept DEF Crash, logVars
<1>7. ASSUME NEW n \in Peers, Restart(n) PROVE LogPersisted'
  <2>1. /\ disk' = [disk EXCEPT ![n] = [disk[n] EXCEPT
                                          !.lastApplied = AppliedAtStart(disk[n])]]
        /\ Log' = [Log EXCEPT ![n] = disk[n].log]
    BY <1>0, <1>7 DEF Restart
  <2>2. disk'[n].log = disk[n].log /\ Log'[n] = disk[n].log
    BY <1>0, <2>1 DEF Disk
  <2>3. /\ Len(disk[n].log) <= Len(disk[n].log)
        /\ SubSeq(disk[n].log, 1, Len(disk[n].log)) = disk[n].log
    BY <1>2
  <2>4. \A p \in Peers \ {n} : disk'[p] = disk[p] /\ Log'[p] = Log[p]
    BY <1>0, <2>1
  <2> QED BY <2>2, <2>3, <2>4 DEF LogPersisted
<1>8. CASE UNCHANGED vars
  BY <1>8, LogsKept DEF vars, logVars
<1> QED BY <1>3, <1>4, <1>5, <1>6, <1>7, <1>8 DEF Next

\* Durable and LogPersisted together are inductive: a process that ends while applying
\* needs the stored log to hold what it had in memory.
LEMMA StorageInvariant == Spec => [](Durable /\ LogPersisted)
<1>1. Init => LogPersisted
  BY DEF Init, LogPersisted
<1> QED BY <1>1, DurableInit, DurableNext, PersistedNext, PTL DEF Spec

\* Durable holds in every reachable state of every instance.
LEMMA DurableInvariant == Spec => []Durable
BY StorageInvariant, PTL

\* Types hold in every reachable state of every instance.
THEOREM TypeCorrect == Spec => []TypeOK
<1>1. Durable => TypeOK
  BY DEF Durable
<1> QED BY <1>1, DurableInvariant, PTL

\* applyLogToStateMachine gives every index to the state machine once and in order,
\* for any number of nodes, entries, crashes (inside the loop too) and restarts.
THEOREM AppliesOnce == Spec => []AppliedOnceInOrder
<1>1. Durable => AppliedOnceInOrder
  BY DEF Durable
<1> QED BY <1>1, DurableInvariant, PTL

\* Whatever a process has in its log it finds again after a crash: SaveLog and
\* DeleteLogsFrom keep the stored log in step with the one in memory, which is always
\* a prefix of it.
THEOREM LogIsPersisted == Spec => []LogPersisted
BY StorageInvariant, PTL

-----------------------------------------------------------------------------
(***************************************************************************)
(* Elections: votes are kept, no vote is cast twice, and no term has two   *)
(* leaders.                                                                *)
(***************************************************************************)
\* What one step may do to the terms and the votes: the action of VoteIsKept.
KeepsVotes ==
  \A n \in Peers :
    /\ CurrentTerm'[n] >= CurrentTerm[n]
    /\ CurrentTerm'[n] = CurrentTerm[n] /\ VotedFor[n] # NoNode
         => VotedFor'[n] = VotedFor[n]

\* A step that gives one node a newer term keeps the votes, whatever that node's vote
\* becomes, and so does a step that leaves the term of the node alone and changes
\* only a vote not yet cast.
LEMMA NewVote ==
  ASSUME TypeOK, NEW n \in Peers, NEW t \in Nat, NEW v,
         CurrentTerm' = [CurrentTerm EXCEPT ![n] = t],
         VotedFor' = [VotedFor EXCEPT ![n] = v],
         t > CurrentTerm[n] \/ (t = CurrentTerm[n] /\ VotedFor[n] \in {NoNode, v})
  PROVE  KeepsVotes
<1>1. CurrentTerm \in [Peers -> Nat] /\ VotedFor \in [Peers -> Peers \cup {NoNode}]
  BY DEF TypeOK
<1> SUFFICES ASSUME NEW p \in Peers
             PROVE  /\ CurrentTerm'[p] >= CurrentTerm[p]
                    /\ CurrentTerm'[p] = CurrentTerm[p] /\ VotedFor[p] # NoNode
                         => VotedFor'[p] = VotedFor[p]
  BY DEF KeepsVotes
<1>2. CASE p = n
  BY <1>1, <1>2
<1>3. CASE p # n
  BY <1>1, <1>3
<1> QED BY <1>2, <1>3

\* A step that touches neither term nor vote.
LEMMA SameVotes ==
  ASSUME TypeOK, UNCHANGED <<CurrentTerm, VotedFor>>
  PROVE  KeepsVotes
BY DEF TypeOK, KeepsVotes

\* The term a message leaves behind, and what that does to the vote.
LEMMA TermVoteAfter ==
  ASSUME TypeOK, NEW n \in Peers, NEW m \in msgs
  PROVE  /\ TermAfter(n, m) \in Nat /\ CurrentTerm[n] \in Nat /\ m.term \in Nat
         /\ TermAfter(n, m) >= CurrentTerm[n] /\ TermAfter(n, m) >= m.term
         /\ \/ TermAfter(n, m) > CurrentTerm[n] /\ VoteAfter(n, m) = NoNode
            \/ TermAfter(n, m) = CurrentTerm[n] /\ VoteAfter(n, m) = VotedFor[n]
               /\ m.term <= CurrentTerm[n]
<1>1. CurrentTerm[n] \in Nat /\ m \in Message
  BY DEF TypeOK
<1>2. m.term \in Nat
  BY <1>1, MessageTypes
<1> QED BY <1>1, <1>2 DEF TermAfter, VoteAfter

\* A process that ends while it applies entries has already taken over the term of the
\* message, and sends nothing.
LEMMA DyingMoves ==
  ASSUME NEW n \in Peers, NEW m \in msgs,
         FollowerDiesApplying(n, m) \/ LeaderDiesApplying(n, m)
  PROVE  /\ CurrentTerm' = [CurrentTerm EXCEPT ![n] = TermAfter(n, m)]
         /\ VotedFor' = [VotedFor EXCEPT ![n] = VoteAfter(n, m)]
         /\ Role' = [Role EXCEPT ![n] = RoleAfter(n, m)]
         /\ UNCHANGED <<voteResult, election, msgs>>
BY DEF FollowerDiesApplying, LeaderDiesApplying, DieApplying

\* Every step keeps the votes: handleRequestVote casts a vote only when there is none
\* for another node, and a restart finds the record that was saved.
LEMMA VotesKept ==
  ASSUME Durable, Next
  PROVE  KeepsVotes
<1>0. TypeOK /\ StoreInv
  BY DEF Durable
<1>1. ASSUME NEW n \in Peers, NEW m \in msgs, Receive(n, m) PROVE KeepsVotes
  <2>1. CASE HandleRequestVote(n, m)
    <3> DEFINE vote == IF Grants(n, m) THEN m.from ELSE VoteAfter(n, m)
    <3>1. /\ CurrentTerm' = [CurrentTerm EXCEPT ![n] = TermAfter(n, m)]
          /\ VotedFor' = [VotedFor EXCEPT ![n] = vote]
      BY <2>1 DEF HandleRequestVote
    <3>2. VoteAfter(n, m) \in {NoNode, vote}
      BY DEF Grants
    <3> HIDE DEF vote
    <3>3. \/ TermAfter(n, m) > CurrentTerm[n]
          \/ TermAfter(n, m) = CurrentTerm[n] /\ VotedFor[n] \in {NoNode, vote}
      BY <1>0, <3>2, TermVoteAfter
    <3> QED BY <1>0, <3>1, <3>3, TermVoteAfter, NewVote
  <2>2. CASE ResponseNewerTerm(n, m)
    <3>1. /\ CurrentTerm' = [CurrentTerm EXCEPT ![n] = m.term]
          /\ VotedFor' = [VotedFor EXCEPT ![n] = NoNode]
          /\ m.term > CurrentTerm[n]
      BY <2>2 DEF ResponseNewerTerm, SwitchToFollower
    <3> QED BY <1>0, <3>1, TermVoteAfter, NewVote
  <2>3. CASE \/ RejectShortLog(n, m) \/ RejectConflict(n, m) \/ AcceptEntries(n, m)
             \/ FollowerDiesApplying(n, m) \/ LeaderDiesApplying(n, m)
    <3>1. /\ CurrentTerm' = [CurrentTerm EXCEPT ![n] = TermAfter(n, m)]
          /\ VotedFor' = [VotedFor EXCEPT ![n] = VoteAfter(n, m)]
      BY <2>3, DyingMoves DEF RejectShortLog, RejectConflict, AcceptEntries, FollowLeader
    <3>2. \/ TermAfter(n, m) > CurrentTerm[n]
          \/ TermAfter(n, m) = CurrentTerm[n] /\ VotedFor[n] \in {NoNode, VoteAfter(n, m)}
      BY <1>0, TermVoteAfter
    <3> QED BY <1>0, <3>1, <3>2, TermVoteAfter, NewVote
  <2>4. CASE \/ RecordVote(n, m) \/ RejectStaleAppend(n, m) \/ CommitPanic(n, m)
             \/ AppendSucceeded(n, m) \/ AppendFailed(n, m)
    <3>1. UNCHANGED <<CurrentTerm, VotedFor>>
      BY <2>4 DEF RecordVote, RejectStaleAppend, CommitPanic, AppendSucceeded,
                  AppendFailed, Panic, electionVars
    <3> QED BY <1>0, <3>1, SameVotes
  <2> QED BY <1>1, <2>1, <2>2, <2>3, <2>4 DEF Receive
<1>2. ASSUME NEW n \in Peers, Elect(n) PROVE KeepsVotes
  <2>1. CASE SwitchToCandidate(n)
    <3>1. /\ CurrentTerm' = [CurrentTerm EXCEPT ![n] = CurrentTerm[n] + 1]
          /\ VotedFor' = [VotedFor EXCEPT ![n] = n]
      BY <2>1 DEF SwitchToCandidate
    <3>2. CurrentTerm[n] + 1 \in Nat /\ CurrentTerm[n] + 1 > CurrentTerm[n]
      BY <1>0 DEF TypeOK
    <3> QED BY <1>0, <3>1, <3>2, NewVote
  <2>2. CASE ~SwitchToCandidate(n)
    <3>1. UNCHANGED <<CurrentTerm, VotedFor>>
      BY <1>2, <2>2 DEF Elect, ElectionTimeout, LeaderSkipsElection, CheckRole,
                        ResetVoteResult
    <3> QED BY <1>0, <3>1, SameVotes
  <2> QED BY <2>1, <2>2
<1>3. ASSUME NEW n \in Peers, Lead(n) \/ Crash(n) PROVE KeepsVotes
  <2>1. UNCHANGED <<CurrentTerm, VotedFor>>
    BY <1>3 DEF Lead, ProposeCommand, SendAppendEntriesTo, SendPanic, HeartbeatTimeout,
                BroadcastHeartbeat, SendHeartbeat, Crash, Panic, electionVars
  <2> QED BY <1>0, <2>1, SameVotes
<1>4. ASSUME NEW n \in Peers, Restart(n) PROVE KeepsVotes
  <2>1. /\ CurrentTerm' = [CurrentTerm EXCEPT ![n] = CurrentTerm[n]]
        /\ VotedFor' = [VotedFor EXCEPT ![n] = VotedFor[n]]
        /\ CurrentTerm[n] \in Nat
    BY <1>0, <1>4 DEF Restart, StoreInv, TypeOK
  <2> QED BY <1>0, <2>1, NewVote
<1> QED BY <1>1, <1>2, <1>3, <1>4 DEF Next

\* A term never decreases and a vote never changes within its term, for any number of
\* peers, overlapping elections, crashes and restarts.
THEOREM VoteKept == Spec => VoteIsKept
<1>1. Durable /\ [Next]_vars => [KeepsVotes]_vars
  BY VotesKept
<1>2. Spec => [][KeepsVotes]_vars
  BY <1>1, DurableInvariant, PTL DEF Spec
<1> QED BY <1>2 DEF VoteIsKept, KeepsVotes

-----------------------------------------------------------------------------
\* A request for votes is sent to another node, in a term its sender has reached;
\* while the sender is in that term its vote is for itself.
RequestInv ==
  \A r \in msgs : r.type = "RequestVote" =>
    /\ r.from # r.to
    /\ r.term <= CurrentTerm[r.from]
    /\ r.term = CurrentTerm[r.from] => VotedFor[r.from] = r.from

\* A vote goes to another node, in a term its voter has reached; while the voter is in
\* that term its recorded vote is for that node.
GrantInv ==
  \A g \in Granted :
    /\ g.from # g.to
    /\ g.term <= CurrentTerm[g.from]
    /\ g.term = CurrentTerm[g.from] => VotedFor[g.from] = g.to

\* The inductive invariant behind OneVotePerTerm.
Ballots == RequestInv /\ GrantInv /\ OneVotePerTerm

\* A step that sends no vote and no request for one.
NoNewBallots ==
  \A m \in msgs' : m \in msgs \/ m.type \in {"AppendEntries", "AppendEntriesResponse"}


\* A ballot of an earlier step stays consistent with the term and the vote of its
\* sender when votes are kept.
LEMMA OldBallot ==
  ASSUME TypeOK, TypeOK', KeepsVotes, NEW m \in msgs, NEW v \in Peers,
         m.term <= CurrentTerm[m.from],
         m.term = CurrentTerm[m.from] => VotedFor[m.from] = v
  PROVE  /\ m.term <= CurrentTerm'[m.from]
         /\ m.term = CurrentTerm'[m.from] => VotedFor'[m.from] = v
<1>1. m.from \in Peers /\ m.term \in Nat
  BY MessageTypes DEF TypeOK
<1>2. CurrentTerm[m.from] \in Nat /\ CurrentTerm'[m.from] \in Nat
  BY <1>1 DEF TypeOK
<1>3. /\ CurrentTerm'[m.from] >= CurrentTerm[m.from]
      /\ CurrentTerm'[m.from] = CurrentTerm[m.from] /\ VotedFor[m.from] # NoNode
           => VotedFor'[m.from] = VotedFor[m.from]
  BY <1>1 DEF KeepsVotes
<1>4. v # NoNode
  BY PeersAssumption
<1> QED BY <1>1, <1>2, <1>3, <1>4

\* RequestInv and GrantInv go on holding for the ballots sent before the step.
LEMMA OldBallots ==
  ASSUME TypeOK, TypeOK', KeepsVotes, RequestInv, GrantInv
  PROVE  /\ \A r \in msgs : r.type = "RequestVote" =>
              /\ r.from # r.to
              /\ r.term <= CurrentTerm'[r.from]
              /\ r.term = CurrentTerm'[r.from] => VotedFor'[r.from] = r.from
         /\ \A g \in Granted :
              /\ g.from # g.to
              /\ g.term <= CurrentTerm'[g.from]
              /\ g.term = CurrentTerm'[g.from] => VotedFor'[g.from] = g.to
<1>1. \A m \in msgs : m.from \in Peers /\ m.to \in Peers
  BY MessageTypes DEF TypeOK
<1>2. ASSUME NEW r \in msgs, r.type = "RequestVote"
      PROVE  /\ r.from # r.to
             /\ r.term <= CurrentTerm'[r.from]
             /\ r.term = CurrentTerm'[r.from] => VotedFor'[r.from] = r.from
  BY <1>1, <1>2, OldBallot DEF RequestInv
<1>3. ASSUME NEW g \in Granted
      PROVE  /\ g.from # g.to
             /\ g.term <= CurrentTerm'[g.from]
             /\ g.term = CurrentTerm'[g.from] => VotedFor'[g.from] = g.to
  <2>1. g \in msgs
    BY DEF Granted
  <2> QED BY <1>1, <2>1, OldBallot DEF GrantInv
<1> QED BY <1>2, <1>3

\* A step without new ballots preserves Ballots as long as it keeps the votes.
LEMMA NoBallot ==
  ASSUME TypeOK, TypeOK', Ballots, KeepsVotes, NoNewBallots
  PROVE  Ballots'
<1>1. RequestInv /\ GrantInv /\ OneVotePerTerm
  BY DEF Ballots
<1>2. /\ \A m \in msgs' : m.type = "RequestVote" => m \in msgs
      /\ \A g \in Granted' : g \in Granted
  BY DEF NoNewBallots, Granted
<1>3. RequestInv'
  BY <1>1, <1>2, OldBallots DEF RequestInv
<1>4. GrantInv'
  BY <1>1, <1>2, OldBallots DEF GrantInv
<1>5. OneVotePerTerm'
  BY <1>1, <1>2 DEF OneVotePerTerm
<1> QED BY <1>3, <1>4, <1>5 DEF Ballots

\* switchToCandidate asks for votes in a term in which it has granted none.
LEMMA CandidateBallots ==
  ASSUME TypeOK, TypeOK', Ballots, KeepsVotes, NEW n \in Peers, SwitchToCandidate(n)
  PROVE  Ballots'
<1>1. RequestInv /\ GrantInv /\ OneVotePerTerm
  BY DEF Ballots
<1>2. /\ CurrentTerm'[n] = CurrentTerm[n] + 1 /\ VotedFor'[n] = n
      /\ CurrentTerm[n] \in Nat
  BY DEF SwitchToCandidate, TypeOK
<1>3. ASSUME NEW r \in msgs', r \notin msgs
      PROVE  /\ r.type = "RequestVote" /\ r.from = n /\ r.to # n
             /\ r.term = CurrentTerm[n] + 1
  BY <1>3 DEF SwitchToCandidate, Others
<1>4. Granted' \subseteq Granted
  BY <1>3 DEF Granted
<1>5. RequestInv'
  <2> SUFFICES ASSUME NEW r \in msgs', r.type = "RequestVote"
               PROVE  /\ r.from # r.to
                      /\ r.term <= CurrentTerm'[r.from]
                      /\ r.term = CurrentTerm'[r.from] => VotedFor'[r.from] = r.from
    BY DEF RequestInv
  <2>1. CASE r \in msgs
    BY <1>1, <2>1, OldBallots
  <2>2. CASE r \notin msgs
    BY <1>2, <1>3, <2>2
  <2> QED BY <2>1, <2>2
<1>6. GrantInv'
  BY <1>1, <1>4, OldBallots DEF GrantInv
<1>7. OneVotePerTerm'
  <2>1. ASSUME NEW g \in Granted, NEW r \in msgs', r.type = "RequestVote",
               r.from = g.from
        PROVE  r.term # g.term
    <3>1. CASE r \in msgs
      BY <1>1, <2>1, <3>1 DEF OneVotePerTerm
    <3>2. CASE r \notin msgs
      <4>1. r.from = n /\ r.term = CurrentTerm[n] + 1
        BY <1>3, <3>2
      <4>2. g.term <= CurrentTerm[n] /\ g.term \in Nat
        BY <1>1, <2>1, <4>1, MessageTypes DEF GrantInv, Granted, TypeOK
      <4> QED BY <1>2, <4>1, <4>2
    <3> QED BY <3>1, <3>2
  <2> QED BY <1>1, <1>4, <2>1 DEF OneVotePerTerm
<1> QED BY <1>5, <1>6, <1>7 DEF Ballots

\* handleRequestVote sends at most one vote, and only if it has cast no other vote in
\* that term, nor asked for votes itself.
LEMMA VoteBallots ==
  ASSUME TypeOK, TypeOK', Ballots, KeepsVotes, NEW n \in Peers, NEW m \in msgs,
         HandleRequestVote(n, m)
  PROVE  Ballots'
<1>1. RequestInv /\ GrantInv /\ OneVotePerTerm
  BY DEF Ballots
<1> DEFINE reply == [type |-> "RequestVoteResponse", from |-> n, to |-> m.from,
                     term |-> TermAfter(n, m), granted |-> Grants(n, m)]
           vote == IF Grants(n, m) THEN m.from ELSE VoteAfter(n, m)
<1>2. /\ msgs' = msgs \cup {reply} /\ m.type = "RequestVote" /\ m.to = n
      /\ CurrentTerm' = [CurrentTerm EXCEPT ![n] = TermAfter(n, m)]
      /\ VotedFor' = [VotedFor EXCEPT ![n] = vote]
  BY DEF HandleRequestVote, Receives
<1>3. m.from # n
  BY <1>1, <1>2 DEF RequestInv
<1>4. CurrentTerm'[n] = TermAfter(n, m) /\ VotedFor'[n] = vote
  BY <1>2 DEF TypeOK
<1>5. ASSUME Grants(n, m)
      PROVE  /\ vote = m.from
             /\ \A g \in Granted : g.from = n /\ g.term = TermAfter(n, m) => g.to = m.from
             /\ \A r \in msgs : r.type = "RequestVote" /\ r.from = n
                                  => r.term # TermAfter(n, m)
  <2>1. VoteAfter(n, m) \in {NoNode, m.from}
    BY <1>5 DEF Grants
  <2>2. ASSUME NEW b \in msgs, b.from = n, b.term = TermAfter(n, m),
               b.term <= CurrentTerm[n]
        PROVE  b.term = CurrentTerm[n] /\ VotedFor[n] \in {NoNode, m.from}
    BY <2>1, <2>2, TermVoteAfter
  <2>3. ASSUME NEW g \in Granted, g.from = n, g.term = TermAfter(n, m)
        PROVE  g.to = m.from
    <3>1. g \in msgs /\ g.to \in Peers
      BY MessageTypes DEF Granted, TypeOK
    <3>2. /\ g.term <= CurrentTerm[n]
          /\ g.term = CurrentTerm[n] => VotedFor[n] = g.to
      BY <1>1, <2>3 DEF GrantInv
    <3> QED BY <2>2, <2>3, <3>1, <3>2, PeersAssumption
  <2>4. ASSUME NEW r \in msgs, r.type = "RequestVote", r.from = n,
               r.term = TermAfter(n, m)
        PROVE  FALSE
    <3>1. r.term <= CurrentTerm[n] /\ (r.term = CurrentTerm[n] => VotedFor[n] = n)
      BY <1>1, <2>4 DEF RequestInv
    <3> QED BY <1>3, <2>2, <2>4, <3>1, PeersAssumption
  <2> QED BY <1>5, <2>3, <2>4
<1>6. /\ reply.type = "RequestVoteResponse" /\ reply.from = n /\ reply.to = m.from
      /\ reply.term = TermAfter(n, m) /\ reply.granted = Grants(n, m)
  OBVIOUS
<1> HIDE DEF reply, vote
<1>7. ASSUME NEW g \in Granted', g \notin Granted
      PROVE  g = reply /\ Grants(n, m)
  BY <1>2, <1>6, <1>7 DEF Granted
<1>8. TermAfter(n, m) \in Nat
  BY TermVoteAfter
<1>9. RequestInv'
  BY <1>1, <1>2, <1>6, OldBallots DEF RequestInv
<1>10. GrantInv'
  <2> SUFFICES ASSUME NEW g \in Granted'
               PROVE  /\ g.from # g.to
                      /\ g.term <= CurrentTerm'[g.from]
                      /\ g.term = CurrentTerm'[g.from] => VotedFor'[g.from] = g.to
    BY DEF GrantInv
  <2>1. CASE g \in Granted
    BY <1>1, <2>1, OldBallots
  <2>2. CASE g \notin Granted
    BY <1>3, <1>4, <1>5, <1>6, <1>7, <1>8, <2>2
  <2> QED BY <2>1, <2>2
<1>11. OneVotePerTerm'
  <2>1. ASSUME NEW g \in Granted', NEW h \in Granted', g.from = h.from, g.term = h.term
        PROVE  g.to = h.to
    <3>1. CASE g \in Granted /\ h \in Granted
      BY <1>1, <2>1, <3>1 DEF OneVotePerTerm
    <3>2. CASE ~(g \in Granted /\ h \in Granted)
      BY <1>5, <1>6, <1>7, <2>1, <3>2
    <3> QED BY <3>1, <3>2
  <2>2. ASSUME NEW g \in Granted', NEW r \in msgs', r.type = "RequestVote",
               r.from = g.from
        PROVE  r.term # g.term
    <3>1. r \in msgs
      BY <1>2, <1>6, <2>2
    <3>2. CASE g \in Granted
      BY <1>1, <2>2, <3>1, <3>2 DEF OneVotePerTerm
    <3>3. CASE g \notin Granted
      BY <1>5, <1>6, <1>7, <2>2, <3>1, <3>3
    <3> QED BY <3>2, <3>3
  <2> QED BY <2>1, <2>2 DEF OneVotePerTerm
<1> QED BY <1>9, <1>10, <1>11 DEF Ballots

\* All other steps send no ballots.
LEMMA OtherBallots ==
  ASSUME Next, TypeOK
  PROVE  \/ NoNewBallots
         \/ \E n \in Peers : SwitchToCandidate(n)
         \/ \E n \in Peers : \E m \in msgs : HandleRequestVote(n, m)
<1>1. ASSUME NEW n \in Peers, NEW m \in msgs, Receive(n, m), ~HandleRequestVote(n, m)
      PROVE  NoNewBallots
  <2>1. CASE \/ ResponseNewerTerm(n, m) \/ RecordVote(n, m) \/ CommitPanic(n, m)
             \/ AppendSucceeded(n, m) \/ AppendFailed(n, m)
    BY <2>1 DEF ResponseNewerTerm, SwitchToFollower, RecordVote, CommitPanic, Panic,
                AppendSucceeded, AppendFailed, NoNewBallots
  <2>2. CASE \/ RejectStaleAppend(n, m) \/ RejectShortLog(n, m) \/ RejectConflict(n, m)
             \/ AcceptEntries(n, m)
    <3>1. \E t, success, ct, ci, l :
            msgs' = msgs \cup {AppendReply(n, m, t, success, ct, ci, l)}
      <4>1. CASE RejectStaleAppend(n, m)
        BY <4>1 DEF RejectStaleAppend
      <4>2. CASE RejectShortLog(n, m)
        BY <4>2 DEF RejectShortLog, FollowLeader
      <4>3. CASE RejectConflict(n, m)
        BY <4>3 DEF RejectConflict, FollowLeader
      <4>4. CASE AcceptEntries(n, m)
        BY <4>4 DEF AcceptEntries, FollowLeader
      <4> QED BY <2>2, <4>1, <4>2, <4>3, <4>4
    <3>2. \A t, success, ct, ci, l :
            AppendReply(n, m, t, success, ct, ci, l).type = "AppendEntriesResponse"
      BY DEF AppendReply
    <3> QED BY <3>1, <3>2 DEF NoNewBallots
  <2>3. CASE FollowerDiesApplying(n, m) \/ LeaderDiesApplying(n, m)
    BY <2>3, DyingMoves DEF NoNewBallots
  <2> QED BY <1>1, <2>1, <2>2, <2>3 DEF Receive
<1>2. ASSUME NEW n \in Peers, Elect(n), ~SwitchToCandidate(n)
      PROVE  NoNewBallots
  BY <1>2 DEF Elect, ElectionTimeout, LeaderSkipsElection, CheckRole, ResetVoteResult,
              NoNewBallots
<1>3. ASSUME NEW n \in Peers, Lead(n) PROVE NoNewBallots
  <2>1. \A p, t, next, entries, commit :
          AppendEntriesRequest(n, p, t, next, entries, commit).type = "AppendEntries"
    BY DEF AppendEntriesRequest
  <2>2. CASE \E p \in Peers : SendAppendEntriesTo(n, p)
    BY <2>1, <2>2 DEF SendAppendEntriesTo, NoNewBallots
  <2>3. CASE \E b \in beats[n] : SendHeartbeat(n, b)
    BY <2>1, <2>3 DEF SendHeartbeat, NoNewBallots
  <2>4. CASE \/ \E cmd \in Commands : ProposeCommand(n, cmd)
             \/ \E p \in Peers : SendPanic(n, p)
             \/ HeartbeatTimeout(n) \/ BroadcastHeartbeat(n)
    BY <2>4 DEF ProposeCommand, SendPanic, Panic, HeartbeatTimeout, BroadcastHeartbeat,
                NoNewBallots
  <2> QED BY <1>3, <2>2, <2>3, <2>4 DEF Lead
<1>4. ASSUME NEW n \in Peers, Crash(n) \/ Restart(n) PROVE NoNewBallots
  BY <1>4 DEF Crash, Restart, NoNewBallots
<1> QED BY <1>1, <1>2, <1>3, <1>4 DEF Next

\* Every step preserves Ballots.
LEMMA BallotsNext ==
  ASSUME Durable, Durable', Ballots, Next
  PROVE  Ballots'
<1>1. TypeOK /\ TypeOK' /\ KeepsVotes
  BY VotesKept DEF Durable
<1>2. CASE NoNewBallots
  BY <1>1, <1>2, NoBallot
<1>3. CASE \E n \in Peers : SwitchToCandidate(n)
  BY <1>1, <1>3, CandidateBallots
<1>4. CASE \E n \in Peers : \E m \in msgs : HandleRequestVote(n, m)
  BY <1>1, <1>4, VoteBallots
<1> QED BY <1>1, <1>2, <1>3, <1>4, OtherBallots

\* Ballots holds in every reachable state.
LEMMA BallotsInvariant == Spec => []Ballots
<1>1. Init => Ballots
  BY DEF Init, Ballots, RequestInv, GrantInv, OneVotePerTerm, Granted
<1>2. Durable /\ Durable' /\ Ballots /\ [Next]_vars => Ballots'
  <2>1. ASSUME Ballots, UNCHANGED vars PROVE Ballots'
    BY <2>1 DEF Ballots, RequestInv, GrantInv, OneVotePerTerm, Granted, vars, electionVars
  <2> QED BY <2>1, BallotsNext
<1> QED BY <1>1, <1>2, DurableInvariant, PTL DEF Spec

\* No voter casts two votes in one term, nor one in a term in which it stands itself,
\* for any number of peers, overlapping elections, crashes and restarts.
THEOREM VotesAreUnique == Spec => []OneVotePerTerm
<1>1. Ballots => OneVotePerTerm
  BY DEF Ballots
<1> QED BY <1>1, BallotsInvariant, PTL

-----------------------------------------------------------------------------
\* p has sent n its vote of term t.
Voted(p, n, t) == \E g \in Granted : g.from = p /\ g.to = n /\ g.term = t

\* What a node's role rests on: while startElection is between resetVoteResult and
\* switchToCandidate only the node's own vote is recorded; a candidate or a leader has
\* voted for itself; the votes a candidate has recorded were sent to it in its present
\* term, and so was a majority of votes to a leader.
Stands(n) ==
  /\ election[n].reset > 0 => voteResult[n] \subseteq {n}
  /\ Role[n] # "Follower" => VotedFor[n] = n
  /\ Role[n] = "Candidate" =>
       \A p \in voteResult[n] : p = n \/ Voted(p, n, CurrentTerm[n])
  /\ Role[n] = "Leader" =>
       \E Q \in SUBSET Peers : /\ Majority(Q)
                               /\ \A p \in Q : p = n \/ Voted(p, n, CurrentTerm[n])
Standing == \A n \in Peers : Stands(n)

\* Two majorities of a group have a member in common: hasMajorityVotes asks for more
\* than half, whether the number of peers is odd or even.
LEMMA MajoritiesMeet ==
  ASSUME NEW Q \in SUBSET Peers, NEW R \in SUBSET Peers, Majority(Q), Majority(R)
  PROVE  Q \cap R # {}
<1>1. IsFiniteSet(Peers) /\ Cardinality(Peers) \in Nat
  BY PeersAssumption, FS_CardinalityType
<1>2. /\ IsFiniteSet(Q) /\ IsFiniteSet(R)
      /\ Cardinality(Q) \in Nat /\ Cardinality(R) \in Nat
  BY <1>1, FS_Subset, FS_CardinalityType
<1>3. Cardinality(Q) + Cardinality(R) > Cardinality(Peers)
  BY <1>1, <1>2 DEF Majority
<1> QED BY <1>1, <1>3, FS_MajoritiesIntersect

\* Two leaders of one term would share a voter, and a voter has one vote.
LEMMA StandingSafe ==
  ASSUME TypeOK, Ballots, Standing
  PROVE  ElectionSafety
<1> SUFFICES ASSUME NEW n \in Peers, NEW p \in Peers, n # p, Role[n] = "Leader",
                    Role[p] = "Leader", CurrentTerm[n] = CurrentTerm[p]
             PROVE  FALSE
  BY DEF ElectionSafety
<1>1. PICK Q \in SUBSET Peers :
        Majority(Q) /\ \A q \in Q : q = n \/ Voted(q, n, CurrentTerm[n])
  BY DEF Standing, Stands
<1>2. PICK R \in SUBSET Peers :
        Majority(R) /\ \A q \in R : q = p \/ Voted(q, p, CurrentTerm[p])
  BY DEF Standing, Stands
<1>3. PICK q : q \in Q /\ q \in R
  BY <1>1, <1>2, MajoritiesMeet
<1>4. VotedFor[n] = n /\ VotedFor[p] = p
  BY DEF Standing, Stands
<1>5. ~Voted(n, p, CurrentTerm[n]) /\ ~Voted(p, n, CurrentTerm[p])
  BY <1>4 DEF Voted, Ballots, GrantInv
<1>6. ~(Voted(q, n, CurrentTerm[n]) /\ Voted(q, p, CurrentTerm[n]))
  BY DEF Voted, Ballots, OneVotePerTerm
<1> QED BY <1>1, <1>2, <1>3, <1>5, <1>6

\* Messages stay on the wire.
LEMMA MessagesStay ==
  ASSUME Next
  PROVE  msgs \subseteq msgs'
<1>1. ASSUME NEW n \in Peers, NEW m \in msgs, Receive(n, m) PROVE msgs \subseteq msgs'
  <2>1. CASE \/ HandleRequestVote(n, m) \/ ResponseNewerTerm(n, m) \/ RecordVote(n, m)
             \/ CommitPanic(n, m) \/ AppendSucceeded(n, m) \/ AppendFailed(n, m)
    BY <2>1 DEF HandleRequestVote, ResponseNewerTerm, SwitchToFollower, RecordVote,
                CommitPanic, Panic, AppendSucceeded, AppendFailed
  <2>2. CASE \/ RejectStaleAppend(n, m) \/ RejectShortLog(n, m) \/ RejectConflict(n, m)
             \/ AcceptEntries(n, m)
    BY <2>2 DEF RejectStaleAppend, RejectShortLog, RejectConflict, AcceptEntries,
                FollowLeader
  <2>3. CASE FollowerDiesApplying(n, m) \/ LeaderDiesApplying(n, m)
    BY <2>3, DyingMoves
  <2> QED BY <1>1, <2>1, <2>2, <2>3 DEF Receive
<1>2. ASSUME NEW n \in Peers, Elect(n) PROVE msgs \subseteq msgs'
  BY <1>2 DEF Elect, ElectionTimeout, LeaderSkipsElection, CheckRole, ResetVoteResult,
              SwitchToCandidate
<1>3. ASSUME NEW n \in Peers, Lead(n) PROVE msgs \subseteq msgs'
  BY <1>3 DEF Lead, ProposeCommand, SendAppendEntriesTo, SendPanic, Panic,
              HeartbeatTimeout, BroadcastHeartbeat, SendHeartbeat
<1>4. ASSUME NEW n \in Peers, Crash(n) \/ Restart(n) PROVE msgs \subseteq msgs'
  BY <1>4 DEF Crash, Restart
<1> QED BY <1>1, <1>2, <1>3, <1>4 DEF Next

\* A vote, once sent, has been sent for good.
LEMMA VotedStays ==
  ASSUME Next, NEW p, NEW n, NEW t, Voted(p, n, t)
  PROVE  Voted(p, n, t)'
<1>1. Granted \subseteq Granted'
  BY MessagesStay DEF Granted
<1> QED BY <1>1 DEF Voted

\* A node that a step does not move goes on standing as it did.
LEMMA Unmoved ==
  ASSUME Next, NEW n \in Peers, Stands(n), Role'[n] = Role[n],
         CurrentTerm'[n] = CurrentTerm[n], VotedFor'[n] = VotedFor[n],
         voteResult'[n] = voteResult[n], election'[n].reset = election[n].reset
  PROVE  Stands(n)'
<1>1. \A p, q, t : Voted(p, q, t) => Voted(p, q, t)'
  BY VotedStays
<1>2. /\ election'[n].reset > 0 => voteResult'[n] \subseteq {n}
      /\ Role'[n] # "Follower" => VotedFor'[n] = n
  BY DEF Stands
<1> QED BY <1>1, <1>2 DEF Stands

\* The fields of one node that Stands looks at.
Posture(n) == <<Role[n], CurrentTerm[n], VotedFor[n], voteResult[n], election[n].reset>>

\* It is enough to look at the node that takes the step.
LEMMA OneMoves ==
  ASSUME Next, Standing, NEW n \in Peers, Stands(n)',
         \A p \in Peers \ {n} : Posture(p)' = Posture(p)
  PROVE  Standing'
<1> SUFFICES ASSUME NEW p \in Peers PROVE Stands(p)'
  BY DEF Standing
<1>1. CASE p = n
  BY <1>1
<1>2. CASE p # n
  BY <1>2, Unmoved DEF Posture, Standing
<1> QED BY <1>1, <1>2

\* Steps that leave the election state alone.
LEMMA NobodyMoves ==
  ASSUME Next, Standing, UNCHANGED electionVars
  PROVE  Standing'
BY Unmoved DEF Standing, electionVars

\* A node that has become, or remains, a follower.
LEMMA FollowerStands ==
  ASSUME NEW n \in Peers, Stands(n), Role'[n] = "Follower",
         voteResult'[n] = voteResult[n], election'[n].reset = election[n].reset
  PROVE  Stands(n)'
BY DEF Stands

\* handleRequestVote, handleAppendEntries and the responses of a newer term.
LEMMA MessageStands ==
  ASSUME Durable, Ballots, Standing, Next, NEW n \in Peers, NEW m \in msgs,
         \/ HandleRequestVote(n, m) \/ ResponseNewerTerm(n, m) \/ RejectShortLog(n, m)
         \/ RejectConflict(n, m) \/ AcceptEntries(n, m)
         \/ FollowerDiesApplying(n, m) \/ LeaderDiesApplying(n, m)
  PROVE  Standing'
<1>0. TypeOK /\ RequestInv
  BY DEF Durable, Ballots
<1>1. Stands(n) /\ UNCHANGED <<voteResult, election>>
  BY DyingMoves DEF Standing, HandleRequestVote, ResponseNewerTerm, SwitchToFollower,
         RejectShortLog, RejectConflict, AcceptEntries, FollowLeader
<1>2. ASSUME NEW t, NEW v, NEW r,
             CurrentTerm' = [CurrentTerm EXCEPT ![n] = t],
             VotedFor' = [VotedFor EXCEPT ![n] = v],
             Role' = [Role EXCEPT ![n] = r],
             \/ r = "Follower"
             \/ r = Role[n] /\ t = CurrentTerm[n] /\ v = VotedFor[n]
      PROVE  Standing'
  <2>1. /\ \A p \in Peers \ {n} : Posture(p)' = Posture(p)
        /\ CurrentTerm'[n] = t /\ VotedFor'[n] = v /\ Role'[n] = r
    BY <1>0, <1>1, <1>2 DEF TypeOK, Posture
  <2>2. CASE r = "Follower"
    BY <1>1, <2>1, <2>2, FollowerStands, OneMoves
  <2>3. CASE r = Role[n] /\ t = CurrentTerm[n] /\ v = VotedFor[n]
    BY <1>1, <2>1, <2>3, Unmoved, OneMoves
  <2> QED BY <1>2, <2>2, <2>3
<1>3. CASE ResponseNewerTerm(n, m)
  BY <1>2, <1>3 DEF ResponseNewerTerm, SwitchToFollower
<1>4. \/ RoleAfter(n, m) = "Follower"
      \/ /\ RoleAfter(n, m) = Role[n] /\ TermAfter(n, m) = CurrentTerm[n]
         /\ VoteAfter(n, m) = VotedFor[n]
  BY DEF RoleAfter, TermAfter, VoteAfter
<1>5. CASE \/ RejectShortLog(n, m) \/ RejectConflict(n, m) \/ AcceptEntries(n, m)
           \/ FollowerDiesApplying(n, m) \/ LeaderDiesApplying(n, m)
  <2>1. /\ CurrentTerm' = [CurrentTerm EXCEPT ![n] = TermAfter(n, m)]
        /\ VotedFor' = [VotedFor EXCEPT ![n] = VoteAfter(n, m)]
        /\ Role' = [Role EXCEPT ![n] = RoleAfter(n, m)]
    BY <1>5, DyingMoves DEF RejectShortLog, RejectConflict, AcceptEntries, FollowLeader
  <2> QED BY <1>2, <1>4, <2>1
<1>6. CASE HandleRequestVote(n, m)
  <2> DEFINE vote == IF Grants(n, m) THEN m.from ELSE VoteAfter(n, m)
  <2>1. /\ CurrentTerm' = [CurrentTerm EXCEPT ![n] = TermAfter(n, m)]
        /\ VotedFor' = [VotedFor EXCEPT ![n] = vote]
        /\ Role' = [Role EXCEPT ![n] = RoleAfter(n, m)]
        /\ m.type = "RequestVote" /\ m.to = n
    BY <1>6 DEF HandleRequestVote, Receives
  <2>2. m.from # n
    BY <1>0, <2>1 DEF RequestInv
  <2>3. CASE RoleAfter(n, m) = "Follower"
    BY <1>2, <2>1, <2>3
  <2>4. CASE RoleAfter(n, m) # "Follower"
    <3>1. /\ RoleAfter(n, m) = Role[n] /\ TermAfter(n, m) = CurrentTerm[n]
          /\ VoteAfter(n, m) = VotedFor[n]
      BY <1>4, <2>4
    <3>2. VotedFor[n] = n
      BY <1>1, <2>4, <3>1 DEF Stands
    <3>3. ~Grants(n, m)
      BY <2>2, <3>1, <3>2, PeersAssumption DEF Grants
    <3> QED BY <1>2, <2>1, <3>1, <3>3
  <2> QED BY <2>3, <2>4
<1> QED BY <1>3, <1>5, <1>6

\* handleRequestVoteResponse records votes of the present term only, and makes a leader
\* of a candidate with a majority of them.  The assumption excludes the window of
\* startElection in which a vote of the old term would be kept for the new one.
LEMMA RecordStands ==
  ASSUME Durable, Standing, Next, ~RaceWindow, NEW n \in Peers, NEW m \in msgs,
         RecordVote(n, m)
  PROVE  Standing'
<1> DEFINE votes == IF m.granted THEN voteResult[n] \cup {m.from}
                    ELSE voteResult[n] \ {m.from}
           wins == Role[n] = "Candidate" /\ Majority(votes)
<1>1. /\ voteResult' = [voteResult EXCEPT ![n] = votes]
      /\ Role' = [Role EXCEPT ![n] = IF wins THEN "Leader" ELSE @]
      /\ UNCHANGED <<CurrentTerm, VotedFor, election>>
      /\ m.type = "RequestVoteResponse" /\ m.to = n /\ m.term = CurrentTerm[n]
      /\ election[n].reset = 0
  BY DEF RecordVote, Receives
<1>2. TypeOK /\ Stands(n)
  BY DEF Durable, Standing
<1>3. votes \in SUBSET Peers
  <2>1. m.from \in Peers /\ voteResult[n] \in SUBSET Peers
    BY <1>2, MessageTypes DEF TypeOK
  <2> QED BY <2>1
<1>4. ASSUME Role[n] = "Candidate", NEW p \in votes
      PROVE  p = n \/ Voted(p, n, CurrentTerm[n])
  <2>1. CASE p \in voteResult[n]
    BY <1>2, <1>4, <2>1 DEF Stands
  <2>2. CASE p \notin voteResult[n]
    BY <1>1, <1>4, <2>2 DEF Voted, Granted
  <2> QED BY <2>1, <2>2
<1> HIDE DEF votes
<1>5. /\ voteResult'[n] = votes /\ CurrentTerm'[n] = CurrentTerm[n]
      /\ Role'[n] = IF wins THEN "Leader" ELSE Role[n]
      /\ \A p \in Peers \ {n} : Posture(p)' = Posture(p)
  BY <1>1, <1>2 DEF TypeOK, Posture
<1>6. \A p, q, t : Voted(p, q, t) => Voted(p, q, t)'
  BY VotedStays
<1>7. ~(election'[n].reset > 0)
  BY <1>1
<1>8. Role'[n] # "Follower" => VotedFor'[n] = n
  BY <1>1, <1>2, <1>5 DEF Stands
<1>9. Role'[n] = "Candidate" =>
        \A p \in voteResult'[n] : p = n \/ Voted(p, n, CurrentTerm[n])'
  BY <1>1, <1>4, <1>5, <1>6
<1>10. ASSUME Role'[n] = "Leader"
       PROVE  \E Q \in SUBSET Peers :
                Majority(Q) /\ \A p \in Q : p = n \/ Voted(p, n, CurrentTerm[n])'
  <2>1. CASE wins
    BY <1>1, <1>3, <1>4, <1>6, <2>1
  <2>2. CASE ~wins
    BY <1>1, <1>2, <1>5, <1>6, <1>10, <2>2 DEF Stands
  <2> QED BY <2>1, <2>2
<1>11. Stands(n)'
  BY <1>7, <1>8, <1>9, <1>10 DEF Stands, Majority
<1> QED BY <1>5, <1>11, OneMoves

\* The sections of startElection.
LEMMA ElectStands ==
  ASSUME Durable, Standing, Next, NEW n \in Peers, Elect(n)
  PROVE  Standing'
<1>0. TypeOK /\ Stands(n)
  BY DEF Durable, Standing
<1>1. /\ election \in [Peers -> Election] /\ Role \in [Peers -> Roles]
      /\ CurrentTerm \in [Peers -> Nat] /\ VotedFor \in [Peers -> Peers \cup {NoNode}]
      /\ voteResult \in [Peers -> SUBSET Peers]
  BY <1>0 DEF TypeOK
<1>2. CASE ElectionTimeout(n) \/ LeaderSkipsElection(n) \/ CheckRole(n)
  <2>1. /\ UNCHANGED <<Role, CurrentTerm, VotedFor, voteResult>>
        /\ \A p \in Peers : election'[p].reset = election[p].reset
    <3>1. CASE ElectionTimeout(n)
      BY <1>1, <3>1 DEF ElectionTimeout, Election
    <3>2. CASE LeaderSkipsElection(n)
      BY <1>1, <3>2 DEF LeaderSkipsElection, Election
    <3>3. CASE CheckRole(n)
      BY <1>1, <3>3 DEF CheckRole, Election
    <3> QED BY <1>2, <3>1, <3>2, <3>3
  <2> QED BY <2>1, Unmoved DEF Standing
<1>3. CASE ResetVoteResult(n)
  <2>1. /\ \A p \in Peers \ {n} : Posture(p)' = Posture(p)
        /\ voteResult'[n] = {n} /\ Role'[n] = Role[n]
        /\ UNCHANGED <<CurrentTerm, VotedFor>>
    BY <1>1, <1>3 DEF ResetVoteResult, Posture
  <2>2. \A p, q, t : Voted(p, q, t) => Voted(p, q, t)'
    BY VotedStays
  <2>3. Stands(n)'
    BY <1>0, <2>1, <2>2 DEF Stands, Majority
  <2> QED BY <2>1, <2>3, OneMoves
<1>4. CASE SwitchToCandidate(n)
  <2>1. /\ \A p \in Peers \ {n} : Posture(p)' = Posture(p)
        /\ voteResult'[n] = voteResult[n] /\ Role'[n] = "Candidate" /\ VotedFor'[n] = n
        /\ election[n].reset > 0
    BY <1>1, <1>4 DEF SwitchToCandidate, Posture
  <2>2. voteResult'[n] \subseteq {n}
    BY <1>0, <2>1 DEF Stands
  <2>3. Stands(n)'
    BY <2>1, <2>2 DEF Stands
  <2> QED BY <2>1, <2>3, OneMoves
<1> QED BY <1>2, <1>3, <1>4 DEF Elect

\* Every step preserves Standing, as long as no vote is recorded in the window.
LEMMA StandingNext ==
  ASSUME Durable, Ballots, Standing, Next, ~RaceWindow
  PROVE  Standing'
<1>1. ASSUME NEW n \in Peers, NEW m \in msgs, Receive(n, m) PROVE Standing'
  <2>1. CASE \/ RejectStaleAppend(n, m) \/ CommitPanic(n, m) \/ AppendSucceeded(n, m)
             \/ AppendFailed(n, m)
    <3>1. UNCHANGED electionVars
      BY <2>1 DEF RejectStaleAppend, CommitPanic, Panic, AppendSucceeded, AppendFailed
    <3> QED BY <3>1, NobodyMoves
  <2> QED BY <1>1, <2>1, MessageStands, RecordStands DEF Receive
<1>2. ASSUME NEW n \in Peers, Elect(n) PROVE Standing'
  BY <1>2, ElectStands
<1>3. ASSUME NEW n \in Peers, Lead(n) \/ Crash(n) PROVE Standing'
  <2>1. UNCHANGED electionVars
    BY <1>3 DEF Lead, ProposeCommand, SendAppendEntriesTo, SendPanic, Panic,
                HeartbeatTimeout, BroadcastHeartbeat, SendHeartbeat, Crash
  <2> QED BY <2>1, NobodyMoves
<1>4. ASSUME NEW n \in Peers, Restart(n) PROVE Standing'
  <2>1. /\ \A p \in Peers \ {n} : Posture(p)' = Posture(p)
        /\ Role'[n] = "Follower" /\ election'[n].reset = 0
    BY <1>4 DEF Restart, Posture, Durable, TypeOK, NoElection
  <2>2. Stands(n)'
    BY <2>1 DEF Stands
  <2> QED BY <2>1, <2>2, OneMoves
<1> QED BY <1>1, <1>2, <1>3, <1>4 DEF Next

\* No term has two leaders, for any number of peers, overlapping elections, lost and
\* repeated messages, crashes and restarts, provided that no vote is recorded between
\* resetVoteResult and switchToCandidate.
THEOREM OneLeaderPerTerm ==
  ASSUME ~RaceWindow
  PROVE  Spec => []ElectionSafety
<1>1. Init => Standing
  BY DEF Init, Standing, Stands, NoElection
<1>2. Durable /\ Ballots /\ Standing /\ [Next]_vars => Standing'
  <2>1. ASSUME Standing, UNCHANGED vars PROVE Standing'
    BY <2>1 DEF Standing, Stands, Voted, Granted, Majority, vars, electionVars
  <2> QED BY <2>1, StandingNext
<1>3. Durable /\ Ballots /\ Standing => ElectionSafety
  BY StandingSafe DEF Durable
<1> QED BY <1>1, <1>2, <1>3, DurableInvariant, BallotsInvariant, PTL DEF Spec

-----------------------------------------------------------------------------
(***************************************************************************)
(* Logs: one leader sends the entries of a term, logs with a common entry  *)
(* agree up to it, and the terms of a log ascend.                          *)
(***************************************************************************)
\* p has asked everybody for a vote of term t, and a majority has voted for it.
Ran(p, t) ==
  \A q \in Others(p) :
    \E r \in msgs : r.type = "RequestVote" /\ r.from = p /\ r.to = q /\ r.term = t
Elected(p, t) ==
  /\ Ran(p, t)
  /\ \E Q \in SUBSET Peers : Majority(Q) /\ \A q \in Q : q = p \/ Voted(q, p, t)

Requests == {m \in msgs : m.type = "AppendEntries"}

\* Whoever is a candidate or leader has run for its term.
Runs == \A n \in Peers : Role[n] # "Follower" => Ran(n, CurrentTerm[n])

\* What is sent, and the heartbeats about to be sent, come from who was elected.
Senders ==
  /\ \A m \in Requests : Elected(m.from, m.term)
  /\ \A n \in Peers : \A b \in beats[n] : Elected(n, b.term)

\* Nobody sends entries, or an answer to them, to itself.
Apart ==
  /\ \A m \in msgs : m.type \in {"AppendEntries", "AppendEntriesResponse"} => m.from # m.to
  /\ \A n \in Peers : n \notin appendTo[n] /\ \A b \in beats[n] : b.to # n

\* A log, and an AppendEntries request that carries entries, is a piece of a log: the terms
\* of its entries and of the one before them.
Whole(log) == [prevIndex |-> 0, prevTerm |-> 0, entries |-> log]
Pieces == {Whole(Log[n]) : n \in Peers} \cup {m \in Requests : m.entries # <<>>}
Span(a) == a.prevIndex..(a.prevIndex + Len(a.entries))
TermAt(a, i) == IF i = a.prevIndex THEN a.prevTerm ELSE a.entries[i - a.prevIndex].term
EntryAt(a, i) == a.entries[i - a.prevIndex]

\* Where two pieces have an entry of the same term, they agree up to it.
Match(a, b) ==
  \A i, j \in Span(a) \cap Span(b) :
    j <= i /\ TermAt(a, i) = TermAt(b, i) =>
      /\ TermAt(a, j) = TermAt(b, j)
      /\ j > a.prevIndex /\ j > b.prevIndex => EntryAt(a, j) = EntryAt(b, j)
Matching == \A a, b \in Pieces : Match(a, b)

\* A leader was elected for the term of every entry; as long as it leads in that term, its
\* log reaches as far.  One that has restarted follows, and leads no more in the same term.
Owned(i, t) ==
  \E p \in Peers :
    /\ Elected(p, t)
    /\ \/ CurrentTerm[p] > t
       \/ CurrentTerm[p] = t /\ Role[p] = "Follower"
       \/ CurrentTerm[p] = t /\ Role[p] = "Leader" /\ i <= Len(Log[p])
AllOwned == \A a \in Pieces : \A i \in Span(a) : i > 0 => Owned(i, TermAt(a, i))

\* The terms of a piece ascend, up to the term of its node or of its request.
Ascends(a, t) ==
  \A i, j \in Span(a) : i <= j => TermAt(a, i) <= TermAt(a, j) /\ TermAt(a, j) <= t
Ascending ==
  /\ \A n \in Peers : Ascends(Whole(Log[n]), CurrentTerm[n])
  /\ \A m \in Requests : m.entries # <<>> =>
       m.prevIndex \in Nat /\ (m.prevIndex = 0 => m.prevTerm = 0) /\ Ascends(m, m.term)

Elections == Durable /\ Ballots /\ Standing /\ Runs /\ Senders
Logs == Apart /\ Matching /\ AllOwned /\ Ascending

-----------------------------------------------------------------------------
\* Nobody else is elected for a term: two majorities share a voter, who voted once and not
\* in a term it ran for itself.
LEMMA OneElected ==
  ASSUME Ballots, NEW p \in Peers, NEW q \in Peers, NEW t, Elected(p, t), Elected(q, t)
  PROVE  p = q
<1> SUFFICES ASSUME p # q PROVE FALSE
  OBVIOUS
<1>1. PICK Q \in SUBSET Peers : Majority(Q) /\ \A v \in Q : v = p \/ Voted(v, p, t)
  BY DEF Elected
<1>2. PICK R \in SUBSET Peers : Majority(R) /\ \A v \in R : v = q \/ Voted(v, q, t)
  BY DEF Elected
<1>3. PICK v : v \in Q /\ v \in R
  BY <1>1, <1>2, MajoritiesMeet
<1>4. OneVotePerTerm
  BY DEF Ballots
<1>5. ~Voted(p, q, t) /\ ~Voted(q, p, t)
  BY <1>4 DEF Elected, Ran, Others, Voted, OneVotePerTerm
<1>6. ~(Voted(v, p, t) /\ Voted(v, q, t))
  BY <1>4 DEF Voted, OneVotePerTerm
<1> QED BY <1>1, <1>2, <1>3, <1>5, <1>6

\* What was sent in an election stays sent.
LEMMA ElectedStays ==
  ASSUME Next, NEW p, NEW t
  PROVE  /\ Ran(p, t) => Ran(p, t)'
         /\ Elected(p, t) => Elected(p, t)'
<1>1. Ran(p, t) => Ran(p, t)'
  BY MessagesStay DEF Ran
<1>2. \A q : Voted(q, p, t) => Voted(q, p, t)'
  BY VotedStays
<1> QED BY <1>1, <1>2 DEF Elected, Majority

\* A leader was elected for its term.
LEMMA LeadersElected ==
  ASSUME Standing, Runs, NEW n \in Peers, Role[n] = "Leader"
  PROVE  Elected(n, CurrentTerm[n])
BY DEF Standing, Stands, Runs, Elected

\* Who is not a follower after a step has not changed its term in it, or has just asked for
\* votes.
LEMMA RunnersStay ==
  ASSUME TypeOK, Next, NEW n \in Peers, Role'[n] # "Follower"
  PROVE  \/ Role[n] # "Follower" /\ CurrentTerm'[n] = CurrentTerm[n]
         \/ SwitchToCandidate(n)
<1>0. /\ Role \in [Peers -> Roles] /\ CurrentTerm \in [Peers -> Nat]
  BY DEF TypeOK
<1>1. ASSUME NEW x \in Peers, NEW m \in msgs, Receive(x, m)
      PROVE  Role[n] # "Follower" /\ CurrentTerm'[n] = CurrentTerm[n]
  <2>1. CASE \/ HandleRequestVote(x, m) \/ RejectShortLog(x, m) \/ RejectConflict(x, m)
             \/ AcceptEntries(x, m) \/ FollowerDiesApplying(x, m)
             \/ LeaderDiesApplying(x, m)
    <3>1. /\ CurrentTerm' = [CurrentTerm EXCEPT ![x] = TermAfter(x, m)]
          /\ Role' = [Role EXCEPT ![x] = RoleAfter(x, m)]
      BY <2>1, DyingMoves DEF HandleRequestVote, RejectShortLog, RejectConflict,
                              AcceptEntries, FollowLeader
    <3> QED BY <1>0, <3>1 DEF RoleAfter, TermAfter
  <2>2. CASE ResponseNewerTerm(x, m)
    BY <1>0, <2>2 DEF ResponseNewerTerm, SwitchToFollower
  <2>3. CASE RecordVote(x, m)
    BY <1>0, <2>3 DEF RecordVote
  <2>4. CASE \/ RejectStaleAppend(x, m) \/ CommitPanic(x, m) \/ AppendSucceeded(x, m)
             \/ AppendFailed(x, m)
    BY <2>4 DEF RejectStaleAppend, CommitPanic, Panic, AppendSucceeded, AppendFailed,
                electionVars
  <2> QED BY <1>1, <2>1, <2>2, <2>3, <2>4 DEF Receive
<1>2. ASSUME NEW x \in Peers, Elect(x)
      PROVE  \/ Role[n] # "Follower" /\ CurrentTerm'[n] = CurrentTerm[n]
             \/ SwitchToCandidate(n)
  <2>1. CASE SwitchToCandidate(x) /\ x # n
    BY <1>0, <2>1 DEF SwitchToCandidate
  <2> QED BY <1>2, <2>1 DEF Elect, ElectionTimeout, LeaderSkipsElection, CheckRole,
                            ResetVoteResult
<1>3. ASSUME NEW x \in Peers, Lead(x) \/ Crash(x)
      PROVE  Role[n] # "Follower" /\ CurrentTerm'[n] = CurrentTerm[n]
  BY <1>3 DEF Lead, ProposeCommand, SendAppendEntriesTo, SendPanic, Panic,
              HeartbeatTimeout, BroadcastHeartbeat, SendHeartbeat, Crash, electionVars
<1>4. ASSUME NEW x \in Peers, Restart(x)
      PROVE  Role[n] # "Follower" /\ CurrentTerm'[n] = CurrentTerm[n]
  BY <1>0, <1>4 DEF Restart
<1> QED BY <1>1, <1>2, <1>3, <1>4 DEF Next

LEMMA RunsNext ==
  ASSUME TypeOK, Runs, Next
  PROVE  Runs'
<1> SUFFICES ASSUME NEW n \in Peers, Role'[n] # "Follower" PROVE Ran(n, CurrentTerm[n])'
  BY DEF Runs
<1>1. CASE Role[n] # "Follower" /\ CurrentTerm'[n] = CurrentTerm[n]
  <2>1. Ran(n, CurrentTerm[n])
    BY <1>1 DEF Runs
  <2>2. \A q \in Others(n) : \E r \in msgs' :
          r.type = "RequestVote" /\ r.from = n /\ r.to = q /\ r.term = CurrentTerm'[n]
    BY <1>1, <2>1, MessagesStay DEF Ran
  <2> QED BY <2>2 DEF Ran
<1>2. CASE SwitchToCandidate(n)
  <2>1. CurrentTerm'[n] = CurrentTerm[n] + 1
    BY <1>2 DEF SwitchToCandidate, TypeOK
  <2>2. ASSUME NEW q \in Others(n)
        PROVE  \E r \in msgs' : /\ r.type = "RequestVote" /\ r.from = n /\ r.to = q
                                /\ r.term = CurrentTerm'[n]
    <3> DEFINE r == [type |-> "RequestVote", term |-> CurrentTerm[n] + 1,
                     from |-> n, to |-> q, lastIndex |-> LastIndex(Log[n]),
                     lastTerm |-> LastTerm(Log[n])]
    <3>1. r \in msgs'
      BY <1>2 DEF SwitchToCandidate
    <3> QED BY <2>1, <3>1
  <2> QED BY <2>2 DEF Ran
<1> QED BY <1>1, <1>2, RunnersStay

\* A request is one that sendAppendEntriesTo makes of the log of its sender, or a
\* heartbeat.
SendsEntries(n, m) ==
  \E p \in appendTo[n] :
    /\ NextIndex[n][p] - 1 \in 0..Len(Log[n])
    /\ m = AppendEntriesRequest(n, p, CurrentTerm[n], NextIndex[n][p],
                                SubSeq(Log[n], NextIndex[n][p], Len(Log[n])),
                                CommitIndex[n])
SendsBeat(n, m) ==
  \E b \in beats[n] :
    m = AppendEntriesRequest(n, b.to, b.term, NextIndex[n][b.to], <<>>, b.commit)

LEMMA NewRequest ==
  ASSUME Next, NEW m \in Requests', m \notin Requests
  PROVE  \E n \in Peers : /\ MaySend(n) /\ UNCHANGED <<Role, CurrentTerm, Log>>
                          /\ SendsEntries(n, m) \/ SendsBeat(n, m)
<1>0. m \in msgs' /\ m \notin msgs /\ m.type = "AppendEntries"
  BY DEF Requests
<1>1. ASSUME NEW x \in Peers, NEW k \in msgs, Receive(x, k) PROVE FALSE
  <2>1. CASE HandleRequestVote(x, k)
    BY <1>0, <2>1 DEF HandleRequestVote
  <2>2. CASE \/ ResponseNewerTerm(x, k) \/ RecordVote(x, k) \/ CommitPanic(x, k)
             \/ AppendSucceeded(x, k) \/ AppendFailed(x, k)
    BY <1>0, <2>2 DEF ResponseNewerTerm, SwitchToFollower, RecordVote, CommitPanic, Panic,
                      AppendSucceeded, AppendFailed
  <2>3. CASE \/ RejectStaleAppend(x, k) \/ RejectShortLog(x, k) \/ RejectConflict(x, k)
             \/ AcceptEntries(x, k)
    BY <1>0, <2>3 DEF RejectStaleAppend, RejectShortLog, RejectConflict, AcceptEntries,
                      FollowLeader, AppendReply
  <2>4. CASE FollowerDiesApplying(x, k) \/ LeaderDiesApplying(x, k)
    BY <1>0, <2>4, DyingMoves
  <2> QED BY <1>1, <2>1, <2>2, <2>3, <2>4 DEF Receive
<1>2. ASSUME NEW x \in Peers, Elect(x) PROVE FALSE
  BY <1>0, <1>2 DEF Elect, ElectionTimeout, LeaderSkipsElection, CheckRole,
                    ResetVoteResult, SwitchToCandidate
<1>3. ASSUME NEW x \in Peers, Crash(x) \/ Restart(x) PROVE FALSE
  BY <1>0, <1>3 DEF Crash, Restart
<1>4. ASSUME NEW x \in Peers, Lead(x)
      PROVE  /\ MaySend(x) /\ UNCHANGED <<Role, CurrentTerm, Log>>
             /\ SendsEntries(x, m) \/ SendsBeat(x, m)
  <2>1. ASSUME NEW p \in Peers, SendAppendEntriesTo(x, p)
        PROVE  /\ MaySend(x) /\ UNCHANGED <<Role, CurrentTerm, Log>>
               /\ SendsEntries(x, m)
    BY <1>0, <2>1 DEF SendAppendEntriesTo, SendsEntries, electionVars, logVars
  <2>2. ASSUME NEW b \in beats[x], SendHeartbeat(x, b)
        PROVE  /\ MaySend(x) /\ UNCHANGED <<Role, CurrentTerm, Log>>
               /\ SendsBeat(x, m)
    BY <1>0, <2>2 DEF SendHeartbeat, SendsBeat, electionVars, logVars
  <2> QED BY <1>0, <1>4, <2>1, <2>2 DEF Lead, ProposeCommand, SendPanic, Panic,
                                        HeartbeatTimeout, BroadcastHeartbeat
<1> QED BY <1>1, <1>2, <1>3, <1>4 DEF Next

\* The heartbeats to send: broadcastHeartbeat starts them, for the others.
LEMMA NewBeat ==
  ASSUME TypeOK, Next, NEW n \in Peers, NEW b \in beats'[n], b \notin beats[n]
  PROVE  MaySend(n) /\ bcast[n] /\ b.term = CurrentTerm[n] /\ b.to # n
<1>0. beats \in [Peers -> SUBSET Beat]
  BY DEF TypeOK
<1>1. ASSUME NEW x \in Peers, BroadcastHeartbeat(x)
      PROVE  MaySend(n) /\ bcast[n] /\ b.term = CurrentTerm[n] /\ b.to # n
  <2>1. MaySend(x) /\ bcast[x] /\ n = x
    BY <1>0, <1>1 DEF BroadcastHeartbeat
  <2>2. b \in [to : Others(n), term : {CurrentTerm[n]}, commit : {CommitIndex[n]}]
    BY <1>0, <1>1, <2>1 DEF BroadcastHeartbeat
  <2> QED BY <2>1, <2>2 DEF Others
<1>2. ASSUME NEW x \in Peers, Lead(x), ~BroadcastHeartbeat(x) PROVE FALSE
  BY <1>0, <1>2 DEF Lead, ProposeCommand, SendAppendEntriesTo, SendPanic, Panic,
                    HeartbeatTimeout, SendHeartbeat, taskVars
<1>3. ASSUME NEW x \in Peers, NEW k \in msgs, Receive(x, k) PROVE FALSE
  <2>1. CASE \/ HandleRequestVote(x, k) \/ ResponseNewerTerm(x, k) \/ RecordVote(x, k)
             \/ CommitPanic(x, k) \/ AppendSucceeded(x, k) \/ AppendFailed(x, k)
             \/ RejectStaleAppend(x, k)
    BY <2>1 DEF HandleRequestVote, ResponseNewerTerm, SwitchToFollower, RecordVote,
                CommitPanic, Panic, AppendSucceeded, AppendFailed, RejectStaleAppend,
                taskVars
  <2>2. CASE RejectShortLog(x, k) \/ RejectConflict(x, k) \/ AcceptEntries(x, k)
    BY <2>2 DEF RejectShortLog, RejectConflict, AcceptEntries, FollowLeader, taskVars
  <2>3. CASE FollowerDiesApplying(x, k) \/ LeaderDiesApplying(x, k)
    BY <2>3 DEF FollowerDiesApplying, LeaderDiesApplying, DieApplying, taskVars
  <2> QED BY <1>3, <2>1, <2>2, <2>3 DEF Receive
<1>4. ASSUME NEW x \in Peers, Elect(x) \/ Crash(x) PROVE FALSE
  BY <1>4 DEF Elect, ElectionTimeout, LeaderSkipsElection, CheckRole, ResetVoteResult,
              SwitchToCandidate, Crash, taskVars
<1>5. ASSUME NEW x \in Peers, Restart(x) PROVE FALSE
  BY <1>0, <1>5 DEF Restart
<1> QED BY <1>1, <1>2, <1>3, <1>4, <1>5 DEF Next

LEMMA SendersNext ==
  ASSUME Elections, Next, ~StaleSend
  PROVE  Senders'
<1>0. TypeOK /\ Standing /\ Runs /\ Senders
  BY DEF Elections, Durable
<1>1. ASSUME NEW m \in Requests' PROVE Elected(m.from, m.term)'
  <2>1. CASE m \in Requests
    BY <1>0, <2>1, ElectedStays DEF Senders
  <2>2. CASE m \notin Requests
    <3>1. PICK n \in Peers : Role[n] = "Leader" /\ (SendsEntries(n, m) \/ SendsBeat(n, m))
      BY <2>2, NewRequest DEF MaySend
    <3>2. Elected(n, CurrentTerm[n])
      BY <1>0, <3>1, LeadersElected
    <3>3. Elected(m.from, m.term)
      BY <1>0, <3>1, <3>2 DEF SendsEntries, SendsBeat, AppendEntriesRequest, Senders
    <3> QED BY <3>3, ElectedStays
  <2> QED BY <2>1, <2>2
<1>2. ASSUME NEW n \in Peers, NEW b \in beats'[n] PROVE Elected(n, b.term)'
  <2>1. Elected(n, b.term)
    BY <1>0, NewBeat, LeadersElected DEF Senders, MaySend
  <2> QED BY <2>1, ElectedStays
<1> QED BY <1>1, <1>2 DEF Senders

\* The invariants of elections and senders hold, also when processes crash and restart.
LEMMA ElectionsInvariant ==
  ASSUME ~RaceWindow, ~StaleSend
  PROVE  Spec => []Elections
<1>1. Init => Standing /\ Runs /\ Senders
  BY DEF Init, Standing, Stands, NoElection, Runs, Senders, Requests
<1>2. /\ Durable /\ Ballots /\ Standing /\ Runs /\ Senders /\ [Next]_vars
        => Standing' /\ Runs' /\ Senders'
  <2>1. ASSUME Standing, Runs, Senders, UNCHANGED vars PROVE Standing' /\ Runs' /\ Senders'
    <3>1. UNCHANGED <<Role, CurrentTerm, VotedFor, voteResult, election, beats, msgs>>
      BY <2>1 DEF vars, electionVars, taskVars
    <3>2. Granted' = Granted /\ Requests' = Requests
      BY <3>1 DEF Granted, Requests
    <3>3. \A q, p, t : Voted(q, p, t)' <=> Voted(q, p, t)
      BY <3>2 DEF Voted
    <3>4. \A p, t : Elected(p, t) => Elected(p, t)'
      BY <3>1, <3>3 DEF Elected, Ran, Majority
    <3>5. Standing'
      BY <2>1, <3>1, <3>3 DEF Standing, Stands, Majority
    <3>6. Runs'
      BY <2>1, <3>1 DEF Runs, Ran
    <3>7. Senders'
      BY <2>1, <3>1, <3>2, <3>4 DEF Senders
    <3> QED BY <3>5, <3>6, <3>7
  <2>2. ASSUME Durable, Ballots, Standing, Runs, Senders, Next
        PROVE  Standing' /\ Runs' /\ Senders'
    <3>1. TypeOK /\ Elections
      BY <2>2 DEF Durable, Elections
    <3> QED BY <2>2, <3>1, StandingNext, RunsNext, SendersNext
  <2> QED BY <2>1, <2>2
<1> QED BY <1>1, <1>2, DurableInvariant, BallotsInvariant, PTL DEF Spec, Elections

\* All requests of a term come from the one node that was elected for it, for any number of
\* peers, overlapping elections, lost and repeated messages, crashes and restarts, provided
\* that no vote is recorded between resetVoteResult and switchToCandidate and that no send
\* goroutine outlives the leadership of its node.
THEOREM OneSender ==
  ASSUME ~RaceWindow, ~StaleSend
  PROVE  Spec => []OneSenderPerTerm
<1>1. Elections => OneSenderPerTerm
  <2> SUFFICES ASSUME Elections, NEW a \in Requests, NEW b \in Requests, a.term = b.term
               PROVE  a.from = b.from
    BY DEF OneSenderPerTerm, Requests
  <2>1. a.from \in Peers /\ b.from \in Peers
    BY MessageTypes DEF Elections, Durable, TypeOK, Requests
  <2>2. Elected(a.from, a.term) /\ Elected(b.from, a.term) /\ Ballots
    BY DEF Elections, Senders
  <2> QED BY <2>1, <2>2, OneElected
<1> QED BY <1>1, ElectionsInvariant, PTL

-----------------------------------------------------------------------------
\* What a piece is made of.
IsPiece(a) == a.prevIndex \in Nat /\ a.prevTerm \in Nat /\ a.entries \in Seq(Entry)

\* a is a part of b.
Within(a, b) ==
  /\ b.prevIndex <= a.prevIndex
  /\ \A i \in Span(a) : /\ i \in Span(b)
                        /\ TermAt(a, i) = TermAt(b, i)
                        /\ i > a.prevIndex => EntryAt(a, i) = EntryAt(b, i)

LEMMA WholeLog ==
  ASSUME NEW log \in Seq(Entry)
  PROVE  /\ IsPiece(Whole(log)) /\ Span(Whole(log)) = 0..Len(log)
         /\ Whole(log).prevIndex = 0 /\ Whole(log).prevTerm = 0 /\ Whole(log).entries = log
         /\ TermAt(Whole(log), 0) = 0
         /\ \A i \in 1..Len(log) : /\ TermAt(Whole(log), i) = log[i].term
                                   /\ EntryAt(Whole(log), i) = log[i]
BY DEF IsPiece, Whole, Span, TermAt, EntryAt

LEMMA PieceTerms ==
  ASSUME NEW a, IsPiece(a), NEW i \in Span(a)
  PROVE  i \in Nat /\ i >= a.prevIndex /\ TermAt(a, i) \in Nat
<1>1. i \in Nat /\ i >= a.prevIndex
  BY DEF IsPiece, Span
<1>2. CASE i = a.prevIndex
  BY <1>2 DEF TermAt, IsPiece
<1>3. CASE i # a.prevIndex
  <2>1. i - a.prevIndex \in 1..Len(a.entries)
    BY <1>1, <1>3 DEF Span, IsPiece
  <2>2. a.entries[i - a.prevIndex] \in Entry
    BY <2>1 DEF IsPiece
  <2> QED BY <1>1, <1>3, <2>2 DEF TermAt, Entry
<1> QED BY <1>1, <1>2, <1>3

LEMMA MatchSelf ==
  ASSUME NEW a
  PROVE  Match(a, a)
BY DEF Match

LEMMA MatchBoth ==
  ASSUME NEW a, NEW b, Match(a, b)
  PROVE  Match(b, a)
BY DEF Match

\* A part matches what the whole matches.
LEMMA MatchWithin ==
  ASSUME NEW a, NEW b, NEW c, IsPiece(a), IsPiece(b), IsPiece(c), Within(a, b), Match(b, c)
  PROVE  Match(a, c)
<1> SUFFICES ASSUME NEW i \in Span(a) \cap Span(c), NEW j \in Span(a) \cap Span(c),
                    j <= i, TermAt(a, i) = TermAt(c, i)
             PROVE  /\ TermAt(a, j) = TermAt(c, j)
                    /\ j > a.prevIndex /\ j > c.prevIndex => EntryAt(a, j) = EntryAt(c, j)
  BY DEF Match
<1>1. /\ i \in Span(b) \cap Span(c) /\ j \in Span(b) \cap Span(c)
      /\ TermAt(a, i) = TermAt(b, i) /\ TermAt(a, j) = TermAt(b, j)
      /\ j > a.prevIndex => EntryAt(a, j) = EntryAt(b, j)
  BY DEF Within
<1>2. /\ TermAt(b, j) = TermAt(c, j)
      /\ j > b.prevIndex /\ j > c.prevIndex => EntryAt(b, j) = EntryAt(c, j)
  BY <1>1 DEF Match
<1>3. j > a.prevIndex => j > b.prevIndex
  BY PieceTerms DEF Within, IsPiece
<1> QED BY <1>1, <1>2, <1>3

\* new is the log up to the entry before those of m, followed by the entries of m.
Joins(new, log, m) ==
  /\ new \in Seq(Entry) /\ Len(new) = m.prevIndex + Len(m.entries)
  /\ \A i \in 1..m.prevIndex : new[i] = log[i]
  /\ \A i \in m.prevIndex + 1..Len(new) : new[i] = m.entries[i - m.prevIndex]

\* The parts that a log takes from its old contents and from the entries it accepts.
LEMMA JoinParts ==
  ASSUME NEW log \in Seq(Entry), NEW m, IsPiece(m), m.prevIndex <= Len(log),
         TermAt(Whole(log), m.prevIndex) = m.prevTerm, NEW new, Joins(new, log, m)
  PROVE  /\ Span(Whole(new)) = 0..(m.prevIndex + Len(m.entries))
         /\ \A i \in 0..m.prevIndex :
              /\ i \in Span(Whole(log)) /\ TermAt(Whole(new), i) = TermAt(Whole(log), i)
              /\ i > 0 => EntryAt(Whole(new), i) = EntryAt(Whole(log), i)
         /\ \A i \in m.prevIndex..(m.prevIndex + Len(m.entries)) :
              /\ i \in Span(m) /\ TermAt(Whole(new), i) = TermAt(m, i)
              /\ i > m.prevIndex => EntryAt(Whole(new), i) = EntryAt(m, i)
<1>1. new \in Seq(Entry) /\ Len(new) = m.prevIndex + Len(m.entries)
  BY DEF Joins
<1>2. m.prevIndex \in Nat /\ Len(m.entries) \in Nat /\ Len(log) \in Nat
  BY DEF IsPiece
<1>3. ASSUME NEW i \in 0..m.prevIndex
      PROVE  /\ i \in Span(Whole(log)) /\ TermAt(Whole(new), i) = TermAt(Whole(log), i)
             /\ i > 0 => EntryAt(Whole(new), i) = EntryAt(Whole(log), i)
  <2>1. CASE i = 0
    BY <1>1, <2>1, WholeLog
  <2>2. CASE i # 0
    <3>1. i \in 1..m.prevIndex /\ i \in 1..Len(log) /\ i \in 1..Len(new)
      BY <1>1, <1>2, <2>2
    <3>2. new[i] = log[i]
      BY <3>1 DEF Joins
    <3> QED BY <1>1, <1>2, <3>1, <3>2, WholeLog
  <2> QED BY <2>1, <2>2
<1>4. ASSUME NEW i \in m.prevIndex..(m.prevIndex + Len(m.entries))
      PROVE  /\ i \in Span(m) /\ TermAt(Whole(new), i) = TermAt(m, i)
             /\ i > m.prevIndex => EntryAt(Whole(new), i) = EntryAt(m, i)
  <2>1. CASE i = m.prevIndex
    BY <1>2, <1>3, <2>1 DEF Span, TermAt
  <2>2. CASE i # m.prevIndex
    <3>1. i \in m.prevIndex + 1..Len(new) /\ i \in 1..Len(new)
      BY <1>1, <1>2, <2>2
    <3>2. new[i] = m.entries[i - m.prevIndex]
      BY <3>1 DEF Joins
    <3> QED BY <1>1, <2>2, <3>1, <3>2, WholeLog DEF Span, TermAt, EntryAt
  <2> QED BY <2>1, <2>2
<1> QED BY <1>1, <1>3, <1>4, WholeLog

\* The test of PrevLogIndex and PrevLogTerm: a log that agrees with a request at the entry
\* before the new ones matches, with the new ones, whatever both matched.
LEMMA MatchJoin ==
  ASSUME NEW log \in Seq(Entry), NEW m, IsPiece(m), m.prevIndex <= Len(log),
         TermAt(Whole(log), m.prevIndex) = m.prevTerm, NEW new, Joins(new, log, m),
         NEW b, IsPiece(b), Match(Whole(log), b), Match(m, b)
  PROVE  Match(Whole(new), b)
<1> DEFINE prev == m.prevIndex
<1> SUFFICES ASSUME NEW i \in Span(Whole(new)) \cap Span(b),
                    NEW j \in Span(Whole(new)) \cap Span(b),
                    j <= i, TermAt(Whole(new), i) = TermAt(b, i)
             PROVE  /\ TermAt(Whole(new), j) = TermAt(b, j)
                    /\ j > 0 /\ j > b.prevIndex => EntryAt(Whole(new), j) = EntryAt(b, j)
  BY DEF Match, Whole
<1>1. /\ i \in 0..(prev + Len(m.entries)) /\ j \in 0..(prev + Len(m.entries))
      /\ prev \in Nat /\ Len(m.entries) \in Nat
  BY JoinParts DEF IsPiece
<1>2. i \in Nat /\ j \in Nat /\ b.prevIndex \in Nat /\ b.prevIndex <= j
  BY PieceTerms DEF IsPiece
<1>3. ASSUME NEW k \in 0..prev, NEW l \in 0..prev, l <= k, k \in Span(b), l \in Span(b),
             TermAt(Whole(log), k) = TermAt(b, k)
      PROVE  /\ TermAt(Whole(new), l) = TermAt(b, l)
             /\ l > 0 /\ l > b.prevIndex => EntryAt(Whole(new), l) = EntryAt(b, l)
  <2>1. /\ k \in Span(Whole(log)) /\ l \in Span(Whole(log))
        /\ TermAt(Whole(new), l) = TermAt(Whole(log), l)
        /\ l > 0 => EntryAt(Whole(new), l) = EntryAt(Whole(log), l)
    BY JoinParts
  <2>2. /\ TermAt(Whole(log), l) = TermAt(b, l)
        /\ l > 0 /\ l > b.prevIndex => EntryAt(Whole(log), l) = EntryAt(b, l)
    BY <1>3, <2>1, WholeLog DEF Match
  <2> QED BY <2>1, <2>2
<1>4. CASE i <= prev
  <2>1. i \in 0..prev /\ j \in 0..prev
    BY <1>1, <1>2, <1>4
  <2>2. TermAt(Whole(log), i) = TermAt(b, i)
    BY <2>1, JoinParts
  <2> QED BY <1>3, <2>1, <2>2
<1>5. CASE i > prev
  <2>1. i \in prev..(prev + Len(m.entries))
    BY <1>1, <1>5
  <2>2. i \in Span(m) /\ TermAt(m, i) = TermAt(b, i)
    BY <2>1, JoinParts
  <2>3. CASE j > prev
    <3>1. j \in prev..(prev + Len(m.entries))
      BY <1>1, <2>3
    <3>2. /\ j \in Span(m) /\ TermAt(Whole(new), j) = TermAt(m, j)
          /\ EntryAt(Whole(new), j) = EntryAt(m, j)
      BY <2>3, <3>1, JoinParts
    <3>3. /\ TermAt(m, j) = TermAt(b, j)
          /\ j > b.prevIndex => EntryAt(m, j) = EntryAt(b, j)
      BY <2>2, <2>3, <3>2 DEF Match
    <3> QED BY <3>2, <3>3
  <2>4. CASE j <= prev
    <3>1. prev \in Span(b) /\ prev \in Span(m) /\ prev <= i /\ prev \in 0..prev
      BY <1>1, <1>2, <1>5, <2>4 DEF Span, IsPiece
    <3>2. TermAt(m, prev) = TermAt(b, prev)
      BY <2>2, <3>1 DEF Match
    <3>3. TermAt(Whole(log), prev) = TermAt(b, prev)
      BY <3>2 DEF TermAt
    <3>4. j \in 0..prev
      BY <1>1, <2>4
    <3> QED BY <1>3, <2>4, <3>1, <3>3, <3>4
  <2> QED BY <1>1, <1>2, <2>3, <2>4
<1> QED BY <1>1, <1>4, <1>5

\* A new entry of the leader matches everything, if nothing else has one of its term there.
LEMMA MatchAppend ==
  ASSUME NEW log \in Seq(Entry), NEW e \in Entry, NEW b, IsPiece(b),
         Match(Whole(log), b),
         Len(log) + 1 \in Span(b) => TermAt(b, Len(log) + 1) # e.term
  PROVE  Match(Whole(Append(log, e)), b)
<1> DEFINE new == Append(log, e)
<1>1. /\ new \in Seq(Entry) /\ Len(new) = Len(log) + 1 /\ new[Len(log) + 1] = e
      /\ \A i \in 1..Len(log) : new[i] = log[i]
  OBVIOUS
<1> HIDE DEF new
<1> SUFFICES ASSUME NEW i \in Span(Whole(new)) \cap Span(b),
                    NEW j \in Span(Whole(new)) \cap Span(b),
                    j <= i, TermAt(Whole(new), i) = TermAt(b, i)
             PROVE  /\ TermAt(Whole(new), j) = TermAt(b, j)
                    /\ j > 0 /\ j > b.prevIndex => EntryAt(Whole(new), j) = EntryAt(b, j)
  BY DEF Match, Whole, new
<1>2. i \in 0..(Len(log) + 1) /\ j \in 0..(Len(log) + 1)
  BY <1>1, WholeLog
<1>3. i # Len(log) + 1
  BY <1>1, WholeLog
<1>4. i \in 0..Len(log) /\ j \in 0..Len(log)
  BY <1>2, <1>3
<1>5. \A k \in 0..Len(log) : /\ k \in Span(Whole(log))
                             /\ TermAt(Whole(new), k) = TermAt(Whole(log), k)
                             /\ k > 0 => EntryAt(Whole(new), k) = EntryAt(Whole(log), k)
  <2> SUFFICES ASSUME NEW k \in 0..Len(log)
               PROVE  /\ k \in Span(Whole(log))
                      /\ TermAt(Whole(new), k) = TermAt(Whole(log), k)
                      /\ k > 0 => EntryAt(Whole(new), k) = EntryAt(Whole(log), k)
    OBVIOUS
  <2>1. CASE k = 0
    BY <1>1, <2>1, WholeLog
  <2>2. CASE k # 0
    BY <1>1, <2>2, WholeLog
  <2> QED BY <2>1, <2>2
<1>6. /\ TermAt(Whole(log), j) = TermAt(b, j)
      /\ j > 0 /\ j > b.prevIndex => EntryAt(Whole(log), j) = EntryAt(b, j)
  BY <1>4, <1>5, WholeLog DEF Match
<1> QED BY <1>4, <1>5, <1>6

-----------------------------------------------------------------------------
\* The append loop of handleAppendEntries leaves the log as it was, or makes it the log up
\* to PrevLogIndex followed by the entries: those it skips because the term is the same are
\* the same.
LEMMA MergeJoins ==
  ASSUME NEW log \in Seq(Entry), NEW m, IsPiece(m), m.prevIndex <= Len(log),
         Match(Whole(log), m)
  PROVE  \/ MergeEntries(log, m.prevIndex, m.entries) = log
         \/ Joins(MergeEntries(log, m.prevIndex, m.entries), log, m)
<1> DEFINE prev == m.prevIndex
           entries == m.entries
           new == MergeEntries(log, prev, entries)
<1>0. prev \in Nat /\ entries \in Seq(Entry) /\ Len(entries) \in Nat
  BY DEF IsPiece
<1>1. CASE Holds(log, prev, entries, Len(entries))
  BY <1>1 DEF MergeEntries
<1>2. CASE ~Holds(log, prev, entries, Len(entries))
  <2>1. new = [i \in 1..(prev + Len(entries)) |->
                 IF Holds(log, prev, entries, i - prev) THEN log[i] ELSE entries[i - prev]]
    BY <1>2 DEF MergeEntries
  <2>2. new \in Seq(Entry)
    BY <1>0, MergeType
  <2>3. Len(new) = prev + Len(entries)
    BY <1>0, <2>1, <2>2
  <2>4. ASSUME NEW i \in 1..prev PROVE new[i] = log[i]
    <3>1. Holds(log, prev, entries, i - prev) /\ i \in 1..(prev + Len(entries))
      BY <1>0 DEF Holds
    <3> QED BY <2>1, <3>1
  <2>5. ASSUME NEW i \in prev + 1..Len(new) PROVE new[i] = entries[i - prev]
    <3>1. i \in 1..(prev + Len(entries)) /\ i - prev \in 1..(i - prev) /\ i \in Nat /\ i > prev
      BY <1>0, <2>3
    <3>2. CASE Holds(log, prev, entries, i - prev)
      <4>1. prev + (i - prev) <= Len(log) /\ log[prev + (i - prev)].term = entries[i - prev].term
        BY <3>1, <3>2 DEF Holds
      <4>2. prev + (i - prev) = i
        BY <1>0, <3>1
      <4>3. i <= Len(log) /\ log[i].term = entries[i - prev].term
        BY <4>1, <4>2
      <4>4. i \in Span(Whole(log)) \cap Span(m)
        BY <1>0, <3>1, <4>3, WholeLog DEF Span
      <4>5. /\ TermAt(Whole(log), i) = TermAt(m, i) /\ EntryAt(Whole(log), i) = log[i]
            /\ EntryAt(m, i) = entries[i - prev]
        BY <1>0, <3>1, <4>3, WholeLog DEF TermAt, EntryAt
      <4>6. EntryAt(Whole(log), i) = EntryAt(m, i)
        BY <1>0, <3>1, <4>4, <4>5, WholeLog DEF Match
      <4> QED BY <2>1, <3>1, <3>2, <4>5, <4>6
    <3>3. CASE ~Holds(log, prev, entries, i - prev)
      BY <2>1, <3>1, <3>3
    <3> QED BY <3>2, <3>3
  <2> QED BY <2>2, <2>3, <2>4, <2>5 DEF Joins
<1> QED BY <1>1, <1>2

\* The entries that are cut off leave a part of the log.
LEMMA CutWithin ==
  ASSUME NEW log \in Seq(Entry), NEW k \in 0..Len(log)
  PROVE  SubSeq(log, 1, k) \in Seq(Entry) /\ Within(Whole(SubSeq(log, 1, k)), Whole(log))
<1> DEFINE cut == SubSeq(log, 1, k)
<1>1. cut \in Seq(Entry) /\ Len(cut) = k /\ \A i \in 1..k : cut[i] = log[i]
  OBVIOUS
<1> HIDE DEF cut
<1>2. ASSUME NEW i \in 0..k
      PROVE  /\ i \in Span(Whole(log)) /\ TermAt(Whole(cut), i) = TermAt(Whole(log), i)
             /\ i > 0 => EntryAt(Whole(cut), i) = EntryAt(Whole(log), i)
  <2>1. CASE i = 0
    BY <1>1, <2>1, WholeLog
  <2>2. CASE i # 0
    BY <1>1, <2>2, WholeLog
  <2> QED BY <2>1, <2>2
<1>3. Within(Whole(cut), Whole(log))
  BY <1>1, <1>2, WholeLog DEF Within
<1> QED BY <1>1, <1>3 DEF cut

LEMMA WithinSelf ==
  ASSUME NEW a, IsPiece(a)
  PROVE  Within(a, a)
BY DEF Within, IsPiece

\* sendAppendEntriesTo sends a part of the log of its node.
LEMMA SentWithin ==
  ASSUME TypeOK, NEW n \in Peers, NEW m, SendsEntries(n, m)
  PROVE  /\ IsPiece(m) /\ Within(m, Whole(Log[n]))
         /\ m.prevIndex = 0 => m.prevTerm = 0
         /\ m.term = CurrentTerm[n] /\ m.from = n /\ m.to \in appendTo[n]
<1>1. PICK p \in appendTo[n] :
        /\ NextIndex[n][p] - 1 \in 0..Len(Log[n])
        /\ m = AppendEntriesRequest(n, p, CurrentTerm[n], NextIndex[n][p],
                                    SubSeq(Log[n], NextIndex[n][p], Len(Log[n])),
                                    CommitIndex[n])
  BY DEF SendsEntries
<1> DEFINE log == Log[n]
           next == NextIndex[n][p]
<1>2. log \in Seq(Entry) /\ Len(log) \in Nat
  BY DEF TypeOK
<1>3. next \in Int
  BY DEF TypeOK
<1>4. next \in 1..(Len(log) + 1)
  BY <1>1, <1>2, <1>3
<1>5. /\ m.prevIndex = next - 1 /\ m.entries = SubSeq(log, next, Len(log))
      /\ m.prevTerm = IF next - 1 \in DOMAIN log THEN log[next - 1].term ELSE 0
      /\ m.term = CurrentTerm[n] /\ m.from = n /\ m.to = p
  BY <1>1 DEF AppendEntriesRequest
<1> HIDE DEF log, next
<1>6. /\ m.entries \in Seq(Entry) /\ Len(m.entries) = Len(log) - (next - 1)
      /\ \A i \in 1..Len(m.entries) : m.entries[i] = log[next + i - 1]
  BY <1>2, <1>4, <1>5
<1>7. m.prevTerm = TermAt(Whole(log), m.prevIndex)
  <2>0. DOMAIN log = 1..Len(log)
    BY <1>2
  <2>1. CASE next = 1
    <3>1. m.prevIndex = 0 /\ m.prevTerm = 0
      BY <1>2, <1>5, <2>0, <2>1
    <3> QED BY <1>2, <3>1, WholeLog
  <2>2. CASE next # 1
    <3>1. next - 1 \in 1..Len(log)
      BY <1>2, <1>4, <2>2
    <3> QED BY <1>2, <1>5, <2>0, <3>1, WholeLog
  <2> QED BY <2>1, <2>2
<1>8. m.prevIndex \in Span(Whole(log)) /\ IsPiece(Whole(log))
  BY <1>2, <1>4, <1>5, WholeLog
<1>9. IsPiece(m)
  BY <1>4, <1>5, <1>6, <1>7, <1>8, PieceTerms DEF IsPiece
<1>10. ASSUME NEW i \in Span(m)
       PROVE  /\ i \in Span(Whole(log)) /\ TermAt(m, i) = TermAt(Whole(log), i)
              /\ i > m.prevIndex => EntryAt(m, i) = EntryAt(Whole(log), i)
  <2>1. i \in (next - 1)..Len(log)
    BY <1>2, <1>4, <1>5, <1>6 DEF Span
  <2>2. CASE i = m.prevIndex
    <3>1. TermAt(m, m.prevIndex) = m.prevTerm
      BY DEF TermAt
    <3> QED BY <1>7, <1>8, <1>9, <2>2, <3>1 DEF IsPiece
  <2>3. CASE i # m.prevIndex
    <3>1. i - m.prevIndex \in 1..Len(m.entries) /\ i \in 1..Len(log)
      BY <1>2, <1>4, <1>5, <1>6, <2>1, <2>3
    <3>2. next + (i - m.prevIndex) - 1 = i
      BY <1>4, <1>5, <2>1
    <3>3. m.entries[i - m.prevIndex] = log[i]
      BY <1>6, <3>1, <3>2
    <3> QED BY <1>2, <2>3, <3>1, <3>3, WholeLog DEF TermAt, EntryAt
  <2> QED BY <2>2, <2>3
<1>11. Within(m, Whole(log))
  BY <1>2, <1>4, <1>5, <1>10, WholeLog DEF Within
<1>12. m.prevIndex = 0 => m.prevTerm = 0
  BY <1>2, <1>7, WholeLog
<1> QED BY <1>5, <1>9, <1>11, <1>12 DEF log

-----------------------------------------------------------------------------
\* NewRaftClient finds the log that the process had in memory when it ended, and nothing
\* behind it.
CleanRestarts == \A n \in Peers : Restart(n) => disk[n].log = Log[n]

\* The merging of a request into a log, whether the process lives on or ends in
\* applyLogToStateMachine.
Merges(n, m) ==
  /\ Accepts(n, m)
  /\ Log' = [Log EXCEPT ![n] = MergedLog(n, m)]
  /\ CurrentTerm' = [CurrentTerm EXCEPT ![n] = TermAfter(n, m)]

\* Only three handlers change a log, if restarts leave it as it was.
LEMMA LogSteps ==
  ASSUME TypeOK, Next, CleanRestarts
  PROVE  \/ UNCHANGED Log
         \/ \E n \in Peers : \E cmd \in Commands : ProposeCommand(n, cmd)
         \/ \E n \in Peers : \E m \in msgs : RejectConflict(n, m) \/ Merges(n, m)
<1>1. Log \in [Peers -> Seq(Entry)]
  BY DEF TypeOK
<1>2. ASSUME NEW n \in Peers, NEW m \in msgs, Receive(n, m)
      PROVE  UNCHANGED Log \/ RejectConflict(n, m) \/ Merges(n, m)
  <2>1. CASE \/ HandleRequestVote(n, m) \/ ResponseNewerTerm(n, m) \/ RecordVote(n, m)
             \/ CommitPanic(n, m) \/ AppendSucceeded(n, m) \/ AppendFailed(n, m)
             \/ RejectStaleAppend(n, m)
    BY <2>1 DEF HandleRequestVote, ResponseNewerTerm, SwitchToFollower, RecordVote,
                CommitPanic, Panic, AppendSucceeded, AppendFailed, RejectStaleAppend,
                logVars
  <2>2. CASE RejectShortLog(n, m)
    BY <2>2 DEF RejectShortLog, FollowLeader, TypeOK
  <2>3. CASE AcceptEntries(n, m)
    BY <2>3 DEF AcceptEntries, FollowLeader, Merges
  <2>4. CASE FollowerDiesApplying(n, m)
    BY <2>4 DEF FollowerDiesApplying, DieApplying, Merges
  <2>5. CASE LeaderDiesApplying(n, m)
    <3>1. Log' = [Log EXCEPT ![n] = Log[n]]
      BY <2>5 DEF LeaderDiesApplying, DieApplying
    <3> QED BY <1>1, <3>1
  <2> QED BY <1>2, <2>1, <2>2, <2>3, <2>4, <2>5 DEF Receive
<1>3. ASSUME NEW n \in Peers, Elect(n) PROVE UNCHANGED Log
  BY <1>3 DEF Elect, ElectionTimeout, LeaderSkipsElection, CheckRole, ResetVoteResult,
              SwitchToCandidate, logVars
<1>4. ASSUME NEW n \in Peers, Lead(n)
      PROVE  UNCHANGED Log \/ \E cmd \in Commands : ProposeCommand(n, cmd)
  BY <1>4 DEF Lead, SendAppendEntriesTo, SendPanic, Panic, HeartbeatTimeout,
              BroadcastHeartbeat, SendHeartbeat, logVars
<1>5. ASSUME NEW n \in Peers, Crash(n) PROVE UNCHANGED Log
  BY <1>5 DEF Crash, logVars
<1>6. ASSUME NEW n \in Peers, Restart(n) PROVE UNCHANGED Log
  <2>1. Log' = [Log EXCEPT ![n] = Log[n]]
    BY <1>6 DEF Restart, CleanRestarts
  <2> QED BY <1>1, <2>1
<1> QED BY <1>2, <1>3, <1>4, <1>5, <1>6 DEF Next

\* A leader that hears of a leader hears of one of a newer term.
LEMMA LeaderFollowsNewer ==
  ASSUME Elections, Apart, NEW n \in Peers, NEW m \in msgs, Role[n] = "Leader",
         Receives(n, m, "AppendEntries"), m.term >= CurrentTerm[n]
  PROVE  m.term > CurrentTerm[n]
<1>1. m \in Requests /\ m.from # n /\ m.from \in Peers /\ m.term \in Nat
      /\ CurrentTerm[n] \in Nat
  BY MessageTypes DEF Receives, Requests, Apart, Elections, Durable, TypeOK
<1>2. Elected(m.from, m.term) /\ Elected(n, CurrentTerm[n])
  BY <1>1, LeadersElected DEF Elections, Senders
<1>3. m.term # CurrentTerm[n]
  BY <1>1, <1>2, OneElected DEF Elections
<1> QED BY <1>1, <1>3

\* A leader leads until it gets to a newer term or restarts, and only adds to its log; a
\* follower follows until it gets to a newer term.
LEMMA LeadersStay ==
  ASSUME Elections, Durable', Apart, Next, CleanRestarts,
         NEW n \in Peers, Role[n] \in {"Leader", "Follower"}
  PROVE  \/ CurrentTerm'[n] > CurrentTerm[n]
         \/ CurrentTerm'[n] = CurrentTerm[n] /\ Role'[n] = "Follower"
         \/ /\ CurrentTerm'[n] = CurrentTerm[n]
            /\ Role[n] = "Leader" /\ Role'[n] = "Leader"
            /\ Len(Log'[n]) >= Len(Log[n])
<1>0. /\ TypeOK /\ Durable
      /\ CurrentTerm \in [Peers -> Nat] /\ Role \in [Peers -> Roles]
      /\ Log \in [Peers -> Seq(Entry)]
  BY DEF Elections, Durable, TypeOK
<1> DEFINE Stays == \/ CurrentTerm'[n] > CurrentTerm[n]
                    \/ CurrentTerm'[n] = CurrentTerm[n] /\ Role'[n] = "Follower"
                    \/ CurrentTerm'[n] = CurrentTerm[n] /\ Role'[n] = Role[n]
<1>1. Stays
  <2>1. ASSUME NEW x \in Peers, NEW m \in msgs, Receive(x, m) PROVE Stays
    <3>1. CASE \/ HandleRequestVote(x, m) \/ RejectShortLog(x, m) \/ RejectConflict(x, m)
               \/ AcceptEntries(x, m) \/ FollowerDiesApplying(x, m)
               \/ LeaderDiesApplying(x, m)
      <4>1. /\ CurrentTerm' = [CurrentTerm EXCEPT ![x] = TermAfter(x, m)]
            /\ Role' = [Role EXCEPT ![x] = RoleAfter(x, m)]
        BY <3>1 DEF HandleRequestVote, RejectShortLog, RejectConflict, AcceptEntries,
                    FollowLeader, FollowerDiesApplying, LeaderDiesApplying, DieApplying
      <4> QED BY <1>0, <4>1, TermVoteAfter DEF RoleAfter, TermAfter
    <3>2. CASE ResponseNewerTerm(x, m)
      BY <1>0, <3>2, TermVoteAfter DEF ResponseNewerTerm, SwitchToFollower
    <3>3. CASE RecordVote(x, m)
      BY <1>0, <3>3 DEF RecordVote
    <3>4. CASE \/ RejectStaleAppend(x, m) \/ CommitPanic(x, m) \/ AppendSucceeded(x, m)
               \/ AppendFailed(x, m)
      BY <3>4 DEF RejectStaleAppend, CommitPanic, Panic, AppendSucceeded, AppendFailed,
                  electionVars
    <3> QED BY <2>1, <3>1, <3>2, <3>3, <3>4 DEF Receive
  <2>2. ASSUME NEW x \in Peers, Elect(x) PROVE Stays
    <3>1. CASE SwitchToCandidate(x)
      BY <1>0, <3>1 DEF SwitchToCandidate
    <3> QED BY <2>2, <3>1 DEF Elect, ElectionTimeout, LeaderSkipsElection, CheckRole,
                              ResetVoteResult
  <2>3. ASSUME NEW x \in Peers, Lead(x) PROVE Stays
    BY <2>3 DEF Lead, ProposeCommand, SendAppendEntriesTo, SendPanic, Panic,
                HeartbeatTimeout, BroadcastHeartbeat, SendHeartbeat, electionVars
  <2>4. ASSUME NEW x \in Peers, Crash(x) PROVE Stays
    BY <2>4 DEF Crash, electionVars
  <2>5. ASSUME NEW x \in Peers, Restart(x) PROVE Stays
    <3>1. CASE x = n
      <4>1. Role'[n] = "Follower"
        BY <1>0, <2>5, <3>1 DEF Restart
      <4>2. CurrentTerm'[n] >= CurrentTerm[n]
        BY VotesKept DEF Elections, KeepsVotes
      <4>3. CurrentTerm'[n] \in Nat /\ CurrentTerm[n] \in Nat
        BY <1>0 DEF Durable, TypeOK
      <4> QED BY <4>1, <4>2, <4>3
    <3>2. CASE x # n
      BY <1>0, <2>5, <3>2 DEF Restart
    <3> QED BY <3>1, <3>2
  <2> QED BY <2>1, <2>2, <2>3, <2>4, <2>5 DEF Next
<1>2. ASSUME ~(CurrentTerm'[n] > CurrentTerm[n]), Role[n] = "Leader"
      PROVE  Len(Log'[n]) >= Len(Log[n])
  <2>1. CASE UNCHANGED Log
    BY <1>0, <2>1
  <2>2. ASSUME NEW x \in Peers, NEW cmd \in Commands, ProposeCommand(x, cmd)
        PROVE  Len(Log'[n]) >= Len(Log[n])
    <3>1. [term |-> CurrentTerm[x], cmd |-> cmd] \in Entry
      BY <1>0 DEF Entry
    <3>2. Len(Append(Log[x], [term |-> CurrentTerm[x], cmd |-> cmd])) = Len(Log[x]) + 1
      BY <1>0, <3>1
    <3>3. Log'[n] = IF n = x THEN Append(Log[x], [term |-> CurrentTerm[x], cmd |-> cmd])
                    ELSE Log[n]
      BY <1>0, <2>2 DEF ProposeCommand
    <3> QED BY <1>0, <3>2, <3>3
  <2>3. ASSUME NEW x \in Peers, NEW m \in msgs, RejectConflict(x, m) \/ Merges(x, m)
        PROVE  Len(Log'[n]) >= Len(Log[n])
    <3>1. /\ Receives(x, m, "AppendEntries") /\ m.term >= CurrentTerm[x]
          /\ CurrentTerm' = [CurrentTerm EXCEPT ![x] = TermAfter(x, m)]
          /\ \E log : Log' = [Log EXCEPT ![x] = log]
      BY <2>3 DEF RejectConflict, Merges, Accepts, FollowLeader
    <3>2. n # x
      BY <1>0, <1>2, <3>1, LeaderFollowsNewer DEF TermAfter
    <3> QED BY <1>0, <3>1, <3>2
  <2> QED BY <1>0, <2>1, <2>2, <2>3, LogSteps
<1> QED BY <1>0, <1>1, <1>2

LEMMA OwnedStays ==
  ASSUME Elections, Durable', Apart, Next, CleanRestarts, NEW i \in Nat, NEW t \in Nat,
         Owned(i, t)
  PROVE  Owned(i, t)'
<1>1. PICK p \in Peers :
        /\ Elected(p, t)
        /\ \/ CurrentTerm[p] > t
           \/ CurrentTerm[p] = t /\ Role[p] = "Follower"
           \/ CurrentTerm[p] = t /\ Role[p] = "Leader" /\ i <= Len(Log[p])
  BY DEF Owned
<1>2. /\ CurrentTerm[p] \in Nat /\ CurrentTerm'[p] \in Nat
      /\ Len(Log[p]) \in Nat /\ Len(Log'[p]) \in Nat
  BY DEF Elections, Durable, TypeOK
<1>3. CurrentTerm'[p] >= CurrentTerm[p]
  BY VotesKept DEF Elections, KeepsVotes
<1>4. \/ CurrentTerm'[p] > t
      \/ CurrentTerm'[p] = t /\ Role'[p] = "Follower"
      \/ CurrentTerm'[p] = t /\ Role'[p] = "Leader" /\ i <= Len(Log'[p])
  BY <1>1, <1>2, <1>3, LeadersStay
<1>5. Elected(p, t)'
  BY <1>1, ElectedStays
<1> QED BY <1>4, <1>5 DEF Owned

-----------------------------------------------------------------------------
LEMMA PiecesTyped ==
  ASSUME TypeOK, Ascending
  PROVE  \A a \in Pieces : IsPiece(a)
<1>1. ASSUME NEW n \in Peers PROVE IsPiece(Whole(Log[n]))
  BY WholeLog DEF TypeOK
<1>2. ASSUME NEW m \in Requests, m.entries # <<>> PROVE IsPiece(m)
  <2>1. m \in AppendEntriesMsg
    BY MessageTypes DEF TypeOK, Requests
  <2> QED BY <1>2, <2>1 DEF IsPiece, AppendEntriesMsg, Ascending
<1> QED BY <1>1, <1>2 DEF Pieces

\* A step that changes no log adds only parts of logs.
LEMMA PartsOfPieces ==
  ASSUME TypeOK, Ascending, Next, ~StaleSend, UNCHANGED Log, NEW a \in Pieces'
  PROVE  IsPiece(a) /\ \E b \in Pieces : Within(a, b)
<1>1. CASE a \in Pieces
  BY <1>1, PiecesTyped, WithinSelf
<1>2. CASE a \notin Pieces
  <2>1. a \in Requests' /\ a \notin Requests /\ a.entries # <<>>
    <3>1. Pieces' = {Whole(Log'[n]) : n \in Peers} \cup {m \in Requests' : m.entries # <<>>}
      BY DEF Pieces, Whole
    <3> QED BY <1>2, <3>1 DEF Pieces
  <2>2. PICK n \in Peers : SendsEntries(n, a) \/ SendsBeat(n, a)
    BY <2>1, NewRequest
  <2>3. SendsEntries(n, a)
    BY <2>1, <2>2 DEF SendsBeat, AppendEntriesRequest
  <2>4. Whole(Log[n]) \in Pieces
    BY DEF Pieces
  <2> QED BY <2>3, <2>4, SentWithin
<1> QED BY <1>1, <1>2

\* A step that changes the log of one node adds nothing but that log.
LEMMA OnePieceMore ==
  ASSUME TypeOK, Next, ~StaleSend, NEW n \in Peers, NEW log, ~UNCHANGED Log,
         Log' = [Log EXCEPT ![n] = log], NEW a \in Pieces'
  PROVE  a \in Pieces \/ a = Whole(log)
<1>0. Log \in [Peers -> Seq(Entry)]
  BY DEF TypeOK
<1>1. Pieces' = {Whole(Log'[p]) : p \in Peers} \cup {m \in Requests' : m.entries # <<>>}
  BY DEF Pieces, Whole
<1>2. ASSUME NEW p \in Peers, a = Whole(Log'[p]) PROVE a \in Pieces \/ a = Whole(log)
  BY <1>0, <1>2 DEF Pieces
<1>3. ASSUME a \in Requests', a.entries # <<>> PROVE a \in Pieces
  BY <1>3, NewRequest DEF Pieces
<1> QED BY <1>1, <1>2, <1>3

\* How a log changes: entries are cut off, entries of a request are joined to it, or the
\* leader adds one.
Changed(n, log) ==
  \/ Within(Whole(log), Whole(Log[n]))
  \/ \E m \in Requests : /\ m.entries # <<>> /\ m.prevIndex <= Len(Log[n])
                         /\ TermAt(Whole(Log[n]), m.prevIndex) = m.prevTerm
                         /\ Joins(log, Log[n], m)
                         /\ CurrentTerm'[n] >= m.term
  \/ \E cmd \in Commands : /\ log = Append(Log[n], [term |-> CurrentTerm[n], cmd |-> cmd])
                           /\ Role[n] = "Leader" /\ UNCHANGED <<Role, CurrentTerm>>

LEMMA LogChanges ==
  ASSUME Elections, Apart, Matching, Ascending, Next, CleanRestarts, ~UNCHANGED Log
  PROVE  \E n \in Peers, log \in Seq(Entry) :
           Log' = [Log EXCEPT ![n] = log] /\ Changed(n, log)
<1>0. TypeOK /\ Log \in [Peers -> Seq(Entry)] /\ CurrentTerm \in [Peers -> Nat]
  BY DEF Elections, Durable, TypeOK
<1>1. ASSUME NEW n \in Peers, NEW cmd \in Commands, ProposeCommand(n, cmd)
      PROVE  /\ Append(Log[n], [term |-> CurrentTerm[n], cmd |-> cmd]) \in Seq(Entry)
             /\ Log' = [Log EXCEPT ![n] =
                          Append(Log[n], [term |-> CurrentTerm[n], cmd |-> cmd])]
             /\ Role[n] = "Leader" /\ UNCHANGED <<Role, CurrentTerm>>
  <2>1. [term |-> CurrentTerm[n], cmd |-> cmd] \in Entry
    BY <1>0 DEF Entry
  <2> QED BY <1>0, <1>1, <2>1 DEF ProposeCommand, electionVars
<1>2. ASSUME NEW n \in Peers, NEW m \in msgs, RejectConflict(n, m)
      PROVE  \E log \in Seq(Entry) : /\ Log' = [Log EXCEPT ![n] = log]
                                     /\ Within(Whole(log), Whole(Log[n]))
  <2>1. m.prevIndex \in 1..Len(Log[n])
    BY <1>2 DEF RejectConflict, PrevConflicts
  <2>2. PICK start \in 1..m.prevIndex : Log' = [Log EXCEPT ![n] = SubSeq(Log[n], 1, start - 1)]
    BY <1>2 DEF RejectConflict, FollowLeader
  <2>3. start - 1 \in 0..Len(Log[n]) /\ Log[n] \in Seq(Entry)
    BY <1>0, <2>1, <2>2
  <2> QED BY <2>2, <2>3, CutWithin
<1>3. ASSUME NEW n \in Peers, NEW m \in msgs, Merges(n, m)
      PROVE  \E log \in Seq(Entry) :
               /\ Log' = [Log EXCEPT ![n] = log]
               /\ m \in Requests /\ m.entries # <<>> /\ m.prevIndex <= Len(Log[n])
               /\ TermAt(Whole(Log[n]), m.prevIndex) = m.prevTerm
               /\ Joins(log, Log[n], m)
               /\ CurrentTerm'[n] >= m.term
  <2> DEFINE log == MergedLog(n, m)
  <2>1. /\ Log' = [Log EXCEPT ![n] = log]
        /\ CurrentTerm' = [CurrentTerm EXCEPT ![n] = TermAfter(n, m)]
        /\ m.type = "AppendEntries" /\ m.prevIndex <= Len(Log[n]) /\ ~PrevConflicts(n, m)
    BY <1>3 DEF Merges, Accepts, Receives
  <2>2. m \in Requests /\ Log[n] \in Seq(Entry)
    BY <1>0, <2>1 DEF Requests
  <2>3. log # Log[n]
    BY <1>0, <2>1
  <2>4. m.entries # <<>>
    <3>1. MergeEntries(Log[n], m.prevIndex, <<>>) = Log[n]
      BY DEF MergeEntries, Holds
    <3> QED BY <2>3, <3>1 DEF MergedLog
  <2>5. m \in Pieces /\ Whole(Log[n]) \in Pieces
    BY <2>2, <2>4 DEF Pieces
  <2>6. IsPiece(m) /\ Match(Whole(Log[n]), m)
    BY <1>0, <2>5, PiecesTyped DEF Matching
  <2>7. Joins(log, Log[n], m)
    BY <2>1, <2>2, <2>3, <2>6, MergeJoins DEF MergedLog
  <2>8. TermAt(Whole(Log[n]), m.prevIndex) = m.prevTerm
    <3>1. CASE m.prevIndex = 0
      BY <2>2, <2>4, <3>1, WholeLog DEF Ascending
    <3>2. CASE m.prevIndex # 0
      <4>1. m.prevIndex \in 1..Len(Log[n])
        BY <2>1, <2>2, <2>6, <3>2 DEF IsPiece
      <4> QED BY <2>1, <2>2, <4>1, WholeLog DEF PrevConflicts
    <3> QED BY <3>1, <3>2
  <2>9. CurrentTerm'[n] >= m.term
    BY <1>0, <2>1, TermVoteAfter
  <2>10. log \in Seq(Entry)
    BY <2>7 DEF Joins
  <2> HIDE DEF log
  <2> QED BY <2>1, <2>2, <2>4, <2>7, <2>8, <2>9, <2>10
<1>4. CASE \E n \in Peers : \E cmd \in Commands : ProposeCommand(n, cmd)
  BY <1>1, <1>4 DEF Changed
<1>5. CASE \E n \in Peers : \E m \in msgs : RejectConflict(n, m)
  BY <1>2, <1>5 DEF Changed
<1>6. CASE \E n \in Peers : \E m \in msgs : Merges(n, m)
  BY <1>3, <1>6 DEF Changed
<1> QED BY <1>0, <1>4, <1>5, <1>6, LogSteps

LEMMA MatchingNext ==
  ASSUME Elections, Apart, Matching, AllOwned, Ascending, Next, ~StaleSend, CleanRestarts
  PROVE  Matching'
<1> SUFFICES ASSUME NEW a \in Pieces', NEW b \in Pieces' PROVE Match(a, b)
  BY DEF Matching, Match, Span, TermAt, EntryAt
<1>0. TypeOK /\ Log \in [Peers -> Seq(Entry)] /\ CurrentTerm \in [Peers -> Nat] /\ Ballots
  BY DEF Elections, Durable, TypeOK
<1>1. \A c \in Pieces : IsPiece(c)
  BY <1>0, PiecesTyped
<1>2. CASE UNCHANGED Log
  <2>1. IsPiece(a) /\ IsPiece(b)
    BY <1>0, <1>2, PartsOfPieces
  <2>2. PICK c \in Pieces : Within(a, c)
    BY <1>0, <1>2, PartsOfPieces
  <2>3. PICK d \in Pieces : Within(b, d)
    BY <1>0, <1>2, PartsOfPieces
  <2>4. Match(d, c)
    BY DEF Matching
  <2>5. Match(b, c)
    BY <1>1, <2>1, <2>3, <2>4, MatchWithin
  <2>6. Match(c, b)
    BY <2>5, MatchBoth
  <2> QED BY <1>1, <2>1, <2>2, <2>6, MatchWithin
<1>3. CASE ~UNCHANGED Log
  <2>1. PICK n \in Peers, log \in Seq(Entry) :
          Log' = [Log EXCEPT ![n] = log] /\ Changed(n, log)
    BY <1>3, LogChanges
  <2>2. Whole(Log[n]) \in Pieces /\ Log[n] \in Seq(Entry) /\ CurrentTerm[n] \in Nat
    BY <1>0 DEF Pieces
  <2>3. ASSUME NEW c \in Pieces PROVE Match(Whole(log), c)
    <3>1. Match(Whole(Log[n]), c) /\ IsPiece(c)
      BY <1>1, <2>2 DEF Matching
    <3>2. CASE Within(Whole(log), Whole(Log[n]))
      BY <2>2, <3>1, <3>2, WholeLog, MatchWithin
    <3>3. ASSUME NEW m \in Requests, m.entries # <<>>, m.prevIndex <= Len(Log[n]),
                 TermAt(Whole(Log[n]), m.prevIndex) = m.prevTerm, Joins(log, Log[n], m)
          PROVE  Match(Whole(log), c)
      <4>1. m \in Pieces
        BY <3>3 DEF Pieces
      <4>2. IsPiece(m) /\ Match(m, c)
        BY <1>1, <4>1 DEF Matching
      <4> QED BY <2>2, <3>1, <3>3, <4>2, MatchJoin
    <3>4. ASSUME NEW cmd \in Commands, Role[n] = "Leader",
                 log = Append(Log[n], [term |-> CurrentTerm[n], cmd |-> cmd])
          PROVE  Match(Whole(log), c)
      <4> DEFINE e == [term |-> CurrentTerm[n], cmd |-> cmd]
      <4>1. e \in Entry /\ e.term = CurrentTerm[n]
        BY <2>2 DEF Entry
      <4>2. ASSUME Len(Log[n]) + 1 \in Span(c), TermAt(c, Len(Log[n]) + 1) = CurrentTerm[n]
            PROVE  FALSE
        <5>1. Owned(Len(Log[n]) + 1, CurrentTerm[n])
          BY <2>2, <4>2 DEF AllOwned
        <5>2. PICK p \in Peers :
                /\ Elected(p, CurrentTerm[n])
                /\ \/ CurrentTerm[p] > CurrentTerm[n]
                   \/ Role[p] = "Follower"
                   \/ Len(Log[n]) + 1 <= Len(Log[p])
          BY <5>1 DEF Owned
        <5>3. Elected(n, CurrentTerm[n])
          BY <3>4, LeadersElected DEF Elections
        <5>4. p = n
          BY <1>0, <5>2, <5>3, OneElected
        <5> QED BY <2>2, <3>4, <5>2, <5>4
      <4> HIDE DEF e
      <4>3. Match(Whole(Append(Log[n], e)), c)
        BY <2>2, <3>1, <4>1, <4>2, MatchAppend
      <4> QED BY <3>4, <4>3 DEF e
    <3> QED BY <2>1, <3>2, <3>3, <3>4 DEF Changed
  <2>4. /\ a \in Pieces \/ a = Whole(log)
        /\ b \in Pieces \/ b = Whole(log)
    BY <1>0, <1>3, <2>1, OnePieceMore
  <2> QED BY <2>3, <2>4, MatchBoth, MatchSelf DEF Matching
<1> QED BY <1>2, <1>3

LEMMA AllOwnedNext ==
  ASSUME Elections, Durable', Apart, Matching, AllOwned, Ascending, Next, ~StaleSend,
         CleanRestarts
  PROVE  AllOwned'
<1> SUFFICES ASSUME NEW a \in Pieces', NEW i \in Span(a), i > 0
             PROVE  Owned(i, TermAt(a, i))'
  BY DEF AllOwned, Span, TermAt
<1>0. TypeOK /\ Log \in [Peers -> Seq(Entry)] /\ CurrentTerm \in [Peers -> Nat]
  BY DEF Elections, Durable, TypeOK
<1>1. \A c \in Pieces : IsPiece(c)
  BY <1>0, PiecesTyped
<1>2. ASSUME NEW c \in Pieces, i \in Span(c), TermAt(a, i) = TermAt(c, i)
      PROVE  Owned(i, TermAt(a, i))'
  <2>1. Owned(i, TermAt(a, i))
    BY <1>2 DEF AllOwned
  <2>2. i \in Nat /\ TermAt(a, i) \in Nat
    BY <1>1, <1>2, PieceTerms
  <2> QED BY <2>1, <2>2, OwnedStays DEF TermAt
<1>3. CASE UNCHANGED Log
  <2>1. PICK c \in Pieces : Within(a, c)
    BY <1>0, <1>3, PartsOfPieces
  <2> QED BY <1>2, <2>1 DEF Within
<1>4. CASE ~UNCHANGED Log
  <2>1. PICK n \in Peers, log \in Seq(Entry) :
          Log' = [Log EXCEPT ![n] = log] /\ Changed(n, log)
    BY <1>4, LogChanges
  <2>2. Whole(Log[n]) \in Pieces /\ Log[n] \in Seq(Entry) /\ CurrentTerm[n] \in Nat
    BY <1>0 DEF Pieces
  <2>3. CASE a \in Pieces
    BY <1>2, <2>3
  <2>4. CASE a = Whole(log)
    <3>1. CASE Within(Whole(log), Whole(Log[n]))
      BY <1>2, <2>2, <2>4, <3>1 DEF Within
    <3>2. ASSUME NEW m \in Requests, m.entries # <<>>, m.prevIndex <= Len(Log[n]),
                 TermAt(Whole(Log[n]), m.prevIndex) = m.prevTerm, Joins(log, Log[n], m)
          PROVE  Owned(i, TermAt(a, i))'
      <4>1. m \in Pieces
        BY <3>2 DEF Pieces
      <4>2. IsPiece(m)
        BY <1>1, <4>1
      <4>3. m.prevIndex \in Nat /\ Len(m.entries) \in Nat
            /\ i \in 0..(m.prevIndex + Len(m.entries))
        BY <2>2, <2>4, <3>2, <4>2, JoinParts DEF IsPiece
      <4>4. \/ i \in Span(Whole(Log[n])) /\ TermAt(a, i) = TermAt(Whole(Log[n]), i)
            \/ i \in Span(m) /\ TermAt(a, i) = TermAt(m, i)
        <5>1. CASE i <= m.prevIndex
          BY <2>2, <2>4, <3>2, <4>2, <4>3, <5>1, JoinParts
        <5>2. CASE i > m.prevIndex
          BY <2>2, <2>4, <3>2, <4>2, <4>3, <5>2, JoinParts
        <5> QED BY <4>3, <5>1, <5>2
      <4> QED BY <1>2, <2>2, <4>1, <4>4
    <3>3. ASSUME NEW cmd \in Commands, Role[n] = "Leader", UNCHANGED <<Role, CurrentTerm>>,
                 log = Append(Log[n], [term |-> CurrentTerm[n], cmd |-> cmd])
          PROVE  Owned(i, TermAt(a, i))'
      <4> DEFINE e == [term |-> CurrentTerm[n], cmd |-> cmd]
      <4>1. e \in Entry /\ e.term = CurrentTerm[n]
        BY <2>2 DEF Entry
      <4>2. /\ Len(log) = Len(Log[n]) + 1 /\ log[Len(Log[n]) + 1] = e
            /\ \A k \in 1..Len(Log[n]) : log[k] = Log[n][k]
        BY <2>2, <3>3, <4>1
      <4>3. i \in 1..(Len(Log[n]) + 1) /\ TermAt(a, i) = log[i].term
        BY <2>2, <2>4, <4>2, WholeLog
      <4>4. CASE i = Len(Log[n]) + 1
        <5>1. TermAt(a, i) = CurrentTerm[n]
          BY <4>1, <4>2, <4>3, <4>4
        <5>2. Elected(n, CurrentTerm[n])
          BY <3>3, LeadersElected DEF Elections
        <5>3. Elected(n, CurrentTerm[n])'
          BY <3>3, <5>2, ElectedStays
        <5>4. /\ CurrentTerm'[n] = CurrentTerm[n] /\ Role'[n] = "Leader"
              /\ Log'[n] = log /\ i <= Len(log)
          BY <1>0, <2>1, <2>2, <3>3, <4>2, <4>4
        <5>5. Owned(i, CurrentTerm[n])'
          BY <3>3, <5>3, <5>4 DEF Owned
        <5> QED BY <3>3, <5>1, <5>5 DEF Owned, TermAt, Elected, Ran, Voted
      <4>5. CASE i # Len(Log[n]) + 1
        <5>1. i \in 1..Len(Log[n])
          BY <2>2, <4>3, <4>5
        <5>2. i \in Span(Whole(Log[n])) /\ TermAt(a, i) = TermAt(Whole(Log[n]), i)
          BY <2>2, <4>2, <4>3, <5>1, WholeLog
        <5> QED BY <1>2, <2>2, <5>2
      <4> QED BY <4>4, <4>5
    <3> QED BY <2>1, <3>1, <3>2, <3>3 DEF Changed
  <2> QED BY <1>0, <1>4, <2>1, <2>3, <2>4, OnePieceMore
<1> QED BY <1>3, <1>4

-----------------------------------------------------------------------------
\* What is true of the terms of a piece is true of a part of it, and for a newer term.
LEMMA AscendsWithin ==
  ASSUME NEW a, NEW b, IsPiece(b), NEW t \in Nat, NEW u \in Nat, t <= u,
         Within(a, b), Ascends(b, t)
  PROVE  Ascends(a, u)
<1> SUFFICES ASSUME NEW i \in Span(a), NEW j \in Span(a), i <= j
             PROVE  TermAt(a, i) <= TermAt(a, j) /\ TermAt(a, j) <= u
  BY DEF Ascends
<1>1. /\ i \in Span(b) /\ j \in Span(b)
      /\ TermAt(a, i) = TermAt(b, i) /\ TermAt(a, j) = TermAt(b, j)
  BY DEF Within
<1>2. TermAt(b, i) <= TermAt(b, j) /\ TermAt(b, j) <= t
  BY <1>1 DEF Ascends
<1> QED BY <1>1, <1>2, PieceTerms

LEMMA AscendsJoin ==
  ASSUME NEW log \in Seq(Entry), NEW m, IsPiece(m), m.prevIndex <= Len(log),
         TermAt(Whole(log), m.prevIndex) = m.prevTerm, NEW new, Joins(new, log, m),
         NEW t \in Nat, NEW u \in Nat, NEW v \in Nat, t <= v, u <= v,
         Ascends(Whole(log), t), Ascends(m, u)
  PROVE  Ascends(Whole(new), v)
<1> DEFINE prev == m.prevIndex
<1> SUFFICES ASSUME NEW i \in Span(Whole(new)), NEW j \in Span(Whole(new)), i <= j
             PROVE  /\ TermAt(Whole(new), i) <= TermAt(Whole(new), j)
                    /\ TermAt(Whole(new), j) <= v
  BY DEF Ascends
<1>1. /\ i \in 0..(prev + Len(m.entries)) /\ j \in 0..(prev + Len(m.entries))
      /\ prev \in Nat /\ Len(m.entries) \in Nat
  BY JoinParts DEF IsPiece
<1>2. ASSUME NEW k \in 0..prev, NEW l \in 0..prev, k <= l
      PROVE  /\ TermAt(Whole(new), k) <= TermAt(Whole(new), l)
             /\ TermAt(Whole(new), l) <= v
             /\ TermAt(Whole(new), k) \in Nat /\ TermAt(Whole(new), l) \in Nat
  <2>1. /\ k \in Span(Whole(log)) /\ TermAt(Whole(new), k) = TermAt(Whole(log), k)
        /\ l \in Span(Whole(log)) /\ TermAt(Whole(new), l) = TermAt(Whole(log), l)
    BY JoinParts
  <2>2. TermAt(Whole(log), k) <= TermAt(Whole(log), l) /\ TermAt(Whole(log), l) <= t
    BY <1>2, <2>1 DEF Ascends
  <2> QED BY <2>1, <2>2, WholeLog, PieceTerms
<1>3. ASSUME NEW k \in prev..(prev + Len(m.entries)),
             NEW l \in prev..(prev + Len(m.entries)), k <= l
      PROVE  /\ TermAt(Whole(new), k) <= TermAt(Whole(new), l)
             /\ TermAt(Whole(new), l) <= v
             /\ TermAt(Whole(new), k) \in Nat /\ TermAt(Whole(new), l) \in Nat
  <2>1. /\ k \in Span(m) /\ TermAt(Whole(new), k) = TermAt(m, k)
        /\ l \in Span(m) /\ TermAt(Whole(new), l) = TermAt(m, l)
    BY JoinParts
  <2>2. TermAt(m, k) <= TermAt(m, l) /\ TermAt(m, l) <= u
    BY <1>3, <2>1 DEF Ascends
  <2> QED BY <2>1, <2>2, PieceTerms
<1>4. CASE j <= prev
  BY <1>1, <1>2, <1>4
<1>5. CASE i >= prev
  BY <1>1, <1>3, <1>5
<1>6. CASE i < prev /\ j > prev
  <2>1. i \in 0..prev /\ prev \in 0..prev /\ i <= prev
    BY <1>1, <1>6
  <2>2. prev \in prev..(prev + Len(m.entries)) /\ j \in prev..(prev + Len(m.entries))
        /\ prev <= j
    BY <1>1, <1>6
  <2>3. /\ TermAt(Whole(new), i) <= TermAt(Whole(new), prev)
        /\ TermAt(Whole(new), i) \in Nat /\ TermAt(Whole(new), prev) \in Nat
    BY <1>2, <2>1
  <2>4. /\ TermAt(Whole(new), prev) <= TermAt(Whole(new), j)
        /\ TermAt(Whole(new), j) <= v /\ TermAt(Whole(new), j) \in Nat
    BY <1>3, <2>2
  <2> QED BY <2>3, <2>4
<1> QED BY <1>1, <1>4, <1>5, <1>6

LEMMA AscendsAppend ==
  ASSUME NEW log \in Seq(Entry), NEW e \in Entry, Ascends(Whole(log), e.term)
  PROVE  Ascends(Whole(Append(log, e)), e.term)
<1> DEFINE new == Append(log, e)
<1>1. /\ new \in Seq(Entry) /\ Len(new) = Len(log) + 1 /\ new[Len(log) + 1] = e
      /\ \A i \in 1..Len(log) : new[i] = log[i]
  OBVIOUS
<1>2. e.term \in Nat
  BY DEF Entry
<1> HIDE DEF new
<1> SUFFICES ASSUME NEW i \in 0..(Len(log) + 1), NEW j \in 0..(Len(log) + 1), i <= j
             PROVE  /\ TermAt(Whole(new), i) <= TermAt(Whole(new), j)
                    /\ TermAt(Whole(new), j) <= e.term
  BY <1>1, WholeLog DEF Ascends, new
<1>3. ASSUME NEW k \in 0..Len(log)
      PROVE  /\ k \in Span(Whole(log)) /\ TermAt(Whole(new), k) = TermAt(Whole(log), k)
             /\ TermAt(Whole(new), k) \in Nat /\ TermAt(Whole(new), k) <= e.term
  <2>1. k \in Span(Whole(log)) /\ TermAt(Whole(new), k) = TermAt(Whole(log), k)
    <3>1. CASE k = 0
      BY <1>1, <3>1, WholeLog
    <3>2. CASE k # 0
      BY <1>1, <3>2, WholeLog
    <3> QED BY <3>1, <3>2
  <2>2. TermAt(Whole(log), k) <= e.term
    BY <2>1 DEF Ascends
  <2>3. TermAt(Whole(log), k) \in Nat
    BY <2>1, WholeLog, PieceTerms
  <2> QED BY <2>1, <2>2, <2>3
<1>4. TermAt(Whole(new), Len(log) + 1) = e.term
  BY <1>1, WholeLog
<1>5. CASE j = Len(log) + 1
  <2>1. CASE i = Len(log) + 1
    BY <1>2, <1>4, <1>5, <2>1
  <2>2. CASE i # Len(log) + 1
    BY <1>2, <1>3, <1>4, <1>5, <2>2
  <2> QED BY <2>1, <2>2
<1>6. CASE j # Len(log) + 1
  <2>1. i \in 0..Len(log) /\ j \in 0..Len(log)
    BY <1>6
  <2>2. TermAt(Whole(log), i) <= TermAt(Whole(log), j)
    BY <1>3, <2>1 DEF Ascends
  <2> QED BY <1>3, <2>1, <2>2
<1> QED BY <1>5, <1>6

LEMMA AscendingNext ==
  ASSUME Elections, Durable', Apart, Matching, Ascending, Next, ~StaleSend, CleanRestarts
  PROVE  Ascending'
<1>0. /\ TypeOK /\ Log \in [Peers -> Seq(Entry)] /\ CurrentTerm \in [Peers -> Nat]
      /\ CurrentTerm' \in [Peers -> Nat]
  BY DEF Elections, Durable, TypeOK
<1>1. \A n \in Peers : CurrentTerm'[n] >= CurrentTerm[n]
  BY VotesKept DEF Elections, KeepsVotes
<1>2. ASSUME NEW p \in Peers, Log'[p] = Log[p] PROVE Ascends(Whole(Log'[p]), CurrentTerm'[p])
  BY <1>0, <1>1, <1>2, WholeLog, WithinSelf, AscendsWithin DEF Ascending
<1>3. ASSUME NEW p \in Peers PROVE Ascends(Whole(Log'[p]), CurrentTerm'[p])
  <2>1. CASE UNCHANGED Log
    BY <1>2, <2>1
  <2>2. CASE ~UNCHANGED Log
    <3>1. PICK n \in Peers, log \in Seq(Entry) :
            Log' = [Log EXCEPT ![n] = log] /\ Changed(n, log)
      BY <2>2, LogChanges
    <3>2. /\ Ascends(Whole(Log[n]), CurrentTerm[n]) /\ Log[n] \in Seq(Entry)
          /\ CurrentTerm[n] \in Nat /\ CurrentTerm'[n] \in Nat
          /\ CurrentTerm[n] <= CurrentTerm'[n]
      BY <1>0, <1>1 DEF Ascending
    <3>3. CASE p # n
      BY <1>0, <1>2, <3>1, <3>3
    <3>4. CASE p = n
      <4>1. Log'[p] = log
        BY <1>0, <3>1, <3>4
      <4>2. CASE Within(Whole(log), Whole(Log[n]))
        BY <3>2, <3>4, <4>1, <4>2, WholeLog, AscendsWithin
      <4>3. ASSUME NEW m \in Requests, m.entries # <<>>, m.prevIndex <= Len(Log[n]),
                   TermAt(Whole(Log[n]), m.prevIndex) = m.prevTerm, Joins(log, Log[n], m),
                   CurrentTerm'[n] >= m.term
            PROVE  Ascends(Whole(log), CurrentTerm'[n])
        <5>1. IsPiece(m) /\ m.term \in Nat /\ Ascends(m, m.term)
          BY <1>0, <4>3, PiecesTyped, MessageTypes DEF Pieces, Requests, TypeOK, Ascending
        <5> QED BY <3>2, <4>3, <5>1, AscendsJoin
      <4>4. ASSUME NEW cmd \in Commands, UNCHANGED CurrentTerm,
                   log = Append(Log[n], [term |-> CurrentTerm[n], cmd |-> cmd])
            PROVE  Ascends(Whole(log), CurrentTerm'[n])
        <5> DEFINE e == [term |-> CurrentTerm[n], cmd |-> cmd]
        <5>1. e \in Entry /\ e.term = CurrentTerm[n]
          BY <3>2 DEF Entry
        <5> HIDE DEF e
        <5>2. Ascends(Whole(Append(Log[n], e)), CurrentTerm[n])
          BY <3>2, <5>1, AscendsAppend
        <5> QED BY <4>4, <5>2 DEF e
      <4> QED BY <3>1, <3>4, <4>1, <4>2, <4>3, <4>4 DEF Changed
    <3> QED BY <3>3, <3>4
  <2> QED BY <2>1, <2>2
<1>4. ASSUME NEW m \in Requests', m.entries # <<>>
      PROVE  /\ m.prevIndex \in Nat /\ (m.prevIndex = 0 => m.prevTerm = 0)
             /\ Ascends(m, m.term)
  <2>1. CASE m \in Requests
    BY <1>4, <2>1 DEF Ascending
  <2>2. CASE m \notin Requests
    <3>1. PICK n \in Peers : SendsEntries(n, m) \/ SendsBeat(n, m)
      BY <2>2, NewRequest
    <3>2. SendsEntries(n, m)
      BY <1>4, <3>1 DEF SendsBeat, AppendEntriesRequest
    <3>3. /\ IsPiece(m) /\ Within(m, Whole(Log[n])) /\ m.term = CurrentTerm[n]
          /\ m.prevIndex = 0 => m.prevTerm = 0
      BY <1>0, <3>2, SentWithin
    <3>4. Ascends(m, m.term)
      BY <1>0, <3>3, WholeLog, AscendsWithin DEF Ascending
    <3> QED BY <3>3, <3>4 DEF IsPiece
  <2> QED BY <2>1, <2>2
<1>5. /\ \A p \in Peers : Ascends(Whole(Log[p]), CurrentTerm[p])'
      /\ \A m \in Requests' : m.entries # <<>> =>
           /\ m.prevIndex \in Nat /\ (m.prevIndex = 0 => m.prevTerm = 0)
           /\ Ascends(m, m.term)'
  BY <1>3, <1>4 DEF Ascends, Span, TermAt, Whole
<1> QED BY <1>5 DEF Ascending

-----------------------------------------------------------------------------
\* An answer to a request goes back to its sender.
LEMMA NewReply ==
  ASSUME Next, NEW m \in msgs', m \notin msgs, m.type = "AppendEntriesResponse"
  PROVE  \E k \in Requests : m.from = k.to /\ m.to = k.from
<1>1. ASSUME NEW x \in Peers, NEW k \in msgs, Receive(x, k)
      PROVE  k \in Requests /\ m.from = k.to /\ m.to = k.from
  <2>1. CASE \/ HandleRequestVote(x, k) \/ ResponseNewerTerm(x, k) \/ RecordVote(x, k)
             \/ CommitPanic(x, k) \/ AppendSucceeded(x, k) \/ AppendFailed(x, k)
    BY <2>1 DEF HandleRequestVote, ResponseNewerTerm, SwitchToFollower, RecordVote,
                CommitPanic, Panic, AppendSucceeded, AppendFailed
  <2>2. CASE \/ RejectStaleAppend(x, k) \/ RejectShortLog(x, k) \/ RejectConflict(x, k)
             \/ AcceptEntries(x, k)
    BY <2>2 DEF RejectStaleAppend, RejectShortLog, RejectConflict, AcceptEntries, Accepts,
                FollowLeader, AppendReply, Receives, Requests
  <2>3. CASE FollowerDiesApplying(x, k) \/ LeaderDiesApplying(x, k)
    BY <2>3, DyingMoves
  <2> QED BY <1>1, <2>1, <2>2, <2>3 DEF Receive
<1>2. ASSUME NEW x \in Peers, Elect(x) PROVE FALSE
  BY <1>2 DEF Elect, ElectionTimeout, LeaderSkipsElection, CheckRole, ResetVoteResult,
              SwitchToCandidate
<1>3. ASSUME NEW x \in Peers, Lead(x) PROVE FALSE
  <2>1. ASSUME NEW p \in Peers, SendAppendEntriesTo(x, p) PROVE FALSE
    BY <2>1 DEF SendAppendEntriesTo, AppendEntriesRequest
  <2>2. ASSUME NEW b \in beats[x], SendHeartbeat(x, b) PROVE FALSE
    BY <2>2 DEF SendHeartbeat, AppendEntriesRequest
  <2> QED BY <1>3, <2>1, <2>2 DEF Lead, ProposeCommand, SendPanic, Panic,
                                  HeartbeatTimeout, BroadcastHeartbeat
<1>4. ASSUME NEW x \in Peers, Crash(x) \/ Restart(x) PROVE FALSE
  BY <1>4 DEF Crash, Restart
<1> QED BY <1>1, <1>2, <1>3, <1>4 DEF Next

\* Entries are sent to the others, and again to who refused them.
LEMMA SendsToOthers ==
  ASSUME TypeOK, Apart, Next, NEW n \in Peers
  PROVE  n \notin appendTo'[n]
<1>0. appendTo \in [Peers -> SUBSET Peers] /\ n \notin appendTo[n]
  BY DEF TypeOK, Apart
<1>1. ASSUME NEW x \in Peers, NEW k \in msgs, Receive(x, k) PROVE n \notin appendTo'[n]
  <2>1. CASE AppendFailed(x, k)
    <3>1. k.from # x
      BY <2>1 DEF AppendFailed, FromFollower, Receives, Apart
    <3> QED BY <1>0, <2>1, <3>1 DEF AppendFailed
  <2>2. CASE \/ HandleRequestVote(x, k) \/ ResponseNewerTerm(x, k) \/ RecordVote(x, k)
             \/ CommitPanic(x, k) \/ AppendSucceeded(x, k) \/ RejectStaleAppend(x, k)
    BY <1>0, <2>2 DEF HandleRequestVote, ResponseNewerTerm, SwitchToFollower, RecordVote,
                CommitPanic, Panic, AppendSucceeded, RejectStaleAppend, taskVars
  <2>3. CASE RejectShortLog(x, k) \/ RejectConflict(x, k) \/ AcceptEntries(x, k)
    BY <1>0, <2>3 DEF RejectShortLog, RejectConflict, AcceptEntries, FollowLeader, taskVars
  <2>4. CASE FollowerDiesApplying(x, k) \/ LeaderDiesApplying(x, k)
    BY <1>0, <2>4 DEF FollowerDiesApplying, LeaderDiesApplying, DieApplying, taskVars
  <2> QED BY <1>1, <2>1, <2>2, <2>3, <2>4 DEF Receive
<1>2. ASSUME NEW x \in Peers, Elect(x) \/ Crash(x) PROVE n \notin appendTo'[n]
  BY <1>0, <1>2 DEF Elect, ElectionTimeout, LeaderSkipsElection, CheckRole,
                    ResetVoteResult, SwitchToCandidate, Crash, taskVars
<1>3. ASSUME NEW x \in Peers, Lead(x) PROVE n \notin appendTo'[n]
  <2>1. ASSUME NEW cmd \in Commands, ProposeCommand(x, cmd) PROVE n \notin appendTo'[n]
    BY <1>0, <2>1 DEF ProposeCommand, Others
  <2> QED BY <1>0, <1>3, <2>1 DEF Lead, SendAppendEntriesTo, SendPanic, Panic,
                                  HeartbeatTimeout, BroadcastHeartbeat, SendHeartbeat,
                                  taskVars
<1>4. ASSUME NEW x \in Peers, Restart(x) PROVE n \notin appendTo'[n]
  BY <1>0, <1>4 DEF Restart
<1> QED BY <1>1, <1>2, <1>3, <1>4 DEF Next

LEMMA ApartNext ==
  ASSUME TypeOK, Apart, Next, ~StaleSend
  PROVE  Apart'
<1>1. ASSUME NEW m \in msgs', m.type = "AppendEntries" PROVE m.from # m.to
  <2>1. CASE m \in msgs
    BY <1>1, <2>1 DEF Apart
  <2>2. CASE m \notin msgs
    <3>1. PICK n \in Peers : SendsEntries(n, m) \/ SendsBeat(n, m)
      BY <1>1, <2>2, NewRequest DEF Requests
    <3> QED BY <3>1 DEF SendsEntries, SendsBeat, AppendEntriesRequest, Apart
  <2> QED BY <2>1, <2>2
<1>2. ASSUME NEW m \in msgs', m.type = "AppendEntriesResponse" PROVE m.from # m.to
  <2>1. CASE m \in msgs
    BY <1>2, <2>1 DEF Apart
  <2>2. CASE m \notin msgs
    BY <1>2, <2>2, NewReply DEF Requests, Apart
  <2> QED BY <2>1, <2>2
<1>3. ASSUME NEW n \in Peers, NEW b \in beats'[n] PROVE b.to # n
  BY <1>3, NewBeat DEF Apart
<1> QED BY <1>1, <1>2, <1>3, SendsToOthers DEF Apart

\* The inductive invariant behind LogMatching and TermsAscend.
LEMMA LogsInvariant ==
  ASSUME ~RaceWindow, ~StaleSend
  PROVE  Spec /\ [][CleanRestarts]_vars => []Logs
<1>1. Init => Logs
  <2> SUFFICES ASSUME Init PROVE Logs
    OBVIOUS
  <2>1. msgs = {} /\ \A n \in Peers : /\ Log[n] = <<>> /\ CurrentTerm[n] = 0
                                      /\ appendTo[n] = {} /\ beats[n] = {}
    BY DEF Init
  <2>2. Requests = {} /\ \A a \in Pieces : a = Whole(<<>>)
    BY <2>1 DEF Requests, Pieces
  <2>3. <<>> \in Seq(Entry) /\ Len(<<>>) = 0
    OBVIOUS
  <2>4. Span(Whole(<<>>)) = {0} /\ TermAt(Whole(<<>>), 0) = 0
    <3>1. Span(Whole(<<>>)) = 0..Len(<<>>) /\ TermAt(Whole(<<>>), 0) = 0
      BY <2>3, WholeLog
    <3> QED BY <2>3, <3>1
  <2>5. Matching
    BY <2>2, MatchSelf DEF Matching
  <2>6. AllOwned
    BY <2>2, <2>4 DEF AllOwned
  <2>7. Ascending
    BY <2>1, <2>2, <2>4 DEF Ascending, Ascends
  <2>8. Apart
    BY <2>1 DEF Apart
  <2> QED BY <2>5, <2>6, <2>7, <2>8 DEF Logs
<1>2. Elections /\ Elections' /\ Logs /\ [Next]_vars /\ [CleanRestarts]_vars => Logs'
  <2>1. ASSUME Elections, Elections', Logs, Next, CleanRestarts PROVE Logs'
    BY <2>1, ApartNext, MatchingNext, AllOwnedNext, AscendingNext
       DEF Logs, Elections, Durable
  <2>2. ASSUME Logs, UNCHANGED vars PROVE Logs'
    <3>1. UNCHANGED <<Role, CurrentTerm, Log, appendTo, beats, msgs>>
      BY <2>2 DEF vars, electionVars, logVars, taskVars
    <3>2. Requests' = Requests /\ Granted' = Granted
      BY <3>1 DEF Requests, Granted
    <3>3. Pieces' = Pieces
      BY <3>1, <3>2 DEF Pieces, Whole
    <3>4. \A p, t : Elected(p, t) => Elected(p, t)'
      BY <3>1, <3>2 DEF Elected, Ran, Majority, Voted
    <3>5. Apart'
      BY <2>2, <3>1 DEF Logs, Apart
    <3>6. Matching'
      BY <2>2, <3>3 DEF Logs, Matching, Match, Span, TermAt, EntryAt
    <3>7. \A i, t : Owned(i, t) => Owned(i, t)'
      BY <3>1, <3>4 DEF Owned
    <3>8. AllOwned'
      BY <2>2, <3>3, <3>7 DEF Logs, AllOwned, Span, TermAt
    <3>9. Ascending'
      BY <2>2, <3>1, <3>2 DEF Logs, Ascending, Ascends, Whole, Span, TermAt
    <3> QED BY <3>5, <3>6, <3>8, <3>9 DEF Logs
  <2> QED BY <2>1, <2>2
<1> QED BY <1>1, <1>2, ElectionsInvariant, PTL DEF Spec

\* Two logs with an entry of the same term at the same index agree up to it, for any number
\* of peers and any messages lost, repeated or late: the test of handleAppendEntries on
\* PrevLogIndex and PrevLogTerm does what it is for.  A process may end anywhere, also
\* inside applyLogToStateMachine.  A restart that brings back entries that were cut off in
\* memory and not on disk is excluded, and so are the races of OneSender.
THEOREM LogsMatch ==
  ASSUME ~RaceWindow, ~StaleSend
  PROVE  Spec /\ [][CleanRestarts]_vars => []LogMatching
<1>1. TypeOK /\ Logs => LogMatching
  <2> SUFFICES ASSUME TypeOK, Logs, NEW n \in Peers, NEW p \in Peers,
                      NEW i \in DOMAIN Log[n] \cap DOMAIN Log[p],
                      Log[n][i].term = Log[p][i].term
               PROVE  SubSeq(Log[n], 1, i) = SubSeq(Log[p], 1, i)
    BY DEF LogMatching
  <2>1. Log[n] \in Seq(Entry) /\ Log[p] \in Seq(Entry)
    BY DEF TypeOK
  <2>2. i \in 1..Len(Log[n]) /\ i \in 1..Len(Log[p])
    BY <2>1
  <2>3. Match(Whole(Log[n]), Whole(Log[p]))
    BY DEF Logs, Matching, Pieces
  <2>4. ASSUME NEW j \in 1..i PROVE Log[n][j] = Log[p][j]
    <3>1. j \in 1..Len(Log[n]) /\ j \in 1..Len(Log[p]) /\ j <= i
      BY <2>1, <2>2
    <3>2. /\ i \in Span(Whole(Log[n])) \cap Span(Whole(Log[p]))
          /\ j \in Span(Whole(Log[n])) \cap Span(Whole(Log[p]))
          /\ TermAt(Whole(Log[n]), i) = TermAt(Whole(Log[p]), i)
      BY <2>1, <2>2, <3>1, WholeLog
    <3>3. EntryAt(Whole(Log[n]), j) = EntryAt(Whole(Log[p]), j)
      BY <2>1, <2>3, <3>1, <3>2, WholeLog DEF Match
    <3> QED BY <2>1, <3>1, <3>3, WholeLog
  <2> DEFINE s == SubSeq(Log[n], 1, i)
             r == SubSeq(Log[p], 1, i)
  <2>5. /\ s \in Seq(Entry) /\ Len(s) = i /\ \A j \in 1..i : s[j] = Log[n][j]
        /\ r \in Seq(Entry) /\ Len(r) = i /\ \A j \in 1..i : r[j] = Log[p][j]
    BY <2>1, <2>2
  <2> HIDE DEF s, r
  <2>6. s = r
    BY <2>4, <2>5
  <2> QED BY <2>6 DEF s, r
<1> QED BY <1>1, TypeCorrect, LogsInvariant, PTL

\* The terms of a log never decrease along it, under the same assumptions.
THEOREM TermsDoAscend ==
  ASSUME ~RaceWindow, ~StaleSend
  PROVE  Spec /\ [][CleanRestarts]_vars => []TermsAscend
<1>1. TypeOK /\ Logs => TermsAscend
  <2> SUFFICES ASSUME TypeOK, Logs, NEW n \in Peers, NEW i \in DOMAIN Log[n],
                      NEW j \in DOMAIN Log[n], i <= j
               PROVE  Log[n][i].term <= Log[n][j].term
    BY DEF TermsAscend
  <2>1. Log[n] \in Seq(Entry)
    BY DEF TypeOK
  <2>2. i \in 1..Len(Log[n]) /\ j \in 1..Len(Log[n])
    BY <2>1
  <2>3. Ascends(Whole(Log[n]), CurrentTerm[n])
    BY DEF Logs, Ascending
  <2>4. /\ i \in Span(Whole(Log[n])) /\ TermAt(Whole(Log[n]), i) = Log[n][i].term
        /\ j \in Span(Whole(Log[n])) /\ TermAt(Whole(Log[n]), j) = Log[n][j].term
    BY <2>1, <2>2, WholeLog
  <2>5. TermAt(Whole(Log[n]), i) <= TermAt(Whole(Log[n]), j)
    BY <2>3, <2>4 DEF Ascends
  <2> QED BY <2>4, <2>5
<1> QED BY <1>1, TypeCorrect, LogsInvariant, PTL

-----------------------------------------------------------------------------
(***************************************************************************)
(* Groups of at most two peers.  A majority is everybody, so no leader is  *)
(* missing an entry of the other node, and the logs never part.            *)
(***************************************************************************)
\* s is the beginning of t.
Prefix(s, t) == Len(s) <= Len(t) /\ \A i \in 1..Len(s) : s[i] = t[i]

\* The terms of a log ascend up to t.
Rises(log, t) ==
  \A i, j \in 1..Len(log) : i <= j => log[i].term <= log[j].term /\ log[j].term <= t

\* The entries of a request, and the one before them, are those of log.
PartOf(m, log) ==
  /\ m.prevIndex <= Len(log)
  /\ m.prevIndex > 0 => log[m.prevIndex].term = m.prevTerm
  /\ m.entries # <<>> => m.prevIndex >= 0 /\ m.prevIndex + Len(m.entries) <= Len(log)
  /\ \A k \in 1..Len(m.entries) : /\ log[m.prevIndex + k] = m.entries[k]
                                  /\ m.entries[k].term <= m.term

\* Of two logs one is the beginning of the other; a log is on disk as it is in memory; what
\* was applied is the beginning of the log; the terms of a log ascend.
OneLog == \A n, p \in Peers : Prefix(Log[n], Log[p]) \/ Prefix(Log[p], Log[n])
Stored == \A n \in Peers : disk[n].log = Log[n]
FromLog == \A n \in Peers : Prefix(applied[n], Log[n])
Rising == \A n \in Peers : Rises(Log[n], CurrentTerm[n])

\* What a message says of its sender's log is true of it, then and later, because logs only
\* grow; nobody reports a conflict.
Sent ==
  \A m \in msgs :
    /\ m.type = "AppendEntries" => PartOf(m, Log[m.from])
    /\ m.type = "AppendEntriesResponse" =>
         m.lastIndex <= Len(Log[m.from]) /\ m.conflictTerm = 0
    /\ m.type = "RequestVote" =>
         /\ m.lastIndex <= Len(Log[m.from])
         /\ m.lastTerm = IF m.lastIndex = 0 THEN 0 ELSE Log[m.from][m.lastIndex].term

\* sendHeartbeat finds the entry before the next one.
NextInLog == \A n, p \in Peers : NextIndex[n][p] <= Len(Log[n]) + 1

\* A vote goes to a node whose log is at least as long, and it stays so while that node
\* is a candidate or a leader in the term of the vote.
Backed ==
  \A g \in Granted :
    /\ g.term <= CurrentTerm[g.to]
    /\ Role[g.to] # "Follower" /\ CurrentTerm[g.to] = g.term
         => Len(Log[g.from]) <= Len(Log[g.to])

\* Everybody else has voted for a leader; a candidate and a leader have voted for themselves.
Unanimous ==
  \A n \in Peers :
    /\ Role[n] # "Follower" => VotedFor[n] = n
    /\ Role[n] = "Leader" => \A p \in Peers \ {n} : Voted(p, n, CurrentTerm[n])
Mandate(n) == <<Role[n], CurrentTerm[n], VotedFor[n]>>

Pair == OneLog /\ Stored /\ FromLog /\ Rising /\ Sent /\ NextInLog /\ Backed

-----------------------------------------------------------------------------
\* Every sequence is its own beginning ...
LEMMA PrefixSelf ==
  ASSUME NEW s \in Seq(Entry)
  PROVE  Prefix(s, s)
BY DEF Prefix

\* ... and a beginning of a beginning is a beginning.
LEMMA PrefixChain ==
  ASSUME NEW r \in Seq(Entry), NEW s \in Seq(Entry), NEW t \in Seq(Entry),
         Prefix(r, s), Prefix(s, t)
  PROVE  Prefix(r, t)
BY DEF Prefix

\* Two beginnings of one log are comparable.
LEMMA PrefixFork ==
  ASSUME NEW r \in Seq(Entry), NEW s \in Seq(Entry), NEW t \in Seq(Entry),
         Prefix(r, t), Prefix(s, t)
  PROVE  Prefix(r, s) \/ Prefix(s, r)
<1>1. CASE Len(r) <= Len(s)
  BY <1>1 DEF Prefix
<1>2. CASE Len(s) <= Len(r)
  BY <1>2 DEF Prefix
<1> QED BY <1>1, <1>2

\* A beginning is the subsequence up to its length.
LEMMA PrefixIsSubSeq ==
  ASSUME NEW s \in Seq(Entry), NEW t \in Seq(Entry), Prefix(s, t)
  PROVE  SubSeq(t, 1, Len(s)) = s
<1> DEFINE r == SubSeq(t, 1, Len(s))
<1>1. r \in Seq(Entry) /\ Len(r) = Len(s) /\ \A i \in 1..Len(s) : r[i] = t[i]
  BY DEF Prefix
<1> HIDE DEF r
<1>2. r = s
  BY <1>1 DEF Prefix
<1> QED BY <1>2 DEF r

\* The longer of two comparable logs contains the other.
LEMMA PrefixLonger ==
  ASSUME NEW s \in Seq(Entry), NEW t \in Seq(Entry), Len(s) <= Len(t),
         Prefix(s, t) \/ Prefix(t, s)
  PROVE  Prefix(s, t)
BY DEF Prefix

\* The terms of a beginning ascend as those of the whole do ...
LEMMA RisesPrefix ==
  ASSUME NEW s \in Seq(Entry), NEW t \in Seq(Entry), NEW x, Prefix(s, t), Rises(t, x)
  PROVE  Rises(s, x)
BY DEF Prefix, Rises

\* ... and up to a later term as well.
LEMMA RisesLater ==
  ASSUME NEW s \in Seq(Entry), NEW x \in Nat, NEW y \in Nat, x <= y, Rises(s, x)
  PROVE  Rises(s, y)
<1> SUFFICES ASSUME NEW i \in 1..Len(s), NEW j \in 1..Len(s), i <= j
             PROVE  s[i].term <= s[j].term /\ s[j].term <= y
  BY DEF Rises
<1>1. s[i].term <= s[j].term /\ s[j].term <= x
  BY DEF Rises
<1>2. s[j] \in Entry
  OBVIOUS
<1>3. s[j].term \in Nat
  BY <1>2 DEF Entry
<1> QED BY <1>1, <1>3

\* A request goes on being a part of a log that grows.
LEMMA PartStays ==
  ASSUME NEW s \in Seq(Entry), NEW t \in Seq(Entry), NEW m, m.prevIndex \in Int,
         m.entries \in Seq(Entry), Prefix(s, t), PartOf(m, s)
  PROVE  PartOf(m, t)
<1>1. /\ Len(s) \in Nat /\ Len(t) \in Nat /\ Len(s) <= Len(t)
      /\ \A i \in 1..Len(s) : s[i] = t[i]
  BY DEF Prefix
<1>2. m.prevIndex <= Len(t)
  BY <1>1 DEF PartOf
<1>3. m.prevIndex > 0 => t[m.prevIndex].term = m.prevTerm
  BY <1>1 DEF PartOf
<1>4. m.entries # <<>> => m.prevIndex >= 0 /\ m.prevIndex + Len(m.entries) <= Len(t)
  BY <1>1 DEF PartOf
<1>5. ASSUME NEW k \in 1..Len(m.entries)
      PROVE  t[m.prevIndex + k] = m.entries[k] /\ m.entries[k].term <= m.term
  <2>1. m.prevIndex + k \in 1..Len(s)
    BY <1>1 DEF PartOf
  <2>2. s[m.prevIndex + k] = m.entries[k] /\ m.entries[k].term <= m.term
    BY DEF PartOf
  <2> QED BY <1>1, <2>1, <2>2
<1> QED BY <1>2, <1>3, <1>4, <1>5 DEF PartOf

\* Merging a part of a comparable log leaves the log as it was, or makes it longer, up to
\* what was sent.
LEMMA MergeGrows ==
  ASSUME NEW log \in Seq(Entry), NEW from \in Seq(Entry), NEW m, m.prevIndex \in Int,
         m.entries \in Seq(Entry), m.prevIndex <= Len(log), PartOf(m, from),
         Prefix(log, from) \/ Prefix(from, log)
  PROVE  \/ MergeEntries(log, m.prevIndex, m.entries) = log
         \/ /\ MergeEntries(log, m.prevIndex, m.entries) \in Seq(Entry)
            /\ Prefix(log, MergeEntries(log, m.prevIndex, m.entries))
            /\ Prefix(MergeEntries(log, m.prevIndex, m.entries), from)
            /\ \A i \in 1..Len(MergeEntries(log, m.prevIndex, m.entries)) :
                 i <= Len(log) \/ MergeEntries(log, m.prevIndex, m.entries)[i].term <= m.term
<1> DEFINE prev == m.prevIndex
           entries == m.entries
           new == MergeEntries(log, prev, entries)
<1>0. prev \in Int /\ Len(entries) \in Nat /\ Len(log) \in Nat /\ Len(from) \in Nat
  OBVIOUS
<1>1. CASE Holds(log, prev, entries, Len(entries))
  BY <1>1 DEF MergeEntries
<1>2. CASE ~Holds(log, prev, entries, Len(entries))
  <2>1. PICK j \in 1..Len(entries) :
          ~(prev + j <= Len(log) /\ log[prev + j].term = entries[j].term)
    BY <1>2 DEF Holds
  <2>2. entries # <<>>
    BY <2>1
  <2>3. prev \in Nat /\ prev + Len(entries) <= Len(from)
    BY <1>0, <2>2 DEF PartOf
  <2>4. ASSUME NEW k \in 1..Len(entries)
        PROVE  from[prev + k] = entries[k] /\ entries[k].term <= m.term
    BY DEF PartOf
  <2>5. ASSUME NEW i \in 1..Len(log), i <= Len(from) PROVE log[i] = from[i]
    BY <2>5 DEF Prefix
  <2>6. prev + j > Len(log)
    <3>1. SUFFICES ASSUME prev + j <= Len(log) PROVE FALSE
      BY <1>0, <2>3
    <3>2. prev + j \in 1..Len(log) /\ prev + j <= Len(from)
      BY <1>0, <2>1, <2>3, <3>1
    <3>3. log[prev + j] = from[prev + j]
      BY <2>5, <3>2
    <3> QED BY <2>1, <2>4, <3>1, <3>3
  <2>7. Len(log) <= Len(from)
    BY <1>0, <2>1, <2>3, <2>6 DEF Prefix
  <2>8. new = [i \in 1..(prev + Len(entries)) |->
                 IF Holds(log, prev, entries, i - prev) THEN log[i] ELSE entries[i - prev]]
    BY <1>2 DEF MergeEntries
  <2>9. ASSUME NEW i \in 1..(prev + Len(entries))
        PROVE  new[i] = from[i] /\ (i <= Len(log) \/ new[i].term <= m.term)
    <3>1. CASE i <= prev
      <4>1. new[i] = log[i]
        BY <2>3, <2>8, <3>1 DEF Holds
      <4> QED BY <1>0, <2>3, <2>5, <2>7, <3>1, <4>1
    <3>2. CASE i > prev
      <4>1. i - prev \in 1..Len(entries) /\ prev + (i - prev) = i
        BY <1>0, <2>3, <3>2
      <4>2. from[i] = entries[i - prev] /\ entries[i - prev].term <= m.term
        BY <2>4, <4>1
      <4>3. CASE Holds(log, prev, entries, i - prev)
        <5>1. i - prev \in 1..(i - prev)
          BY <4>1
        <5>2. prev + (i - prev) <= Len(log)
          BY <4>3, <5>1 DEF Holds
        <5>3. i <= Len(log)
          BY <4>1, <5>2
        <5> QED BY <1>0, <2>5, <2>7, <2>8, <4>3, <5>3
      <4>4. CASE ~Holds(log, prev, entries, i - prev)
        BY <2>8, <4>2, <4>4
      <4> QED BY <4>3, <4>4
    <3> QED BY <1>0, <2>3, <3>1, <3>2
  <2>10. new \in Seq(Entry)
    BY MergeType
  <2>11. Len(new) = prev + Len(entries)
    BY <1>0, <2>3, <2>8, <2>10
  <2> HIDE DEF new
  <2>12. Prefix(new, from)
    BY <2>3, <2>9, <2>11 DEF Prefix
  <2>13. Prefix(log, new)
    BY <1>0, <2>1, <2>3, <2>5, <2>6, <2>7, <2>9, <2>11 DEF Prefix
  <2> QED BY <2>9, <2>10, <2>11, <2>12, <2>13 DEF new
<1> QED BY <1>1, <1>2

\* What is applied from a log is the beginning of it, and goes on with what was applied.
LEMMA AppliesPrefix ==
  ASSUME NEW log \in Seq(Entry), NEW done \in Seq(Entry), NEW commit \in Nat,
         commit <= Len(done) \/ commit <= Len(log), Prefix(done, log)
  PROVE  LET now == done \o SubSeq(log, Len(done) + 1, commit)
         IN  now \in Seq(Entry) /\ Prefix(now, log) /\ Prefix(done, now)
<1>0. Len(done) \in Nat /\ Len(log) \in Nat
  OBVIOUS
<1>1. CASE commit <= Len(done)
  <2>1. SubSeq(log, Len(done) + 1, commit) = << >>
    BY <1>0, <1>1
  <2>2. done \o << >> = done
    OBVIOUS
  <2> QED BY <2>1, <2>2, PrefixSelf
<1>2. CASE commit > Len(done)
  <2> DEFINE more == SubSeq(log, Len(done) + 1, commit)
  <2>1. /\ more \in Seq(Entry) /\ Len(more) = commit - Len(done)
        /\ \A i \in 1..Len(more) : more[i] = log[Len(done) + i]
    BY <1>0, <1>2
  <2> HIDE DEF more
  <2>2. /\ Len(done \o more) = commit
        /\ \A i \in 1..commit : (done \o more)[i] = IF i <= Len(done) THEN done[i]
                                                    ELSE more[i - Len(done)]
    BY <1>0, <1>2, <2>1
  <2>3. ASSUME NEW i \in 1..commit PROVE (done \o more)[i] = log[i]
    <3>1. CASE i <= Len(done)
      BY <1>0, <2>2, <3>1 DEF Prefix
    <3>2. CASE i > Len(done)
      <4>1. i - Len(done) \in 1..Len(more) /\ Len(done) + (i - Len(done)) = i
        BY <1>0, <1>2, <2>1, <3>2
      <4> QED BY <2>1, <2>2, <3>2, <4>1
    <3>3. i <= Len(done) \/ i > Len(done)
      BY <1>0
    <3> QED BY ONLY <3>1, <3>2, <3>3
  <2>4. Prefix(done \o more, log)
    BY <1>0, <1>2, <2>2, <2>3 DEF Prefix
  <2>5. done \o more \in Seq(Entry) /\ Prefix(done, done \o more)
    BY <1>0, <1>2, <2>1, <2>2 DEF Prefix
  <2> QED BY <2>4, <2>5 DEF more
<1> QED BY <1>0, <1>1, <1>2

\* SaveLog over a log that is the beginning of the new one leaves the new one.
LEMMA SavedWhole ==
  ASSUME NEW old \in Seq(Entry), NEW new \in Seq(Entry), Prefix(old, new)
  PROVE  SavedOver(old, new) = new
<1>1. Len(old) <= Len(new) /\ Len(old) \in Nat /\ Len(new) \in Nat
  BY DEF Prefix
<1>2. SavedOver(old, new) = [i \in 1..Len(new) |-> new[i]]
  BY <1>1 DEF SavedOver
<1> QED BY <1>2

\* In a group of at most two a majority is everybody.
LEMMA EverybodyVotes ==
  ASSUME Cardinality(Peers) <= 2, NEW Q \in SUBSET Peers, Majority(Q)
  PROVE  Q = Peers
<1>1. IsFiniteSet(Peers) /\ Cardinality(Peers) \in Nat
  BY PeersAssumption, FS_CardinalityType
<1>2. /\ IsFiniteSet(Q) /\ Cardinality(Q) <= Cardinality(Peers)
      /\ Cardinality(Peers) = Cardinality(Q) => Peers = Q
  BY <1>1, FS_Subset
<1>3. Cardinality(Q) \in Nat
  BY <1>2, FS_CardinalityType
<1>4. Cardinality(Peers) \in {0, 1, 2}
  BY <1>1
<1>5. Cardinality(Q) >= Cardinality(Peers) \div 2 + 1
  BY DEF Majority
<1>6. Cardinality(Q) >= Cardinality(Peers)
  BY <1>3, <1>4, <1>5
<1> QED BY <1>1, <1>2, <1>3, <1>6

\* Two nodes are all of the group.
LEMMA NobodyElse ==
  ASSUME Cardinality(Peers) <= 2, NEW a \in Peers, NEW b \in Peers, a # b, NEW p \in Peers
  PROVE  p = a \/ p = b
<1>1. IsFiniteSet(Peers) /\ Cardinality(Peers) \in Nat
  BY PeersAssumption, FS_CardinalityType
<1>2. IsFiniteSet({a}) /\ Cardinality({a}) = 1
  BY FS_Singleton
<1>3. Cardinality({a} \cup {b}) = 2
  BY <1>2, FS_AddElement
<1>4. Cardinality(Peers) \in {0, 1, 2}
  BY <1>1
<1>5. Majority({a} \cup {b})
  BY <1>3, <1>4 DEF Majority
<1>6. {a} \cup {b} = Peers
  BY <1>5, EverybodyVotes
<1> QED BY <1>6

-----------------------------------------------------------------------------
\* The types of what the invariants of a small group speak of.
LEMMA PairTypes ==
  ASSUME TypeOK
  PROVE  /\ \A n \in Peers : /\ Log[n] \in Seq(Entry) /\ Len(Log[n]) \in Nat
                             /\ applied[n] \in Seq(Entry) /\ disk[n].log \in Seq(Entry)
                             /\ CurrentTerm[n] \in Nat
         /\ \A g \in Granted : /\ g \in msgs /\ g.from \in Peers /\ g.to \in Peers
                               /\ g.term \in Nat
         /\ \A m \in Requests : /\ m \in msgs /\ m.from \in Peers /\ m.term \in Nat
                                /\ m.prevIndex \in Int /\ m.entries \in Seq(Entry)
<1>1. ASSUME NEW n \in Peers
      PROVE  /\ Log[n] \in Seq(Entry) /\ Len(Log[n]) \in Nat
             /\ applied[n] \in Seq(Entry) /\ disk[n].log \in Seq(Entry)
             /\ CurrentTerm[n] \in Nat
  <2>1. /\ Log[n] \in Seq(Entry) /\ applied[n] \in Seq(Entry) /\ disk[n] \in Disk
        /\ CurrentTerm[n] \in Nat
    BY DEF TypeOK
  <2> QED BY <2>1 DEF Disk
<1>2. ASSUME NEW m \in Requests
      PROVE  /\ m \in msgs /\ m.from \in Peers /\ m.term \in Nat
             /\ m.prevIndex \in Int /\ m.entries \in Seq(Entry)
  <2>1. m \in msgs /\ m \in AppendEntriesMsg
    BY MessageTypes DEF TypeOK, Requests
  <2> QED BY <2>1 DEF AppendEntriesMsg
<1>3. \A g \in Granted : g \in msgs /\ g.from \in Peers /\ g.to \in Peers /\ g.term \in Nat
  BY MessageTypes DEF TypeOK, Granted
<1> QED BY <1>1, <1>2, <1>3

\* A step that makes a follower or a candidate of one node, leaves it as it is, or makes a
\* leader of a candidate that everybody else has voted for.
LEMMA UnanimousStep ==
  ASSUME Next, Unanimous, NEW n \in Peers,
         \A p \in Peers \ {n} : Mandate(p)' = Mandate(p),
         \/ Role'[n] = "Follower"
         \/ Role'[n] = "Candidate" /\ VotedFor'[n] = n
         \/ Mandate(n)' = Mandate(n)
         \/ /\ Role[n] = "Candidate" /\ CurrentTerm'[n] = CurrentTerm[n]
            /\ VotedFor'[n] = VotedFor[n]
            /\ \A p \in Peers \ {n} : Voted(p, n, CurrentTerm[n])
  PROVE  Unanimous'
<1>1. \A p, q, t : Voted(p, q, t) => Voted(p, q, t)'
  BY VotedStays
<1> SUFFICES ASSUME NEW q \in Peers
             PROVE  /\ Role'[q] # "Follower" => VotedFor'[q] = q
                    /\ Role'[q] = "Leader" =>
                         \A p \in Peers \ {q} : Voted(p, q, CurrentTerm[q])'
  BY DEF Unanimous
<1>2. CASE Mandate(q)' = Mandate(q)
  BY <1>1, <1>2 DEF Mandate, Unanimous
<1>3. CASE q = n /\ Mandate(n)' # Mandate(n)
  BY <1>1, <1>3 DEF Unanimous
<1> QED BY <1>2, <1>3

\* Steps that no role, term or vote changes with.
LEMMA UnanimousKept ==
  ASSUME Next, Unanimous, UNCHANGED <<Role, CurrentTerm, VotedFor>>
  PROVE  Unanimous'
<1>1. \A p \in Peers : Mandate(p)' = Mandate(p)
  BY DEF Mandate
<1>2. PICK n \in Peers : TRUE
  BY DEF Next
<1> QED BY <1>1, UnanimousStep

\* handleRequestVote and handleAppendEntries let a node lead that led, or make it follow.
LEMMA UnanimousMessage ==
  ASSUME TypeOK, RequestInv, Unanimous, Next, NEW n \in Peers, NEW m \in msgs,
         \/ HandleRequestVote(n, m) \/ ResponseNewerTerm(n, m) \/ RejectShortLog(n, m)
         \/ RejectConflict(n, m) \/ AcceptEntries(n, m)
         \/ FollowerDiesApplying(n, m) \/ LeaderDiesApplying(n, m)
  PROVE  Unanimous'
<1>1. ASSUME NEW t, NEW v, NEW r,
             CurrentTerm' = [CurrentTerm EXCEPT ![n] = t],
             VotedFor' = [VotedFor EXCEPT ![n] = v],
             Role' = [Role EXCEPT ![n] = r],
             \/ r = "Follower"
             \/ r = Role[n] /\ t = CurrentTerm[n] /\ v = VotedFor[n]
      PROVE  Unanimous'
  <2>1. /\ \A p \in Peers \ {n} : Mandate(p)' = Mandate(p)
        /\ CurrentTerm'[n] = t /\ VotedFor'[n] = v /\ Role'[n] = r
    BY <1>1 DEF TypeOK, Mandate
  <2>2. Role'[n] = "Follower" \/ Mandate(n)' = Mandate(n)
    BY <1>1, <2>1 DEF Mandate
  <2> QED BY <2>1, <2>2, UnanimousStep
<1>2. CASE ResponseNewerTerm(n, m)
  BY <1>1, <1>2 DEF ResponseNewerTerm, SwitchToFollower
<1>3. \/ RoleAfter(n, m) = "Follower"
      \/ /\ RoleAfter(n, m) = Role[n] /\ TermAfter(n, m) = CurrentTerm[n]
         /\ VoteAfter(n, m) = VotedFor[n]
  BY DEF RoleAfter, TermAfter, VoteAfter
<1>4. CASE \/ RejectShortLog(n, m) \/ RejectConflict(n, m) \/ AcceptEntries(n, m)
           \/ FollowerDiesApplying(n, m) \/ LeaderDiesApplying(n, m)
  <2>1. /\ CurrentTerm' = [CurrentTerm EXCEPT ![n] = TermAfter(n, m)]
        /\ VotedFor' = [VotedFor EXCEPT ![n] = VoteAfter(n, m)]
        /\ Role' = [Role EXCEPT ![n] = RoleAfter(n, m)]
    BY <1>4, DyingMoves DEF RejectShortLog, RejectConflict, AcceptEntries, FollowLeader
  <2> QED BY <1>1, <1>3, <2>1
<1>5. CASE HandleRequestVote(n, m)
  <2> DEFINE vote == IF Grants(n, m) THEN m.from ELSE VoteAfter(n, m)
  <2>1. /\ CurrentTerm' = [CurrentTerm EXCEPT ![n] = TermAfter(n, m)]
        /\ VotedFor' = [VotedFor EXCEPT ![n] = vote]
        /\ Role' = [Role EXCEPT ![n] = RoleAfter(n, m)]
        /\ m.type = "RequestVote" /\ m.to = n
    BY <1>5 DEF HandleRequestVote, Receives
  <2>2. m.from # n
    BY <2>1 DEF RequestInv
  <2>3. CASE RoleAfter(n, m) = "Follower"
    BY <1>1, <2>1, <2>3
  <2>4. CASE RoleAfter(n, m) # "Follower"
    <3>1. /\ RoleAfter(n, m) = Role[n] /\ TermAfter(n, m) = CurrentTerm[n]
          /\ VoteAfter(n, m) = VotedFor[n]
      BY <1>3, <2>4
    <3>2. VotedFor[n] = n
      BY <2>4, <3>1 DEF Unanimous
    <3>3. ~Grants(n, m)
      BY <2>2, <3>1, <3>2, PeersAssumption DEF Grants
    <3> QED BY <1>1, <2>1, <3>1, <3>3
  <2> QED BY <2>3, <2>4
<1> QED BY <1>2, <1>4, <1>5

\* handleRequestVoteResponse makes a leader when it counts everybody, and what it is given
\* then is the vote of the only other node for the present term, also if the count holds
\* a vote from before switchToCandidate.
LEMMA UnanimousRecord ==
  ASSUME Cardinality(Peers) <= 2, TypeOK, GrantInv, Unanimous, Next, NEW n \in Peers,
         NEW m \in msgs, RecordVote(n, m)
  PROVE  Unanimous'
<1> DEFINE votes == IF m.granted THEN voteResult[n] \cup {m.from}
                    ELSE voteResult[n] \ {m.from}
           wins == Role[n] = "Candidate" /\ Majority(votes)
<1>1. /\ Role' = [Role EXCEPT ![n] = IF wins THEN "Leader" ELSE @]
      /\ UNCHANGED <<CurrentTerm, VotedFor>>
      /\ m.type = "RequestVoteResponse" /\ m.to = n /\ m.term = CurrentTerm[n]
  BY DEF RecordVote, Receives
<1>2. m.from \in Peers /\ votes \in SUBSET Peers
  <2>1. m.from \in Peers /\ voteResult[n] \in SUBSET Peers
    BY <1>1, MessageTypes DEF TypeOK
  <2> QED BY <2>1
<1>3. ASSUME wins PROVE \A p \in Peers \ {n} : Voted(p, n, CurrentTerm[n])
  <2>1. votes = Peers
    BY <1>2, <1>3, EverybodyVotes
  <2>2. m \in Granted
    BY <1>1, <1>2, <2>1 DEF Granted
  <2>3. m.from # n
    BY <1>1, <2>2 DEF GrantInv
  <2>4. \A p \in Peers \ {n} : p = m.from
    BY <1>2, <2>3, NobodyElse
  <2> QED BY <1>1, <2>2, <2>4 DEF Voted
<1> HIDE DEF votes, wins
<1>4. /\ \A p \in Peers \ {n} : Mandate(p)' = Mandate(p)
      /\ CurrentTerm'[n] = CurrentTerm[n] /\ VotedFor'[n] = VotedFor[n]
      /\ Role'[n] = IF wins THEN "Leader" ELSE Role[n]
  BY <1>1 DEF TypeOK, Mandate
<1>5. CASE wins
  <2>1. Role[n] = "Candidate"
    BY <1>5 DEF wins
  <2> QED BY <1>3, <1>4, <1>5, <2>1, UnanimousStep
<1>6. CASE ~wins
  <2>1. Mandate(n)' = Mandate(n)
    BY <1>4, <1>6 DEF Mandate
  <2> QED BY <1>4, <2>1, UnanimousStep
<1> QED BY <1>5, <1>6

\* Every step of a group of at most two preserves Unanimous, whenever votes are recorded.
LEMMA UnanimousNext ==
  ASSUME Cardinality(Peers) <= 2, TypeOK, Ballots, Unanimous, Next
  PROVE  Unanimous'
<1>0. RequestInv /\ GrantInv
  BY DEF Ballots
<1>1. ASSUME NEW n \in Peers, NEW m \in msgs, Receive(n, m) PROVE Unanimous'
  <2>1. CASE \/ RejectStaleAppend(n, m) \/ CommitPanic(n, m) \/ AppendSucceeded(n, m)
             \/ AppendFailed(n, m)
    <3>1. UNCHANGED electionVars
      BY <2>1 DEF RejectStaleAppend, CommitPanic, Panic, AppendSucceeded, AppendFailed
    <3> QED BY <3>1, UnanimousKept DEF electionVars
  <2> QED BY <1>0, <1>1, <2>1, UnanimousMessage, UnanimousRecord DEF Receive
<1>2. ASSUME NEW n \in Peers, Elect(n) PROVE Unanimous'
  <2>1. CASE SwitchToCandidate(n)
    <3>1. /\ \A p \in Peers \ {n} : Mandate(p)' = Mandate(p)
          /\ Role'[n] = "Candidate" /\ VotedFor'[n] = n
      BY <2>1 DEF SwitchToCandidate, TypeOK, Mandate
    <3> QED BY <3>1, UnanimousStep
  <2>2. CASE ~SwitchToCandidate(n)
    <3>1. UNCHANGED <<Role, CurrentTerm, VotedFor>>
      BY <1>2, <2>2 DEF Elect, ElectionTimeout, LeaderSkipsElection, CheckRole,
                        ResetVoteResult
    <3> QED BY <3>1, UnanimousKept
  <2> QED BY <2>1, <2>2
<1>3. ASSUME NEW n \in Peers, Lead(n) \/ Crash(n) PROVE Unanimous'
  <2>1. UNCHANGED electionVars
    BY <1>3 DEF Lead, ProposeCommand, SendAppendEntriesTo, SendPanic, Panic,
                HeartbeatTimeout, BroadcastHeartbeat, SendHeartbeat, Crash
  <2> QED BY <2>1, UnanimousKept DEF electionVars
<1>4. ASSUME NEW n \in Peers, Restart(n) PROVE Unanimous'
  <2>1. /\ \A p \in Peers \ {n} : Mandate(p)' = Mandate(p)
        /\ Role'[n] = "Follower"
    BY <1>4 DEF Restart, Mandate, TypeOK
  <2> QED BY <2>1, UnanimousStep
<1> QED BY <1>1, <1>2, <1>3, <1>4 DEF Next

\* The log of a leader contains every other.
LEMMA LeaderHasAll ==
  ASSUME Cardinality(Peers) <= 2, TypeOK, Unanimous, OneLog, Backed, NEW n \in Peers,
         Role[n] = "Leader", NEW p \in Peers
  PROVE  Prefix(Log[p], Log[n])
<1>1. Log[p] \in Seq(Entry) /\ Log[n] \in Seq(Entry)
  BY PairTypes
<1>2. CASE p = n
  BY <1>1, <1>2, PrefixSelf
<1>3. CASE p # n
  <2>1. PICK g \in Granted : g.from = p /\ g.to = n /\ g.term = CurrentTerm[n]
    BY <1>3 DEF Unanimous, Voted
  <2>2. Len(Log[p]) <= Len(Log[n])
    BY <2>1 DEF Backed
  <2> QED BY <1>1, <2>2, PrefixLonger DEF OneLog
<1> QED BY <1>2, <1>3

\* A voter of the present term of a node is not a leader.
LEMMA VotersFollow ==
  ASSUME Cardinality(Peers) <= 2, TypeOK, Unanimous, Ballots, NEW g \in Granted,
         CurrentTerm[g.to] = g.term
  PROVE  Role[g.from] # "Leader"
<1> SUFFICES ASSUME Role[g.from] = "Leader" PROVE FALSE
  OBVIOUS
<1>1. /\ g.from \in Peers /\ g.to \in Peers /\ g.term \in Nat
      /\ CurrentTerm[g.from] \in Nat
  BY PairTypes
<1>2. /\ g.from # g.to /\ g.term <= CurrentTerm[g.from]
      /\ g.term = CurrentTerm[g.from] => VotedFor[g.from] = g.to
  BY DEF Ballots, GrantInv
<1>3. PICK h \in Granted : /\ h.from = g.to /\ h.to = g.from
                           /\ h.term = CurrentTerm[g.from]
  BY <1>1, <1>2 DEF Unanimous, Voted
<1>4. h.term <= CurrentTerm[g.to]
  BY <1>3 DEF Ballots, GrantInv
<1>5. VotedFor[g.from] = g.from
  BY <1>1 DEF Unanimous
<1> QED BY <1>1, <1>2, <1>3, <1>4, <1>5

\* No request conflicts with a log.
LEMMA NoConflicts ==
  ASSUME TypeOK, OneLog, Sent, NEW n \in Peers, NEW m \in msgs, m.type = "AppendEntries"
  PROVE  ~PrevConflicts(n, m)
<1> SUFFICES ASSUME PrevConflicts(n, m) PROVE FALSE
  OBVIOUS
<1>1. /\ m.from \in Peers /\ m.prevIndex \in Int /\ Log[n] \in Seq(Entry)
      /\ Log[m.from] \in Seq(Entry)
  BY PairTypes DEF Requests
<1>2. /\ m.prevIndex <= Len(Log[m.from])
      /\ m.prevIndex > 0 => Log[m.from][m.prevIndex].term = m.prevTerm
  BY DEF Sent, PartOf
<1>3. m.prevIndex \in 1..Len(Log[n]) /\ Log[n][m.prevIndex].term # m.prevTerm
  BY DEF PrevConflicts
<1>4. m.prevIndex \in 1..Len(Log[m.from])
  BY <1>1, <1>2, <1>3
<1>5. Log[n][m.prevIndex] = Log[m.from][m.prevIndex]
  BY <1>1, <1>3, <1>4 DEF OneLog, Prefix
<1> QED BY <1>2, <1>3, <1>5

\* How a log changes: only by growing, either to a beginning of another node's log or by the
\* entry that a leader adds.
Grows(n, new) ==
  /\ new \in Seq(Entry) /\ Prefix(Log[n], new) /\ Log' = [Log EXCEPT ![n] = new]
  /\ Rises(new, CurrentTerm'[n])
  /\ (\E p \in Peers : Prefix(new, Log[p])) \/ Role[n] = "Leader"

\* The log that the entries of a request make.
LEMMA Merged ==
  ASSUME TypeOK, OneLog, Rising, Sent, NEW n \in Peers, NEW m \in msgs, Accepts(n, m)
  PROVE  /\ MergedLog(n, m) \in Seq(Entry) /\ Prefix(Log[n], MergedLog(n, m))
         /\ Rises(MergedLog(n, m), TermAfter(n, m))
         /\ MergedLog(n, m) = Log[n] \/ Prefix(MergedLog(n, m), Log[m.from])
<1>0. m.type = "AppendEntries" /\ m.prevIndex <= Len(Log[n])
  BY DEF Accepts, Receives
<1> DEFINE new == MergedLog(n, m)
<1>1. /\ m.from \in Peers /\ m.prevIndex \in Int /\ m.entries \in Seq(Entry)
      /\ m.term \in Nat /\ Log[n] \in Seq(Entry) /\ Log[m.from] \in Seq(Entry)
  BY <1>0, PairTypes DEF Requests
<1>2. /\ TermAfter(n, m) \in Nat /\ CurrentTerm[n] \in Nat
      /\ CurrentTerm[n] <= TermAfter(n, m) /\ m.term <= TermAfter(n, m)
  BY TermVoteAfter
<1>3. Rises(Log[n], TermAfter(n, m))
  BY <1>1, <1>2, RisesLater DEF Rising
<1>4. PartOf(m, Log[m.from])
  BY <1>0 DEF Sent
<1>5. \/ new = Log[n]
      \/ /\ new \in Seq(Entry) /\ Prefix(Log[n], new) /\ Prefix(new, Log[m.from])
         /\ \A i \in 1..Len(new) : i <= Len(Log[n]) \/ new[i].term <= m.term
  BY <1>0, <1>1, <1>4, MergeGrows DEF OneLog, MergedLog
<1> HIDE DEF new
<1>6. CASE new = Log[n]
  BY <1>1, <1>3, <1>6, PrefixSelf DEF new
<1>7. CASE /\ new \in Seq(Entry) /\ Prefix(Log[n], new) /\ Prefix(new, Log[m.from])
           /\ \A i \in 1..Len(new) : i <= Len(Log[n]) \/ new[i].term <= m.term
  <2>1. ASSUME NEW i \in 1..Len(new), NEW j \in 1..Len(new), i <= j
        PROVE  new[i].term <= new[j].term /\ new[j].term <= TermAfter(n, m)
    <3>1. Rises(new, CurrentTerm[m.from])
      BY <1>1, <1>7, RisesPrefix DEF Rising
    <3>2. new[i].term <= new[j].term
      BY <2>1, <3>1 DEF Rises
    <3>3. new[j].term \in Nat
      <4>1. new[j] \in Entry
        BY <1>7
      <4> QED BY <4>1 DEF Entry
    <3>4. CASE j <= Len(Log[n])
      <4>1. j \in 1..Len(Log[n]) /\ new[j] = Log[n][j]
        BY <1>1, <1>7, <3>4 DEF Prefix
      <4>2. Log[n][j].term <= TermAfter(n, m)
        BY <1>3, <4>1 DEF Rises
      <4> QED BY <3>2, <4>1, <4>2
    <3>5. CASE ~(j <= Len(Log[n]))
      <4>1. new[j].term <= m.term
        BY <1>7, <3>5
      <4> QED BY <1>1, <1>2, <3>2, <3>3, <4>1
    <3> QED BY <3>4, <3>5
  <2> QED BY <1>7, <2>1 DEF Rises, new
<1> QED BY <1>5, <1>6, <1>7

\* Every log grows, or stays as it is.
LEMMA PairLogSteps ==
  ASSUME Cardinality(Peers) <= 2, TypeOK, Unanimous, Pair, Next
  PROVE  UNCHANGED Log \/ \E n \in Peers, new \in Seq(Entry) : Grows(n, new)
<1>0. /\ OneLog /\ Stored /\ Rising /\ Sent
      /\ Log \in [Peers -> Seq(Entry)] /\ CurrentTerm \in [Peers -> Nat]
  BY DEF Pair, TypeOK
<1>1. ASSUME NEW n \in Peers, NEW cmd \in Commands, ProposeCommand(n, cmd)
      PROVE  \E new \in Seq(Entry) : Grows(n, new)
  <2> DEFINE e == [term |-> CurrentTerm[n], cmd |-> cmd]
             new == Append(Log[n], e)
  <2>1. e \in Entry /\ e.term = CurrentTerm[n] /\ CurrentTerm[n] \in Nat
        /\ Log[n] \in Seq(Entry) /\ Rises(Log[n], CurrentTerm[n])
    BY <1>0 DEF Entry, Rising
  <2>2. Log' = [Log EXCEPT ![n] = new] /\ Role[n] = "Leader" /\ CurrentTerm' = CurrentTerm
    BY <1>1 DEF ProposeCommand, electionVars
  <2> HIDE DEF e
  <2>3. /\ new \in Seq(Entry) /\ Len(new) = Len(Log[n]) + 1 /\ new[Len(Log[n]) + 1] = e
        /\ \A i \in 1..Len(Log[n]) : new[i] = Log[n][i]
    BY <2>1
  <2> HIDE DEF new
  <2>4. Prefix(Log[n], new)
    BY <2>1, <2>3 DEF Prefix
  <2>5. ASSUME NEW i \in 1..Len(new), NEW j \in 1..Len(new), i <= j
        PROVE  new[i].term <= new[j].term /\ new[j].term <= CurrentTerm[n]
    <3>1. \A k \in 1..Len(Log[n]) : Log[n][k].term <= CurrentTerm[n]
      BY <2>1 DEF Rises
    <3>2. CASE j = Len(Log[n]) + 1
      <4>1. CASE i = j
        BY <2>1, <2>3, <3>2, <4>1
      <4>2. CASE i # j
        <5>1. i \in 1..Len(Log[n])
          BY <2>1, <2>3, <2>5, <3>2, <4>2
        <5> QED BY <2>1, <2>3, <3>1, <3>2, <5>1
      <4> QED BY <4>1, <4>2
    <3>3. CASE j # Len(Log[n]) + 1
      <4>1. i \in 1..Len(Log[n]) /\ j \in 1..Len(Log[n])
        BY <2>1, <2>3, <2>5, <3>3
      <4>2. Log[n][i].term <= Log[n][j].term /\ Log[n][j].term <= CurrentTerm[n]
        BY <2>1, <2>5, <4>1 DEF Rises
      <4> QED BY <2>3, <4>1, <4>2
    <3> QED BY <3>2, <3>3
  <2> QED BY <2>2, <2>3, <2>4, <2>5 DEF Grows, Rises
<1>2. ASSUME NEW n \in Peers, NEW m \in msgs, Merges(n, m)
      PROVE  UNCHANGED Log \/ \E new \in Seq(Entry) : Grows(n, new)
  <2>1. /\ Accepts(n, m) /\ Log' = [Log EXCEPT ![n] = MergedLog(n, m)]
        /\ CurrentTerm'[n] = TermAfter(n, m) /\ m.from \in Peers
    BY <1>0, <1>2, MessageTypes DEF Merges, TypeOK
  <2>2. /\ MergedLog(n, m) \in Seq(Entry) /\ Prefix(Log[n], MergedLog(n, m))
        /\ Rises(MergedLog(n, m), TermAfter(n, m))
        /\ MergedLog(n, m) = Log[n] \/ Prefix(MergedLog(n, m), Log[m.from])
    BY <1>0, <2>1, Merged
  <2>3. CASE MergedLog(n, m) = Log[n]
    BY <1>0, <2>1, <2>3
  <2>4. CASE Prefix(MergedLog(n, m), Log[m.from])
    BY <2>1, <2>2, <2>4 DEF Grows
  <2> QED BY <2>2, <2>3, <2>4
<1>3. ASSUME NEW n \in Peers, NEW m \in msgs, RejectConflict(n, m) PROVE FALSE
  BY <1>0, <1>3, NoConflicts DEF RejectConflict, Receives
<1>4. CleanRestarts
  BY <1>0 DEF CleanRestarts, Stored
<1> QED BY <1>1, <1>2, <1>3, <1>4, LogSteps

\* What was a log is the beginning of what it becomes.
LEMMA LogsGrow ==
  ASSUME Cardinality(Peers) <= 2, TypeOK, Unanimous, Pair, Next, NEW p \in Peers
  PROVE  Prefix(Log[p], Log'[p])
<1>1. Log \in [Peers -> Seq(Entry)]
  BY DEF TypeOK
<1>2. CASE UNCHANGED Log
  BY <1>1, <1>2, PrefixSelf
<1>3. ASSUME NEW n \in Peers, NEW new \in Seq(Entry), Grows(n, new)
      PROVE  Prefix(Log[p], Log'[p])
  <2>1. CASE p = n
    BY <1>1, <1>3, <2>1 DEF Grows
  <2>2. CASE p # n
    BY <1>1, <1>3, <2>2, PrefixSelf DEF Grows
  <2> QED BY <2>1, <2>2
<1> QED BY <1>2, <1>3, PairLogSteps

\* A log grows by what a leader, who has every entry, adds to its own, or up to what a
\* leader sent.
LEMMA OneLogNext ==
  ASSUME Cardinality(Peers) <= 2, TypeOK, Unanimous, Pair, Next
  PROVE  OneLog'
<1>0. OneLog /\ Backed /\ Log \in [Peers -> Seq(Entry)]
  BY DEF Pair, TypeOK
<1>1. CASE UNCHANGED Log
  BY <1>0, <1>1 DEF OneLog
<1>2. ASSUME NEW n \in Peers, NEW new \in Seq(Entry), Grows(n, new) PROVE OneLog'
  <2>1. /\ Log'[n] = new /\ \A q \in Peers : q # n => Log'[q] = Log[q]
        /\ Prefix(Log[n], new)
    BY <1>0, <1>2 DEF Grows
  <2>2. ASSUME NEW q \in Peers PROVE Prefix(Log[q], new) \/ Prefix(new, Log[q])
    <3>1. ASSUME NEW p \in Peers, Prefix(new, Log[p])
          PROVE  Prefix(Log[q], new) \/ Prefix(new, Log[q])
      <4>1. CASE Prefix(Log[q], Log[p])
        BY <1>0, <3>1, <4>1, PrefixFork
      <4>2. CASE Prefix(Log[p], Log[q])
        BY <1>0, <3>1, <4>2, PrefixChain
      <4> QED BY <1>0, <4>1, <4>2 DEF OneLog
    <3>2. CASE Role[n] = "Leader"
      BY <1>0, <2>1, <3>2, LeaderHasAll, PrefixChain
    <3> QED BY <1>2, <3>1, <3>2 DEF Grows
  <2>3. Prefix(new, new)
    BY PrefixSelf
  <2>4. ASSUME NEW a \in Peers, NEW b \in Peers
        PROVE  Prefix(Log'[a], Log'[b]) \/ Prefix(Log'[b], Log'[a])
    BY <1>0, <2>1, <2>2, <2>3 DEF OneLog
  <2> QED BY <2>4 DEF OneLog, Prefix
<1> QED BY <1>1, <1>2, PairLogSteps

\* A leader adds entries of its term, which nothing in its log exceeds.
LEMMA RisingNext ==
  ASSUME Cardinality(Peers) <= 2, Durable, Durable', Unanimous, Pair, Next
  PROVE  Rising'
<1>0. /\ TypeOK /\ Rising /\ Log \in [Peers -> Seq(Entry)]
      /\ \A n \in Peers : CurrentTerm[n] \in Nat /\ CurrentTerm'[n] \in Nat
      /\ \A n \in Peers : CurrentTerm'[n] >= CurrentTerm[n]
  BY VotesKept DEF Pair, Durable, TypeOK, KeepsVotes
<1>1. ASSUME NEW p \in Peers, Log'[p] = Log[p] PROVE Rises(Log'[p], CurrentTerm'[p])
  BY <1>0, <1>1, RisesLater DEF Rising
<1>2. ASSUME NEW p \in Peers PROVE Rises(Log'[p], CurrentTerm'[p])
  <2>1. CASE UNCHANGED Log
    BY <1>1, <2>1
  <2>2. ASSUME NEW n \in Peers, NEW new \in Seq(Entry), Grows(n, new)
        PROVE  Rises(Log'[p], CurrentTerm'[p])
    <3>1. CASE p = n
      BY <1>0, <2>2, <3>1 DEF Grows
    <3>2. CASE p # n
      BY <1>0, <1>1, <2>2, <3>2 DEF Grows
    <3> QED BY <3>1, <3>2
  <2> QED BY <1>0, <2>1, <2>2, PairLogSteps
<1> QED BY <1>2 DEF Rising, Rises

-----------------------------------------------------------------------------
\* A step that leaves one node with the same log in memory and on disk.
LEMMA StoredStep ==
  ASSUME TypeOK, Stored, NEW n \in Peers, NEW log, NEW meta, "log" \in DOMAIN meta,
         disk' = [disk EXCEPT ![n] = [meta EXCEPT !.log = log]],
         Log' = [Log EXCEPT ![n] = log]
  PROVE  Stored'
<1>1. disk \in [Peers -> Disk] /\ Log \in [Peers -> Seq(Entry)]
  BY DEF TypeOK
<1>2. disk'[n].log = log /\ Log'[n] = log
  BY <1>1
<1>3. \A p \in Peers : p # n => disk'[p] = disk[p] /\ Log'[p] = Log[p]
  BY <1>1
<1> QED BY <1>2, <1>3 DEF Stored

\* A step that saves no log.
LEMMA StoredKept ==
  ASSUME Stored, Log' = Log, \A p \in Peers : disk'[p].log = disk[p].log
  PROVE  Stored'
BY DEF Stored

\* SaveLog writes what the log in memory becomes, and nothing is left behind its end,
\* because it was no longer before.
LEMMA StoredNext ==
  ASSUME Cardinality(Peers) <= 2, Durable, Unanimous, Pair, Next
  PROVE  Stored'
<1>0. /\ TypeOK /\ OneLog /\ Stored /\ Rising /\ Sent
      /\ disk \in [Peers -> Disk] /\ Log \in [Peers -> Seq(Entry)]
  BY DEF Durable, TypeOK, Pair
<1>1. ASSUME NEW n \in Peers, NEW t, NEW v, NEW c, NEW l
      PROVE  /\ SaveMeta(n, t, v, c, l).log = disk[n].log
             /\ "log" \in DOMAIN SaveMeta(n, t, v, c, l) /\ "log" \in DOMAIN disk[n]
  <2>1. disk[n] \in Disk
    BY <1>0
  <2> QED BY <2>1 DEF SaveMeta, Disk
<1>2. ASSUME NEW n \in Peers PROVE Log[n] \in Seq(Entry) /\ disk[n].log = Log[n]
  BY <1>0 DEF Stored
<1>3. ASSUME NEW n \in Peers, NEW m \in msgs, Receive(n, m) PROVE Stored'
  <2>1. CASE HandleRequestVote(n, m)
    BY <1>0, <1>1, <2>1, StoredKept DEF HandleRequestVote, logVars
  <2>2. CASE ResponseNewerTerm(n, m)
    BY <1>0, <1>1, <2>2, StoredKept DEF ResponseNewerTerm, SwitchToFollower, logVars
  <2>3. CASE \/ RecordVote(n, m) \/ RejectStaleAppend(n, m) \/ CommitPanic(n, m)
             \/ AppendFailed(n, m)
    BY <1>0, <2>3, StoredKept DEF RecordVote, RejectStaleAppend, CommitPanic, Panic,
                                  AppendFailed, logVars
  <2>4. CASE AppendSucceeded(n, m)
    BY <1>0, <1>1, <2>4, StoredKept DEF AppendSucceeded
  <2>5. ASSUME NEW log, NEW commit, NEW reply, FollowLeader(n, m, log, log, commit, reply)
        PROVE  Stored'
    <3>1. PICK meta : /\ "log" \in DOMAIN meta
                      /\ disk' = [disk EXCEPT ![n] = [meta EXCEPT !.log = log]]
                      /\ Log' = [Log EXCEPT ![n] = log]
      BY <1>1, <2>5 DEF FollowLeader
    <3> QED BY <1>0, <3>1, StoredStep
  <2>6. CASE RejectShortLog(n, m)
    <3>1. \E commit, reply : FollowLeader(n, m, Log[n], Log[n], commit, reply)
      BY <1>2, <2>6 DEF RejectShortLog
    <3> QED BY <2>5, <3>1
  <2>7. CASE RejectConflict(n, m)
    BY <1>0, <2>7, NoConflicts DEF RejectConflict, Receives
  <2>8. ASSUME Accepts(n, m)
        PROVE  SavedOver(disk[n].log, MergedLog(n, m)) = MergedLog(n, m)
    BY <1>0, <1>2, <2>8, Merged, SavedWhole
  <2>9. CASE AcceptEntries(n, m)
    <3>1. \E commit, reply :
            FollowLeader(n, m, MergedLog(n, m), MergedLog(n, m), commit, reply)
      <4>1. Accepts(n, m) /\ \E commit, reply :
              FollowLeader(n, m, MergedLog(n, m), SavedOver(disk[n].log, MergedLog(n, m)),
                           commit, reply)
        BY <2>9 DEF AcceptEntries
      <4> QED BY <2>8, <4>1
    <3> QED BY <2>5, <3>1
  <2>10. ASSUME NEW log, NEW commit, DieApplying(n, m, log, log, commit) PROVE Stored'
    <3>1. PICK meta : /\ "log" \in DOMAIN meta
                      /\ disk' = [disk EXCEPT ![n] = [meta EXCEPT !.log = log]]
                      /\ Log' = [Log EXCEPT ![n] = log]
      BY <1>0, <2>10, DieWrites
    <3> QED BY <1>0, <3>1, StoredStep
  <2>11. CASE FollowerDiesApplying(n, m)
    <3>1. Accepts(n, m) /\ DieApplying(n, m, MergedLog(n, m),
                                       SavedOver(disk[n].log, MergedLog(n, m)),
                                       CommitAfter(n, m))
      BY <2>11 DEF FollowerDiesApplying
    <3>2. DieApplying(n, m, MergedLog(n, m), MergedLog(n, m), CommitAfter(n, m))
      BY <2>8, <3>1
    <3> QED BY <2>10, <3>2
  <2>12. CASE LeaderDiesApplying(n, m)
    <3>1. \E N : DieApplying(n, m, Log[n], Log[n], N)
      BY <1>2, <2>12 DEF LeaderDiesApplying
    <3> QED BY <2>10, <3>1
  <2> QED BY <1>3, <2>1, <2>2, <2>3, <2>4, <2>6, <2>7, <2>9, <2>11, <2>12 DEF Receive
<1>4. ASSUME NEW n \in Peers, Elect(n) PROVE Stored'
  <2>1. CASE SwitchToCandidate(n)
    BY <1>0, <1>1, <2>1, StoredKept DEF SwitchToCandidate, logVars
  <2>2. CASE ~SwitchToCandidate(n)
    BY <1>0, <1>4, <2>2, StoredKept DEF Elect, ElectionTimeout, LeaderSkipsElection,
                                        CheckRole, ResetVoteResult, logVars
  <2> QED BY <2>1, <2>2
<1>5. ASSUME NEW n \in Peers, Lead(n) PROVE Stored'
  <2>1. ASSUME NEW cmd \in Commands, ProposeCommand(n, cmd) PROVE Stored'
    <3> DEFINE log == Append(Log[n], [term |-> CurrentTerm[n], cmd |-> cmd])
    <3>1. log \in Seq(Entry) /\ Prefix(Log[n], log)
      <4>1. [term |-> CurrentTerm[n], cmd |-> cmd] \in Entry
        BY <1>0 DEF TypeOK, Entry
      <4> QED BY <1>2, <4>1 DEF Prefix
    <3>2. /\ disk' = [disk EXCEPT ![n] = [disk[n] EXCEPT !.log = SavedOver(Log[n], log)]]
          /\ Log' = [Log EXCEPT ![n] = log]
      BY <1>0, <1>2, <2>1 DEF ProposeCommand
    <3>3. SavedOver(Log[n], log) = log
      BY <1>2, <3>1, SavedWhole
    <3> HIDE DEF log
    <3> QED BY <1>0, <1>1, <3>2, <3>3, StoredStep
  <2>2. CASE ~\E cmd \in Commands : ProposeCommand(n, cmd)
    BY <1>0, <1>5, <2>2, StoredKept DEF Lead, SendAppendEntriesTo, SendPanic, Panic,
       HeartbeatTimeout, BroadcastHeartbeat, SendHeartbeat, logVars
  <2> QED BY <2>1, <2>2
<1>6. ASSUME NEW n \in Peers, Crash(n) PROVE Stored'
  BY <1>0, <1>6, StoredKept DEF Crash, logVars
<1>7. ASSUME NEW n \in Peers, Restart(n) PROVE Stored'
  <2>1. /\ disk' = [disk EXCEPT ![n] = [disk[n] EXCEPT
                                          !.lastApplied = AppliedAtStart(disk[n])]]
        /\ Log' = [Log EXCEPT ![n] = disk[n].log]
    BY <1>0, <1>7 DEF Restart
  <2>2. disk'[n].log = disk[n].log /\ Log'[n] = disk[n].log
    BY <1>0, <2>1 DEF Disk
  <2>3. \A p \in Peers \ {n} : disk'[p] = disk[p] /\ Log'[p] = Log[p]
    BY <1>0, <2>1
  <2> QED BY <1>0, <2>2, <2>3 DEF Stored
<1> QED BY <1>3, <1>4, <1>5, <1>6, <1>7 DEF Next

\* One node goes on with what it applied; the others apply nothing.
OneGoesOn ==
  \E n \in Peers : /\ Prefix(applied[n], applied'[n])
                  /\ \A p \in Peers \ {n} : applied'[p] = applied[p]

\* A step that applies entries of the log a node has after it.
LEMMA FromLogStep ==
  ASSUME Cardinality(Peers) <= 2, Durable, Durable', Unanimous, Pair, Next, NEW n \in Peers,
         NEW commit \in Nat, commit <= Len(applied[n]) \/ commit <= Len(Log'[n]),
         applied' = [applied EXCEPT ![n] =
                       applied[n] \o SubSeq(Log'[n], Len(applied[n]) + 1, commit)]
  PROVE  FromLog' /\ OneGoesOn
<1>0. FromLog /\ applied \in [Peers -> Seq(Entry)]
  BY DEF Pair, Durable, TypeOK
<1>1. ASSUME NEW p \in Peers
      PROVE  /\ Prefix(applied[p], Log'[p]) /\ applied[p] \in Seq(Entry)
             /\ Log'[p] \in Seq(Entry)
  <2>1. Prefix(applied[p], Log[p]) /\ Prefix(Log[p], Log'[p])
    BY <1>0, LogsGrow DEF FromLog, Durable
  <2>2. applied[p] \in Seq(Entry) /\ Log[p] \in Seq(Entry) /\ Log'[p] \in Seq(Entry)
    BY DEF Durable, TypeOK
  <2> QED BY <2>1, <2>2, PrefixChain
<1> DEFINE now == applied[n] \o SubSeq(Log'[n], Len(applied[n]) + 1, commit)
<1>2. Prefix(now, Log'[n]) /\ Prefix(applied[n], now)
  BY <1>1, AppliesPrefix
<1>3. applied'[n] = now /\ \A p \in Peers \ {n} : applied'[p] = applied[p]
  BY <1>0
<1> HIDE DEF now
<1>4. \A p \in Peers : Prefix(applied'[p], Log'[p])
  BY <1>1, <1>2, <1>3
<1> QED BY <1>2, <1>3, <1>4 DEF FromLog, OneGoesOn, Prefix

\* A step that applies nothing.
LEMMA FromLogKept ==
  ASSUME Cardinality(Peers) <= 2, Durable, Durable', Unanimous, Pair, Next, NEW n \in Peers,
         applied' = applied
  PROVE  FromLog' /\ OneGoesOn
<1>1. ASSUME NEW p \in Peers PROVE Prefix(applied'[p], Log'[p])
  <2>1. Prefix(applied[p], Log[p]) /\ Prefix(Log[p], Log'[p])
    BY LogsGrow DEF FromLog, Durable, Pair
  <2>2. applied[p] \in Seq(Entry) /\ Log[p] \in Seq(Entry) /\ Log'[p] \in Seq(Entry)
    BY DEF Durable, TypeOK
  <2> QED BY <2>1, <2>2, PrefixChain
<1>2. Prefix(applied[n], applied'[n])
  BY PrefixSelf DEF Durable, TypeOK
<1> QED BY <1>1, <1>2 DEF FromLog, OneGoesOn, Prefix

\* The commit index that AcceptEntries applies up to.
LEMMA CommitInLog ==
  ASSUME TypeOK, AppliedOnceInOrder, NEW n \in Peers, NEW m \in msgs, Accepts(n, m),
         MergedLog(n, m) \in Seq(Entry)
  PROVE  /\ CommitAfter(n, m) \in Nat
         /\ CommitAfter(n, m) <= LastApplied[n] \/ CommitAfter(n, m) <= Len(MergedLog(n, m))
<1>1. m \in AppendEntriesMsg /\ up[n]
  BY MessageTypes DEF TypeOK, Accepts, Receives
<1>2. /\ m.commit \in Nat /\ CommitIndex[n] \in Nat /\ LastApplied[n] \in Nat
      /\ CommitIndex[n] <= LastApplied[n]
  BY <1>1 DEF AppendEntriesMsg, TypeOK, AppliedOnceInOrder
<1>3. Len(MergedLog(n, m)) \in Nat
  OBVIOUS
<1> QED BY <1>2, <1>3 DEF CommitAfter

\* Whoever dies while it applies the entries of a log has applied entries of it.
LEMMA DyingFromLog ==
  ASSUME Cardinality(Peers) <= 2, Durable, Durable', Unanimous, Pair, Next, NEW n \in Peers,
         NEW m \in msgs, NEW log \in Seq(Entry), NEW stored, NEW commit \in Nat,
         commit <= LastApplied[n] \/ commit <= Len(log),
         DieApplying(n, m, log, stored, commit)
  PROVE  FromLog' /\ OneGoesOn
<1>1. /\ LastApplied[n] \in Nat /\ Len(applied[n]) = LastApplied[n]
      /\ Log \in [Peers -> Seq(Entry)]
  BY DEF Durable, TypeOK, AppliedOnceInOrder
<1>2. PICK k \in LastApplied[n]..(commit - 1) :
        /\ applied' = [applied EXCEPT ![n] = @ \o SubSeq(log, LastApplied[n] + 1, k)]
        /\ Log' = [Log EXCEPT ![n] = log]
  BY DEF DieApplying
<1>3. k \in Nat /\ (k <= Len(applied[n]) \/ k <= Len(Log'[n])) /\ Log'[n] = log
  BY <1>1, <1>2
<1>4. applied' = [applied EXCEPT ![n] =
                    applied[n] \o SubSeq(Log'[n], Len(applied[n]) + 1, k)]
  BY <1>1, <1>2, <1>3
<1> QED BY <1>3, <1>4, FromLogStep

\* Every step applies entries of the log at one node at most, in their order.
LEMMA FromLogNext ==
  ASSUME Cardinality(Peers) <= 2, Durable, Durable', Unanimous, Pair, Next
  PROVE  FromLog' /\ OneGoesOn
<1>0. /\ TypeOK /\ AppliedOnceInOrder /\ StoreInv /\ OneLog /\ Stored /\ Rising /\ Sent
      /\ disk \in [Peers -> Disk] /\ Log \in [Peers -> Seq(Entry)]
  BY DEF Durable, TypeOK, Pair
<1>1. ASSUME NEW n \in Peers
      PROVE  /\ LastApplied[n] \in Nat /\ Len(applied[n]) = LastApplied[n]
             /\ CommitIndex[n] \in Nat /\ (up[n] => CommitIndex[n] <= LastApplied[n])
             /\ Log[n] \in Seq(Entry) /\ Len(Log[n]) \in Nat
  BY <1>0 DEF TypeOK, AppliedOnceInOrder
<1>2. ASSUME NEW n \in Peers, NEW m \in msgs, Receive(n, m) PROVE FromLog' /\ OneGoesOn
  <2>0. up[n] /\ (Accepts(n, m) => MergedLog(n, m) \in Seq(Entry))
    BY <1>0, <1>2, Merged
       DEF Receive, HandleRequestVote, ResponseNewerTerm, RecordVote, RejectStaleAppend,
           RejectShortLog, RejectConflict, AcceptEntries, CommitPanic, AppendSucceeded,
           AppendFailed, FollowerDiesApplying, LeaderDiesApplying, FromFollower, Accepts,
           Receives
  <2>1. CASE \/ HandleRequestVote(n, m) \/ ResponseNewerTerm(n, m) \/ RecordVote(n, m)
             \/ RejectStaleAppend(n, m) \/ CommitPanic(n, m) \/ AppendFailed(n, m)
    <3>1. applied' = applied
      BY <2>1 DEF HandleRequestVote, ResponseNewerTerm, SwitchToFollower, RecordVote,
                  RejectStaleAppend, CommitPanic, Panic, AppendFailed, logVars
    <3> QED BY <3>1, FromLogKept
  <2>2. CASE AppendSucceeded(n, m)
    <3>1. PICK N \in CommitCandidates(n, m) :
            LET commit == IF N > CommitIndex[n] /\ Log[n][N].term = CurrentTerm[n]
                          THEN N ELSE CommitIndex[n]
            IN /\ N <= CommitIndex[n] \/ N <= Len(Log[n])
               /\ applied' = [applied EXCEPT ![n] =
                                @ \o SubSeq(Log[n], LastApplied[n] + 1, commit)]
      BY <2>2 DEF AppendSucceeded
    <3> DEFINE commit == IF N > CommitIndex[n] /\ Log[n][N].term = CurrentTerm[n]
                         THEN N ELSE CommitIndex[n]
    <3>2. N \in Int
      <4>1. m \in AppendResponseMsg /\ m.from \in Peers
        BY <1>0, <2>2, MessageTypes DEF AppendSucceeded, FromFollower, Receives, TypeOK
      <4>2. ReportedMatch(n, m) \in Int
        <5>1. NextIndex[n][m.from] \in Int
          BY <1>0, <4>1 DEF TypeOK
        <5>2. m.lastIndex \in Nat
          BY <4>1 DEF AppendResponseMsg
        <5> QED BY <5>1, <5>2 DEF ReportedMatch
      <4>3. \A p \in Peers : MatchIndex[n][p] \in Int
        BY <1>0 DEF TypeOK
      <4> QED BY <1>1, <4>2, <4>3 DEF CommitCandidates, Selected
    <3>3. commit \in Nat /\ (commit <= Len(applied[n]) \/ commit <= Len(Log[n]))
      BY <1>1, <2>0, <3>1, <3>2
    <3>4. /\ Log' = Log
          /\ applied' = [applied EXCEPT ![n] =
                           applied[n] \o SubSeq(Log'[n], Len(applied[n]) + 1, commit)]
      <4>1. Log' = Log
        BY <2>2 DEF AppendSucceeded
      <4> QED BY <1>1, <3>1, <4>1
    <3> HIDE DEF commit
    <3> QED BY <3>3, <3>4, FromLogStep
  <2>3. ASSUME NEW log \in Seq(Entry), NEW stored, NEW commit \in Nat, NEW reply,
               commit <= LastApplied[n] \/ commit <= Len(log),
               FollowLeader(n, m, log, stored, commit, reply)
        PROVE  FromLog' /\ OneGoesOn
    <3>1. Log'[n] = log
      BY <1>0, <2>3 DEF FollowLeader
    <3>2. applied' = [applied EXCEPT ![n] =
                        applied[n] \o SubSeq(Log'[n], Len(applied[n]) + 1, commit)]
      BY <1>1, <2>3, <3>1 DEF FollowLeader
    <3> QED BY <1>1, <2>3, <3>1, <3>2, FromLogStep
  <2>4. CASE RejectShortLog(n, m)
    <3>1. \E stored, reply : FollowLeader(n, m, Log[n], stored, CommitIndex[n], reply)
      BY <2>4 DEF RejectShortLog
    <3> QED BY <1>1, <2>0, <2>3, <3>1
  <2>5. CASE RejectConflict(n, m)
    BY <1>0, <2>5, NoConflicts DEF RejectConflict, Receives
  <2>6. CASE AcceptEntries(n, m)
    <3>1. Accepts(n, m) /\ \E stored, reply :
            FollowLeader(n, m, MergedLog(n, m), stored, CommitAfter(n, m), reply)
      BY <2>6 DEF AcceptEntries
    <3> QED BY <1>0, <2>0, <2>3, <3>1, CommitInLog
  <2>7. CASE FollowerDiesApplying(n, m)
    <3>1. Accepts(n, m) /\ \E stored :
            DieApplying(n, m, MergedLog(n, m), stored, CommitAfter(n, m))
      BY <2>7 DEF FollowerDiesApplying
    <3> QED BY <1>0, <2>0, <3>1, CommitInLog, DyingFromLog
  <2>8. CASE LeaderDiesApplying(n, m)
    <3>1. PICK N : N \in DOMAIN Log[n] /\ DieApplying(n, m, Log[n], disk[n].log, N)
      BY <2>8 DEF LeaderDiesApplying
    <3>2. N \in Nat /\ N <= Len(Log[n])
      BY <1>1, <3>1
    <3> QED BY <1>1, <3>1, <3>2, DyingFromLog
  <2> QED BY <1>2, <2>1, <2>2, <2>4, <2>5, <2>6, <2>7, <2>8 DEF Receive
<1>3. ASSUME NEW n \in Peers, Elect(n) \/ Lead(n) \/ Crash(n) PROVE FromLog' /\ OneGoesOn
  <2>1. applied' = applied
    BY <1>3 DEF Elect, ElectionTimeout, LeaderSkipsElection, CheckRole, ResetVoteResult,
                SwitchToCandidate, Lead, ProposeCommand, SendAppendEntriesTo, SendPanic,
                Panic, HeartbeatTimeout, BroadcastHeartbeat, SendHeartbeat, Crash, logVars
  <2> QED BY <2>1, FromLogKept
<1>4. ASSUME NEW n \in Peers, Restart(n) PROVE FromLog' /\ OneGoesOn
  <2>1. /\ Log' = [Log EXCEPT ![n] = disk[n].log]
        /\ applied' = [applied EXCEPT ![n] =
             @ \o SubSeq(disk[n].log, disk[n].lastApplied + 1, AppliedAtStart(disk[n]))]
    BY <1>4 DEF Restart
  <2>2. /\ disk[n].lastApplied = Len(applied[n]) /\ disk[n] \in Disk
        /\ disk[n].log = Log[n]
        /\ disk[n].commitIndex <= Len(applied[n]) \/ disk[n].commitIndex <= Len(disk[n].log)
    BY <1>0, <1>1 DEF StoreInv, Stored
  <2>3. /\ AppliedAtStart(disk[n]) \in Nat
        /\ \/ AppliedAtStart(disk[n]) <= Len(applied[n])
           \/ AppliedAtStart(disk[n]) <= Len(Log[n])
    BY <1>1, <2>2 DEF AppliedAtStart, Disk
  <2>4. Log' = Log
    BY <1>0, <2>1, <2>2
  <2> QED BY <2>1, <2>2, <2>3, <2>4, FromLogStep
<1> QED BY <1>2, <1>3, <1>4 DEF Next

-----------------------------------------------------------------------------
\* A request is a part of the log of the node that sends it.
LEMMA RequestIsPart ==
  ASSUME TypeOK, Rising, NextInLog, NEW n \in Peers, NEW m,
         SendsEntries(n, m) \/ SendsBeat(n, m)
  PROVE  m.from = n /\ PartOf(m, Log[n])
<1> DEFINE log == Log[n]
<1>1. log \in Seq(Entry) /\ Len(log) \in Nat /\ DOMAIN log = 1..Len(log)
  BY DEF TypeOK
<1>2. CASE SendsBeat(n, m)
  <2>1. PICK b \in beats[n] :
          m = AppendEntriesRequest(n, b.to, b.term, NextIndex[n][b.to], <<>>, b.commit)
    BY <1>2 DEF SendsBeat
  <2> DEFINE next == NextIndex[n][b.to]
  <2>2. b.to \in Peers
    <3>1. beats[n] \in SUBSET Beat
      BY DEF TypeOK
    <3> QED BY <3>1 DEF Beat
  <2>3. next \in Int /\ next <= Len(log) + 1
    <3>1. NextIndex[n][b.to] \in Int
      <4>1. NextIndex \in [Peers -> [Peers -> Int]]
        BY DEF TypeOK
      <4> QED BY <2>2, <4>1
    <3>2. NextIndex[n][b.to] <= Len(Log[n]) + 1
      BY <2>2 DEF NextInLog
    <3> QED BY <3>1, <3>2
  <2>4. /\ m.from = n /\ m.prevIndex = next - 1 /\ m.entries = <<>>
        /\ m.prevTerm = IF next - 1 \in DOMAIN log THEN log[next - 1].term ELSE 0
    BY <2>1 DEF AppendEntriesRequest
  <2> HIDE DEF next, log
  <2>5. m.prevIndex > 0 => m.prevIndex \in DOMAIN log
    BY <1>1, <2>3, <2>4
  <2> QED BY <1>1, <2>3, <2>4, <2>5 DEF PartOf, log
<1>3. CASE SendsEntries(n, m)
  <2>1. PICK p \in appendTo[n] :
          /\ NextIndex[n][p] - 1 \in 0..Len(Log[n])
          /\ m = AppendEntriesRequest(n, p, CurrentTerm[n], NextIndex[n][p],
                                      SubSeq(Log[n], NextIndex[n][p], Len(Log[n])),
                                      CommitIndex[n])
    BY <1>3 DEF SendsEntries
  <2> DEFINE next == NextIndex[n][p]
  <2>2. next \in Int
    BY DEF TypeOK
  <2>3. /\ m.from = n /\ m.prevIndex = next - 1 /\ m.entries = SubSeq(log, next, Len(log))
        /\ m.prevTerm = IF next - 1 \in DOMAIN log THEN log[next - 1].term ELSE 0
        /\ m.term = CurrentTerm[n]
    BY <2>1 DEF AppendEntriesRequest
  <2>4. next \in 1..(Len(log) + 1)
    BY <1>1, <2>1, <2>2
  <2>5. Rises(log, m.term)
    BY <2>3 DEF Rising
  <2> HIDE DEF next, log
  <2>6. /\ m.entries \in Seq(Entry) /\ Len(m.entries) = Len(log) - (next - 1)
        /\ \A k \in 1..Len(m.entries) : m.entries[k] = log[next + k - 1]
    BY <1>1, <2>3, <2>4
  <2>7. m.prevIndex > 0 => m.prevIndex \in DOMAIN log
    BY <1>1, <2>3, <2>4
  <2>8. ASSUME NEW k \in 1..Len(m.entries)
        PROVE  log[m.prevIndex + k] = m.entries[k] /\ m.entries[k].term <= m.term
    <3>1. m.prevIndex + k = next + k - 1 /\ next + k - 1 \in 1..Len(log)
      BY <1>1, <2>3, <2>4, <2>6
    <3>2. m.entries[k] = log[next + k - 1]
      BY <2>6
    <3>3. log[next + k - 1].term <= m.term
      BY <2>5, <3>1 DEF Rises
    <3> QED BY <3>1, <3>2, <3>3
  <2>9. m.prevIndex <= Len(log) /\ m.prevIndex >= 0
        /\ m.prevIndex + Len(m.entries) <= Len(log)
    BY <1>1, <2>3, <2>4, <2>6
  <2>10. m.prevIndex > 0 => log[m.prevIndex].term = m.prevTerm
    BY <2>3, <2>7
  <2> QED BY <2>3, <2>8, <2>9, <2>10 DEF PartOf, log
<1> QED BY <1>2, <1>3

\* What an answer to a request says of the log of its sender.
LEMMA NewAnswer ==
  ASSUME TypeOK, OneLog, Rising, Sent, Next, NEW m \in msgs', m \notin msgs,
         m.type = "AppendEntriesResponse"
  PROVE  m.lastIndex = Len(Log'[m.from]) /\ m.conflictTerm = 0
<1>0. Log \in [Peers -> Seq(Entry)]
  BY DEF TypeOK
<1>1. ASSUME NEW x \in Peers, NEW k \in msgs, Receive(x, k)
      PROVE  m.lastIndex = Len(Log'[m.from]) /\ m.conflictTerm = 0
  <2>1. CASE \/ HandleRequestVote(x, k) \/ ResponseNewerTerm(x, k) \/ RecordVote(x, k)
             \/ CommitPanic(x, k) \/ AppendSucceeded(x, k) \/ AppendFailed(x, k)
    BY <2>1 DEF HandleRequestVote, ResponseNewerTerm, SwitchToFollower, RecordVote,
                CommitPanic, Panic, AppendSucceeded, AppendFailed
  <2>2. CASE RejectStaleAppend(x, k)
    BY <2>2 DEF RejectStaleAppend, AppendReply, logVars
  <2>3. CASE RejectShortLog(x, k)
    BY <1>0, <2>3 DEF RejectShortLog, FollowLeader, AppendReply
  <2>4. CASE RejectConflict(x, k)
    BY <2>4, NoConflicts DEF RejectConflict, Receives
  <2>5. CASE AcceptEntries(x, k)
    <3>1. Log' = [Log EXCEPT ![x] = MergedLog(x, k)]
      BY <2>5 DEF AcceptEntries, FollowLeader
    <3>2. m = AppendReply(x, k, TermAfter(x, k), TRUE, 0, Len(MergedLog(x, k)),
                          Len(MergedLog(x, k)))
      BY <2>5 DEF AcceptEntries, FollowLeader
    <3> QED BY <1>0, <3>1, <3>2 DEF AppendReply
  <2>6. CASE FollowerDiesApplying(x, k) \/ LeaderDiesApplying(x, k)
    BY <2>6, DyingMoves
  <2> QED BY <1>1, <2>1, <2>2, <2>3, <2>4, <2>5, <2>6 DEF Receive
<1>2. ASSUME NEW x \in Peers, Elect(x) PROVE FALSE
  BY <1>2 DEF Elect, ElectionTimeout, LeaderSkipsElection, CheckRole, ResetVoteResult,
              SwitchToCandidate
<1>3. ASSUME NEW x \in Peers, Lead(x) PROVE FALSE
  <2>1. ASSUME NEW p \in Peers, SendAppendEntriesTo(x, p) PROVE FALSE
    BY <2>1 DEF SendAppendEntriesTo, AppendEntriesRequest
  <2>2. ASSUME NEW b \in beats[x], SendHeartbeat(x, b) PROVE FALSE
    BY <2>2 DEF SendHeartbeat, AppendEntriesRequest
  <2> QED BY <1>3, <2>1, <2>2 DEF Lead, ProposeCommand, SendPanic, Panic,
                                  HeartbeatTimeout, BroadcastHeartbeat
<1>4. ASSUME NEW x \in Peers, Crash(x) \/ Restart(x) PROVE FALSE
  BY <1>4 DEF Crash, Restart
<1> QED BY <1>1, <1>2, <1>3, <1>4 DEF Next

\* Whoever asks for votes tells how long its log is.
LEMMA NewCandidacy ==
  ASSUME TypeOK, Next, NEW m \in msgs', m \notin msgs, m.type = "RequestVote"
  PROVE  \E n \in Peers : /\ m.from = n /\ Log' = Log
                          /\ m.lastIndex = LastIndex(Log[n]) /\ m.lastTerm = LastTerm(Log[n])
<1>1. ASSUME NEW n \in Peers, SwitchToCandidate(n)
      PROVE  /\ m.from = n /\ Log' = Log
             /\ m.lastIndex = LastIndex(Log[n]) /\ m.lastTerm = LastTerm(Log[n])
  BY <1>1 DEF SwitchToCandidate, logVars
<1>2. ASSUME NEW n \in Peers, NEW k \in msgs, HandleRequestVote(n, k) PROVE FALSE
  BY <1>2 DEF HandleRequestVote
<1>3. CASE NoNewBallots
  BY <1>3 DEF NoNewBallots
<1> QED BY <1>1, <1>2, <1>3, OtherBallots

\* A vote is granted to whoever asked for it with a log that is up to date.
LEMMA NewGrant ==
  ASSUME TypeOK, Next, NEW g \in Granted', g \notin Granted
  PROVE  \E n \in Peers, m \in msgs :
           /\ m.type = "RequestVote" /\ Grants(n, m) /\ UNCHANGED Log
           /\ g.from = n /\ g.to = m.from /\ g.term = m.term
<1>0. g \in msgs' /\ g \notin msgs /\ g.type = "RequestVoteResponse" /\ g.granted
  BY DEF Granted
<1>1. ASSUME NEW n \in Peers, NEW m \in msgs, HandleRequestVote(n, m)
      PROVE  /\ m.type = "RequestVote" /\ Grants(n, m) /\ UNCHANGED Log
             /\ g.from = n /\ g.to = m.from /\ g.term = m.term
  <2>1. g = [type |-> "RequestVoteResponse", from |-> n, to |-> m.from,
             term |-> TermAfter(n, m), granted |-> Grants(n, m)]
    BY <1>0, <1>1 DEF HandleRequestVote
  <2>2. Grants(n, m)
    BY <1>0, <2>1
  <2>3. m.term >= CurrentTerm[n]
    BY <2>2 DEF Grants
  <2>4. TermAfter(n, m) = m.term
    BY <2>3, TermVoteAfter DEF TermAfter
  <2> QED BY <1>1, <2>1, <2>2, <2>4 DEF HandleRequestVote, Receives, logVars
<1>2. ASSUME NEW n \in Peers, SwitchToCandidate(n) PROVE FALSE
  BY <1>0, <1>2 DEF SwitchToCandidate
<1>3. CASE NoNewBallots
  BY <1>0, <1>3 DEF NoNewBallots
<1> QED BY <1>1, <1>2, <1>3, OtherBallots

\* isUpToDate compares the last entries; the logs being comparable and their terms
\* ascending, it compares their lengths.
LEMMA VotesForLonger ==
  ASSUME TypeOK, OneLog, Rising, Sent, NEW n \in Peers, NEW m \in msgs,
         m.type = "RequestVote", Grants(n, m)
  PROVE  Len(Log[n]) <= Len(Log[m.from])
<1>1. /\ m.from \in Peers /\ m.lastIndex \in Nat /\ m.lastTerm \in Nat
  <2>1. m \in RequestVoteMsg
    BY MessageTypes DEF TypeOK
  <2> QED BY <2>1 DEF RequestVoteMsg
<1> DEFINE log == Log[n]
           from == Log[m.from]
           last == m.lastIndex
<1>2. log \in Seq(Entry) /\ from \in Seq(Entry) /\ Len(log) \in Nat /\ Len(from) \in Nat
  BY <1>1, PairTypes
<1>3. last <= Len(from) /\ m.lastTerm = IF last = 0 THEN 0 ELSE from[last].term
  BY DEF Sent
<1>4. UpToDate(log, last, m.lastTerm)
  BY DEF Grants
<1>5. Prefix(log, from) \/ Prefix(from, log)
  BY <1>1 DEF OneLog
<1>6. Rises(log, CurrentTerm[n])
  BY DEF Rising
<1> HIDE DEF log, from, last
<1> SUFFICES ASSUME Len(log) > Len(from) PROVE FALSE
  BY <1>2 DEF log, from
<1>7. \A i \in 1..Len(from) : log[i] = from[i]
  BY <1>2, <1>5 DEF Prefix
<1>8. LastTerm(log) = log[Len(log)].term /\ Len(log) \in 1..Len(log)
  BY <1>2 DEF LastTerm
<1>9. log[Len(log)].term \in Nat
  <2>1. log[Len(log)] \in Entry
    BY <1>2, <1>8
  <2> QED BY <2>1 DEF Entry
<1>10. m.lastTerm <= log[Len(log)].term
  <2>1. CASE last = 0
    BY <1>3, <1>9, <2>1
  <2>2. CASE last # 0
    <3>1. last \in 1..Len(from) /\ last \in 1..Len(log) /\ last <= Len(log)
      BY <1>1, <1>2, <1>3, <2>2 DEF last
    <3>2. log[last].term <= log[Len(log)].term
      BY <1>6, <1>8, <3>1 DEF Rises
    <3> QED BY <1>3, <1>7, <2>2, <3>1, <3>2
  <2> QED BY <2>1, <2>2
<1>11. last >= Len(log)
  BY <1>1, <1>4, <1>8, <1>9, <1>10 DEF UpToDate, LastIndex
<1> QED BY <1>1, <1>2, <1>3, <1>11 DEF last

\* What a message says stays true, and what is sent is true of the sender.
LEMMA SentNext ==
  ASSUME Cardinality(Peers) <= 2, Durable, Unanimous, Pair, Next
  PROVE  Sent'
<1>0. TypeOK /\ OneLog /\ Rising /\ Sent /\ NextInLog
  BY DEF Durable, Pair
<1>1. ASSUME NEW p \in Peers PROVE /\ Prefix(Log[p], Log'[p])
                                   /\ Log[p] \in Seq(Entry) /\ Len(Log[p]) \in Nat
  BY <1>0, LogsGrow, PairTypes
<1>2. ASSUME NEW m \in msgs', m.type = "AppendEntries" PROVE PartOf(m, Log'[m.from])
  <2>1. CASE m \in msgs
    <3>1. /\ m.from \in Peers /\ m.prevIndex \in Int /\ m.entries \in Seq(Entry)
          /\ PartOf(m, Log[m.from])
      BY <1>0, <1>2, <2>1, PairTypes DEF Requests, Sent
    <3>2. CASE UNCHANGED Log
      BY <3>1, <3>2
    <3>3. ASSUME NEW n \in Peers, NEW new \in Seq(Entry), Grows(n, new)
          PROVE  Log'[m.from] \in Seq(Entry)
      BY <1>0, <1>1, <3>1, <3>3 DEF Grows, TypeOK
    <3> QED BY <1>0, <1>1, <3>1, <3>2, <3>3, PartStays, PairLogSteps
  <2>2. CASE m \notin msgs
    <3>1. PICK n \in Peers : UNCHANGED Log /\ (SendsEntries(n, m) \/ SendsBeat(n, m))
      BY <1>2, <2>2, NewRequest DEF Requests
    <3> QED BY <1>0, <3>1, RequestIsPart
  <2> QED BY <2>1, <2>2
<1>3. ASSUME NEW m \in msgs', m.type = "AppendEntriesResponse"
      PROVE  m.lastIndex <= Len(Log'[m.from]) /\ m.conflictTerm = 0
  <2>1. CASE m \in msgs
    <3>1. m \in AppendResponseMsg /\ m.from \in Peers
      BY <1>0, <1>3, <2>1, MessageTypes DEF TypeOK
    <3>2. m.lastIndex \in Nat /\ m.lastIndex <= Len(Log[m.from]) /\ m.conflictTerm = 0
      BY <1>0, <1>3, <2>1, <3>1 DEF AppendResponseMsg, Sent
    <3> QED BY <1>1, <3>1, <3>2 DEF Prefix
  <2>2. CASE m \notin msgs
    <3>1. m.lastIndex = Len(Log'[m.from]) /\ m.conflictTerm = 0
      BY <1>0, <1>3, <2>2, NewAnswer
    <3> QED BY <3>1
  <2> QED BY <2>1, <2>2
<1>4. ASSUME NEW m \in msgs', m.type = "RequestVote"
      PROVE  /\ m.lastIndex <= Len(Log'[m.from])
             /\ m.lastTerm = IF m.lastIndex = 0 THEN 0 ELSE Log'[m.from][m.lastIndex].term
  <2>1. CASE m \in msgs
    <3>1. m \in RequestVoteMsg /\ m.from \in Peers
      BY <1>0, <1>4, <2>1, MessageTypes DEF TypeOK
    <3>2. /\ m.lastIndex \in Nat /\ m.lastIndex <= Len(Log[m.from])
          /\ m.lastTerm = IF m.lastIndex = 0 THEN 0 ELSE Log[m.from][m.lastIndex].term
      BY <1>0, <1>4, <2>1, <3>1 DEF RequestVoteMsg, Sent
    <3> QED BY <1>1, <3>1, <3>2 DEF Prefix
  <2>2. CASE m \notin msgs
    <3>1. PICK n \in Peers : /\ m.from = n /\ Log' = Log
                             /\ m.lastIndex = LastIndex(Log[n])
                             /\ m.lastTerm = LastTerm(Log[n])
      BY <1>0, <1>4, <2>2, NewCandidacy
    <3> QED BY <1>1, <3>1 DEF LastIndex, LastTerm
  <2> QED BY <2>1, <2>2
<1> QED BY <1>2, <1>3, <1>4 DEF Sent, PartOf

\* What a follower reports as its last index the leader has.
LEMMA NextInLogNext ==
  ASSUME Cardinality(Peers) <= 2, Durable, Durable', Unanimous, Pair, Next
  PROVE  NextInLog'
<1>0. /\ TypeOK /\ OneLog /\ Backed /\ Sent /\ NextInLog
      /\ NextIndex \in [Peers -> [Peers -> Int]]
  BY DEF Durable, TypeOK, Pair
<1>1. ASSUME NEW n \in Peers
      PROVE  Len(Log[n]) \in Nat /\ Len(Log'[n]) \in Nat /\ Len(Log[n]) <= Len(Log'[n])
  <2>1. Log[n] \in Seq(Entry) /\ Log'[n] \in Seq(Entry)
    BY DEF Durable, TypeOK
  <2> QED BY <1>0, <2>1, LogsGrow DEF Prefix
<1>2. ASSUME NEW n \in Peers, NEW p \in Peers, NextIndex'[n][p] = NextIndex[n][p]
      PROVE  NextIndex'[n][p] <= Len(Log'[n]) + 1
  <2>1. NextIndex[n][p] \in Int /\ NextIndex[n][p] <= Len(Log[n]) + 1
    BY <1>0 DEF NextInLog
  <2> QED BY <1>1, <1>2, <2>1
<1> SUFFICES ASSUME NEW n \in Peers, NEW p \in Peers
             PROVE  NextIndex'[n][p] <= Len(Log'[n]) + 1
  BY DEF NextInLog
<1>3. ASSUME NEW x \in Peers, NEW m \in msgs, Receive(x, m)
      PROVE  NextIndex'[n][p] <= Len(Log'[n]) + 1
  <2>1. CASE RecordVote(x, m)
    <3>1. Log' = Log
      BY <2>1 DEF RecordVote, logVars
    <3>2. \/ NextIndex'[n][p] = NextIndex[n][p] \/ NextIndex'[n][p] = Len(Log[n]) + 1
      BY <1>0, <2>1 DEF RecordVote
    <3>3. CASE NextIndex'[n][p] = Len(Log[n]) + 1
      BY <1>1, <3>1, <3>3
    <3> QED BY <1>2, <3>2, <3>3
  <2>2. CASE AppendSucceeded(x, m)
    <3>1. /\ NextIndex' = [NextIndex EXCEPT ![x][m.from] = ReportedMatch(x, m) + 1]
          /\ m.type = "AppendEntriesResponse" /\ Role[x] = "Leader"
      BY <2>2 DEF AppendSucceeded, FromFollower, Receives
    <3>2. m \in AppendResponseMsg /\ m.from \in Peers
      BY <1>0, <3>1, MessageTypes DEF TypeOK
    <3>3. CASE n = x /\ p = m.from
      <4>1. NextIndex'[n][p] = ReportedMatch(x, m) + 1
        BY <1>0, <3>1, <3>3
      <4>2. m.lastIndex \in Nat /\ m.lastIndex <= Len(Log[p])
        BY <1>0, <3>1, <3>2, <3>3 DEF AppendResponseMsg, Sent
      <4>3. Len(Log[p]) <= Len(Log[n])
        BY <1>0, <3>1, <3>2, <3>3, LeaderHasAll DEF Prefix
      <4>4. NextIndex[n][p] \in Int /\ NextIndex[n][p] <= Len(Log[n]) + 1
        BY <1>0 DEF NextInLog
      <4>5. ReportedMatch(x, m) \in Int /\ ReportedMatch(x, m) <= Len(Log[n])
        BY <1>1, <3>3, <4>2, <4>3, <4>4 DEF ReportedMatch
      <4> QED BY <1>1, <4>1, <4>5
    <3>4. CASE ~(n = x /\ p = m.from)
      BY <1>0, <1>2, <3>1, <3>4
    <3> QED BY <3>3, <3>4
  <2>3. CASE AppendFailed(x, m)
    <3>1. m.conflictTerm = 0
      BY <1>0, <2>3 DEF AppendFailed, FromFollower, Receives, Sent
    <3>2. NextIndex' = [NextIndex EXCEPT ![x][m.from] =
                          IF NextIndex[x][m.from] > 1 THEN NextIndex[x][m.from] - 1
                          ELSE NextIndex[x][m.from]]
      BY <2>3, <3>1 DEF AppendFailed
    <3>3. CASE n = x /\ p = m.from
      <4>1. NextIndex[n][p] \in Int /\ NextIndex[n][p] <= Len(Log[n]) + 1
        BY <1>0 DEF NextInLog
      <4>2. NextIndex'[n][p] = IF NextIndex[n][p] > 1 THEN NextIndex[n][p] - 1
                               ELSE NextIndex[n][p]
        BY <1>0, <3>2, <3>3
      <4> QED BY <1>1, <4>1, <4>2
    <3>4. CASE ~(n = x /\ p = m.from)
      BY <1>0, <1>2, <3>2, <3>4
    <3> QED BY <3>3, <3>4
  <2>4. CASE ~(RecordVote(x, m) \/ AppendSucceeded(x, m) \/ AppendFailed(x, m))
    <3>1. NextIndex' = NextIndex
      BY <1>3, <2>4 DEF Receive, HandleRequestVote, ResponseNewerTerm, SwitchToFollower,
           RejectStaleAppend, RejectShortLog, RejectConflict, AcceptEntries, FollowLeader,
           CommitPanic, Panic, FollowerDiesApplying, LeaderDiesApplying, DieApplying,
           leaderVars
    <3> QED BY <1>2, <3>1
  <2> QED BY <2>1, <2>2, <2>3, <2>4
<1>4. ASSUME NEW x \in Peers, Elect(x) \/ Lead(x) \/ Crash(x)
      PROVE  NextIndex'[n][p] <= Len(Log'[n]) + 1
  <2>1. NextIndex' = NextIndex
    BY <1>4 DEF Elect, ElectionTimeout, LeaderSkipsElection, CheckRole, ResetVoteResult,
                SwitchToCandidate, Lead, ProposeCommand, SendAppendEntriesTo, SendPanic,
                Panic, HeartbeatTimeout, BroadcastHeartbeat, SendHeartbeat, Crash, leaderVars
  <2> QED BY <1>2, <2>1
<1>5. ASSUME NEW x \in Peers, Restart(x) PROVE NextIndex'[n][p] <= Len(Log'[n]) + 1
  <2>1. NextIndex' = [NextIndex EXCEPT ![x] = [q \in Peers |-> 0]]
    BY <1>5 DEF Restart
  <2>2. NextIndex'[n][p] = NextIndex[n][p] \/ NextIndex'[n][p] = 0
    BY <1>0, <2>1
  <2> QED BY <1>1, <1>2, <2>2
<1> QED BY <1>3, <1>4, <1>5 DEF Next

\* A vote goes to a log that is at least as long, and what a voter appends afterwards comes
\* from the leader of its term.
LEMMA BackedNext ==
  ASSUME Cardinality(Peers) <= 2, Durable, Durable', Ballots, Unanimous, Pair, Next
  PROVE  Backed'
<1>0. /\ TypeOK /\ OneLog /\ Rising /\ Sent /\ Backed
      /\ Log \in [Peers -> Seq(Entry)]
      /\ \A n \in Peers : CurrentTerm[n] \in Nat /\ CurrentTerm'[n] \in Nat
      /\ \A n \in Peers : CurrentTerm'[n] >= CurrentTerm[n]
  BY VotesKept DEF Durable, TypeOK, Pair, KeepsVotes
<1>1. ASSUME NEW n \in Peers
      PROVE  Len(Log[n]) \in Nat /\ Len(Log'[n]) \in Nat /\ Len(Log[n]) <= Len(Log'[n])
  <2>1. Log[n] \in Seq(Entry) /\ Log'[n] \in Seq(Entry)
    BY DEF Durable, TypeOK
  <2> QED BY <1>0, <2>1, LogsGrow DEF Prefix
<1> SUFFICES ASSUME NEW g \in Granted'
             PROVE  /\ g.term <= CurrentTerm'[g.to]
                    /\ Role'[g.to] # "Follower" /\ CurrentTerm'[g.to] = g.term
                         => Len(Log'[g.from]) <= Len(Log'[g.to])
  BY DEF Backed
<1>2. CASE g \in Granted
  <2>1. /\ g.from \in Peers /\ g.to \in Peers /\ g.term \in Nat /\ g.from # g.to
        /\ g.term <= CurrentTerm[g.to]
    BY <1>0, <1>2, PairTypes DEF Backed, Ballots, GrantInv
  <2>2. g.term <= CurrentTerm'[g.to]
    BY <1>0, <2>1
  <2>3. ASSUME Role'[g.to] # "Follower", CurrentTerm'[g.to] = g.term
        PROVE  Len(Log'[g.from]) <= Len(Log'[g.to])
    <3>1. ~SwitchToCandidate(g.to)
      <4>1. SUFFICES ASSUME SwitchToCandidate(g.to) PROVE FALSE
        OBVIOUS
      <4>2. CurrentTerm'[g.to] = CurrentTerm[g.to] + 1
        BY <1>0, <2>1, <4>1 DEF SwitchToCandidate, TypeOK
      <4> QED BY <1>0, <2>1, <2>3, <4>2
    <3>2. Role[g.to] # "Follower" /\ CurrentTerm[g.to] = g.term
      BY <1>0, <2>1, <2>3, <3>1, RunnersStay
    <3>3. Len(Log[g.from]) <= Len(Log[g.to])
      BY <1>0, <1>2, <3>2 DEF Backed
    <3>4. CASE UNCHANGED Log
      BY <3>3, <3>4
    <3>5. ASSUME NEW n \in Peers, NEW new \in Seq(Entry), Grows(n, new)
          PROVE  Len(Log'[g.from]) <= Len(Log'[g.to])
      <4>1. CASE n # g.from
        <5>1. Log'[g.from] = Log[g.from]
          BY <1>0, <2>1, <3>5, <4>1 DEF Grows
        <5> QED BY <1>1, <2>1, <3>3, <5>1
      <4>2. CASE n = g.from
        <5>1. Role[n] # "Leader"
          BY <1>0, <1>2, <3>2, <4>2, VotersFollow
        <5>2. PICK p \in Peers : Prefix(new, Log[p])
          BY <3>5, <5>1 DEF Grows
        <5>3. Log'[g.from] = new /\ Log'[g.to] = Log[g.to]
          BY <1>0, <2>1, <3>5, <4>2 DEF Grows
        <5>4. p = g.from \/ p = g.to
          BY <2>1, NobodyElse
        <5>5. Len(new) <= Len(Log[p]) /\ Len(new) \in Nat
          BY <5>2 DEF Prefix
        <5> QED BY <1>1, <2>1, <3>3, <5>3, <5>4, <5>5
      <4> QED BY <4>1, <4>2
    <3> QED BY <1>0, <3>4, <3>5, PairLogSteps
  <2> QED BY <2>2, <2>3
<1>3. CASE g \notin Granted
  <2>1. PICK n \in Peers, m \in msgs :
          /\ m.type = "RequestVote" /\ Grants(n, m) /\ UNCHANGED Log
          /\ g.from = n /\ g.to = m.from /\ g.term = m.term
    BY <1>0, <1>3, NewGrant
  <2>2. m.from \in Peers /\ m.term \in Nat /\ m.term <= CurrentTerm[m.from]
    BY <1>0, <2>1, MessageTypes DEF TypeOK, Ballots, RequestInv
  <2>3. Len(Log[n]) <= Len(Log[m.from])
    BY <1>0, <2>1, VotesForLonger
  <2> QED BY <1>0, <2>1, <2>2, <2>3
<1> QED BY <1>2, <1>3

-----------------------------------------------------------------------------
\* The inductive invariant of a group of at most two.
LEMMA PairInvariant ==
  ASSUME Cardinality(Peers) <= 2
  PROVE  Spec => [](Unanimous /\ Pair)
<1>1. Init => Unanimous /\ Pair
  <2> SUFFICES ASSUME Init PROVE Unanimous /\ Pair
    OBVIOUS
  <2>1. /\ msgs = {} /\ Granted = {}
        /\ \A n \in Peers : /\ Log[n] = <<>> /\ applied[n] = <<>> /\ disk[n].log = <<>>
                            /\ \A p \in Peers : NextIndex[n][p] = 0
    BY DEF Init, Granted
  <2>2. Unanimous
    BY DEF Init, Unanimous
  <2>3. Len(<<>>) = 0
    OBVIOUS
  <2>4. OneLog /\ FromLog
    BY <2>1, <2>3 DEF OneLog, FromLog, Prefix
  <2>5. Stored /\ Sent /\ Backed
    BY <2>1 DEF Stored, Sent, Backed
  <2>6. Rising /\ NextInLog
    BY <2>1, <2>3 DEF Rising, Rises, NextInLog
  <2> QED BY <2>2, <2>4, <2>5, <2>6 DEF Pair
<1>2. Durable /\ Durable' /\ Ballots /\ Unanimous /\ Pair /\ [Next]_vars
        => Unanimous' /\ Pair'
  <2>1. ASSUME Durable, Durable', Ballots, Unanimous, Pair, Next PROVE Unanimous' /\ Pair'
    <3>1. TypeOK
      BY <2>1 DEF Durable
    <3>2. Unanimous'
      BY <2>1, <3>1, UnanimousNext
    <3>3. OneLog' /\ Stored' /\ FromLog' /\ Rising'
      BY <2>1, <3>1, OneLogNext, StoredNext, FromLogNext, RisingNext
    <3>4. Sent' /\ NextInLog' /\ Backed'
      BY <2>1, SentNext, NextInLogNext, BackedNext
    <3> QED BY <3>2, <3>3, <3>4 DEF Pair
  <2>2. ASSUME Unanimous, Pair, UNCHANGED vars PROVE Unanimous' /\ Pair'
    <3>1. UNCHANGED <<Role, CurrentTerm, VotedFor, voteResult, election, Log, applied,
                      NextIndex, disk, msgs>>
      BY <2>2 DEF vars, electionVars, logVars, leaderVars
    <3>2. Granted' = Granted
      BY <3>1 DEF Granted
    <3>3. Unanimous'
      BY <2>2, <3>1, <3>2 DEF Unanimous, Voted
    <3>4. Pair'
      BY <2>2, <3>1, <3>2 DEF Pair, OneLog, Stored, FromLog, Rising, Sent, NextInLog,
                              Backed, Prefix, Rises, PartOf
    <3> QED BY <3>3, <3>4
  <2> QED BY <2>1, <2>2
<1> QED BY <1>1, <1>2, DurableInvariant, BallotsInvariant, PTL DEF Spec

\* No term has two leaders in a group of two, also when a vote is recorded between
\* resetVoteResult and switchToCandidate, which OneLeaderPerTerm excludes: each leader would
\* have the vote of the other, who voted for itself.
THEOREM PairElects ==
  ASSUME Cardinality(Peers) <= 2
  PROVE  Spec => []ElectionSafety
<1>1. Unanimous /\ Ballots => ElectionSafety
  <2> SUFFICES ASSUME Unanimous, Ballots, NEW n \in Peers, NEW p \in Peers,
                      Role[n] = "Leader", Role[p] = "Leader",
                      CurrentTerm[n] = CurrentTerm[p], n # p
               PROVE  FALSE
    BY DEF ElectionSafety
  <2>1. PICK g \in Granted : g.from = p /\ g.to = n /\ g.term = CurrentTerm[n]
    BY DEF Unanimous, Voted
  <2>2. VotedFor[p] = n
    BY <2>1 DEF Ballots, GrantInv
  <2>3. VotedFor[p] = p
    BY DEF Unanimous
  <2> QED BY <2>2, <2>3
<1> QED BY <1>1, BallotsInvariant, PairInvariant, PTL

\* In a group of two (or of one) the state machines of the nodes are given the same entries
\* at the same indexes, whatever is lost, repeated or late, also when votes are recorded
\* inside startElection, send goroutines outlive the leadership of their node, and processes
\* end anywhere and restart.
THEOREM PairAgrees ==
  ASSUME Cardinality(Peers) <= 2
  PROVE  Spec => []StateMachineSafety
<1>1. TypeOK /\ Pair => StateMachineSafety
  <2> SUFFICES ASSUME TypeOK, Pair, NEW n \in Peers, NEW p \in Peers,
                      NEW i \in DOMAIN applied[n] \cap DOMAIN applied[p]
               PROVE  applied[n][i] = applied[p][i]
    BY DEF StateMachineSafety
  <2>1. /\ applied[n] \in Seq(Entry) /\ applied[p] \in Seq(Entry)
        /\ Log[n] \in Seq(Entry) /\ Log[p] \in Seq(Entry)
    BY PairTypes
  <2>2. i \in 1..Len(applied[n]) /\ i \in 1..Len(applied[p])
    BY <2>1
  <2>3. applied[n][i] = Log[n][i] /\ i \in 1..Len(Log[n])
    <3>1. Prefix(applied[n], Log[n])
      BY DEF Pair, FromLog
    <3> QED BY <2>1, <2>2, <3>1 DEF Prefix
  <2>4. applied[p][i] = Log[p][i] /\ i \in 1..Len(Log[p])
    <3>1. Prefix(applied[p], Log[p])
      BY DEF Pair, FromLog
    <3> QED BY <2>1, <2>2, <3>1 DEF Prefix
  <2>5. Log[n][i] = Log[p][i]
    <3>1. Prefix(Log[n], Log[p]) \/ Prefix(Log[p], Log[n])
      BY DEF Pair, OneLog
    <3> QED BY <2>1, <2>3, <2>4, <3>1 DEF Prefix
  <2> QED BY <2>3, <2>4, <2>5
<1> QED BY <1>1, TypeCorrect, PairInvariant, PTL

\* The logs of a group of two agree wherever both have an entry: restarts that bring back
\* entries cut off in memory, which LogsMatch excludes, do not happen, because nothing is ever
\* cut off.
THEOREM PairLogsMatch ==
  ASSUME Cardinality(Peers) <= 2
  PROVE  Spec => []LogMatching
<1>1. TypeOK /\ Pair => LogMatching
  <2> SUFFICES ASSUME TypeOK, Pair, NEW n \in Peers, NEW p \in Peers,
                      NEW i \in DOMAIN Log[n] \cap DOMAIN Log[p]
               PROVE  SubSeq(Log[n], 1, i) = SubSeq(Log[p], 1, i)
    BY DEF LogMatching
  <2>1. Log[n] \in Seq(Entry) /\ Log[p] \in Seq(Entry)
    BY PairTypes
  <2>2. i \in 1..Len(Log[n]) /\ i \in 1..Len(Log[p])
    BY <2>1
  <2>3. ASSUME NEW j \in 1..i PROVE Log[n][j] = Log[p][j]
    BY <2>1, <2>2 DEF Pair, OneLog, Prefix
  <2> DEFINE s == SubSeq(Log[n], 1, i)
             r == SubSeq(Log[p], 1, i)
  <2>4. /\ s \in Seq(Entry) /\ Len(s) = i /\ \A j \in 1..i : s[j] = Log[n][j]
        /\ r \in Seq(Entry) /\ Len(r) = i /\ \A j \in 1..i : r[j] = Log[p][j]
    BY <2>1, <2>2
  <2> HIDE DEF s, r
  <2>5. s = r
    BY <2>3, <2>4
  <2> QED BY <2>5 DEF s, r
<1> QED BY <1>1, TypeCorrect, PairInvariant, PTL

\* The terms of a log never decrease along it in such a group.
THEOREM PairTermsAscend ==
  ASSUME Cardinality(Peers) <= 2
  PROVE  Spec => []TermsAscend
<1>1. TypeOK /\ Pair => TermsAscend
  <2> SUFFICES ASSUME TypeOK, Pair, NEW n \in Peers,
                      NEW i \in DOMAIN Log[n], NEW j \in DOMAIN Log[n], i <= j
               PROVE  Log[n][i].term <= Log[n][j].term
    BY DEF TermsAscend
  <2>1. i \in 1..Len(Log[n]) /\ j \in 1..Len(Log[n])
    BY PairTypes
  <2>2. Rises(Log[n], CurrentTerm[n])
    BY DEF Pair, Rising
  <2> QED BY <2>1, <2>2 DEF Rises
<1> QED BY <1>1, TypeCorrect, PairInvariant, PTL

-----------------------------------------------------------------------------
\* One of two is the longest.
LEMMA LongestOfTwo ==
  ASSUME Cardinality(Peers) \in 1..2, NEW f \in [Peers -> Seq(Entry)]
  PROVE  /\ Longest(f) \in Peers
         /\ \A p \in Peers : Len(f[p]) <= Len(f[Longest(f)])
<1>1. PICK a \in Peers : TRUE
  BY FS_EmptySet
<1>2. \A p \in Peers : Len(f[p]) \in Nat
  OBVIOUS
<1>3. \E n \in Peers : \A p \in Peers : Len(f[p]) <= Len(f[n])
  <2>1. CASE \A p \in Peers : p = a
    BY <1>2, <2>1
  <2>2. ASSUME NEW b \in Peers, b # a
        PROVE  \E n \in Peers : \A p \in Peers : Len(f[p]) <= Len(f[n])
    <3>1. \A p \in Peers : p = a \/ p = b
      BY <2>2, NobodyElse
    <3> DEFINE Most(n) == \A p \in Peers : Len(f[p]) <= Len(f[n])
    <3>2. Len(f[a]) <= Len(f[b]) \/ Len(f[b]) <= Len(f[a])
      BY <1>2
    <3>3. CASE Len(f[a]) <= Len(f[b])
      <4>1. Len(f[b]) <= Len(f[b])
        BY <1>2
      <4>2. Most(b)
        BY <3>1, <3>3, <4>1, Zenon
      <4> QED BY <4>2
    <3>4. CASE Len(f[b]) <= Len(f[a])
      <4>1. Len(f[a]) <= Len(f[a])
        BY <1>2
      <4>2. Most(a)
        BY <3>1, <3>4, <4>1, Zenon
      <4> QED BY <4>2
    <3> QED BY <3>2, <3>3, <3>4
  <2> QED BY <2>1, <2>2
<1> QED BY <1>3 DEF Longest

\* A step in which one node goes on, and after which the state machines agree, gives that
\* node more of the agreed sequence.
LEMMA GoingOnIsGive ==
  ASSUME Cardinality(Peers) \in 1..2, TypeOK, TypeOK', StateMachineSafety', OneGoesOn
  PROVE  [Machines!Next]_(Machines!vars)
<1>0. applied \in [Peers -> Seq(Entry)] /\ applied' \in [Peers -> Seq(Entry)]
  BY DEF TypeOK
<1>1. CASE applied' = applied
  BY <1>1 DEF Machines!vars, Longest
<1>2. CASE applied' # applied
  <2>1. PICK n \in Peers : /\ Prefix(applied[n], applied'[n])
                           /\ \A p \in Peers \ {n} : applied'[p] = applied[p]
    BY DEF OneGoesOn
  <2> DEFINE l == Longest(applied)
             long == applied[Longest(applied)]
             next == applied'[Longest(applied')]
  <2>2. /\ l \in Peers /\ Longest(applied') \in Peers
        /\ long \in Seq(Entry) /\ next \in Seq(Entry)
        /\ \A p \in Peers : Len(applied'[p]) <= Len(next)
    BY <1>0, LongestOfTwo
  <2>3. ASSUME NEW p \in Peers PROVE Prefix(applied'[p], next)
    <3>1. applied'[p] \in Seq(Entry)
      BY <1>0
    <3>2. ASSUME NEW i \in 1..Len(applied'[p]) PROVE applied'[p][i] = next[i]
      <4>1. i \in DOMAIN applied'[p] /\ i \in DOMAIN next
        BY <2>2, <3>1
      <4> QED BY <2>2, <4>1 DEF StateMachineSafety
    <3> QED BY <2>2, <3>2 DEF Prefix
  <2>4. Prefix(long, applied'[l])
    <3>1. CASE l = n
      BY <2>1, <3>1
    <3>2. CASE l # n
      BY <1>0, <2>1, <2>2, <3>2, PrefixSelf
    <3> QED BY <3>1, <3>2
  <2>5. Prefix(long, next)
    <3>1. applied'[l] \in Seq(Entry)
      BY <1>0, <2>2
    <3> QED BY <2>2, <2>3, <2>4, <3>1, PrefixChain
  <2> HIDE DEF l, long, next
  <2>6. Len(long) <= Len(next) /\ SubSeq(next, 1, Len(long)) = long
    BY <2>2, <2>5, PrefixIsSubSeq DEF Prefix
  <2>7. /\ applied'[n] = SubSeq(next, 1, Len(applied'[n]))
        /\ Len(applied'[n]) \in Nat /\ Len(applied'[n]) <= Len(next)
    BY <1>0, <2>2, <2>3, PrefixIsSubSeq
  <2>8. Len(applied[n]) < Len(applied'[n])
    <3>1. applied'[n] # applied[n]
      BY <1>0, <1>2, <2>1
    <3>2. applied[n] \in Seq(Entry) /\ applied'[n] \in Seq(Entry)
      BY <1>0
    <3> QED BY <2>1, <3>1, <3>2 DEF Prefix
  <2>9. Len(applied'[n]) \in (Len(applied[n]) + 1)..Len(next)
    BY <1>0, <2>2, <2>7, <2>8
  <2>10. applied' = [applied EXCEPT ![n] = SubSeq(next, 1, Len(applied'[n]))]
    BY <1>0, <2>1, <2>7
  <2>11. Machines!Give(n)
    BY <2>6, <2>9, <2>10 DEF Machines!Give, long, next
  <2> QED BY <2>11 DEF Machines!Next
<1> QED BY <1>1, <1>2

\* What the two nodes of a group (or the one) give their state machines, in every step of
\* the protocol and over crashes and restarts, is what Replicas allows: the beginnings of
\* one sequence, each going on where it stopped.
THEOREM PairIsReplicated ==
  ASSUME Cardinality(Peers) \in 1..2
  PROVE  Spec => IsReplicated
<1>1. Init => Machines!Init
  <2> SUFFICES ASSUME Init PROVE Machines!Init
    OBVIOUS
  <2>1. applied = [n \in Peers |-> <<>>]
    BY DEF Init
  <2>2. applied \in [Peers -> Seq(Entry)]
    BY <2>1
  <2>3. Longest(applied) \in Peers
    BY <2>2, LongestOfTwo
  <2> QED BY <2>1, <2>3 DEF Machines!Init
<1>2. /\ Durable /\ Durable' /\ Unanimous /\ Pair /\ StateMachineSafety' /\ [Next]_vars
      => [Machines!Next]_(Machines!vars)
  <2>1. ASSUME Durable, Durable', Unanimous, Pair, StateMachineSafety', Next
        PROVE  [Machines!Next]_(Machines!vars)
    BY <2>1, FromLogNext, GoingOnIsGive DEF Durable
  <2>2. ASSUME UNCHANGED vars PROVE [Machines!Next]_(Machines!vars)
    BY <2>2 DEF vars, logVars, Machines!vars, Longest
  <2> QED BY <2>1, <2>2
<1>3. Cardinality(Peers) <= 2
  OBVIOUS
<1> QED BY <1>1, <1>2, <1>3, DurableInvariant, PairInvariant, PairAgrees, PTL
        DEF Spec, IsReplicated, Machines!Spec
=============================================================================

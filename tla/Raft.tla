-------------------------------- MODULE Raft --------------------------------
(***************************************************************************)
(* One Raft group of Majula (src/core/Raft.go, with the storage of         *)
(* src/core/RaftStorage.go): leader election, log replication, commit and  *)
(* application on the static peers of the group.                           *)
(*                                                                         *)
(* Every critical section of RaftCore.Mutex is one step.  What the code    *)
(* does in a goroutine of its own after the section (go startElection, go  *)
(* broadcastHeartbeat, go sendHeartbeat, go sendAppendEntriesTo) is a      *)
(* pending task, and running it is a step of its own that reads the state  *)
(* the node has by then.                                                   *)
(*                                                                         *)
(* The network (Node.sendTo, a goroutine per message, up to three sends of *)
(* one request in sendWithInvokeId) may delay, reorder, repeat or lose a   *)
(* message: msgs only grows, and a message in it may be handled at any     *)
(* time, several times, or never.                                          *)
(***************************************************************************)
EXTENDS Integers, Sequences, FiniteSets

CONSTANTS
  Peers,        \* rc.Peers, the static members of the group
  NoNode,       \* the empty string of VotedFor and LeaderHint
  Commands,     \* the put and delete commands clients submit
  MaxTerm,      \* bound on CurrentTerm
  MaxLog,       \* bound on the length of a log
  MaxRestarts,  \* bound on the number of restarts of all processes
  MaxElecting,  \* bound on startElection calls of a node that overlap
  RaceWindow,   \* may a vote be recorded inside startElection, between
                \* resetVoteResult and switchToCandidate?
  StaleSend     \* may a send goroutine run after its node lost leadership?

ASSUME PeersAssumption == IsFiniteSet(Peers) /\ NoNode \notin Peers
ASSUME BoundsAssumption ==
  /\ MaxTerm \in Nat
  /\ MaxLog \in Nat
  /\ MaxRestarts \in Nat
  /\ MaxElecting \in Nat \ {0}
  /\ RaceWindow \in BOOLEAN
  /\ StaleSend \in BOOLEAN

VARIABLES
  Role, CurrentTerm, VotedFor, LeaderHint,
  voteResult,     \* peers whose grant is recorded (voteResult[p] = true)
  timer,          \* electionTimeout: "armed", or "disabled" (MaxInt64)
  election,       \* startElection calls under way, by how far they are
  Log, CommitIndex, LastApplied,
  applied,        \* the entries handed to the state machine, in order
  NextIndex, MatchIndex,
  appendTo,       \* peers with a pending "go sendAppendEntriesTo"
  bcast,          \* a pending "go broadcastHeartbeat"
  beats,          \* pending "go sendHeartbeat" with captured term, commit
  disk,           \* LevelDB: the meta record and the log entries by index
  up, restarts,
  msgs            \* every message sent so far

electionVars == <<Role, CurrentTerm, VotedFor, LeaderHint, voteResult, timer,
                  election>>
logVars == <<Log, CommitIndex, LastApplied, applied>>
leaderVars == <<NextIndex, MatchIndex>>
taskVars == <<appendTo, bcast, beats>>
procVars == <<up, restarts>>
vars == <<electionVars, logVars, leaderVars, taskVars, disk, procVars, msgs>>

-----------------------------------------------------------------------------
Roles == {"Follower", "Candidate", "Leader"}
Entry == [term : Nat, cmd : Commands]
Election == [started : Nat, checked : Nat, reset : Nat]
Beat == [to : Peers, term : Nat, commit : Nat]
Disk == [term : Nat, votedFor : Peers \cup {NoNode}, commitIndex : Nat,
         lastApplied : Nat, log : Seq(Entry)]

RequestVoteMsg == [type : {"RequestVote"}, term : Nat, from : Peers, to : Peers,
                   lastIndex : Nat, lastTerm : Nat]
VoteResponseMsg == [type : {"RequestVoteResponse"}, term : Nat, from : Peers,
                    to : Peers, granted : BOOLEAN]
AppendEntriesMsg == [type : {"AppendEntries"}, term : Nat, from : Peers, to : Peers,
                     prevIndex : Int, prevTerm : Nat, entries : Seq(Entry),
                     commit : Nat]
AppendResponseMsg == [type : {"AppendEntriesResponse"}, term : Nat, from : Peers,
                      to : Peers, success : BOOLEAN, conflictTerm : Nat,
                      conflictIndex : Nat, lastIndex : Nat]
Message == RequestVoteMsg \cup VoteResponseMsg \cup AppendEntriesMsg
             \cup AppendResponseMsg

Others(n) == Peers \ {n}

\* Mutant: half of the peers is taken for a majority.
HalfIsMajority(S) == Cardinality(S) >= Cardinality(Peers) \div 2

\* len(rc.Peers)/2 + 1 grants, as hasMajorityVotes counts them.
Majority(S) == Cardinality(S) >= Cardinality(Peers) \div 2 + 1

\* Mutant: the offset of the last entry in the slice instead of its index.
LastOffset(log) == Len(log) - 1

\* getLastLogIndex: the entry at position i has Index i, so the index of the
\* last entry is the length of the log.
LastIndex(log) == Len(log)
LastTerm(log) == IF Len(log) = 0 THEN 0 ELSE log[Len(log)].term

\* Mutant: the candidate's log is not compared.
AnyLogWillDo(log, index, term) == TRUE

\* isUpToDate
UpToDate(log, index, term) ==
  \/ term > LastTerm(log)
  \/ term = LastTerm(log) /\ index >= LastIndex(log)

\* The first index of the run of entries of one term that ends at i.
IsRunStart(log, i, k) ==
  /\ k \in 1..i
  /\ \A j \in k..i : log[j].term = log[i].term
  /\ k > 1 => log[k-1].term # log[i].term

\* findLastIndexOfTerm: 0 when the term is not in the log.
IsLastOfTerm(log, t, k) ==
  /\ k > 0 => log[k].term = t
  /\ \A j \in DOMAIN log : j > k => log[j].term # t

\* The append loop of handleAppendEntries: leading entries that the log already
\* holds are skipped (by term: the old commands stay); at the first index that is
\* new or whose term differs the log is cut and the rest of the entries appended.
Holds(log, prev, entries, k) ==
  \A j \in 1..k : prev + j <= Len(log) /\ log[prev + j].term = entries[j].term

\* Mutant: entries are overwritten in place and the old tail is not cut off.
OverwriteInPlace(log, prev, entries) ==
  [i \in 1..(IF prev + Len(entries) > Len(log) THEN prev + Len(entries) ELSE Len(log)) |->
     IF i \in prev + 1..prev + Len(entries) THEN entries[i - prev] ELSE log[i]]

MergeEntries(log, prev, entries) ==
  IF Holds(log, prev, entries, Len(entries)) THEN log
  ELSE [i \in 1..(prev + Len(entries)) |->
          IF Holds(log, prev, entries, i - prev) THEN log[i] ELSE entries[i - prev]]

\* Mutant: only the entries beyond the stored end are saved.
SaveBeyondEnd(stored, log) ==
  [i \in 1..(IF Len(stored) > Len(log) THEN Len(stored) ELSE Len(log)) |->
     IF i <= Len(stored) THEN stored[i] ELSE log[i]]

\* SaveLog writes one index at a time and the append loop deletes nothing, so
\* entries of the stored log beyond the new end of the log in memory survive.
SavedOver(stored, log) ==
  [i \in 1..(IF Len(stored) > Len(log) THEN Len(stored) ELSE Len(log)) |->
     IF i <= Len(log) THEN log[i] ELSE stored[i]]

\* quickSelect(matchIndexes, len/2) returns the one value at rank |Peers| \div 2,
\* counted from zero in ascending order.
Selected(index) ==
  {v \in {index[p] : p \in Peers} :
     /\ Cardinality({p \in Peers : index[p] < v}) <= Cardinality(Peers) \div 2
     /\ Cardinality({p \in Peers : index[p] <= v}) > Cardinality(Peers) \div 2}

NoElection == [started |-> 0, checked |-> 0, reset |-> 0]
-----------------------------------------------------------------------------
Init ==
  /\ Role = [n \in Peers |-> "Follower"]
  /\ CurrentTerm = [n \in Peers |-> 0]
  /\ VotedFor = [n \in Peers |-> NoNode]
  /\ LeaderHint = [n \in Peers |-> NoNode]
  /\ voteResult = [n \in Peers |-> {}]
  /\ timer = [n \in Peers |-> "armed"]
  /\ election = [n \in Peers |-> NoElection]
  /\ Log = [n \in Peers |-> <<>>]
  /\ CommitIndex = [n \in Peers |-> 0]
  /\ LastApplied = [n \in Peers |-> 0]
  /\ applied = [n \in Peers |-> <<>>]
  /\ NextIndex = [n \in Peers |-> [p \in Peers |-> 0]]
  /\ MatchIndex = [n \in Peers |-> [p \in Peers |-> 0]]
  /\ appendTo = [n \in Peers |-> {}]
  /\ bcast = [n \in Peers |-> FALSE]
  /\ beats = [n \in Peers |-> {}]
  /\ disk = [n \in Peers |-> [term |-> 0, votedFor |-> NoNode, commitIndex |-> 0,
                              lastApplied |-> 0, log |-> <<>>]]
  /\ up = [n \in Peers |-> TRUE]
  /\ restarts = 0
  /\ msgs = {}

\* Mutant: the vote is left out of the record.
SaveMetaWithoutVote(n, t, v, commit, last) ==
  [disk[n] EXCEPT !.term = t, !.commitIndex = commit, !.lastApplied = last]

\* Mutant: the record does not say how far the entries were applied.
SaveMetaWithoutApplied(n, t, v, commit, last) ==
  [disk[n] EXCEPT !.term = t, !.votedFor = v, !.commitIndex = commit]

\* SaveMeta: the meta record is written as a whole, the stored log is not touched.
SaveMeta(n, t, v, commit, last) ==
  [disk[n] EXCEPT !.term = t, !.votedFor = v, !.commitIndex = commit,
                  !.lastApplied = last]

\* An index outside a slice: the goroutine panics and the process ends.
Panic(n) ==
  /\ up' = [up EXCEPT ![n] = FALSE]
  /\ UNCHANGED <<electionVars, logVars, leaderVars, taskVars, disk, restarts, msgs>>

\* switchToFollower, and the copy of it in handleRequestVoteResponse.
SwitchToFollower(n, t) ==
  /\ CurrentTerm' = [CurrentTerm EXCEPT ![n] = t]
  /\ Role' = [Role EXCEPT ![n] = "Follower"]
  /\ VotedFor' = [VotedFor EXCEPT ![n] = NoNode]
  /\ disk' = [disk EXCEPT ![n] = SaveMeta(n, t, NoNode, CommitIndex[n], LastApplied[n])]
  /\ timer' = [timer EXCEPT ![n] = "armed"]
  /\ UNCHANGED <<LeaderHint, voteResult, election, logVars, leaderVars, taskVars,
                 procVars, msgs>>

-----------------------------------------------------------------------------
\* startElection, in the sections the locks cut it into.

\* processTimers finds the election timer expired: go startElection.
ElectionTimeout(n) ==
  /\ up[n]
  /\ Role[n] # "Leader"
  /\ timer[n] = "armed"
  /\ CurrentTerm[n] < MaxTerm
  /\ election[n].started + election[n].checked + election[n].reset < MaxElecting
  /\ election' = [election EXCEPT ![n].started = @ + 1]
  /\ UNCHANGED <<Role, CurrentTerm, VotedFor, LeaderHint, voteResult, timer,
                 logVars, leaderVars, taskVars, disk, procVars, msgs>>

\* The first section: startElection returns at once on a leader.
LeaderSkipsElection(n) ==
  /\ up[n]
  /\ election[n].started > 0
  /\ Role[n] = "Leader"
  /\ election' = [election EXCEPT ![n].started = @ - 1]
  /\ UNCHANGED <<Role, CurrentTerm, VotedFor, LeaderHint, voteResult, timer,
                 logVars, leaderVars, taskVars, disk, procVars, msgs>>

CheckRole(n) ==
  /\ up[n]
  /\ election[n].started > 0
  /\ Role[n] # "Leader"
  /\ election' = [election EXCEPT ![n].started = @ - 1, ![n].checked = @ + 1]
  /\ UNCHANGED <<Role, CurrentTerm, VotedFor, LeaderHint, voteResult, timer,
                 logVars, leaderVars, taskVars, disk, procVars, msgs>>

\* resetVoteResult runs between two sections of rc.Mutex, under a lock of its own.
ResetVoteResult(n) ==
  /\ up[n]
  /\ election[n].checked > 0
  /\ election' = [election EXCEPT ![n].checked = @ - 1, ![n].reset = @ + 1]
  /\ voteResult' = [voteResult EXCEPT ![n] = {n}]
  /\ UNCHANGED <<Role, CurrentTerm, VotedFor, LeaderHint, timer,
                 logVars, leaderVars, taskVars, disk, procVars, msgs>>

\* switchToCandidate and the requests for votes.
SwitchToCandidate(n) ==
  /\ up[n]
  /\ election[n].reset > 0
  /\ CurrentTerm[n] < MaxTerm
  /\ election' = [election EXCEPT ![n].reset = @ - 1]
  /\ Role' = [Role EXCEPT ![n] = "Candidate"]
  /\ CurrentTerm' = [CurrentTerm EXCEPT ![n] = @ + 1]
  /\ VotedFor' = [VotedFor EXCEPT ![n] = n]
  /\ disk' = [disk EXCEPT ![n] = SaveMeta(n, CurrentTerm[n] + 1, n,
                                          CommitIndex[n], LastApplied[n])]
  /\ LeaderHint' = [LeaderHint EXCEPT ![n] = NoNode]
  /\ timer' = [timer EXCEPT ![n] = "armed"]
  /\ msgs' = msgs \cup {[type |-> "RequestVote", term |-> CurrentTerm[n] + 1,
                         from |-> n, to |-> p, lastIndex |-> LastIndex(Log[n]),
                         lastTerm |-> LastTerm(Log[n])] : p \in Others(n)}
  /\ UNCHANGED <<voteResult, logVars, leaderVars, taskVars, procVars>>

Receives(n, m, type) == up[n] /\ m.type = type /\ m.to = n

\* A newer term is adopted, and the vote of the old one forgotten.
TermAfter(n, m) == IF m.term > CurrentTerm[n] THEN m.term ELSE CurrentTerm[n]
VoteAfter(n, m) == IF m.term > CurrentTerm[n] THEN NoNode ELSE VotedFor[n]
RoleAfter(n, m) == IF m.term > CurrentTerm[n] THEN "Follower" ELSE Role[n]

\* Mutant: a vote already cast does not stand in the way.
GrantsAgain(n, m) ==
  m.term >= CurrentTerm[n] /\ UpToDate(Log[n], m.lastIndex, m.lastTerm)

\* The conditions under which handleRequestVote grants its vote.
Grants(n, m) ==
  /\ m.term >= CurrentTerm[n]
  /\ VoteAfter(n, m) \in {NoNode, m.from}
  /\ UpToDate(Log[n], m.lastIndex, m.lastTerm)

HandleRequestVote(n, m) ==
  /\ Receives(n, m, "RequestVote")
  /\ LET granted == Grants(n, m)
         vote == IF granted THEN m.from ELSE VoteAfter(n, m)
     IN /\ CurrentTerm' = [CurrentTerm EXCEPT ![n] = TermAfter(n, m)]
        /\ VotedFor' = [VotedFor EXCEPT ![n] = vote]
        /\ Role' = [Role EXCEPT ![n] = RoleAfter(n, m)]
        /\ disk' = [disk EXCEPT ![n] =
                      IF granted \/ m.term > CurrentTerm[n]
                      THEN SaveMeta(n, TermAfter(n, m), vote, CommitIndex[n],
                                    LastApplied[n])
                      ELSE @]
        /\ timer' = [timer EXCEPT ![n] = IF granted THEN "armed" ELSE @]
        /\ msgs' = msgs \cup {[type |-> "RequestVoteResponse", from |-> n,
                               to |-> m.from, term |-> TermAfter(n, m),
                               granted |-> granted]}
  /\ UNCHANGED <<LeaderHint, voteResult, election, logVars, leaderVars, taskVars,
                 procVars>>

\* handleRequestVoteResponse and handleAppendEntriesResponse, a newer term.
ResponseNewerTerm(n, m) ==
  /\ \/ Receives(n, m, "RequestVoteResponse")
     \/ Receives(n, m, "AppendEntriesResponse")
  /\ m.term > CurrentTerm[n]
  /\ SwitchToFollower(n, m.term)

\* handleRequestVoteResponse, the current term: recordVote, and switchToLeader
\* when that makes a majority.
RecordVote(n, m) ==
  /\ Receives(n, m, "RequestVoteResponse")
  /\ m.term = CurrentTerm[n]
  /\ RaceWindow \/ election[n].reset = 0
  /\ LET votes == IF m.granted THEN voteResult[n] \cup {m.from}
                  ELSE voteResult[n] \ {m.from}
         wins == Role[n] = "Candidate" /\ Majority(votes)
         next == [p \in Peers |-> IF p = n THEN NextIndex[n][p] ELSE Len(Log[n]) + 1]
         match == [p \in Peers |-> IF p = n THEN MatchIndex[n][p] ELSE 0]
     IN /\ voteResult' = [voteResult EXCEPT ![n] = votes]
        /\ Role' = [Role EXCEPT ![n] = IF wins THEN "Leader" ELSE @]
        /\ timer' = [timer EXCEPT ![n] = IF wins THEN "disabled" ELSE @]
        /\ NextIndex' = [NextIndex EXCEPT ![n] = IF wins THEN next ELSE @]
        /\ MatchIndex' = [MatchIndex EXCEPT ![n] = IF wins THEN match ELSE @]
        /\ bcast' = [bcast EXCEPT ![n] = @ \/ wins]
  /\ UNCHANGED <<CurrentTerm, VotedFor, LeaderHint, election, logVars,
                 appendTo, beats, disk, procVars, msgs>>

-----------------------------------------------------------------------------
\* handleAppendEntries, one action per return.

\* replyAppendEntries: the field CommitIndex of the reply carries lastIndex, the
\* index of the last entry the follower holds by then.
AppendReply(n, m, term, success, conflictTerm, conflictIndex, lastIndex) ==
  [type |-> "AppendEntriesResponse", from |-> n, to |-> m.from, term |-> term,
   success |-> success, conflictTerm |-> conflictTerm,
   conflictIndex |-> conflictIndex, lastIndex |-> lastIndex]

RejectStaleAppend(n, m) ==
  /\ Receives(n, m, "AppendEntries")
  /\ m.term < CurrentTerm[n]
  /\ msgs' = msgs \cup {AppendReply(n, m, CurrentTerm[n], FALSE, 0, 0, Len(Log[n]))}
  /\ UNCHANGED <<electionVars, logVars, leaderVars, taskVars, disk, procVars>>

\* What the other returns have in common: switchToFollower if the term is newer,
\* LeaderHint, the log in memory and on disk, the entries up to commit applied,
\* the reply, and resetElectionTimer.
FollowLeader(n, m, log, stored, commit, reply) ==
  LET last == IF commit > LastApplied[n] THEN commit ELSE LastApplied[n]
      meta == IF \/ m.term > CurrentTerm[n]
                 \/ reply.success /\ m.commit > CommitIndex[n]
              THEN SaveMeta(n, TermAfter(n, m), VoteAfter(n, m), commit, last)
              ELSE disk[n]
  IN /\ CurrentTerm' = [CurrentTerm EXCEPT ![n] = TermAfter(n, m)]
     /\ Role' = [Role EXCEPT ![n] = RoleAfter(n, m)]
     /\ VotedFor' = [VotedFor EXCEPT ![n] = VoteAfter(n, m)]
     /\ LeaderHint' = [LeaderHint EXCEPT ![n] = m.from]
     /\ timer' = [timer EXCEPT ![n] = "armed"]
     /\ Log' = [Log EXCEPT ![n] = log]
     /\ CommitIndex' = [CommitIndex EXCEPT ![n] = commit]
     /\ LastApplied' = [LastApplied EXCEPT ![n] = last]
     /\ applied' = [applied EXCEPT ![n] = @ \o SubSeq(log, LastApplied[n] + 1, commit)]
     /\ disk' = [disk EXCEPT ![n] = [meta EXCEPT !.log = stored]]
     /\ msgs' = msgs \cup {reply}
     /\ UNCHANGED <<voteResult, election, leaderVars, taskVars, procVars>>

\* The log ends before PrevLogIndex.
RejectShortLog(n, m) ==
  /\ Receives(n, m, "AppendEntries")
  /\ m.term >= CurrentTerm[n]
  /\ m.prevIndex > Len(Log[n])
  /\ FollowLeader(n, m, Log[n], disk[n].log, CommitIndex[n],
                  AppendReply(n, m, TermAfter(n, m), FALSE, 0, Len(Log[n]) + 1,
                              Len(Log[n])))

\* Mutant: the entry before the new ones is not compared.
NoConflict(n, m) == FALSE

PrevConflicts(n, m) ==
  /\ m.prevIndex \in 1..Len(Log[n])
  /\ Log[n][m.prevIndex].term # m.prevTerm

\* The entry at PrevLogIndex has another term: the whole run of that term is cut
\* off, in memory and (DeleteLogsFrom) on disk.
RejectConflict(n, m) ==
  /\ Receives(n, m, "AppendEntries")
  /\ m.term >= CurrentTerm[n]
  /\ PrevConflicts(n, m)
  /\ \E start \in 1..m.prevIndex :
       LET log == SubSeq(Log[n], 1, start - 1)
       IN /\ IsRunStart(Log[n], m.prevIndex, start)
          /\ FollowLeader(n, m, log, log, CommitIndex[n],
                          AppendReply(n, m, TermAfter(n, m), FALSE,
                                      Log[n][m.prevIndex].term, start, Len(log)))

\* The entries fit: the log they make, and the commit index they bring.
Accepts(n, m) ==
  /\ Receives(n, m, "AppendEntries")
  /\ m.term >= CurrentTerm[n]
  /\ m.prevIndex <= Len(Log[n])
  /\ ~PrevConflicts(n, m)
MergedLog(n, m) == MergeEntries(Log[n], m.prevIndex, m.entries)
CommitAfter(n, m) ==
  IF m.commit <= CommitIndex[n] THEN CommitIndex[n]
  ELSE IF m.commit <= Len(MergedLog(n, m)) THEN m.commit ELSE Len(MergedLog(n, m))

AcceptEntries(n, m) ==
  /\ Accepts(n, m)
  /\ LET log == MergedLog(n, m)
     IN FollowLeader(n, m, log, SavedOver(disk[n].log, log), CommitAfter(n, m),
                     AppendReply(n, m, TermAfter(n, m), TRUE, 0, Len(log), Len(log)))

-----------------------------------------------------------------------------
\* The leader: handleAppendEntriesResponse, ProposeCommand and the sends.

FromFollower(n, m) ==
  /\ Receives(n, m, "AppendEntriesResponse")
  /\ Role[n] = "Leader"
  /\ m.term = CurrentTerm[n]

\* MatchIndex after a success: what the follower reports as its last index.
ReportedMatch(n, m) ==
  IF m.lastIndex > 0 THEN m.lastIndex ELSE NextIndex[n][m.from] - 1

\* The index advanceCommitIndex looks at.
CommitCandidates(n, m) ==
  Selected([p \in Peers |-> IF p = n THEN Len(Log[n])
                            ELSE IF p = m.from THEN ReportedMatch(n, m)
                            ELSE MatchIndex[n][p]])

\* advanceCommitIndex reads rc.Log[N-1] with N beyond the end of the log.
CommitPanic(n, m) ==
  /\ FromFollower(n, m)
  /\ m.success
  /\ \E N \in CommitCandidates(n, m) : N > CommitIndex[n] /\ N > Len(Log[n])
  /\ Panic(n)

AppendSucceeded(n, m) ==
  /\ FromFollower(n, m)
  /\ m.success
  /\ MatchIndex' = [MatchIndex EXCEPT ![n][m.from] = ReportedMatch(n, m)]
  /\ NextIndex' = [NextIndex EXCEPT ![n][m.from] = ReportedMatch(n, m) + 1]
  /\ \E N \in CommitCandidates(n, m) :
       LET commits == N > CommitIndex[n] /\ Log[n][N].term = CurrentTerm[n]
           commit == IF commits THEN N ELSE CommitIndex[n]
           applies == commit > LastApplied[n]
       IN /\ N <= CommitIndex[n] \/ N <= Len(Log[n])
          /\ CommitIndex' = [CommitIndex EXCEPT ![n] = commit]
          /\ LastApplied' = [LastApplied EXCEPT ![n] = IF applies THEN commit ELSE @]
          /\ applied' = [applied EXCEPT ![n] =
                           @ \o SubSeq(Log[n], LastApplied[n] + 1, commit)]
          /\ disk' = [disk EXCEPT ![n] = IF applies
                        THEN SaveMeta(n, CurrentTerm[n], VotedFor[n], commit, commit)
                        ELSE @]
  /\ UNCHANGED <<electionVars, Log, taskVars, procVars, msgs>>

AppendFailed(n, m) ==
  /\ FromFollower(n, m)
  /\ ~m.success
  /\ \E last \in 0..Len(Log[n]) :
       LET next == IF m.conflictTerm = 0
                   THEN IF NextIndex[n][m.from] > 1 THEN NextIndex[n][m.from] - 1
                        ELSE NextIndex[n][m.from]
                   ELSE IF last > 0 THEN last + 1 ELSE m.conflictIndex
       IN /\ IsLastOfTerm(Log[n], m.conflictTerm, last)
          /\ NextIndex' = [NextIndex EXCEPT ![n][m.from] = next]
  /\ appendTo' = [appendTo EXCEPT ![n] = @ \cup {m.from}]
  /\ UNCHANGED <<electionVars, logVars, MatchIndex, bcast, beats, disk, procVars, msgs>>

\* ProposeCommand, from HandleClientRequest on the leader.
ProposeCommand(n, cmd) ==
  /\ up[n]
  /\ Role[n] = "Leader"
  /\ Len(Log[n]) < MaxLog
  /\ LET log == Append(Log[n], [term |-> CurrentTerm[n], cmd |-> cmd])
     IN /\ Log' = [Log EXCEPT ![n] = log]
        /\ disk' = [disk EXCEPT ![n].log = SavedOver(@, log)]
  /\ appendTo' = [appendTo EXCEPT ![n] = Others(n)]
  /\ UNCHANGED <<electionVars, CommitIndex, LastApplied, applied, leaderVars, bcast,
                 beats, procVars, msgs>>

\* The send goroutines read the role nowhere; MaySend is the restriction the
\* constant StaleSend = FALSE puts on when they are scheduled.
MaySend(n) == up[n] /\ (StaleSend \/ Role[n] = "Leader")

AppendEntriesRequest(n, p, term, next, entries, commit) ==
  [type |-> "AppendEntries", from |-> n, to |-> p, term |-> term,
   prevIndex |-> next - 1,
   prevTerm |-> IF next - 1 \in DOMAIN Log[n] THEN Log[n][next - 1].term ELSE 0,
   entries |-> entries, commit |-> commit]

\* sendAppendEntriesTo: everything is read in one section, when the goroutine runs.
SendAppendEntriesTo(n, p) ==
  /\ MaySend(n)
  /\ p \in appendTo[n]
  /\ NextIndex[n][p] - 1 \in 0..Len(Log[n])
  /\ appendTo' = [appendTo EXCEPT ![n] = @ \ {p}]
  /\ msgs' = msgs \cup {AppendEntriesRequest(n, p, CurrentTerm[n], NextIndex[n][p],
                          SubSeq(Log[n], NextIndex[n][p], Len(Log[n])), CommitIndex[n])}
  /\ UNCHANGED <<electionVars, logVars, leaderVars, bcast, beats, disk, procVars>>

\* sendAppendEntriesTo reads rc.Log[prevLogIndex-1] beyond the end of the log.
SendPanic(n, p) ==
  /\ MaySend(n)
  /\ p \in appendTo[n]
  /\ NextIndex[n][p] - 1 \notin 0..Len(Log[n])
  /\ Panic(n)

\* processTimers on a leader whose heartbeat is due: go broadcastHeartbeat.
HeartbeatTimeout(n) ==
  /\ up[n]
  /\ Role[n] = "Leader"
  /\ bcast' = [bcast EXCEPT ![n] = TRUE]
  /\ UNCHANGED <<electionVars, logVars, leaderVars, appendTo, beats, disk, procVars,
                 msgs>>

\* broadcastHeartbeat captures the term and the commit index, and starts one
\* goroutine for each peer.
BroadcastHeartbeat(n) ==
  /\ MaySend(n)
  /\ bcast[n]
  /\ bcast' = [bcast EXCEPT ![n] = FALSE]
  /\ beats' = [beats EXCEPT ![n] = @ \cup [to : Others(n), term : {CurrentTerm[n]},
                                           commit : {CommitIndex[n]}]]
  /\ UNCHANGED <<electionVars, logVars, leaderVars, appendTo, disk, procVars, msgs>>

\* sendHeartbeat reads NextIndex and the log when it runs.
SendHeartbeat(n, b) ==
  /\ MaySend(n)
  /\ beats' = [beats EXCEPT ![n] = @ \ {b}]
  /\ msgs' = msgs \cup {AppendEntriesRequest(n, b.to, b.term, NextIndex[n][b.to],
                                             <<>>, b.commit)}
  /\ UNCHANGED <<electionVars, logVars, leaderVars, appendTo, bcast, disk, procVars>>

-----------------------------------------------------------------------------
MayCrash == restarts + Cardinality({p \in Peers : ~up[p]}) < MaxRestarts

\* The process ends between two critical sections; what is not on disk is lost.
Crash(n) ==
  /\ up[n]
  /\ MayCrash
  /\ up' = [up EXCEPT ![n] = FALSE]
  /\ UNCHANGED <<electionVars, logVars, leaderVars, taskVars, disk, restarts, msgs>>

\* The process ends inside applyLogToStateMachine, after k entries are applied: the
\* entries are on disk, and the meta record is the one written with entry k (or the
\* one from before, if there is none yet).
DieApplying(n, m, log, stored, commit) ==
  \E k \in LastApplied[n]..(commit - 1) :
    LET meta == IF k > LastApplied[n]
                THEN SaveMeta(n, TermAfter(n, m), VoteAfter(n, m), commit, k)
                ELSE IF m.term > CurrentTerm[n]
                THEN SaveMeta(n, m.term, NoNode, CommitIndex[n], k)
                ELSE disk[n]
    IN /\ CurrentTerm' = [CurrentTerm EXCEPT ![n] = TermAfter(n, m)]
       /\ Role' = [Role EXCEPT ![n] = RoleAfter(n, m)]
       /\ VotedFor' = [VotedFor EXCEPT ![n] = VoteAfter(n, m)]
       /\ Log' = [Log EXCEPT ![n] = log]
       /\ CommitIndex' = [CommitIndex EXCEPT ![n] = commit]
       /\ LastApplied' = [LastApplied EXCEPT ![n] = k]
       /\ applied' = [applied EXCEPT ![n] = @ \o SubSeq(log, LastApplied[n] + 1, k)]
       /\ disk' = [disk EXCEPT ![n] = [meta EXCEPT !.log = stored]]
       /\ up' = [up EXCEPT ![n] = FALSE]
       /\ UNCHANGED <<LeaderHint, voteResult, timer, election, leaderVars, taskVars,
                      restarts, msgs>>

FollowerDiesApplying(n, m) ==
  /\ MayCrash
  /\ Accepts(n, m)
  /\ DieApplying(n, m, MergedLog(n, m), SavedOver(disk[n].log, MergedLog(n, m)),
                 CommitAfter(n, m))

LeaderDiesApplying(n, m) ==
  /\ MayCrash
  /\ FromFollower(n, m)
  /\ m.success
  /\ \E N \in CommitCandidates(n, m) :
       /\ N > CommitIndex[n]
       /\ N \in DOMAIN Log[n]
       /\ Log[n][N].term = CurrentTerm[n]
       /\ DieApplying(n, m, Log[n], disk[n].log, N)

\* Mutant: the entries that were committed but not yet applied are left out.
ApplyNothing(stored) == stored.lastApplied

\* NewRaftClient applies what is committed and not yet applied.
AppliedAtStart(stored) ==
  IF stored.commitIndex > stored.lastApplied THEN stored.commitIndex
  ELSE stored.lastApplied

\* NewRaftClient on an existing database.
Restart(n) ==
  /\ ~up[n]
  /\ restarts < MaxRestarts
  /\ up' = [up EXCEPT ![n] = TRUE]
  /\ restarts' = restarts + 1
  /\ Role' = [Role EXCEPT ![n] = "Follower"]
  /\ CurrentTerm' = [CurrentTerm EXCEPT ![n] = disk[n].term]
  /\ VotedFor' = [VotedFor EXCEPT ![n] = disk[n].votedFor]
  /\ LeaderHint' = [LeaderHint EXCEPT ![n] = NoNode]
  /\ voteResult' = [voteResult EXCEPT ![n] = {}]
  /\ timer' = [timer EXCEPT ![n] = "armed"]
  /\ election' = [election EXCEPT ![n] = NoElection]
  /\ Log' = [Log EXCEPT ![n] = disk[n].log]
  /\ CommitIndex' = [CommitIndex EXCEPT ![n] = disk[n].commitIndex]
  /\ LET last == AppliedAtStart(disk[n])
     IN /\ LastApplied' = [LastApplied EXCEPT ![n] = last]
        /\ applied' = [applied EXCEPT ![n] =
                         @ \o SubSeq(disk[n].log, disk[n].lastApplied + 1, last)]
        /\ disk' = [disk EXCEPT ![n].lastApplied = last]
  /\ NextIndex' = [NextIndex EXCEPT ![n] = [p \in Peers |-> 0]]
  /\ MatchIndex' = [MatchIndex EXCEPT ![n] = [p \in Peers |-> 0]]
  /\ appendTo' = [appendTo EXCEPT ![n] = {}]
  /\ bcast' = [bcast EXCEPT ![n] = FALSE]
  /\ beats' = [beats EXCEPT ![n] = {}]
  /\ msgs' = msgs

Receive(n, m) ==
  \/ HandleRequestVote(n, m)
  \/ ResponseNewerTerm(n, m)
  \/ RecordVote(n, m)
  \/ RejectStaleAppend(n, m)
  \/ RejectShortLog(n, m)
  \/ RejectConflict(n, m)
  \/ AcceptEntries(n, m)
  \/ CommitPanic(n, m)
  \/ AppendSucceeded(n, m)
  \/ AppendFailed(n, m)
  \/ FollowerDiesApplying(n, m)
  \/ LeaderDiesApplying(n, m)

Elect(n) ==
  \/ ElectionTimeout(n)
  \/ LeaderSkipsElection(n)
  \/ CheckRole(n)
  \/ ResetVoteResult(n)
  \/ SwitchToCandidate(n)

Lead(n) ==
  \/ \E cmd \in Commands : ProposeCommand(n, cmd)
  \/ \E p \in Peers : SendAppendEntriesTo(n, p)
  \/ \E p \in Peers : SendPanic(n, p)
  \/ HeartbeatTimeout(n)
  \/ BroadcastHeartbeat(n)
  \/ \E b \in beats[n] : SendHeartbeat(n, b)

Next ==
  \E n \in Peers :
    \/ \E m \in msgs : Receive(n, m)
    \/ Elect(n)
    \/ Lead(n)
    \/ Crash(n)
    \/ Restart(n)

Spec == Init /\ [][Next]_vars
-----------------------------------------------------------------------------

\* Every variable keeps its type: the fields of RaftCore, the stored record, the
\* pending goroutines and the messages on the wire.
TypeOK ==
  /\ Role \in [Peers -> Roles]
  /\ CurrentTerm \in [Peers -> Nat]
  /\ VotedFor \in [Peers -> Peers \cup {NoNode}]
  /\ LeaderHint \in [Peers -> Peers \cup {NoNode}]
  /\ voteResult \in [Peers -> SUBSET Peers]
  /\ timer \in [Peers -> {"armed", "disabled"}]
  /\ election \in [Peers -> Election]
  /\ Log \in [Peers -> Seq(Entry)]
  /\ CommitIndex \in [Peers -> Nat]
  /\ LastApplied \in [Peers -> Nat]
  /\ applied \in [Peers -> Seq(Entry)]
  /\ NextIndex \in [Peers -> [Peers -> Int]]
  /\ MatchIndex \in [Peers -> [Peers -> Int]]
  /\ appendTo \in [Peers -> SUBSET Peers]
  /\ bcast \in [Peers -> BOOLEAN]
  /\ beats \in [Peers -> SUBSET Beat]
  /\ disk \in [Peers -> Disk]
  /\ up \in [Peers -> BOOLEAN]
  /\ restarts \in Nat
  /\ msgs \subseteq Message

Granted == {m \in msgs : m.type = "RequestVoteResponse" /\ m.granted}

\* handleRequestVote and switchToCandidate persist term and vote before anything
\* is sent: no voter ever grants two candidates its vote of one term, nor another
\* node the vote of a term in which it stands itself, crashes included.
OneVotePerTerm ==
  \A g \in Granted :
    /\ \A h \in Granted : g.from = h.from /\ g.term = h.term => g.to = h.to
    /\ \A m \in msgs : m.type = "RequestVote" /\ m.from = g.from => m.term # g.term

\* At most one node is leader in a term: what hasMajorityVotes is for.
ElectionSafety ==
  \A n, p \in Peers :
    Role[n] = "Leader" /\ Role[p] = "Leader" /\ CurrentTerm[n] = CurrentTerm[p]
      => n = p

\* All AppendEntries requests of one term were sent by the same node, the leader
\* that handleAppendEntries takes the sender for (LeaderHint).
OneSenderPerTerm ==
  \A a, b \in {m \in msgs : m.type = "AppendEntries"} :
    a.term = b.term => a.from = b.from

\* Two logs that have an entry of the same term at the same index agree up to it:
\* what the PrevLogIndex/PrevLogTerm test of handleAppendEntries establishes.
LogMatching ==
  \A n, p \in Peers : \A i \in DOMAIN Log[n] \cap DOMAIN Log[p] :
    Log[n][i].term = Log[p][i].term => SubSeq(Log[n], 1, i) = SubSeq(Log[p], 1, i)

\* The terms of a log never decrease along it: isUpToDate takes the term of the last
\* entry for the newest, and findLastIndexOfTerm a term for one run of entries.
TermsAscend ==
  \A n \in Peers : \A i, j \in DOMAIN Log[n] :
    i <= j => Log[n][i].term <= Log[n][j].term

\* Whatever a process has in its log it finds again after a crash: the log in
\* memory is a prefix of the one that SaveLog and DeleteLogsFrom leave on disk.
LogPersisted ==
  \A n \in Peers : /\ Len(Log[n]) <= Len(disk[n].log)
                   /\ SubSeq(disk[n].log, 1, Len(Log[n])) = Log[n]

\* The state machines of two nodes were given the same entry at every index that
\* both applied: the strong consistency the repository promises for a group.
StateMachineSafety ==
  \A n, p \in Peers : \A i \in DOMAIN applied[n] \cap DOMAIN applied[p] :
    applied[n][i] = applied[p][i]

\* applyLogToStateMachine hands every index to the state machine once and in
\* order, and whatever is committed, whatever CommitIndex does and however often the
\* process ends, between two steps or inside the loop, and restarts.
AppliedOnceInOrder ==
  \A n \in Peers : /\ Len(applied[n]) = LastApplied[n]
                   /\ up[n] => CommitIndex[n] <= LastApplied[n]

\* A term never decreases and a vote is never changed within its term, not even
\* by a restart.
VoteIsKept ==
  [][\A n \in Peers :
       /\ CurrentTerm'[n] >= CurrentTerm[n]
       /\ CurrentTerm'[n] = CurrentTerm[n] /\ VotedFor[n] # NoNode
            => VotedFor'[n] = VotedFor[n]]_vars

Longest(seqs) == CHOOSE n \in Peers : \A p \in Peers : Len(seqs[p]) <= Len(seqs[n])

\* A group of two is a replicated state machine: all that the two are given is the
\* beginning of one sequence, over crashes and restarts, and goes on where it stopped.
Machines == INSTANCE Replicas WITH agreed <- applied[Longest(applied)], given <- applied
IsReplicated == Machines!Spec
=============================================================================

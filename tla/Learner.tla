------------------------------- MODULE Learner -------------------------------
(***************************************************************************)
(* A learner of a Raft group: joining by RPC, with or without a snapshot   *)
(* of the state (src/core/RaftManager.go, src/core/RPC.go), the entries it *)
(* gets from the leader (src/core/Learner.go), and leaving.                *)
(*                                                                         *)
(* The leader of the group stays the same, so that terms play no part, and *)
(* no message is lost: what the learner does not learn here it learns      *)
(* nowhere.  A peer that is not the leader sends the learner on to it.     *)
(***************************************************************************)
EXTENDS Integers, Sequences, FiniteSets, SequencesExt

CONSTANTS
  MaxLog,    \* a bound on the leader's log
  MaxLeaves  \* a bound on how often the learner leaves

VARIABLES
  log,         \* Log of the leader: "put", "addLearner", "removeLearner", or a snapshot index
  commitIndex, \* CommitIndex and LastApplied of the leader
  nextIndex,   \* NextIndex of the learner at the leader, 0 if it is not in Learners
  stub,        \* LearnerStubs: "none", "plain" or "snapshot"
  joining,     \* how far the learner has come in joining
  snapshot,    \* SnapshotIndex
  lLog,        \* Log of the learner: the indices of its entries
  lCommit,     \* CommitIndex of the learner
  lApplied,    \* LastApplied of the learner
  state,       \* the indices whose commands are in the learner's state machine
  msgs,        \* AppendEntries on their way to the learner
  replies,     \* AppendEntriesResponse on their way to the leader
  leaves

vars == <<log, commitIndex, nextIndex, stub, joining, snapshot, lLog, lCommit, lApplied, state,
          msgs, replies, leaves>>
leader == <<log, commitIndex, nextIndex>>
learner == <<stub, joining, snapshot, lLog, lCommit, lApplied, state, leaves>>

Group == "group"
NoGroup == ""

\* A command that is not one of those with a name carries the index of its snapshot.
SnapshotOf(command) == command.snapshot
Command(op, index) == [op |-> op, snapshot |-> index]

Init ==
  /\ log = <<Command("put", 0)>>
  /\ commitIndex = 1
  /\ nextIndex = 0
  /\ stub = "none"
  /\ joining = "no"
  /\ snapshot = 0
  /\ lLog = <<>>
  /\ lCommit = 0
  /\ lApplied = 0
  /\ state = {}
  /\ msgs = {}
  /\ replies = {}
  /\ leaves = 0

-----------------------------------------------------------------------------
\* The leader.

\* What sendAppendEntriesTo and sendHeartbeat send to the learner, if it is in Learners.
AppendEntries(entries, next, commit) ==
  IF next = 0
  THEN {}
  ELSE {[prev |-> next - 1, entries |-> entries, commit |-> commit]}

\* HandleClientRequest: the learner is sent whatever lies beyond its nextIndex.
HandleClientRequest(command) ==
  LET new == Append(log, command)
  IN  /\ Len(log) < MaxLog
      /\ log' = new
      /\ msgs' = msgs \cup AppendEntries({i \in nextIndex..Len(new) : nextIndex > 0}, nextIndex,
                                         commitIndex)
      /\ UNCHANGED <<commitIndex, nextIndex>>

Put == HandleClientRequest(Command("put", 0)) /\ UNCHANGED <<learner, replies>>

\* applyLogToStateMachine: what a command does to NextIndex.
NextIndexAfter(next, command, commit) ==
  CASE command.op = "addLearner"             -> commit + 1
    [] command.op = "addLearnerWithSnapshot" -> SnapshotOf(command) + 1
    [] command.op = "removeLearner"          -> 0
    [] command.op = "put"                    -> next

\* The peers have what the leader has: everything is committed and applied.
CommitAll ==
  /\ commitIndex < Len(log)
  /\ commitIndex' = Len(log)
  /\ nextIndex' = FoldLeft(LAMBDA next, command : NextIndexAfter(next, command, Len(log)),
                           nextIndex, SubSeq(log, commitIndex + 1, Len(log)))
  /\ UNCHANGED <<log, learner, msgs, replies>>

\* broadcastHeartbeat.
Heartbeat ==
  /\ nextIndex > 0
  /\ msgs' = msgs \cup AppendEntries({}, nextIndex, commitIndex)
  /\ UNCHANGED <<leader, learner, replies>>

\* Node.onRecv looks for the group of the payload, and handleAppendEntriesResponse takes
\* the length of the learner's log for what it has.
HandleReply(r) ==
  /\ r \in replies
  /\ replies' = replies \ {r}
  /\ IF r.group # Group \/ nextIndex = 0
     THEN UNCHANGED <<nextIndex, msgs>>
     ELSE IF r.success
     THEN /\ nextIndex' = IF r.length > 0 THEN r.length + 1 ELSE nextIndex
          /\ UNCHANGED msgs
     ELSE /\ nextIndex' = IF nextIndex > 1 THEN nextIndex - 1 ELSE nextIndex
          /\ msgs' = msgs \cup AppendEntries({i \in nextIndex'..Len(log) : TRUE}, nextIndex', commitIndex)
  /\ UNCHANGED <<log, commitIndex, learner>>

-----------------------------------------------------------------------------
\* The learner: CreateLearner, CreateLearnerWithFastSync and LeaveAsLearner.

\* The RPC addLearner proposes an entry, and answers at once.
AddLearner ==
  /\ stub = "none" /\ joining = "no"
  /\ HandleClientRequest(Command("addLearner", 0))
  /\ joining' = "plain"
  /\ UNCHANGED <<stub, snapshot, lLog, lCommit, lApplied, state, replies, leaves>>

\* getStateSnapshotFromLeader, and applyStateSnapshotToLearner.
GetStateSnapshot ==
  /\ stub = "none" /\ joining = "no"
  /\ joining' = "has snapshot"
  /\ snapshot' = commitIndex
  /\ state' = 1..commitIndex
  /\ UNCHANGED <<leader, stub, lLog, lCommit, lApplied, msgs, replies, leaves>>

\* The RPC addLearnerWithSnapshot.
AddLearnerWithSnapshot ==
  /\ joining = "has snapshot"
  /\ HandleClientRequest(Command("addLearnerWithSnapshot", snapshot))
  /\ joining' = "snapshot"
  /\ UNCHANGED <<stub, snapshot, lLog, lCommit, lApplied, state, replies, leaves>>

\* NewLearnerClient, and the entry in LearnerStubs.  The log in the storage is empty until
\* something has been learned.
CreateLearner ==
  /\ joining \in {"plain", "snapshot"}
  /\ stub' = joining
  /\ joining' = "no"
  /\ UNCHANGED <<leader, snapshot, lLog, lCommit, lApplied, state, msgs, replies, leaves>>

\* LeaveAsLearner, with the RPC removeLearner.
LeaveAsLearner ==
  /\ stub # "none"
  /\ leaves < MaxLeaves
  /\ leaves' = leaves + 1
  /\ stub' = "none"
  /\ HandleClientRequest(Command("removeLearner", 0))
  /\ UNCHANGED <<joining, snapshot, lLog, lCommit, lApplied, state, replies>>

-----------------------------------------------------------------------------
\* replyAppendEntries: the response has no Group, and has the length of the log.
ReplyAppendEntries(success, length) ==
  replies' = replies \cup {[group |-> NoGroup, success |-> success, length |-> length]}

\* The entries that are not in the log yet, in order.
Appended(entries) ==
  lLog \o SelectSeq([i \in 1..MaxLog |-> i], LAMBDA i : i \in entries /\ i > Len(lLog))

\* handleAppendEntries, with applyLogToStateMachine.
HandlePlain(m) ==
  IF m.prev > Len(lLog)
  THEN /\ ReplyAppendEntries(FALSE, Len(lLog))
       /\ UNCHANGED <<lLog, lCommit, lApplied, state>>
  ELSE /\ lLog' = Appended(m.entries)
       /\ lCommit' = IF m.commit > lCommit
                     THEN IF m.commit < Len(lLog') THEN m.commit ELSE Len(lLog')
                     ELSE lCommit
       /\ lApplied' = IF lApplied < lCommit' THEN lCommit' ELSE lApplied
       /\ state' = state \cup {lLog'[i] : i \in (lApplied + 1)..lApplied'}
       /\ ReplyAppendEntries(TRUE, Len(lLog'))

\* handleAppendEntriesForSnapshot: entries beyond the snapshot are appended, wherever they
\* belong, as long as the log is shorter than their index; nothing is applied.
HandleForSnapshot(m) ==
  /\ lLog' = FoldLeft(LAMBDA l, i : IF i \in m.entries /\ i > snapshot /\ Len(l) < i
                                    THEN Append(l, i)
                                    ELSE l,
                      lLog, [i \in 1..MaxLog |-> i])
  /\ lCommit' = IF m.commit > lCommit THEN m.commit ELSE lCommit
  /\ ReplyAppendEntries(TRUE, Len(lLog'))
  /\ UNCHANGED <<lApplied, state>>

\* Node.onRecv finds the learner of the group, or drops the message.
HandleAppendEntries(m) ==
  /\ m \in msgs
  /\ msgs' = msgs \ {m}
  /\ CASE stub = "none"     -> UNCHANGED <<lLog, lCommit, lApplied, state, replies>>
       [] stub = "plain"    -> HandlePlain(m)
       [] stub = "snapshot" -> HandleForSnapshot(m)
  /\ UNCHANGED <<leader, stub, joining, snapshot, leaves>>

-----------------------------------------------------------------------------
Next ==
  \/ Put
  \/ CommitAll
  \/ Heartbeat
  \/ AddLearner
  \/ GetStateSnapshot
  \/ AddLearnerWithSnapshot
  \/ CreateLearner
  \/ LeaveAsLearner
  \/ \E m \in msgs : HandleAppendEntries(m)
  \/ \E r \in replies : HandleReply(r)

Spec == Init /\ [][Next]_vars

\* Leader and learner go on, and every message arrives.
FairSpec ==
  /\ Spec
  /\ WF_vars(CommitAll)
  /\ WF_vars(Heartbeat)
  /\ WF_vars(AddLearnerWithSnapshot)
  /\ WF_vars(CreateLearner)
  /\ SF_vars(\E m \in msgs : HandleAppendEntries(m))
  /\ WF_vars(\E r \in replies : HandleReply(r))
-----------------------------------------------------------------------------

\* A learner that has joined for good has the state of the group in the end ("dynamic
\* synchronisation based on Raft", README): handleAppendEntries and the leader's NextIndex
\* bring it up to date.
LearnsInTheEnd == <>[](stub # "none") => <>[](1..commitIndex \subseteq state)
=============================================================================

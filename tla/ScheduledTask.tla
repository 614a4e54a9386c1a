---------------------------- MODULE ScheduledTask ----------------------------
(***************************************************************************)
(* Scheduled messages of the agent (agent/task, agent/dao, agent/tools).   *)
(* A tool call stores a task.  Every minute a cron job of every agent      *)
(* process fetches the due tasks, claims them one by one and starts a      *)
(* goroutine per claimed task that inserts the message, completes or fails *)
(* the task and inserts a notice for its creator.  Scans of one process    *)
(* overlap when one takes longer than a minute.                            *)
(*                                                                         *)
(* Message ids come from the Snowflake generator of the process; they are  *)
(* unique, so that no insert is refused for its primary key.  The table is *)
(* assumed to have the columns the statements name.                        *)
(***************************************************************************)
EXTENDS Snowflake, SequencesExt

CONSTANTS
  Tasks,        \* scheduled messages of a behaviour
  Scans,        \* goroutines of the cron job
  MachineOf,    \* [Scans -> Machines]
  Batch,        \* rows a scan fetches at most, 100 in the code
  MaxFaults     \* bound: failures of MySQL and crashes in a behaviour

ASSUME TaskAssumption ==
  /\ MachineOf \in [Scans -> Machines]
  /\ Batch \in Nat \ {0}
  /\ MaxFaults \in Nat

VARIABLES
  status,     \* column status of scheduled_messages
  due,        \* tasks whose scheduled_send_time is past
  batch,      \* tasks a scan has fetched and not tried to claim
  pc,         \* where the goroutine a scan started for a task stands
  mid,        \* the message id that goroutine has drawn
  sent,       \* ids of the messages inserted for a task
  notices,    \* what the creator has been told: sent or failed
  faults

rowVars == <<status, due, sent, notices>>
taskVars == <<rowVars, batch, pc, mid, faults>>
allTaskVars == <<taskVars, flakeVars>>

Absent == -1
Pending == 0
Claimed == 1
Done == 2
Failed == 3

Steps == {"none", "draw", "insert", "update", "fail", "told_ok", "told_failed",
          "notice_ok", "notice_failed"}
Running(t) == {s \in Scans : pc[s][t] # "none"}

TaskTypeOK ==
  /\ status \in [Tasks -> Absent..Failed]
  /\ due \subseteq Tasks
  /\ batch \in [Scans -> SUBSET Tasks]
  /\ pc \in [Scans -> [Tasks -> Steps]]
  /\ mid \in [Scans -> [Tasks -> Nat]]
  /\ sent \in [Tasks -> SUBSET Nat]
  /\ notices \in [Tasks -> SUBSET {"ok", "failed"}]
  /\ faults \in 0..MaxFaults

TaskInit ==
  /\ FlakeInit
  /\ status = [t \in Tasks |-> Absent]
  /\ due = {}
  /\ batch = [s \in Scans |-> {}]
  /\ pc = [s \in Scans |-> [t \in Tasks |-> "none"]]
  /\ mid = [s \in Scans |-> [t \in Tasks |-> 0]]
  /\ sent = [t \in Tasks |-> {}]
  /\ notices = [t \in Tasks |-> {}]
  /\ faults = 0

Fault == faults < MaxFaults /\ faults' = faults + 1
NoFault == UNCHANGED faults

-----------------------------------------------------------------------------
(* schMessageInvoker: a time that does not parse or is past, or an unknown  *)
(* receiver, only makes an answer for the model.                            *)
CreateScheduledMessage(t) ==
  /\ status[t] = Absent
  /\ status' = [status EXCEPT ![t] = Pending]
  /\ UNCHANGED <<due, batch, pc, mid, sent, notices, faults, flakeVars>>

BecomesDue(t) ==
  /\ status[t] # Absent
  /\ t \notin due
  /\ due' = due \cup {t}
  /\ UNCHANGED <<status, batch, pc, mid, sent, notices, faults, flakeVars>>

GetPendingScheduledTasks == {t \in due : status[t] = Pending}

(* The cron job starts: at most Batch rows, in no order.  A failed query    *)
(* ends the scan.                                                           *)
Fetch(s) ==
  /\ batch[s] = {}
  /\ \A t \in Tasks : pc[s][t] = "none"
  /\ \E rows \in SUBSET GetPendingScheduledTasks :
       /\ rows # {}
       /\ Cardinality(rows) = Batch \/ rows = GetPendingScheduledTasks
       /\ Cardinality(rows) <= Batch
       /\ batch' = [batch EXCEPT ![s] = rows]
  /\ UNCHANGED <<rowVars, pc, mid, faults, flakeVars>>

(* Slip: the UPDATE has no condition on status. *)
ClaimAnyTask(s, t) ==
  /\ t \in batch[s]
  /\ batch' = [batch EXCEPT ![s] = @ \ {t}]
  /\ status' = [status EXCEPT ![t] = Claimed]
  /\ pc' = [pc EXCEPT ![s][t] = "draw"]
  /\ UNCHANGED <<due, mid, sent, notices, faults, flakeVars>>

(* Slip: rowsAffected is compared the wrong way round. *)
ClaimMisread(s, t) ==
  /\ t \in batch[s]
  /\ batch' = [batch EXCEPT ![s] = @ \ {t}]
  /\ IF status[t] = Pending
     THEN status' = [status EXCEPT ![t] = Claimed] /\ UNCHANGED pc
     ELSE UNCHANGED <<status, pc>>
  /\ UNCHANGED <<due, mid, sent, notices, faults, flakeVars>>

(* ClaimTask: whoever moves status from 0 to 1 sends. *)
ClaimTask(s, t) ==
  /\ t \in batch[s]
  /\ batch' = [batch EXCEPT ![s] = @ \ {t}]
  /\ IF status[t] = Pending
     THEN /\ status' = [status EXCEPT ![t] = Claimed]
          /\ pc' = [pc EXCEPT ![s][t] = "draw"]
     ELSE UNCHANGED <<status, pc>>
  /\ UNCHANGED <<due, mid, sent, notices, faults, flakeVars>>

(* An error ends the whole scan, with the row claimed or not. *)
ClaimFails(s, t) ==
  /\ t \in batch[s]
  /\ Fault
  /\ batch' = [batch EXCEPT ![s] = {}]
  /\ \/ UNCHANGED status
     \/ status' = [status EXCEPT ![t] = IF @ = Pending THEN Claimed ELSE @]
  /\ UNCHANGED <<due, pc, mid, sent, notices, flakeVars>>

-----------------------------------------------------------------------------
(* SendSchMessages.  NewMessages draws the id. *)
GoTo(s, t, from, to) ==
  /\ pc[s][t] = from
  /\ pc' = [pc EXCEPT ![s][t] = to]

DrawId(s, t) ==
  /\ \/ GoTo(s, t, "draw", "insert")
     \/ GoTo(s, t, "told_ok", "notice_ok")
     \/ GoTo(s, t, "told_failed", "notice_failed")
  /\ Generate(MachineOf[s])
  /\ mid' = [mid EXCEPT ![s][t] = Last(issued'[MachineOf[s]])]
  /\ UNCHANGED <<rowVars, batch, faults>>

(* ExecuteSchSend: InsertMessage goes through the global handle and commits *)
(* by itself, outside the transaction that then completes the task.         *)
InsertMessage(s, t) ==
  /\ GoTo(s, t, "insert", "update")
  /\ sent' = [sent EXCEPT ![t] = @ \cup {mid[s][t]}]
  /\ UNCHANGED <<status, due, notices, batch, mid, faults, flakeVars>>

InsertFails(s, t) ==
  /\ GoTo(s, t, "insert", "fail")
  /\ Fault
  /\ \/ UNCHANGED sent
     \/ sent' = [sent EXCEPT ![t] = @ \cup {mid[s][t]}]
  /\ UNCHANGED <<status, due, notices, batch, mid, flakeVars>>

(* Slip: the task is completed by a statement without condition, whether or *)
(* not it takes effect before the notice.                                   *)
NoticeBeforeUpdate(s, t) ==
  /\ GoTo(s, t, "update", "told_ok")
  /\ UNCHANGED <<rowVars, batch, mid, faults, flakeVars>>

CompleteTask(s, t) ==
  /\ GoTo(s, t, "update", "told_ok")
  /\ status' = [status EXCEPT ![t] = IF @ = Claimed THEN Done ELSE @]
  /\ UNCHANGED <<due, sent, notices, batch, mid, faults, flakeVars>>

(* The transaction fails, with its commit done or not. *)
CompleteFails(s, t) ==
  /\ GoTo(s, t, "update", "fail")
  /\ Fault
  /\ \/ UNCHANGED status
     \/ status' = [status EXCEPT ![t] = IF @ = Claimed THEN Done ELSE @]
  /\ UNCHANGED <<due, sent, notices, batch, mid, flakeVars>>

(* Slip: status is incremented, not set. *)
FailByIncrement(s, t) ==
  /\ GoTo(s, t, "fail", "told_failed")
  /\ status' = [status EXCEPT ![t] = @ + 2]
  /\ UNCHANGED <<due, sent, notices, batch, mid, faults, flakeVars>>

FailedTask(s, t) ==
  /\ GoTo(s, t, "fail", "told_failed")
  /\ status' = [status EXCEPT ![t] = IF @ = Claimed THEN Failed ELSE @]
  /\ UNCHANGED <<due, sent, notices, batch, mid, faults, flakeVars>>

(* The notice to the creator; an error of this insert is ignored. *)
Notify(s, t) ==
  /\ \/ /\ GoTo(s, t, "notice_ok", "none")
        /\ \/ notices' = [notices EXCEPT ![t] = @ \cup {"ok"}] /\ NoFault
           \/ UNCHANGED notices /\ Fault
     \/ /\ GoTo(s, t, "notice_failed", "none")
        /\ \/ notices' = [notices EXCEPT ![t] = @ \cup {"failed"}] /\ NoFault
           \/ UNCHANGED notices /\ Fault
  /\ UNCHANGED <<status, due, sent, batch, mid, flakeVars>>

(* The process dies (Fatalf when FailedTask's UPDATE fails, too) and is     *)
(* started again: claimed tasks stay claimed.                               *)
Crash(m) ==
  /\ Fault
  /\ Restart(m)
  /\ batch' = [s \in Scans |-> IF MachineOf[s] = m THEN {} ELSE batch[s]]
  /\ pc' = [s \in Scans |->
              IF MachineOf[s] = m THEN [t \in Tasks |-> "none"] ELSE pc[s]]
  /\ UNCHANGED <<rowVars, mid>>

SendStep(s, t) ==
  \/ DrawId(s, t) \/ InsertMessage(s, t) \/ CompleteTask(s, t)
  \/ FailedTask(s, t) \/ Notify(s, t)

Drawing(m) == \E s \in Scans, t \in Tasks :
  MachineOf[s] = m /\ pc[s][t] \in {"draw", "told_ok", "told_failed"}

TaskNext ==
  \/ \E t \in Tasks : CreateScheduledMessage(t) \/ BecomesDue(t)
  \/ \E s \in Scans : Fetch(s)
  \/ \E s \in Scans, t \in Tasks :
       \/ ClaimTask(s, t) \/ ClaimFails(s, t)
       \/ SendStep(s, t) \/ InsertFails(s, t) \/ CompleteFails(s, t)
  \/ \E m \in Machines :
       \/ Crash(m)
       \/ (Tick(m) \/ SetBack(m)) /\ UNCHANGED taskVars
       \/ Wait(m) /\ Drawing(m) /\ UNCHANGED taskVars

TaskSpec == TaskInit /\ [][TaskNext]_allTaskVars

-----------------------------------------------------------------------------
(* However scans of several processes overlap and fail, a task's message is *)
(* inserted at most once (schedule_msg.go:31, the claim as a lock).         *)
SentAtMostOnce == \A t \in Tasks : Cardinality(sent[t]) <= 1

(* The creator is told of a success only when the message is stored and the *)
(* task is complete, and never both of a success and of a failure.          *)
SuccessIsTrue == \A t \in Tasks : "ok" \in notices[t] =>
  sent[t] # {} /\ status[t] = Done /\ "failed" \notin notices[t]

(* Without a failure no claimed task is orphaned: one goroutine, and only   *)
(* one, is at work on it.                                                   *)
ClaimedIsHandled == \A t \in Tasks :
  status[t] = Claimed /\ faults = 0 => Cardinality(Running(t)) = 1
=============================================================================

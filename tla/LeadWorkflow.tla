----------------------------- MODULE LeadWorkflow -----------------------------
(***************************************************************************)
(* One lead and its tasks: dispositions with their bounded ledger of       *)
(* idempotency tokens, assignment, trash and restore, conversion, tasks    *)
(* and the lead's copy of their earliest due time, the older lead editor   *)
(* and the privacy actions (leads/lead_workflow_services.py,               *)
(* leads/crm_services.py, leads/task_workflow_services.py, stage changes   *)
(* of leads/services.py, lead_submission_edit of console/views.py).        *)
(*                                                                         *)
(* Every action is one transaction that holds the lock of the lead's row,  *)
(* except the editor's request, which commits twice and reads before it    *)
(* locks.  A page's expected updated_at is "current" until the row is      *)
(* saved again.  Due times are 1..MaxDue; 0 stands for none.               *)
(***************************************************************************)
EXTENDS Integers, Sequences, SalesTeam

CONSTANTS
    Stage,        \* lead stages explored
    Task,         \* bound: rows of crm_task explored
    Form,         \* bound: idempotency tokens, one for each disposition form
    MaxDue,       \* bound: due times explored
    LedgerLimit   \* _IDEMPOTENCY_LEDGER_LIMIT, 20 in the code

LeadStage == {"new", "contacted", "qualified", "won", "lost", "spam"}

ASSUME StageAssumption == Stage \subseteq LeadStage /\ "new" \in Stage
ASSUME BoundsAssumption == MaxDue \in Nat /\ LedgerLimit \in Nat \ {0}

VARIABLES
    lead,     \* the row of lead_submission
    task,     \* the lead's tasks
    form,     \* disposition pages: what they show, how often they were applied
    queued,   \* stages with a marketing event in lead_event_outbox
    editor    \* the older editor's request and the row it read

vars == <<lead, task, form, queued, editor>>
-----------------------------------------------------------------------------
Due == 1..MaxDue
Config == [ledger : Seq(Form), erased : BOOLEAN]

LeadRecord ==
    [stage : LeadStage, contacted : BOOLEAN, qualified : BOOLEAN,
     trashed : BOOLEAN, converted : BOOLEAN, assignee : Owner,
     followUp : 0..MaxDue, consent : BOOLEAN,
     config : Config]   \* config_json: the ledger and privacy_deleted
TaskRecord == [status : {"none", "active", "closed"}, due : 0..MaxDue]
FormRecord == [page : {"closed", "current", "outdated"}, applied : Nat]
EditorRecord == [phase : {"idle", "loaded", "saved"}, config : Config]

TypeOK ==
    /\ lead \in LeadRecord
    /\ task \in [Task -> TaskRecord]
    /\ form \in [Form -> FormRecord]
    /\ queued \subseteq {"contacted", "qualified", "won"}
    /\ editor \in EditorRecord

NewConfig == [ledger |-> << >>, erased |-> FALSE]
NewLead == [stage |-> "new", contacted |-> FALSE, qualified |-> FALSE,
            trashed |-> FALSE, converted |-> FALSE, assignee |-> None,
            followUp |-> 0, consent |-> TRUE, config |-> NewConfig]
NoEditor == [phase |-> "idle", config |-> NewConfig]

Init ==
    /\ lead = NewLead
    /\ task = [t \in Task |-> [status |-> "none", due |-> 0]]
    /\ form = [f \in Form |-> [page |-> "closed", applied |-> 0]]
    /\ queued = {}
    /\ editor = NoEditor
-----------------------------------------------------------------------------
\* Open pages of a row that is saved again.
Outdated(forms) ==
    [f \in Form |-> IF forms[f].page = "current"
                    THEN [forms[f] EXCEPT !.page = "outdated"] ELSE forms[f]]

ActiveDues(tasks) == {tasks[t].due : t \in {x \in Task : tasks[x].status = "active"}}

\* The due time of the first actionable task.
Earliest(tasks) ==
    IF ActiveDues(tasks) = {} THEN 0
    ELSE CHOOSE d \in ActiveDues(tasks) : \A e \in ActiveDues(tasks) : d <= e

NewTask(tasks, t, d) == [tasks EXCEPT ![t] = [status |-> "active", due |-> d]]
Free(t) == task[t].status = "none"

\* The stage of a lead and the first times it got there.
Staged(l, stage) ==
    [l EXCEPT !.stage = stage,
              !.contacted = @ \/ stage \in {"contacted", "qualified", "won"},
              !.qualified = @ \/ stage \in {"qualified", "won"}]

\* Stages whose event a change to stage calls for.
StageEvents(l, stage) ==
    IF l.stage = stage \/ stage \notin {"contacted", "qualified", "won"} THEN {}
    ELSE {stage} \cup (IF l.contacted THEN {} ELSE {"contacted"})
                 \cup (IF stage = "won" /\ ~l.qualified THEN {"qualified"} ELSE {})

\* Events need the consent of the person and a form that reports.
Queues(stage) ==
    queued' \in {queued, IF lead.consent THEN queued \cup StageEvents(lead, stage) ELSE queued}

\* Token f enters the ledger, which keeps the last LedgerLimit of them.
Remembered(ledger, f) ==
    LET all == Append(ledger, f)
    IN  IF Len(all) > LedgerLimit THEN SubSeq(all, Len(all) - LedgerLimit + 1, Len(all)) ELSE all

InLedger(f) == \E i \in 1..Len(lead.config.ledger) : lead.config.ledger[i] = f

\* Mutant of UpToDate.
UpToDateMutant(f) == form[f].page # "closed"

\* The disposition was made for the row as it is.
UpToDate(f) == form[f].page = "current"

\* Mutant of NextFollowUp.
NextFollowUpMutant(tasks, d) == d

\* What the lead shows once a task due at d was added.
NextFollowUp(tasks, d) == Earliest(tasks)
-----------------------------------------------------------------------------
\* A disposition page with a new token.
OpenForm(f) ==
    /\ ~lead.trashed /\ form[f].applied = 0
    /\ form' = [form EXCEPT ![f].page = "current"]
    /\ UNCHANGED <<lead, task, queued, editor>>

\* dispose_lead; a token in the ledger is answered from there.  d = 0: no task.
Dispose(f, stage, assignee, d) ==
    /\ ~lead.trashed /\ ~InLedger(f) /\ UpToDate(f)
    /\ \/ d = 0 /\ task' = task
       \/ d # 0 /\ \E t \in Task : Free(t) /\ task' = NewTask(task, t, d)
    /\ lead' = [Staged(lead, stage) EXCEPT
                   !.assignee = assignee,
                   !.followUp = IF d = 0 THEN @ ELSE NextFollowUp(task', d),
                   !.config.ledger = Remembered(@, f)]
    /\ form' = [Outdated(form) EXCEPT ![f].applied = @ + 1]
    /\ Queues(stage)
    /\ UNCHANGED editor

\* assign_lead_owner.
AssignOwner(u) ==
    /\ ~lead.trashed /\ u # lead.assignee
    /\ lead' = [lead EXCEPT !.assignee = u]
    /\ form' = Outdated(form)
    /\ UNCHANGED <<task, queued, editor>>

\* bulk_assign of leads, which asks for nothing.
BulkAssign(u) ==
    /\ lead' = [lead EXCEPT !.assignee = u]
    /\ form' = Outdated(form)
    /\ UNCHANGED <<task, queued, editor>>

\* move_lead_to_trash.
MoveToTrash ==
    /\ ~lead.trashed /\ ~lead.converted
    /\ lead' = [lead EXCEPT !.trashed = TRUE]
    /\ form' = Outdated(form)
    /\ UNCHANGED <<task, queued, editor>>

\* restore_lead_from_trash.
Restore ==
    /\ lead.trashed /\ ~lead.config.erased
    /\ lead' = [lead EXCEPT !.trashed = FALSE]
    /\ form' = Outdated(form)
    /\ UNCHANGED <<task, queued, editor>>

\* update_submission_stage under the lock of the row.
ChangeStage(stage) ==
    /\ ~lead.trashed
    /\ lead' = Staged(lead, stage)
    /\ form' = Outdated(form)
    /\ Queues(stage)

\* lead_submission_bulk_stage.
BulkStage(stage) ==
    /\ stage \in {"new", "contacted", "lost"}
    /\ ChangeStage(stage)
    /\ UNCHANGED <<task, editor>>
-----------------------------------------------------------------------------
\* synchronize_submission_next_follow_up, which saves the lead when it differs.
Synchronized(tasks) ==
    /\ lead' = [lead EXCEPT !.followUp = Earliest(tasks)]
    /\ form' = IF lead' = lead THEN form ELSE Outdated(form)

\* create_task_workflow.
CreateTask(t, d) ==
    /\ ~lead.trashed /\ Free(t)
    /\ task' = NewTask(task, t, d)
    /\ Synchronized(task')
    /\ UNCHANGED <<queued, editor>>

\* update_task_workflow with a new due time.
UpdateTask(t, d) ==
    /\ ~lead.trashed /\ task[t].status = "active"
    /\ task' = [task EXCEPT ![t].due = d]
    /\ Synchronized(task')
    /\ UNCHANGED <<queued, editor>>

\* Mutant of MayClose.
MayCloseMutant(t) == task[t].status = "active"

MayClose(t) == ~lead.trashed /\ task[t].status = "active"

\* close_task_workflow; a completed task may name the next one.
CloseTask(t, next, d) ==
    /\ MayClose(t)
    /\ LET closed == [task EXCEPT ![t].status = "closed"]
       IN  task' = IF d = 0 THEN closed ELSE NewTask(closed, next, d)
    /\ d # 0 => Free(next)
    /\ Synchronized(task')
    /\ UNCHANGED <<queued, editor>>

\* convert_qualified_lead: a follow-up gets a task, unless a task of the lead
\* was already planned for it by its owner.
Convert ==
    /\ ~lead.trashed /\ ~lead.converted
    /\ lead.stage \in {"qualified", "won"} /\ lead.assignee # None
    /\ lead' = [lead EXCEPT !.converted = TRUE]
    /\ \/ /\ lead.followUp = 0 \/ lead.followUp \in ActiveDues(task)
          /\ task' = task
       \/ /\ lead.followUp # 0
          /\ \E t \in Task : Free(t) /\ task' = NewTask(task, t, lead.followUp)
    /\ UNCHANGED <<form, queued, editor>>
-----------------------------------------------------------------------------
\* lead_submission_edit: the request reads a lead that is not in the trash,
EditorLoads ==
    /\ editor.phase = "idle" /\ ~lead.trashed
    /\ editor' = [phase |-> "loaded", config |-> lead.config]
    /\ UNCHANGED <<lead, task, form, queued>>

\* save_operations: the fields of its form and the config it read,
EditorSaves(assignee, d) ==
    /\ editor.phase = "loaded"
    /\ lead' = [lead EXCEPT !.assignee = assignee, !.followUp = d, !.config = editor.config]
    /\ form' = Outdated(form)
    /\ editor' = [editor EXCEPT !.phase = "saved"]
    /\ UNCHANGED <<task, queued>>

\* update_submission_stage on the row as it is now,
EditorStages(stage) ==
    /\ editor.phase = "saved"
    /\ ChangeStage(stage)
    /\ editor' = NoEditor
    /\ UNCHANGED task

\* or the request ends before: refused, failed or dead.
EditorStops ==
    /\ editor.phase # "idle"
    /\ editor' = NoEditor
    /\ UNCHANGED <<lead, task, form, queued>>

\* execute_privacy_action "withdraw_consent".
WithdrawConsent ==
    /\ lead.consent
    /\ lead' = [lead EXCEPT !.consent = FALSE]
    /\ form' = Outdated(form)
    /\ UNCHANGED <<task, queued, editor>>

\* execute_privacy_action "delete", execute_retention_policy; also of a lead that
\* is erased already.
Erase ==
    /\ lead' = [lead EXCEPT !.consent = FALSE, !.config = [ledger |-> << >>, erased |-> TRUE]]
    /\ form' = Outdated(form)
    /\ UNCHANGED <<task, queued, editor>>

Next ==
    \/ \E f \in Form :
          \/ OpenForm(f)
          \/ \E stage \in Stage, assignee \in Owner, d \in Due \cup {0} :
                Dispose(f, stage, assignee, d)
    \/ \E u \in User : AssignOwner(u) \/ BulkAssign(u)
    \/ MoveToTrash
    \/ Restore
    \/ \E stage \in Stage : BulkStage(stage)
    \/ \E t \in Task, d \in Due : CreateTask(t, d) \/ UpdateTask(t, d)
    \/ \E t \in Task, next \in Task, d \in Due \cup {0} : CloseTask(t, next, d)
    \/ Convert
    \/ EditorLoads
    \/ \E assignee \in Owner, d \in Due \cup {0} : EditorSaves(assignee, d)
    \/ \E stage \in Stage : EditorStages(stage)
    \/ EditorStops
    \/ WithdrawConsent
    \/ Erase

Spec == Init /\ [][Next]_vars
-----------------------------------------------------------------------------
\* A disposition is applied at most once, however often it is sent, whatever
\* the ledger forgets and whatever a stale editor writes over it.
AppliedOnce == \A f \in Form : form[f].applied <= 1

\* A lead in the trash is not a converted one (its records are in use).
TrashedIsNotConverted == ~(lead.trashed /\ lead.converted)

\* Whatever changes the tasks leaves the lead's follow-up time at the earliest
\* of them; a conversion, which plans a task for that time, at least keeps them
\* in agreement.
FollowUpFollowsTasks ==
    [][/\ task' # task
       /\ lead.followUp = Earliest(task) \/ lead'.converted = lead.converted
       => lead'.followUp = Earliest(task')]_vars

\* The tasks of a lead in the trash pause: restored, it finds them as they were.
TrashPausesTasks == [][lead.trashed => UNCHANGED task]_vars

\* No stage event is queued once the person withdrew the consent or was erased.
EventsHaveConsent == [][queued' # queued => lead.consent]_vars

\* The comment of update_submission_stage: an editor that read the lead before
\* it was trashed does not change it any more.
EditorLeavesTrashAlone ==
    [][lead.trashed /\ editor.phase # "idle" /\ editor' # editor => UNCHANGED lead]_vars
=============================================================================
